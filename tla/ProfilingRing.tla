------------------------------ MODULE ProfilingRing ------------------------------
(***************************************************************************)
(* The internal profiler (linux/mali_profiling_internal.c): a ring of      *)
(* events that probes on every CPU fill while it records, and the two      *)
(* debugfs files through which it is started, stopped and read             *)
(* (linux/mali_kernel_sysfs.c).  Probes take no lock; events are numbered  *)
(* in the order in which they take their slots.                            *)
(***************************************************************************)
EXTENDS Integers, FiniteSets

CONSTANTS
  Users,      \* processes that write to the record file
  Cpus, None,
  Limit,      \* MALI_PROFILING_MAX_BUFFER_ENTRIES
  WordBits,   \* width of profile_insert_index
  MaxEvents,  \* bound: events of a recording
  Happens     \* of what the passing run leaves out, what may happen: see the uses

VARIABLES
  state,    \* prof_state: "uninit", "idle", "running", "return"
  entries,  \* profile_entries: None, or the event in each slot
  mask,     \* profile_mask
  index,    \* profile_insert_index
  hooked,   \* the trace point calls probe_mali_timeline_event()
  probe,    \* CPU -> None, or the slot it has taken and the event it has still to write:
            \* its number in the recording, or 0 if that has been cleared
  user,     \* user (and the module's exit) -> where it is in a call
  reader,   \* None, or the position and the index it has read
  total,    \* events of this recording
  crossed,  \* history: which calls of different processes met in this recording
  wrong     \* what went wrong, and these do not explain

vars == <<state, entries, mask, index, hooked, probe, user, reader, total, crossed, wrong>>

Exit == "exit"   \* mali_module_exit()

Init ==
  /\ state = "uninit" /\ entries = None /\ mask = 0 /\ index = 0 /\ hooked = FALSE
  /\ probe = [c \in Cpus |-> None] /\ user = [u \in Users \cup {Exit} |-> "out"]
  /\ reader = None /\ total = 0 /\ crossed = {} /\ wrong = {}

Quiet == \A c \in Cpus : probe[c] = None
Stopping == \E u \in Users : user[u] = "sync"
Meeting(what, met) == IF met THEN {what} ELSE {}
Unless(meetings, what) == IF meetings \cap crossed # {} THEN {} ELSE {what}

-----------------------------------------------------------------------------
(* _mali_internal_profiling_start(): the largest power of two the limit    *)
(* allows.  The state is looked at when the mask has been set.             *)
RingSize(l) == CHOOSE n \in 1..l : \E k \in 0..l : n = 2^k /\ 2 * n > l

Start(memory) ==
  IF state = "running" \/ ~memory THEN UNCHANGED <<state, entries, mask, hooked, total>>
  ELSE /\ mask' = RingSize(Limit) - 1
       /\ IF state = "idle"
          THEN /\ state' = "running" /\ hooked' = TRUE /\ total' = 0
               /\ entries' = [i \in 0..(Limit - 1) |-> None]
          ELSE UNCHANGED <<state, entries, hooked, total>>

(* _mali_internal_profiling_init(), after the device was probed.           *)
Load ==
  /\ state = "uninit" /\ user[Exit] = "out"
  /\ \E auto, memory \in BOOLEAN :
       IF auto /\ memory
       THEN /\ state' = "running" /\ hooked' = TRUE /\ mask' = RingSize(Limit) - 1
            /\ entries' = [i \in 0..(Limit - 1) |-> None]
       ELSE state' = "idle" /\ hooked' = FALSE /\ mask' = 0 /\ entries' = None
  /\ index' = 0 /\ total' = 0
  /\ UNCHANGED <<probe, user, reader, wrong, crossed>>

-----------------------------------------------------------------------------
(* profiling_record_write() of 1: it looks at the state twice, clears an   *)
(* old recording and starts.  The file is there before the lock is.        *)
WriteOne(u) ==
  /\ user[u] = "out" /\ user[Exit] = "out"
  /\ state # "uninit" \/ "early" \in Happens
  /\ user' = [user EXCEPT ![u] = CASE state = "running" -> "out"
                                   [] state = "return" -> "clear"
                                   [] OTHER -> "start"]
  /\ wrong' = wrong \cup (IF state = "uninit" THEN {"no lock"} ELSE {})
  /\ UNCHANGED <<state, entries, mask, index, hooked, probe, reader, total, crossed>>

(* _mali_internal_profiling_clear(): it waits neither for a reader nor for  *)
(* the probes that a stop still waits for.                                 *)
Clear(u) ==
  /\ user[u] = "clear"
  /\ IF state # "return"
     THEN user' = [user EXCEPT ![u] = "out"] /\ UNCHANGED <<state, entries, mask, index>>
     ELSE /\ user' = [user EXCEPT ![u] = "start"]
          /\ state' = "idle" /\ mask' = 0 /\ index' = 0 /\ entries' = None
  /\ probe' = [c \in Cpus |-> IF probe[c] # None /\ state = "return"
                              THEN [probe[c] EXCEPT !.event = 0] ELSE probe[c]]
  /\ crossed' = crossed \cup Meeting("clear in stop", state = "return" /\ Stopping)
                        \cup Meeting("clear in read", state = "return" /\ reader # None)
  /\ UNCHANGED <<hooked, reader, total, wrong>>

StartRecord(u) ==
  /\ user[u] = "start"
  /\ \E memory \in BOOLEAN : Start(memory)
  /\ crossed' = IF ~hooked /\ hooked' /\ Quiet /\ ~Stopping /\ reader = None THEN {} ELSE crossed
  /\ user' = [user EXCEPT ![u] = "out"]
  /\ UNCHANGED <<index, probe, reader, wrong>>

(* _mali_internal_profiling_stop(), by a write of 0 or the module's exit:  *)
(* under the lock the trace point lets go of the probe, and without it     *)
(* tracepoint_synchronize_unregister() waits for the probes that run.      *)
MarkReturn(u, next) ==
  /\ state' = "return" /\ hooked' = FALSE
  /\ user' = [user EXCEPT ![u] = next]

WriteZero(u) ==
  /\ user[u] = "out" /\ user[Exit] = "out" /\ state = "running"
  /\ MarkReturn(u, "sync")
  /\ UNCHANGED <<entries, mask, index, probe, reader, total, wrong, crossed>>

Synchronize(u) ==
  /\ user[u] = "sync" /\ Quiet
  /\ user' = [user EXCEPT ![u] = "out"]
  /\ UNCHANGED <<state, entries, mask, index, hooked, probe, reader, total, wrong, crossed>>

(* _mali_internal_profiling_term(), when the files are gone.               *)
Unload ==
  /\ state # "uninit" /\ \A u \in Users \cup {Exit} : user[u] = "out"
  /\ reader = None
  /\ IF state = "running" THEN MarkReturn(Exit, "term")
     ELSE user' = [user EXCEPT ![Exit] = "term"] /\ UNCHANGED <<state, hooked>>
  /\ UNCHANGED <<entries, mask, index, probe, reader, total, wrong, crossed>>

Term ==
  /\ user[Exit] = "term" /\ Quiet
  /\ user' = [user EXCEPT ![Exit] = "out"]
  /\ state' = "uninit" /\ entries' = None
  /\ UNCHANGED <<mask, index, hooked, probe, reader, total, wrong, crossed>>

-----------------------------------------------------------------------------
(* add_event(): the index is counted up at once and the entry written      *)
(* after that.                                                             *)

Slot == index % (mask + 1)   \* mask + 1 is a power of two

TakeSlot(c) ==
  /\ hooked /\ probe[c] = None /\ total < MaxEvents
  /\ "laps" \in Happens \/ \A d \in Cpus : probe[d] # None /\ probe[d].event # 0 => probe[d].slot # Slot
  /\ probe' = [probe EXCEPT ![c] = [slot |-> Slot, event |-> total + 1]]
  /\ index' = (index + 1) % 2^WordBits
  /\ total' = total + 1
  /\ UNCHANGED <<state, entries, mask, hooked, user, reader, wrong, crossed>>

WriteSlot(c) ==
  /\ probe[c] # None
  /\ probe' = [probe EXCEPT ![c] = None]
  /\ IF entries # None /\ probe[c].slot \in DOMAIN entries
     THEN entries' = [entries EXCEPT ![probe[c].slot] = probe[c].event] /\ UNCHANGED wrong
     ELSE wrong' = wrong \cup Unless({"clear in stop"}, "freed entries") /\ UNCHANGED entries
  /\ UNCHANGED <<state, mask, index, hooked, user, reader, total, crossed>>

-----------------------------------------------------------------------------
(* The events file, read from the start: profiling_events_start(),         *)
(* profiling_events_show() and profiling_events_next().                    *)
HaveRecording == state = "return"
Count == IF index > mask THEN mask ELSE index   \* _mali_internal_profiling_get_count()

(* _mali_internal_profiling_get_event(), which has read the index before   *)
(* it took the lock: the entry for a position, or None.                    *)
EntryOf(pos, raw) ==
  LET i == IF raw > mask THEN (pos + raw) % (mask + 1) ELSE pos
  IN IF pos >= mask \/ state # "return" \/ i >= raw THEN None ELSE i

(* What a reader should get: the oldest event that is left comes first.    *)
Oldest == IF total > mask THEN total - mask ELSE 1

EventsStart ==
  /\ reader = None /\ HaveRecording /\ user[Exit] = "out"
  /\ reader' = [pos |-> 0, raw |-> None]
  /\ crossed' = crossed \cup Meeting("read in stop", Stopping)
  /\ UNCHANGED <<state, entries, mask, index, hooked, probe, user, total, wrong>>

EventsShow ==
  /\ reader # None
  /\ IF reader.raw = None THEN reader' = [reader EXCEPT !.raw = index] /\ UNCHANGED wrong
     ELSE LET i == EntryOf(reader.pos, reader.raw)
              right == IF i = None THEN total <= reader.pos ELSE entries[i] = Oldest + reader.pos
          IN /\ wrong' = wrong \cup IF right THEN {}
                                    ELSE Unless({"read in stop", "clear in read", "clear in stop"}, "event")
             /\ reader' = IF HaveRecording /\ Count > reader.pos + 1
                          THEN [pos |-> reader.pos + 1, raw |-> None] ELSE None
  /\ UNCHANGED <<state, entries, mask, index, hooked, probe, user, total, crossed>>

Next ==
  \/ Load \/ Unload \/ Term \/ EventsStart \/ EventsShow
  \/ \E u \in Users : WriteOne(u) \/ Clear(u) \/ StartRecord(u) \/ WriteZero(u) \/ Synchronize(u)
  \/ \E c \in Cpus : TakeSlot(c) \/ WriteSlot(c)

Spec == Init /\ [][Next]_vars

-----------------------------------------------------------------------------
(* A reader gets the events of the recording that are left, oldest first   *)
(* and none torn or of another recording, unless it began before the stop  *)
(* had waited for the probes, or the recording was cleared meanwhile; a    *)
(* probe writes to entries that are there, unless a second process cleared *)
(* the recording while the stop of the first still waited (171-183); and   *)
(* what is counted is what can be read.                                    *)
RingSound ==
  /\ wrong = {}
  /\ hooked => entries # None /\ mask + 1 <= Cardinality(DOMAIN entries)
  /\ state = "return" /\ Quiet => \A i \in 0..(Count - 1) : EntryOf(i, index) # None
=============================================================================
