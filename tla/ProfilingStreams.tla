----------------------------- MODULE ProfilingStreams -----------------------------
(***************************************************************************)
(* The profiling stream of linux/mali_osk_profiling.c: a client enables    *)
(* counters, starts and stops the capture with control packets, and reads  *)
(* what the sampling timer and the cores' start and stop events put into   *)
(* streams.  A stream moves between the free list, the sampling timer, the *)
(* events of the cores, the queue list and the reader.                     *)
(***************************************************************************)
EXTENDS Integers, Sequences, FiniteSets, SequencesExt

CONSTANTS
  Clients, Cores, Streams, Readers, None,
  Activity,    \* cores whose activity counter is asked for (COUNTER_VP_ACTIVITY, COUNTER_FP_ACTIVITY)
  Room,        \* records a stream has room for; bound
  ReadRoom,    \* records a reader has room for
  GroupBits, WordBits,  \* of packed integers: 7 and 32 in the code
  Happens      \* of what the passing run leaves out, what may happen: see the uses

VARIABLES
  loaded,
  free, queue,       \* global_mali_stream_list: a set and a sequence of streams
  used,              \* stream -> records in it
  counterStream, activityStream,  \* mali_counter_stream, mali_core_activity_stream
  timer,             \* profiling_sampling_timer: "off", "armed", or where its callback is
  rate, enabled,     \* profiling_sample_rate # 0; counters that are enabled
  pid,               \* current_profiling_pid
  stopping,          \* clients inside _mali_osk_profiling_stop_sampling()
  counted,           \* mali_activity_cores_num
  busy,              \* the cores that work
  reader,            \* reader -> None, or the size of the stream it is about to take
  fdUsed, fds, fdAsked,  \* stream_fd_if_used; clients with the stream, and between their two counts
  wrong

lists == <<free, queue, used>>
capture == <<rate, enabled, pid, stopping>>
fdVars == <<fdUsed, fds, fdAsked>>
vars == <<loaded, lists, counterStream, activityStream, timer, capture, counted, busy, reader,
          fdVars, wrong>>

Init ==
  /\ loaded = TRUE
  /\ free = Streams /\ queue = <<>> /\ used = [s \in Streams |-> 0]
  /\ counterStream = None /\ activityStream = None
  /\ timer = "off" /\ rate = FALSE /\ enabled = {} /\ pid = None /\ stopping = {}
  /\ counted = 0 /\ busy = {} /\ reader = [r \in Readers |-> None]
  /\ fdUsed = 0 /\ fds = {} /\ fdAsked = {} /\ wrong = {}

May(h) == h \in Happens
Wrong(h, c) == wrong' = wrong \cup (IF c THEN {h} ELSE {})

-----------------------------------------------------------------------------
(* _mali_ukk_profiling_stream_fd_get(): the count is raised and, when it   *)
(* is not one, taken back in a second step; closing sets it to zero.       *)
StreamFdGet(c) ==
  /\ loaded /\ c \notin fds \cup fdAsked
  /\ fdUsed' = fdUsed + 1
  /\ \E ok \in BOOLEAN :   \* anon_inode_getfd()
       IF fdUsed' = 1 /\ ok THEN fds' = fds \cup {c} /\ UNCHANGED fdAsked
       ELSE fdAsked' = fdAsked \cup {c} /\ UNCHANGED fds
  /\ UNCHANGED <<loaded, lists, counterStream, activityStream, timer, capture, counted, busy, reader, wrong>>

StreamFdBusy(c) ==
  /\ c \in fdAsked
  /\ fdAsked' = fdAsked \ {c} /\ fdUsed' = fdUsed - 1
  /\ UNCHANGED <<loaded, lists, counterStream, activityStream, timer, capture, counted, busy, reader, fds, wrong>>

StreamRelease(c) ==
  /\ c \in fds /\ (fdAsked = {} \/ May("release while asked"))
  /\ fds' = fds \ {c} /\ fdUsed' = 0
  /\ UNCHANGED <<loaded, lists, counterStream, activityStream, timer, capture, counted, busy, reader, fdAsked, wrong>>

-----------------------------------------------------------------------------
(* _mali_profiling_stream_read(): the size of the next stream and then the *)
(* stream, which may by then be another or gone.                           *)
ReadSize(r) ==
  /\ loaded /\ reader[r] = None /\ queue # <<>>
  /\ used[Head(queue)] <= ReadRoom
  /\ reader' = [reader EXCEPT ![r] = used[Head(queue)]]
  /\ UNCHANGED <<loaded, lists, counterStream, activityStream, timer, capture, counted, busy, fdVars, wrong>>

ReadStream(r) ==
  /\ reader[r] # None
  /\ reader' = [reader EXCEPT ![r] = None]
  /\ IF queue = <<>> THEN Wrong("no stream", TRUE) /\ UNCHANGED lists
     ELSE /\ Wrong("beyond the buffer", used[Head(queue)] > reader[r])
          /\ queue' = Tail(queue) /\ free' = free \cup {Head(queue)}
          /\ used' = [used EXCEPT ![Head(queue)] = 0]
  /\ UNCHANGED <<loaded, counterStream, activityStream, timer, capture, counted, busy, fdVars>>

-----------------------------------------------------------------------------
(* _mali_profiling_sampling_counters(): take a free stream, fill it and    *)
(* queue it, and go on unless the capture has ended.                       *)
TimerFires ==
  /\ timer = "armed"
  /\ timer' = "fill"
  /\ Wrong("freed lists", ~loaded)
  /\ IF free = {} THEN UNCHANGED <<free, counterStream>>
     ELSE \E s \in free : counterStream' = s /\ free' = free \ {s}
  /\ UNCHANGED <<loaded, queue, used, activityStream, capture, counted, busy, reader, fdVars>>

TimerQueues ==
  /\ timer = "fill"
  /\ timer' = "decide"
  /\ IF counterStream = None THEN UNCHANGED <<queue, used>>
     ELSE queue' = Append(queue, counterStream) /\ used' = [used EXCEPT ![counterStream] = 1]
  /\ counterStream' = None
  /\ UNCHANGED <<loaded, free, activityStream, capture, counted, busy, reader, fdVars, wrong>>

TimerDecides ==
  /\ timer = "decide"
  /\ timer' = IF enabled # {} /\ rate THEN "armed" ELSE "off"
  /\ UNCHANGED <<loaded, lists, counterStream, activityStream, capture, counted, busy, reader, fdVars, wrong>>

-----------------------------------------------------------------------------
(* _mali_osk_profiling_add_event() for a core that starts or stops, and    *)
(* _mali_profiling_sampling_core_activity_switch(): a stream that is full, *)
(* or has been held for long, is queued first, and the last core that      *)
(* stops queues the one it wrote to.                                       *)

Switch(c, on) ==
  /\ counted' = IF on THEN counted + 1 ELSE counted - 1
  /\ IF ~(c \in Activity /\ c \in enabled) THEN UNCHANGED <<lists, activityStream>>
     ELSE \E held \in BOOLEAN :
            LET old == activityStream # None /\ (held \/ used[activityStream] = Room)
                q == IF old THEN Append(queue, activityStream) ELSE queue
            IN IF (old \/ activityStream = None) /\ free = {}
               THEN queue' = q /\ activityStream' = None /\ UNCHANGED <<free, used>>
               ELSE \E s \in IF old \/ activityStream = None THEN free ELSE {activityStream} :
                      /\ free' = free \ {s}
                      /\ used' = [used EXCEPT ![s] = @ + 1]
                      /\ IF counted' = 0 THEN queue' = Append(q, s) /\ activityStream' = None
                         ELSE queue' = q /\ activityStream' = s

CoreEvent(c) ==
  /\ loaded
  /\ busy' = IF c \in busy THEN busy \ {c} ELSE busy \cup {c}
  /\ IF rate THEN Switch(c, c \notin busy) ELSE UNCHANGED <<lists, activityStream, counted>>
  /\ UNCHANGED <<loaded, counterStream, timer, capture, reader, fdVars, wrong>>

-----------------------------------------------------------------------------
(* _mali_ukk_profiling_control_set().  Nothing keeps two clients apart.    *)
InCallback == timer \in {"fill", "decide"}

(* Whoever sends a packet is the client from then on.                      *)
Client(c) == loaded /\ pid' = c

(* PACKET_HEADER_COUNTERS_ENABLE: all are reset, then those asked for are  *)
(* enabled until one is not known.                                         *)
CountersEnable(c) ==
  /\ Client(c) /\ (~rate \/ May("enables while it samples"))
  /\ \E e \in SUBSET (Activity \cup {"other"}) :
       enabled' = e /\ (Activity \subseteq e \/ Activity \cap e = {} \/ May("one activity"))
  /\ UNCHANGED <<loaded, lists, counterStream, activityStream, timer, rate, stopping, counted, busy,
                 reader, fdVars, wrong>>

(* _mali_profiling_global_stream_list_free()                               *)
StreamListFree ==
  /\ queue' = <<>> /\ free' = free \cup ToSet(queue)
  /\ used' = [s \in Streams |-> IF s \in ToSet(queue) THEN 0 ELSE used[s]]

(* PACKET_HEADER_START_CAPTURE_VALUE: the queue is emptied and the timer   *)
(* starts; the response may be too large for the client when the rate is   *)
(* set already.                                                            *)
CaptureStart(c) ==
  /\ Client(c)
  /\ (~rate /\ timer = "off") \/ May("starts twice")
  /\ (\A r \in Readers : reader[r] = None) \/ May("starts while read")
  /\ busy = {} \/ May("starts while cores work")
  /\ \E r \in BOOLEAN, fits \in {TRUE, ~May("small response")} :
       /\ rate' = r
       /\ IF fits /\ enabled # {} /\ r
          THEN /\ StreamListFree
               /\ timer' = "armed"
               /\ Wrong("armed in its callback", InCallback)
          ELSE UNCHANGED <<lists, timer, wrong>>
  /\ UNCHANGED <<loaded, counterStream, activityStream, enabled, stopping, counted, busy, reader, fdVars>>

(* _mali_osk_profiling_stop_sampling(), by a packet of no length for       *)
(* whoever is the client, or by mali_session_end() of that client's        *)
(* process.  hrtimer_cancel() waits for the callback.                      *)
StopSampling(c) ==
  /\ loaded /\ c \notin stopping /\ pid # None
  /\ busy = {} \/ May("stops while cores work")
  /\ enabled' = {} /\ stopping' = stopping \cup {c}
  /\ UNCHANGED <<loaded, lists, counterStream, activityStream, timer, rate, pid, counted, busy, reader,
                 fdVars, wrong>>

StopTimer_NoCancel(c) ==   \* mutant: the timer is not cancelled
  /\ c \in stopping /\ stopping' = stopping \ {c} /\ rate' = FALSE /\ pid' = None
  /\ UNCHANGED <<loaded, lists, counterStream, activityStream, timer, enabled, counted, busy, reader, fdVars, wrong>>

StopTimer(c) ==
  /\ c \in stopping /\ (rate => ~InCallback)
  /\ busy = {} \/ May("stops while cores work")
  /\ stopping' = stopping \ {c}
  /\ timer' = IF rate THEN "off" ELSE timer
  /\ rate' = FALSE /\ pid' = None
  /\ UNCHANGED <<loaded, lists, counterStream, activityStream, enabled, counted, busy, reader, fdVars, wrong>>

(* _mali_osk_profiling_term() and, when the driver is bound again,         *)
(* _mali_osk_profiling_init(): the two streams in hand are not looked at.  *)
Term ==
  /\ loaded /\ busy = {} /\ stopping = {} /\ fdAsked = {}
  /\ \A r \in Readers : reader[r] = None
  /\ fds = {} \/ May("goes while the stream is open")
  /\ rate => ~InCallback
  /\ loaded' = FALSE /\ timer' = IF rate THEN "off" ELSE timer
  /\ rate' = FALSE
  /\ wrong' = wrong \cup (IF activityStream # None THEN {"stream lost"} ELSE {})
                    \cup (IF fds # {} THEN {"file without code"} ELSE {})
  /\ free' = Streams /\ queue' = <<>> /\ used' = [s \in Streams |-> 0]
  /\ UNCHANGED <<counterStream, activityStream, enabled, pid, stopping, counted, busy, reader, fdVars>>

Reinit ==
  /\ ~loaded
  /\ loaded' = TRUE /\ counted' = 0 /\ fdUsed' = 0
  /\ UNCHANGED <<lists, counterStream, activityStream, timer, capture, busy, reader, fds, fdAsked, wrong>>

Next ==
  \/ \E c \in Clients : StreamFdGet(c) \/ StreamFdBusy(c) \/ StreamRelease(c)
                        \/ CountersEnable(c) \/ CaptureStart(c) \/ StopSampling(c) \/ StopTimer(c)
  \/ \E r \in Readers : ReadSize(r) \/ ReadStream(r)
  \/ \E c \in Cores : CoreEvent(c)
  \/ TimerFires \/ TimerQueues \/ TimerDecides \/ Term \/ Reinit

Spec == Init /\ [][Next]_vars

-----------------------------------------------------------------------------
(* _mali_profiling_global_counters_init(): the counters in their order,    *)
(* and the number for which memory was taken.                              *)
Named(kind, n) == [i \in 1..n |-> <<kind, i - 1>>]
CoreCounters(kind, n) ==
  [i \in 1..(3 * n) |-> <<kind, (i - 1) \div 3, <<"active", "cnt0", "cnt1">>[((i - 1) % 3) + 1]>>]
GlobalCounters(pps, l2s) ==
  CoreCounters("VP", 1) \o CoreCounters("FP", pps)
    \o [i \in 1..(2 * l2s) |-> <<"L2", (i - 1) \div 2, <<"cnt0", "cnt1">>[((i - 1) % 2) + 1]>>]
    \o Named("SW", 2) \o Named("special", 2) \o Named("memory", 2)
NumGlobalCounters(pps, l2s) == 3 * (1 + pps) + 2 * l2s + 2 + 2 + 2

(* _mali_profiling_set_event(): the counter sources a counter sets.  Those *)
(* of the first PP core are the defaults of all sub jobs, too.             *)
SetEvent(c) ==
  IF c[1] \notin {"VP", "FP", "L2"} \/ c[3] = "active" THEN {}
  ELSE IF c[1] = "FP" /\ c[2] = 0 THEN {c, <<"PP default", c[3]>>} ELSE {c}

(* _mali_profiling_pack_int() and _mali_profiling_read_packet_int(): seven *)
(* bits to a byte, the lowest first, of a signed integer.  The second ends *)
(* with a shift of an int by its width when all bytes are used: nothing is *)
(* added then on ARM, and nothing is needed.                               *)
Signed(v) == IF v >= 2^(WordBits - 1) THEN v - 2^WordBits ELSE v
Bytes(v) ==   \* <<low bits, more>> for each byte
  LET Above(k) == v \div 2^(GroupBits * k)
      Group(k) == Above(k) % 2^GroupBits
      Final(k) == LET sign == IF Group(k) < 2^(GroupBits - 1) THEN 0 ELSE -1
                  IN Above(k + 1) = sign
      n == CHOOSE k \in 0..WordBits : Final(k) /\ \A j \in 0..(k - 1) : ~Final(j)
  IN [k \in 1..(n + 1) |-> <<Group(k - 1), k <= n>>]

ReadBytes(b) ==
  LET shift == GroupBits * Len(b)
      value == FoldLeftDomain(LAMBDA a, k : a + b[k][1] * 2^(GroupBits * (k - 1)), 0, b)
      sign == IF b[Len(b)][1] >= 2^(GroupBits - 1) /\ shift < WordBits THEN 2^WordBits - 2^shift ELSE 0
  IN (value + sign) % 2^WordBits

-----------------------------------------------------------------------------
(* Every stream is in one place, and an empty one on the free list; a      *)
(* stream file can be had again once it is closed; the cores that are      *)
(* counted as working are those that work, so that the last one hands its  *)
(* activity on (mali_osk_profiling.c 489); a capture that has counters     *)
(* samples, and one that was stopped does not; no assertion fails, nothing *)
(* is read past or after its end; and integers come out of a packet as     *)
(* they went in.                                                           *)
Places(s) == Cardinality({p \in {"free", "queue", "counter", "activity"} :
                            \/ p = "free" /\ s \in free
                            \/ p = "queue" /\ \E i \in DOMAIN queue : queue[i] = s
                            \/ p = "counter" /\ s = counterStream
                            \/ p = "activity" /\ s = activityStream})

StreamsSound ==
  /\ wrong = {}
  /\ loaded => \A s \in Streams : Places(s) = 1 /\ (s \in free <=> used[s] = 0 /\ s # counterStream)
  /\ Cardinality(fds) <= 1 /\ (loaded => fdUsed = Cardinality(fds \cup fdAsked))
  /\ rate => counted = Cardinality(busy)
  /\ busy = {} => activityStream = None
  /\ rate /\ enabled # {} => timer # "off"
  /\ ~rate => timer = "off"
  /\ \A r \in Readers : (reader[r] = None /\ queue # <<>>) => used[Head(queue)] <= ReadRoom

CountersSound ==
  /\ \A pps \in 0..3, l2s \in 0..2 :
       LET c == GlobalCounters(pps, l2s)
       IN /\ Len(c) = NumGlobalCounters(pps, l2s) /\ IsInjective(c)
          /\ \A i, j \in DOMAIN c : i # j => SetEvent(c[i]) \cap SetEvent(c[j]) = {}
  /\ \A v \in 0..(2^WordBits - 1) : ReadBytes(Bytes(Signed(v))) = v
=============================================================================
