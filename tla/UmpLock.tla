-------------------------------- MODULE UmpLock --------------------------------
(***************************************************************************)
(* The lock device of shared buffers (umplock_driver.c): processes lock a  *)
(* buffer by its secure id.  The driver keeps a table of locked buffers,   *)
(* each with a semaphore, an owner and a table of the processes that hold  *)
(* or want the lock.  A process that owns a lock may take it again without *)
(* waiting.  Both tables are under one mutex, which a thread lets go of    *)
(* while it sleeps on the semaphore: the table slots it found before are   *)
(* used again after the sleep.                                             *)
(***************************************************************************)
EXTENDS Integers, FiniteSets, FiniteSetsExt

CONSTANTS
  Threads, Processes,
  Process,    \* the process of a thread
  SecureIds,  \* buffers
  None,       \* 0 in a slot
  MaxItems, MaxPids, \* sizes of the tables
  MaxNest     \* bound: how often a thread takes a lock it has

VARIABLES
  items,    \* device.items
  clients,  \* device.pids
  files,    \* open files of each process; device.sessions is their sum
  thread,   \* what each thread does
  holds     \* how often each thread has locked each buffer

vars == <<items, clients, files, thread, holds>>

Slots == 1..MaxItems
RefSlots == 1..MaxPids
NoRef == [pid |-> None, refs |-> 0, downs |-> 0]
NoItem == [id |-> None, refs |-> 0, owner |-> None, ref |-> [r \in RefSlots |-> NoRef], sem |-> 1]
Idle == [pc |-> "idle", slot |-> 0, ref |-> 0, id |-> None]

Init ==
  /\ items = [i \in Slots |-> NoItem] /\ clients = {}
  /\ files = [p \in Processes |-> 0]
  /\ thread = [t \in Threads |-> Idle]
  /\ holds = [t \in Threads |-> [b \in SecureIds |-> 0]]

\* The first slot with a property, or 0.
First(n, P(_)) ==
  LET found == {i \in 1..n : P(i)} IN IF found = {} THEN 0 ELSE Min(found)

FindItem(its, id) == First(MaxItems, LAMBDA i : its[i].id = id)
FindRef(item, pid) == First(MaxPids, LAMBDA r : item.ref[r].pid = pid)

--------------------------------------------------------------------------------

\* The table with a slot for the buffer and one for the process in it, made if
\* need be; unchanged when a table is full (do_umplock_create_locked).
WithSlots(id, pid) ==
  LET i == FindItem(items, id)
      free == FindItem(items, None)
      r == IF i = 0 THEN 0 ELSE FindRef(items[i], None)
      new == [NoRef EXCEPT !.pid = pid]
  IN  CASE i # 0 /\ FindRef(items[i], pid) # 0 -> items
        [] i # 0 /\ FindRef(items[i], pid) = 0 ->
             IF r = 0 THEN items ELSE [items EXCEPT ![i].ref[r] = new]
        [] i = 0 ->
             IF free = 0 THEN items
             ELSE [items EXCEPT ![free].id = id, ![free].refs = 0, ![free].ref[1] = new,
                                ![free].sem = 1]

\* do_umplock_process up to the semaphore.  The owner's process need not wait.
Process1(t, id) ==
  LET pid == Process[t]
      its == WithSlots(id, pid)
      i == FindItem(its, id)
      r == IF i = 0 THEN 0 ELSE FindRef(its[i], pid)
      owned == its[i].owner = pid
  IN  /\ thread[t].pc = "idle" /\ files[pid] > 0 /\ holds[t][id] < MaxNest
      /\ pid \in clients /\ r # 0
      /\ items' = [its EXCEPT ![i].refs = @ + 1, ![i].ref[r].refs = @ + 1,
                              ![i].ref[r].downs = @ + (IF owned THEN 0 ELSE 1)]
      /\ thread' = IF owned THEN thread
                   ELSE [thread EXCEPT ![t] = [pc |-> "down", slot |-> i, ref |-> r, id |-> id]]
      /\ holds' = IF owned THEN [holds EXCEPT ![t][id] = @ + 1] ELSE holds
      /\ UNCHANGED <<clients, files>>

\* down_interruptible gets the semaphore,
Down(t) ==
  /\ thread[t].pc = "down" /\ items[thread[t].slot].sem > 0
  /\ items' = [items EXCEPT ![thread[t].slot].sem = @ - 1]
  /\ thread' = [thread EXCEPT ![t].pc = "got"]
  /\ UNCHANGED <<clients, files, holds>>

\* and the thread makes its process the owner under the mutex.
Got(t) ==
  /\ thread[t].pc = "got"
  /\ items' = [items EXCEPT ![thread[t].slot].owner = Process[t]]
  /\ holds' = [holds EXCEPT ![t][thread[t].id] = @ + 1]
  /\ thread' = [thread EXCEPT ![t] = Idle]
  /\ UNCHANGED <<clients, files>>

\* One reference of a process less; the slots are freed with the last one.
DropRef(i, r) ==
  LET item == items[i]
      ref == [item.ref[r] EXCEPT !.refs = @ - 1]
      dropped == IF ref.refs = 0 THEN [ref EXCEPT !.pid = None] ELSE ref
  IN  [item EXCEPT !.refs = @ - 1, !.ref[r] = dropped,
                   !.id = IF ref.refs = 0 /\ item.refs = 1 THEN None ELSE @]

\* A signal ends the sleep; the state from before is restored.
Interrupted(t) ==
  LET i == thread[t].slot
      r == thread[t].ref
  IN  /\ thread[t].pc = "down"
      /\ items' = [items EXCEPT ![i] = [DropRef(i, r) EXCEPT !.ref[r].downs = @ - 1]]
      /\ thread' = [thread EXCEPT ![t] = Idle]
      /\ UNCHANGED <<clients, files, holds>>

\* A release lets the next one in with the last reference of the process, or if another
\* of its threads waits as well.
GivesUp(ref) == ref.refs = 1 \/ ref.downs > 1

\* do_umplock_release.  The owner's last reference gives the lock up; one of
\* several waits of the process is passed on.
Released(pid, id) ==
  LET i == FindItem(items, id)
      r == FindRef(items[i], pid)
      ref == items[i].ref[r]
      item == [DropRef(i, r) EXCEPT !.ref[r].downs = @ - (IF @ > 1 THEN 1 ELSE 0)]
  IN  [items EXCEPT ![i] =
         [item EXCEPT !.owner = IF ref.refs = 1 THEN None ELSE @,
                      !.sem = @ + (IF GivesUp(ref) THEN 1 ELSE 0)]]

MayRelease(pid, id) ==
  LET i == FindItem(items, id)
  IN  /\ pid \in clients /\ i # 0 /\ items[i].owner = pid
      /\ FindRef(items[i], pid) # 0 /\ items[i].ref[FindRef(items[i], pid)].refs > 0

Release(t, id) ==
  /\ thread[t].pc = "idle" /\ holds[t][id] > 0 /\ MayRelease(Process[t], id)
  /\ items' = Released(Process[t], id)
  /\ holds' = [holds EXCEPT ![t][id] = @ - 1]
  /\ UNCHANGED <<clients, files, thread>>

--------------------------------------------------------------------------------

\* umplock_driver_open and do_umplock_client_add.  With all slots taken the file
\* is opened nevertheless.
Open(p) ==
  /\ files[p] = 0
  /\ files' = [files EXCEPT ![p] = 1]
  /\ clients' = IF Cardinality(clients) < MaxPids THEN clients \cup {p} ELSE clients
  /\ UNCHANGED <<items, thread, holds>>

\* umplock_driver_release when no ioctl of the process is under way:
\* do_umplock_client_delete gives up what the process holds, a reference at a
\* time, letting go of the mutex each time,
Unclosed(p) == {id \in SecureIds : MayRelease(p, id)}
CloseRelease(p, id) ==
  /\ files[p] = 1 /\ \A t \in Threads : Process[t] = p => thread[t].pc = "idle"
  /\ id \in Unclosed(p) /\ id = items[Min({FindItem(items, b) : b \in Unclosed(p)})].id
  /\ items' = Released(p, id)
  /\ files' = [files EXCEPT ![p] = -1]
  /\ holds' = [t \in Threads |-> IF Process[t] = p THEN [b \in SecureIds |-> 0] ELSE holds[t]]
  /\ UNCHANGED <<clients, thread>>

CloseReleaseMore(p, id) ==
  /\ files[p] = -1
  /\ id \in Unclosed(p) /\ id = items[Min({FindItem(items, b) : b \in Unclosed(p)})].id
  /\ items' = Released(p, id)
  /\ UNCHANGED <<files, clients, thread, holds>>

\* then forgets the process.  The last file to be closed clears the tables.
Close(p) ==
  LET last == \A q \in Processes \ {p} : files[q] = 0
      its == [i \in Slots |-> [items[i] EXCEPT !.id = None, !.ref = [r \in RefSlots |-> NoRef],
                                               !.sem = 1]]
  IN  /\ files[p] # 0 /\ \A t \in Threads : Process[t] = p => thread[t].pc = "idle"
      /\ Unclosed(p) = {}
      /\ files' = [files EXCEPT ![p] = 0] /\ clients' = IF last THEN {} ELSE clients \ {p}
      /\ items' = IF last THEN its ELSE items
      /\ holds' = [t \in Threads |-> IF Process[t] = p THEN [b \in SecureIds |-> 0] ELSE holds[t]]
      /\ UNCHANGED thread

Next ==
  \/ \E t \in Threads :
       \/ \E id \in SecureIds : Process1(t, id) \/ Release(t, id)
       \/ Down(t) \/ Got(t) \/ Interrupted(t)
  \/ \E p \in Processes :
       \/ Open(p) \/ Close(p)
       \/ \E id \in SecureIds : CloseRelease(p, id) \/ CloseReleaseMore(p, id)

Spec == Init /\ [][Next]_vars

\* No two processes have a buffer locked at a time.
Exclusion ==
  \A t, u \in Threads, id \in SecureIds :
    holds[t][id] > 0 /\ holds[u][id] > 0 => Process[t] = Process[u]

\* The tables agree with the threads: a buffer has one slot; the references of a
\* process are its locks and its sleepers; a semaphore that nobody has is free.
Users(i, p) ==
  {t \in Threads : Process[t] = p /\ thread[t].pc # "idle" /\ thread[t].slot = i}
TablesExact ==
  \A i \in Slots :
    LET item == items[i]
        taken == {t \in Threads : thread[t].pc = "got" /\ thread[t].slot = i}
    IN
    /\ \A k \in Slots \ {i} : item.id # None => items[k].id # item.id
    /\ item.refs = MapThenSumSet(LAMBDA r : item.ref[r].refs, RefSlots)
    /\ (item.id = None) = (item.refs = 0)
    /\ \A r, q \in RefSlots : item.ref[r].pid = item.ref[q].pid =>
         r = q \/ item.ref[r].pid = None
    /\ item.owner = None => item.sem + Cardinality(taken) = 1
    /\ item.owner # None => item.sem = 0
    /\ \A r \in RefSlots : LET p == item.ref[r].pid IN
         p # None /\ files[p] = 1 =>
           item.ref[r].refs = Cardinality(Users(i, p))
             + MapThenSumSet(LAMBDA t : IF Process[t] = p THEN holds[t][item.id] ELSE 0, Threads)
================================================================================
