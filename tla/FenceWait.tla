------------------------------- MODULE FenceWait -------------------------------
(***************************************************************************)
(* mali_timeline_fence_wait: a thread waits for a fence, for a while or    *)
(* without end.  The wait is a tracker with two references: the thread     *)
(* that waits has one, the tracker's activation the other, and whoever     *)
(* gives up the last one frees it.  The timeline system, which releases    *)
(* the fence and then activates the tracker, is ReleaseFence.              *)
(***************************************************************************)
EXTENDS Integers, TLAPS

CONSTANTS Waits, Forever   \* calls; those without a timeout

VARIABLES
  released,   \* the points of the fence are released
  wait,       \* what the waiting thread does, with the wait object
  activation  \* how far the activation of each tracker is

vars == <<released, wait, activation>>

Init ==
  /\ released = FALSE
  /\ wait = [w \in Waits |->
       [pc |-> "idle", memory |-> "none", refs |-> 0, activated |-> FALSE, result |-> FALSE]]
  /\ activation = [w \in Waits |-> "none"]

Set(w, field, value) == wait' = [wait EXCEPT ![w][field] = value]

\* A reference is given up; the last one frees the wait object.
Put(r) == [r EXCEPT !.refs = @ - 1, !.memory = IF r.refs = 1 THEN "freed" ELSE @]

\* A timeout of 0 only looks at the points of the fence.
CheckStatus(w) ==
  /\ wait[w].pc = "idle" /\ w \notin Forever
  /\ wait' = [wait EXCEPT ![w].result = released, ![w].pc = "done"]
  /\ UNCHANGED <<released, activation>>

\* Mutant: one reference for the thread and the activation.
Begin_OneRef(w) ==
  /\ wait[w].pc = "idle"
  /\ wait' = [wait EXCEPT ![w].memory = "live", ![w].refs = 1,
                          ![w].pc = IF released THEN "adding" ELSE "enqueue"]
  /\ activation' = [activation EXCEPT ![w] = IF released THEN "begin" ELSE "waiting"]
  /\ UNCHANGED released

\* The wait object is made and its tracker added.  If the fence is released already
\* the adding thread activates the tracker itself and goes on when that is done.
Begin(w) ==
  /\ wait[w].pc = "idle"
  /\ wait' = [wait EXCEPT ![w].memory = "live", ![w].refs = 2,
                          ![w].pc = IF released THEN "adding" ELSE "enqueue"]
  /\ activation' = [activation EXCEPT ![w] = IF released THEN "begin" ELSE "waiting"]
  /\ UNCHANGED released

Added(w) ==
  /\ wait[w].pc = "adding" /\ activation[w] = "done"
  /\ Set(w, "pc", "enqueue") /\ UNCHANGED <<released, activation>>

NoMemory(w) ==
  /\ wait[w].pc = "idle" /\ Set(w, "pc", "done") /\ UNCHANGED <<released, activation>>

\* wait_event: the thread is put on the queue, then looks at the condition, and
\* sleeps if it does not hold.
Enqueue(w) ==
  /\ wait[w].pc = "enqueue" /\ Set(w, "pc", "queued") /\ UNCHANGED <<released, activation>>
Look(w) ==
  /\ wait[w].pc \in {"queued", "woken"}
  /\ Set(w, "pc", IF wait[w].activated THEN "over"
                  ELSE IF wait[w].pc = "woken" THEN "enqueue" ELSE "asleep")
  /\ UNCHANGED <<released, activation>>
TimeOut(w) ==
  /\ wait[w].pc = "asleep" /\ w \notin Forever
  /\ Set(w, "pc", "over") /\ UNCHANGED <<released, activation>>

\* The result is read, then the reference given up.
Read(w) ==
  /\ wait[w].pc = "over"
  /\ wait' = [wait EXCEPT ![w].result = wait[w].activated, ![w].pc = "put"]
  /\ UNCHANGED <<released, activation>>
Return(w) ==
  /\ wait[w].pc = "put"
  /\ wait' = [wait EXCEPT ![w] = [Put(wait[w]) EXCEPT !.pc = "done"]]
  /\ UNCHANGED <<released, activation>>

--------------------------------------------------------------------------------

\* The points of the fence are released: the trackers that wait for them are activated.
ReleaseFence ==
  /\ ~released /\ released' = TRUE
  /\ activation' = [w \in Waits |-> IF activation[w] = "waiting" THEN "begin" ELSE activation[w]]
  /\ UNCHANGED wait

Go(w, from, to) == activation[w] = from /\ activation' = [activation EXCEPT ![w] = to]

WakeAll(r) ==
  [x \in Waits |-> IF r[x].pc \in {"queued", "asleep"} THEN [r[x] EXCEPT !.pc = "woken"] ELSE r[x]]

\* mali_timeline_fence_wait_activate: the flag is set, then the threads are woken,
Activate(w) ==
  /\ \/ Go(w, "begin", "marked") /\ Set(w, "activated", TRUE)
     \/ Go(w, "marked", "woken") /\ wait' = WakeAll(wait)
  /\ UNCHANGED released

\* the tracker is released, and the reference given up.
ReleaseTracker(w) == Go(w, "woken", "released") /\ UNCHANGED <<wait, released>>
PutTracker(w) ==
  /\ Go(w, "released", "done")
  /\ wait' = [wait EXCEPT ![w] = Put(wait[w])] /\ UNCHANGED released

Waiting(w) == Added(w) \/ Enqueue(w) \/ Look(w) \/ Read(w) \/ Return(w)
Activating(w) == Activate(w) \/ ReleaseTracker(w) \/ PutTracker(w)

Next ==
  \/ ReleaseFence
  \/ \E w \in Waits :
       CheckStatus(w) \/ Begin(w) \/ NoMemory(w) \/ TimeOut(w) \/ Waiting(w) \/ Activating(w)

Spec == Init /\ [][Next]_vars

Fairness == \A w \in Waits : WF_vars(Waiting(w)) /\ WF_vars(Activating(w))

--------------------------------------------------------------------------------

\* The wait object is there whenever the thread or the activation may still use it,
\* and a thread is told that the fence is released only after it is; one that waits
\* without end is told so unless there was no memory for the wait.
WaitsSound ==
  \A w \in Waits :
    /\ wait[w].pc \in {"adding", "enqueue", "queued", "woken", "asleep", "over", "put"}
         \/ activation[w] \notin {"none", "done"} => wait[w].memory = "live"
    /\ wait[w].refs >= 0
    /\ wait[w].memory = "freed" => wait[w].refs = 0
    /\ wait[w].result => released
    /\ w \in Forever /\ wait[w].pc = "done" /\ wait[w].memory # "none" => wait[w].result

\* A fence that is released ends every wait for it, and the wait object is freed.
WaitsEnd ==
  \A w \in Waits :
    released /\ wait[w].memory = "live" ~> wait[w].pc = "done" /\ wait[w].memory = "freed"

--------------------------------------------------------------------------------
(* The first of these properties, proved for any number of waits.          *)

Calling == {"adding", "enqueue", "queued", "woken", "asleep", "over", "put"}

Wait ==
  [pc : Calling \cup {"idle", "done"}, memory : {"none", "live", "freed"}, refs : {0, 1, 2},
   activated : BOOLEAN, result : BOOLEAN]

TypeOK ==
  /\ released \in BOOLEAN
  /\ wait \in [Waits -> Wait]
  /\ activation \in
       [Waits -> {"none", "waiting", "begin", "marked", "woken", "released", "done"}]

\* A reference for the thread while it is in the call, one for the activation until it
\* is done; the object lives as long as there is one.
RefsExactFor(w) ==
  /\ wait[w].refs = (IF wait[w].pc \in Calling THEN 1 ELSE 0)
                    + (IF activation[w] \notin {"none", "done"} THEN 1 ELSE 0)
  /\ wait[w].memory = "none" <=> activation[w] = "none"
  /\ wait[w].memory = "live" <=> wait[w].refs > 0
  /\ wait[w].pc = "idle" => activation[w] = "none"

RefsExact == \A w \in Waits : RefsExactFor(w)

\* Only a fence that is released activates, only an activation sets the flag, and a
\* wait without end is over only when the flag is set.
ResultsTrueFor(w) ==
  /\ activation[w] \notin {"none", "waiting"} => released
  /\ wait[w].activated => activation[w] \notin {"none", "waiting", "begin"}
  /\ wait[w].result => released
  /\ w \in Forever =>
       /\ wait[w].pc = "over" => wait[w].activated
       /\ wait[w].pc = "put" \/ (wait[w].pc = "done" /\ wait[w].memory # "none")
            => wait[w].result

ResultsTrue == \A w \in Waits : ResultsTrueFor(w)

IInv == TypeOK /\ RefsExact /\ ResultsTrue

LEMMA InitIInv == Init => IInv
<1> SUFFICES ASSUME Init PROVE IInv
  OBVIOUS
<1> USE DEF Init, Calling, Wait
<1>1. TypeOK
  BY DEF TypeOK
<1>2. RefsExact
  BY DEF RefsExact, RefsExactFor
<1>3. ResultsTrue
  BY DEF ResultsTrue, ResultsTrueFor
<1> QED
  BY <1>1, <1>2, <1>3 DEF IInv

\* Giving up a reference changes the count, and the memory with the last one.
LEMMA PutOfWait ==
  ASSUME NEW r \in Wait, r.refs > 0
  PROVE  /\ Put(r) \in Wait
         /\ Put(r).refs = r.refs - 1 /\ Put(r).pc = r.pc
         /\ Put(r).memory = IF r.refs = 1 THEN "freed" ELSE r.memory
         /\ Put(r).activated = r.activated /\ Put(r).result = r.result
<1>1. r.refs - 1 \in {0, 1, 2}
  BY DEF Wait
<1> QED
  BY <1>1 DEF Put, Wait

\* What an activation does to a wait.
LEMMA ActivatedWait ==
  ASSUME NEW r \in Wait
  PROVE  /\ [r EXCEPT !.activated = TRUE] \in Wait
         /\ [r EXCEPT !.pc = "woken"] \in Wait /\ [r EXCEPT !.pc = "woken"].pc = "woken"
         /\ [r EXCEPT !.pc = "woken"].memory = r.memory /\ [r EXCEPT !.pc = "woken"].refs = r.refs
         /\ [r EXCEPT !.pc = "woken"].activated = r.activated
         /\ [r EXCEPT !.pc = "woken"].result = r.result
<1>1. "woken" \in Calling \cup {"idle", "done"} /\ TRUE \in BOOLEAN
  BY DEF Calling
<1>2. [r EXCEPT !.activated = TRUE] \in Wait
  BY <1>1 DEF Wait
<1>3. [r EXCEPT !.pc = "woken"] \in Wait
  BY <1>1 DEF Wait
<1>4. /\ [r EXCEPT !.pc = "woken"].pc = "woken"
      /\ [r EXCEPT !.pc = "woken"].memory = r.memory /\ [r EXCEPT !.pc = "woken"].refs = r.refs
      /\ [r EXCEPT !.pc = "woken"].activated = r.activated
      /\ [r EXCEPT !.pc = "woken"].result = r.result
  BY DEF Wait
<1> QED
  BY <1>2, <1>3, <1>4

LEMMA WokenWaits ==
  ASSUME wait \in [Waits -> Wait], wait' = WakeAll(wait), NEW v \in Waits
  PROVE  /\ wait'[v] \in Wait
         /\ wait'[v].pc = IF wait[v].pc \in {"queued", "asleep"} THEN "woken" ELSE wait[v].pc
         /\ wait'[v].memory = wait[v].memory /\ wait'[v].refs = wait[v].refs
         /\ wait'[v].activated = wait[v].activated /\ wait'[v].result = wait[v].result
<1>1. wait[v] \in Wait
  OBVIOUS
<1>2. CASE wait[v].pc \in {"queued", "asleep"}
  <2>1. wait'[v] = [wait[v] EXCEPT !.pc = "woken"]
    BY <1>2 DEF WakeAll
  <2> QED
    BY <1>1, <1>2, <2>1, ActivatedWait
<1>3. CASE wait[v].pc \notin {"queued", "asleep"}
  <2>1. wait'[v] = wait[v]
    BY <1>3 DEF WakeAll
  <2> QED
    BY <1>1, <1>3, <2>1
<1> QED
  BY <1>2, <1>3

LEMMA NextIInv == IInv /\ [Next]_vars => IInv'
<1> SUFFICES ASSUME IInv, [Next]_vars PROVE IInv'
  OBVIOUS
<1> USE DEF IInv, TypeOK, RefsExact, RefsExactFor, ResultsTrue, ResultsTrueFor, Calling
<1>1. CASE ReleaseFence
  BY <1>1 DEF ReleaseFence
<1>2. ASSUME NEW w \in Waits, CheckStatus(w) PROVE IInv'
  BY <1>2 DEF CheckStatus, Wait
<1>3. ASSUME NEW w \in Waits, Begin(w) PROVE IInv'
  BY <1>3 DEF Begin, Wait
<1>4. ASSUME NEW w \in Waits, NoMemory(w) PROVE IInv'
  BY <1>4 DEF NoMemory, Set, Wait
<1>5. ASSUME NEW w \in Waits, TimeOut(w) PROVE IInv'
  BY <1>5 DEF TimeOut, Set, Wait
<1>6. ASSUME NEW w \in Waits, Added(w) PROVE IInv'
  BY <1>6 DEF Added, Set, Wait
<1>7. ASSUME NEW w \in Waits, Enqueue(w) PROVE IInv'
  BY <1>7 DEF Enqueue, Set, Wait
<1>8. ASSUME NEW w \in Waits, Look(w) PROVE IInv'
  BY <1>8 DEF Look, Set, Wait
<1>9. ASSUME NEW w \in Waits, Read(w) PROVE IInv'
  BY <1>9 DEF Read, Wait
<1>10. ASSUME NEW w \in Waits, Return(w) PROVE IInv'
  <2>1. wait[w] \in Wait /\ wait[w].pc = "put" /\ wait[w].refs > 0
    BY <1>10 DEF Return
  <2>2. Put(wait[w]) \in Wait
    BY <2>1, PutOfWait
  <2>3. /\ wait' \in [Waits -> Wait]
        /\ \A v \in Waits \ {w} : wait'[v] = wait[v]
        /\ wait'[w] = [Put(wait[w]) EXCEPT !.pc = "done"]
    BY <1>10, <2>2 DEF Return, Wait
  <2>4. /\ wait'[w].pc = "done" /\ wait'[w].refs = wait[w].refs - 1
        /\ wait'[w].memory = IF wait[w].refs = 1 THEN "freed" ELSE wait[w].memory
        /\ wait'[w].activated = wait[w].activated /\ wait'[w].result = wait[w].result
    BY <2>1, <2>2, <2>3, PutOfWait DEF Wait
  <2>5. UNCHANGED <<released, activation>>
    BY <1>10 DEF Return
  <2>6. RefsExact'
    <3> SUFFICES ASSUME NEW v \in Waits PROVE RefsExactFor(v)'
      OBVIOUS
    <3>1. CASE v = w
      BY <2>1, <2>4, <2>5, <3>1
    <3>2. CASE v # w
      BY <2>3, <2>5, <3>2
    <3> QED
      BY <3>1, <3>2
  <2>7. ResultsTrue'
    <3> SUFFICES ASSUME NEW v \in Waits PROVE ResultsTrueFor(v)'
      OBVIOUS
    <3>1. CASE v = w
      BY <2>1, <2>4, <2>5, <3>1 DEF Wait
    <3>2. CASE v # w
      BY <2>3, <2>5, <3>2
    <3> QED
      BY <3>1, <3>2
  <2> QED
    BY <2>3, <2>5, <2>6, <2>7
<1>11. ASSUME NEW w \in Waits, Activate(w) PROVE IInv'
  <2>1. CASE Go(w, "begin", "marked") /\ Set(w, "activated", TRUE)
    <3>1. wait' = [wait EXCEPT ![w].activated = TRUE] /\ released /\ UNCHANGED released
      BY <1>11, <2>1 DEF Activate, Go, Set
    <3>2. wait[w] \in Wait /\ [wait[w] EXCEPT !.activated = TRUE] \in Wait
      <4>1. wait[w] \in Wait
        OBVIOUS
      <4> QED
        BY <4>1, ActivatedWait
    <3>3. TypeOK'
      BY <2>1, <3>1, <3>2 DEF Go
    <3>4. \A v \in Waits :
            /\ wait'[v].pc = wait[v].pc /\ wait'[v].memory = wait[v].memory
            /\ wait'[v].refs = wait[v].refs /\ wait'[v].result = wait[v].result
            /\ v # w => wait'[v] = wait[v]
      BY <3>1
    <3>5. RefsExact'
      BY <2>1, <3>4 DEF Go
    <3>6. ResultsTrue'
      <4> SUFFICES ASSUME NEW v \in Waits PROVE ResultsTrueFor(v)'
        OBVIOUS
      <4>1. activation' = [activation EXCEPT ![w] = "marked"]
        BY <2>1 DEF Go
      <4>2. CASE v = w
        <5>1. activation'[v] = "marked" /\ released'
          BY <3>1, <4>1, <4>2
        <5>2. v \in Forever =>
                /\ wait[v].pc = "put" \/ (wait[v].pc = "done" /\ wait[v].memory # "none")
                     => wait[v].result
          OBVIOUS
        <5>3. wait'[v].activated = TRUE
          BY <3>1, <3>2, <4>2 DEF Wait
        <5> QED
          BY <3>4, <5>1, <5>2, <5>3
      <4>3. CASE v # w
        BY <3>1, <3>4, <4>1, <4>3
      <4> QED
        BY <4>2, <4>3
    <3> QED
      BY <3>3, <3>5, <3>6
  <2>2. CASE Go(w, "marked", "woken") /\ wait' = WakeAll(wait)
    <3>1. wait \in [Waits -> Wait] /\ wait' = WakeAll(wait)
      BY <2>2
    <3>2. \A v \in Waits :
            /\ wait'[v] \in Wait
            /\ wait'[v].pc = IF wait[v].pc \in {"queued", "asleep"} THEN "woken" ELSE wait[v].pc
            /\ wait'[v].memory = wait[v].memory /\ wait'[v].refs = wait[v].refs
            /\ wait'[v].activated = wait[v].activated /\ wait'[v].result = wait[v].result
      BY <3>1, WokenWaits
    <3>3. TypeOK'
      BY <1>11, <2>2, <3>2 DEF Activate, Go, WakeAll
    <3>4. RefsExact'
      BY <2>2, <3>2 DEF Go
    <3>5. ResultsTrue'
      BY <1>11, <2>2, <3>2 DEF Activate, Go
    <3> QED
      BY <3>3, <3>4, <3>5
  <2> QED
    BY <1>11, <2>1, <2>2 DEF Activate
<1>12. ASSUME NEW w \in Waits, ReleaseTracker(w) PROVE IInv'
  BY <1>12 DEF ReleaseTracker, Go
<1>13. ASSUME NEW w \in Waits, PutTracker(w) PROVE IInv'
  <2>1. wait[w] \in Wait /\ wait[w].refs > 0
    BY <1>13 DEF PutTracker, Go
  <2>2. Put(wait[w]) \in Wait
    BY <2>1, PutOfWait
  <2>3. /\ wait' \in [Waits -> Wait]
        /\ \A v \in Waits \ {w} : wait'[v] = wait[v]
        /\ wait'[w] = Put(wait[w])
    BY <1>13, <2>2 DEF PutTracker
  <2>4. /\ wait'[w].pc = wait[w].pc /\ wait'[w].refs = wait[w].refs - 1
        /\ wait'[w].memory = IF wait[w].refs = 1 THEN "freed" ELSE wait[w].memory
        /\ wait'[w].activated = wait[w].activated /\ wait'[w].result = wait[w].result
    BY <2>1, <2>3, PutOfWait
  <2>5. /\ activation[w] = "released" /\ activation' = [activation EXCEPT ![w] = "done"]
        /\ UNCHANGED released
    BY <1>13 DEF PutTracker, Go
  <2>6. RefsExact'
    <3> SUFFICES ASSUME NEW v \in Waits PROVE RefsExactFor(v)'
      OBVIOUS
    <3>1. CASE v = w
      BY <2>1, <2>4, <2>5, <3>1
    <3>2. CASE v # w
      BY <2>3, <2>5, <3>2
    <3> QED
      BY <3>1, <3>2
  <2>7. ResultsTrue'
    <3> SUFFICES ASSUME NEW v \in Waits PROVE ResultsTrueFor(v)'
      OBVIOUS
    <3>1. CASE v = w
      BY <2>1, <2>4, <2>5, <3>1 DEF Wait
    <3>2. CASE v # w
      BY <2>3, <2>5, <3>2
    <3> QED
      BY <3>1, <3>2
  <2> QED
    BY <2>3, <2>5, <2>6, <2>7
<1>14. CASE UNCHANGED vars
  BY <1>14 DEF vars
<1> QED
  BY <1>1, <1>2, <1>3, <1>4, <1>5, <1>6, <1>7, <1>8, <1>9, <1>10, <1>11, <1>12, <1>13, <1>14 DEF Next, Waiting, Activating

\* The thread that waits and the activation of its tracker may end in any order, whoever
\* comes last frees the wait, and the answer is never a guess (mali_timeline_fence_wait).
THEOREM Sound == Spec => []WaitsSound
<1>1. IInv => WaitsSound
  BY DEF IInv, TypeOK, RefsExact, RefsExactFor, ResultsTrue, ResultsTrueFor, Calling, Wait, WaitsSound
<1> QED
  BY <1>1, InitIInv, NextIInv, PTL DEF Spec
================================================================================
