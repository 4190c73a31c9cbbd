------------------------------- MODULE FenceOrder -------------------------------
(***************************************************************************)
(* What a session's timeline system promises, without points, waiters,     *)
(* reference counts or locks.  A piece of work submitted on a timeline     *)
(* gets the next number of that timeline.  It names, per timeline, the     *)
(* last number it depends on (0: none), and does not start before all      *)
(* numbers up to that one are finished.                                    *)
(***************************************************************************)
EXTENDS Naturals, TLAPS

CONSTANTS
  Trackers,      \* the work items
  Timelines,
  NoTimeline     \* for work on no timeline


VARIABLES
  issued,        \* [Timelines -> Nat]: how many numbers were handed out
  pending,       \* for each timeline, the numbers that are not finished
  work           \* each item's status, timeline, number and dependencies

vars == <<issued, pending, work>>

Idle == [status |-> "idle"]

Satisfied(needs) ==
  \A tl \in Timelines : \A n \in pending[tl] : n > needs[tl]

Init ==
  /\ issued = [tl \in Timelines |-> 0]
  /\ pending = [tl \in Timelines |-> {}]
  /\ work = [t \in Trackers |-> Idle]

\* A submission is refused a number when the timeline is full; the item is then
\* on no timeline.  An item never depends on a number not yet handed out.
Submit(t) ==
  \E needs \in [Timelines -> UNION {0 .. issued[x] : x \in Timelines}],
     tl \in Timelines \cup {NoTimeline} :
    /\ work[t] = Idle
    /\ \A x \in Timelines : needs[x] <= issued[x]
    /\ issued' = IF tl = NoTimeline THEN issued
                 ELSE [issued EXCEPT ![tl] = @ + 1]
    /\ pending' = IF tl = NoTimeline THEN pending
                  ELSE [pending EXCEPT ![tl] = @ \cup {issued'[tl]}]
    /\ work' = [work EXCEPT ![t] =
                  [status |-> "waiting", needs |-> needs, tl |-> tl,
                   number |-> IF tl = NoTimeline THEN 0 ELSE issued'[tl]]]

Start(t) ==
  /\ work[t].status = "waiting"
  /\ Satisfied(work[t].needs)
  /\ work' = [work EXCEPT ![t].status = "started"]
  /\ UNCHANGED <<issued, pending>>

Finish(t) ==
  /\ work[t].status = "started"
  /\ pending' = IF work[t].tl = NoTimeline THEN pending
                ELSE [pending EXCEPT ![work[t].tl] = @ \ {work[t].number}]
  /\ work' = [work EXCEPT ![t] = Idle]
  /\ UNCHANGED issued

Next == \E t \in Trackers : Submit(t) \/ Start(t) \/ Finish(t)

Spec == Init /\ [][Next]_vars
-----------------------------------------------------------------------------
\* Nothing that started can still find, or ever find again, an unfinished number
\* it depends on: numbers handed out later are all larger.
StartedInOrder ==
  \A t \in Trackers : work[t].status = "started" => Satisfied(work[t].needs)

-----------------------------------------------------------------------------
(* Proved for any number of work items and timelines.                      *)

WorkItem ==
  [status : {"idle"}] \cup
  [status : {"waiting", "started"}, needs : [Timelines -> Nat],
   tl : Timelines \cup {NoTimeline}, number : Nat]

TypeOK ==
  /\ issued \in [Timelines -> Nat]
  /\ pending \in [Timelines -> SUBSET Nat]
  /\ work \in [Trackers -> WorkItem]

\* A fence names only numbers that were handed out.  So whatever is handed out later
\* is larger than anything a started item depends on.
NoFutureNeeds ==
  \A t \in Trackers : work[t].status # "idle" =>
    \A tl \in Timelines : work[t].needs[tl] <= issued[tl]

IInv == TypeOK /\ NoFutureNeeds /\ StartedInOrder

LEMMA InitIInv == Init => IInv
BY DEF Init, IInv, TypeOK, WorkItem, Idle, NoFutureNeeds, StartedInOrder

LEMMA NextIInv ==
  ASSUME NoTimeline \notin Timelines
  PROVE  IInv /\ [Next]_vars => IInv'
<1> SUFFICES ASSUME IInv, [Next]_vars PROVE IInv'
  OBVIOUS
<1> USE DEF IInv
<1>1. ASSUME NEW t \in Trackers, Submit(t) PROVE IInv'
  <2>1. PICK needs \in [Timelines -> UNION {0 .. issued[x] : x \in Timelines}],
             tl \in Timelines \cup {NoTimeline} :
          /\ \A x \in Timelines : needs[x] <= issued[x]
          /\ issued' = IF tl = NoTimeline THEN issued
                       ELSE [issued EXCEPT ![tl] = @ + 1]
          /\ pending' = IF tl = NoTimeline THEN pending
                        ELSE [pending EXCEPT ![tl] = @ \cup {issued'[tl]}]
          /\ work' = [work EXCEPT ![t] =
                        [status |-> "waiting", needs |-> needs, tl |-> tl,
                         number |-> IF tl = NoTimeline THEN 0 ELSE issued'[tl]]]
    BY <1>1 DEF Submit
  <2>2. needs \in [Timelines -> Nat]
    BY DEF TypeOK
  <2>3. /\ issued' \in [Timelines -> Nat]
        /\ \A x \in Timelines : issued[x] <= issued'[x]
        /\ tl # NoTimeline => issued'[tl] = issued[tl] + 1
    BY <2>1 DEF TypeOK
  <2>4. TypeOK'
    <3>1. (IF tl = NoTimeline THEN 0 ELSE issued'[tl]) \in Nat
      BY <2>3
    <3>2. work' \in [Trackers -> WorkItem]
      BY <2>1, <2>2, <3>1 DEF TypeOK, WorkItem
    <3>3. pending' \in [Timelines -> SUBSET Nat]
      BY <2>1, <2>3 DEF TypeOK
    <3> QED
      BY <2>3, <3>2, <3>3 DEF TypeOK
  <2>5. NoFutureNeeds'
    <3> SUFFICES ASSUME NEW u \in Trackers, work'[u].status # "idle", NEW x \in Timelines
                 PROVE  work'[u].needs[x] <= issued'[x]
      BY DEF NoFutureNeeds
    <3>1. CASE u = t
      BY <2>1, <2>2, <2>3, <3>1 DEF TypeOK
    <3>2. CASE u # t
      <4>1. work'[u] = work[u] /\ work[u].needs \in [Timelines -> Nat]
        BY <2>1, <3>2 DEF TypeOK, WorkItem
      <4> QED
        BY <2>3, <4>1 DEF NoFutureNeeds, TypeOK
    <3> QED
      BY <3>1, <3>2
  <2>6. StartedInOrder'
    <3> SUFFICES ASSUME NEW u \in Trackers, work'[u].status = "started",
                        NEW x \in Timelines, NEW n \in pending'[x]
                 PROVE  n > work'[u].needs[x]
      BY DEF StartedInOrder, Satisfied
    <3>1. u # t /\ work'[u] = work[u] /\ work[u].needs \in [Timelines -> Nat]
      BY <2>1 DEF TypeOK, WorkItem
    <3>2. n \in pending[x] \/ n = issued[x] + 1
      BY <2>1, <2>3 DEF TypeOK
    <3> QED
      BY <3>1, <3>2 DEF StartedInOrder, Satisfied, NoFutureNeeds, TypeOK
  <2> QED
    BY <2>4, <2>5, <2>6
<1>2. ASSUME NEW t \in Trackers, Start(t) PROVE IInv'
  <2> USE <1>2 DEF Start
  <2>1. /\ work[t] \in [status : {"waiting"}, needs : [Timelines -> Nat],
                        tl : Timelines \cup {NoTimeline}, number : Nat]
        /\ work'[t] = [work[t] EXCEPT !.status = "started"]
    BY DEF TypeOK, WorkItem
  <2>2. TypeOK'
    BY <2>1 DEF TypeOK, WorkItem
  <2>3. \A u \in Trackers : work'[u].needs = work[u].needs
    BY <2>1 DEF TypeOK
  <2>4. NoFutureNeeds'
    BY <2>1, <2>3 DEF NoFutureNeeds, TypeOK
  <2>5. StartedInOrder'
    BY <2>1, <2>3 DEF StartedInOrder, Satisfied, TypeOK
  <2> QED
    BY <2>2, <2>4, <2>5
<1>3. ASSUME NEW t \in Trackers, Finish(t) PROVE IInv'
  <2> USE <1>3 DEF Finish, Idle
  <2>1. /\ pending' \in [Timelines -> SUBSET Nat]
        /\ \A x \in Timelines : pending'[x] \subseteq pending[x]
    BY DEF TypeOK, WorkItem
  <2>2. TypeOK'
    BY <2>1 DEF TypeOK, WorkItem
  <2>3. \A u \in Trackers : work'[u].status # "idle" => work'[u] = work[u]
    BY DEF TypeOK
  <2>4. NoFutureNeeds'
    BY <2>3 DEF NoFutureNeeds
  <2>5. StartedInOrder'
    BY <2>1, <2>3 DEF StartedInOrder, Satisfied
  <2> QED
    BY <2>2, <2>4, <2>5
<1>4. CASE UNCHANGED vars
  BY <1>4 DEF vars, TypeOK, NoFutureNeeds, StartedInOrder, Satisfied
<1> QED
  BY <1>1, <1>2, <1>3, <1>4 DEF Next

\* A session's work starts only when all its fence names is finished, however many
\* jobs are submitted and finished in between (the promise of mali_timeline.h).
THEOREM StartsInOrder ==
  ASSUME NoTimeline \notin Timelines
  PROVE  Spec => []StartedInOrder
<1>1. IInv => StartedInOrder
  BY DEF IInv
<1> QED
  BY <1>1, InitIInv, NextIInv, PTL DEF Spec
=============================================================================
