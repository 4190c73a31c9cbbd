-------------------------------- MODULE Timeline --------------------------------
(***************************************************************************)
(* The timeline system of one session (mali_timeline.c).                   *)
(*                                                                         *)
(* Every job, fence wait and sync fence of a session is a tracker.  Most   *)
(* trackers own a point on one timeline; all of them may wait for points,  *)
(* each wait being a waiter object on the timeline it waits for.  The      *)
(* trigger reference count of a tracker counts its waiters; the tracker is *)
(* activated when it drops to zero.  Releasing a tracker can release       *)
(* waiters, which can activate trackers, which can release themselves: the *)
(* calls nest under the reentrant system lock and are kept here as a stack *)
(* of frames, one step per call, so that no other context acts in between. *)
(*                                                                         *)
(* Left out: the soft job timer (see SoftJob), tracker_get and tracker_put,*)
(* and those wake-ups that nobody but an ioctl waits for.                  *)
(***************************************************************************)
EXTENDS TimelinePoints, Sequences, FiniteSets, SequencesExt, FiniteSetsExt

CONSTANTS
  Trackers,     \* tracker objects; an object is used again after its release
  Timelines,    \* a subset of {"GP", "PP", "SOFT"}
  NoTimeline,   \* MALI_TIMELINE_NONE, for fence waits and sync fences
  NoTracker,    \* nobody holds the lock between two halves of add_tracker
  StartPoint,   \* the first point; MALI_TIMELINE_DEBUG_START_POINT moves it
  SyncKinds,    \* which trackers may wait for a sync fence as well
  MayFail,      \* whether allocating a waiter may fail
  DeferPP,      \* PP jobs with dma-buf memory are queued by a worker
  LockOnAbort,  \* the debug build's check at the end of system_abort
  FenceAge,     \* bound: how many of the last points a fence may name
  MaxDrift,     \* bound: how far trackerCount may run below zero
  MaxIssued     \* bound: how many points are handed out in all

\* enum mali_timeline_id; also the order in which a fence's points are visited.
TimelineId == [GP |-> 0, PP |-> 1, SOFT |-> 2]

Kinds == Timelines \cup {NoTimeline}

\* The trackers whose number the power management reads.
Counted == Timelines \cap {"GP", "PP"}

ASSUME KindsAssumption ==
  Timelines \subseteq DOMAIN TimelineId /\ NoTimeline \notin Timelines
ASSUME TrackersAssumption == NoTracker \notin Trackers
ASSUME StartAssumption == StartPoint \in Point
ASSUME OptionsAssumption ==
  SyncKinds \subseteq Kinds /\ MayFail \in BOOLEAN
  /\ DeferPP \in BOOLEAN /\ LockOnAbort \in BOOLEAN
ASSUME BoundsAssumption == FenceAge \in Nat /\ MaxDrift \in Nat /\ MaxIssued \in Nat

VARIABLES
  pointNext,    \* timeline->point_next
  pointOldest,  \* timeline->point_oldest
  queue,        \* timeline's tracker list, the oldest (tracker_tail) first
  waiters,      \* timeline's waiter list, the oldest (waiter_tail) first
  tr,           \* the tracker objects
  emptyList,    \* length of system->waiter_empty_list
  allocated,    \* how many waiter objects exist
  trackerCount, \* gp_tracker_count and (phy|virt)_pp_tracker_count
  frames,       \* the calls nested under the system lock, the innermost first
  holder,       \* a tracker being added under the lock, or NoTracker
  phase,        \* of the session
  issued        \* how many points each timeline has handed out

vars == <<pointNext, pointOldest, queue, waiters, tr, emptyList, allocated,
          trackerCount, frames, holder, phase, issued>>

points == <<pointNext, pointOldest, issued>>

Unused ==
  [state |-> "unused", kind |-> NoTimeline, on |-> NoTimeline, point |-> NoPoint,
   number |-> 0, needs |-> [tl \in Timelines |-> 0], refs |-> 0, sync |-> "none",
   stock |-> 0, short |-> 0, list |-> 0]

\* The n-th point a timeline hands out, from 1 on.  A fence is given by numbers;
\* the driver sees points.
PointNumber(n) ==
  IF n = 0 THEN NoPoint ELSE ((StartPoint + n - 2) % (WordSize - 1)) + 1

\* The system lock is free: no call is under way and no tracker is being added.
LockFree == frames = <<>> /\ holder = NoTracker

Call(f) == frames' = <<f>> \o frames

Init ==
  /\ pointNext = [tl \in Timelines |-> StartPoint]
  /\ pointOldest = pointNext
  /\ queue = [tl \in Timelines |-> <<>>]
  /\ waiters = [tl \in Timelines |-> <<>>]
  /\ tr = [t \in Trackers |-> Unused]
  /\ emptyList = 0 /\ allocated = 0
  /\ trackerCount = [tl \in Counted |-> 0]
  /\ frames = <<>> /\ holder = NoTracker
  /\ phase = "open"
  /\ issued = [tl \in Timelines |-> 0]
-----------------------------------------------------------------------------
(***************************************************************************)
(* Adding a tracker.                                                       *)
(***************************************************************************)

\* How many points are handed out or asked for.
Demand ==
  MapThenSumSet(LAMBDA tl : issued[tl], Timelines)
    + Cardinality({t \in Trackers : tr[t].kind # NoTimeline /\ tr[t].state = "adding"})

\* The fences a user may give: any of the last points handed out, on any of the
\* timelines.
Fences ==
  {needs \in [Timelines -> 0 .. MaxIssued] : \A tl \in Timelines :
     needs[tl] # 0 => needs[tl] \in issued[tl] - FenceAge + 1 .. issued[tl]}

\* fence_num_waiters: one waiter per point and one for the sync fence.
NumWaiters(needs, sync) ==
  Cardinality({tl \in Timelines : needs[tl] # 0}) + (IF sync = "wanted" THEN 1 ELSE 0)

\* mali_timeline_tracker_init.
TrackerInit(kind, needs, sync) ==
  [Unused EXCEPT !.state = "adding", !.kind = kind, !.needs = needs, !.sync = sync,
                 !.refs = 1]

\* tracker_init and the first half of add_tracker: waiters are taken from the empty
\* list; if it runs dry, allocate_waiters gives the lock back to allocate the rest.
AddTracker(t) ==
  \E kind \in Kinds, sync \in {"none", "wanted"}, needs \in Fences :
    LET num == NumWaiters(needs, sync)
        got == Min({num, emptyList})
    IN
    /\ LockFree /\ phase = "open" /\ tr[t].state = "unused"
    /\ kind \in Timelines => Demand < MaxIssued
    /\ kind \in Counted => trackerCount[kind] > -MaxDrift
    /\ sync = "wanted" => kind \in SyncKinds
    /\ tr' = [tr EXCEPT ![t] =
         [TrackerInit(kind, needs, sync) EXCEPT !.stock = got, !.short = num - got]]
    /\ emptyList' = emptyList - got
    /\ holder' = IF got = num THEN t ELSE NoTracker
    /\ UNCHANGED <<points, queue, waiters, allocated, trackerCount, frames, phase>>

\* mali_timeline_insert_waiter: behind the newest waiter that is not after w.
InsertWaiter(seq, w) ==
  LET older == {i \in DOMAIN seq : ~PointAfter(seq[i].point, w.point)}
  IN  InsertAt(seq, Max(older \cup {0}) + 1, w)

\* Of the timelines in wanted, the first n in the order of the enum: the waiters
\* ran out for the others.
FirstOf(wanted, n) ==
  {x \in wanted : Cardinality({y \in wanted : TimelineId[y] < TimelineId[x]}) < n}

\* Mutant: the oldest point of a timeline counts as released.
Awaited_OldestReleased(t, next) ==
  {tl \in Timelines :
     LET p == PointNumber(tr[t].needs[tl]) IN
     p # NoPoint /\ p # pointOldest[tl] /\ IsPointOn(pointOldest[tl], next[tl], p)}

\* The points of t's fence that create_waiters waits for, once the next point of
\* each timeline is next: valid and not released.
Awaited(t, next) ==
  {tl \in Timelines :
     LET p == PointNumber(tr[t].needs[tl]) IN
     /\ p # NoPoint
     /\ IsPointValid(pointOldest[tl], next[tl], p)
     /\ ~IsPointReleased(pointOldest[tl], next[tl], p)}

\* mali_timeline_insert_tracker: where a tracker of this kind is put.
TimelineFor(kind) ==
  IF kind # NoTimeline /\ ~IsFull(pointOldest[kind], pointNext[kind])
  THEN kind ELSE NoTimeline

\* The second half of add_tracker: insert_tracker puts t on its timeline unless
\* that is full, then create_waiters makes a waiter for each awaited point while
\* objects last, registers with the sync fence if one is left for it, gives the
\* rest back and drops the initial reference.
InsertTracker(t) ==
  /\ tr[t].state = "adding"
  /\ holder = t \/ (tr[t].short > 0 /\ LockFree)
  /\ \E extra \in IF MayFail THEN 0 .. tr[t].short ELSE {tr[t].short},
        registers \in BOOLEAN :
       LET on      == TimelineFor(tr[t].kind)
           point   == IF on = NoTimeline THEN NoPoint ELSE pointNext[on]
           next    == [tl \in Timelines |->
                         IF tl = on THEN NextPoint(pointNext[tl]) ELSE pointNext[tl]]
           count   == [issued EXCEPT ![on] = @ + 1]
           stock   == tr[t].stock + extra
           granted == FirstOf(Awaited(t, next), stock)
           waits   == Cardinality(granted)
           sync    == tr[t].sync = "wanted" /\ registers
           used    == waits + (IF sync THEN 1 ELSE 0)
       IN
       /\ registers => tr[t].sync = "wanted" /\ waits < stock
       /\ pointNext' = next
       /\ issued' = IF on = NoTimeline THEN issued ELSE count
       /\ queue' = [tl \in Timelines |-> IF tl = on THEN Append(queue[tl], t) ELSE queue[tl]]
       /\ trackerCount' = [tl \in Counted |->
                             trackerCount[tl] + (IF tl = on THEN 1 ELSE 0)]
       /\ waiters' = [tl \in Timelines |->
            IF tl \in granted
            THEN InsertWaiter(waiters[tl],
                   [point |-> PointNumber(tr[t].needs[tl]), tracker |-> t])
            ELSE waiters[tl]]
       /\ allocated' = allocated + extra
       /\ emptyList' = emptyList + stock - used
       /\ tr' = [tr EXCEPT ![t] =
            [@ EXCEPT !.state = "waiting", !.on = on, !.point = point,
                      !.number = IF on = NoTimeline THEN 0 ELSE count[on],
                      !.refs = used, !.stock = 0, !.short = 0, !.list = used,
                      !.sync = IF sync THEN "registered" ELSE "none"]]
       /\ frames' = IF used = 0 THEN <<<<"activate", t>>>> ELSE <<>>
  /\ holder' = NoTracker
  /\ UNCHANGED <<pointOldest, phase>>
-----------------------------------------------------------------------------
(***************************************************************************)
(* Calls under the system lock.                                            *)
(***************************************************************************)
Running(f) == frames # <<>> /\ Head(frames) = f

\* Whether the subsystem that t is activated for releases t before it returns:
\* always for a tracker of a closing session and for a fence wait or a sync
\* fence; for a self-signalled soft job; for a PP job activated with an error.  A
\* deferred PP job is left to a worker, which also finds the session closing.
AtOnce(t) ==
  IF DeferPP /\ tr[t].kind = "PP" THEN BOOLEAN
  ELSE IF phase # "open" \/ tr[t].kind = NoTimeline THEN {TRUE}
  ELSE IF tr[t].kind \in {"SOFT", "PP"} THEN BOOLEAN
  ELSE {FALSE}

\* mali_timeline_system_release_waiter_list: back to the head of the empty list.
ReleaseWaiterList(t) == emptyList' = emptyList + tr[t].list

\* Whether telling the owner wakes up the system's wait queue: a fence wait does, a
\* sync fence does not.  (A soft job does while the session is open, for ioctls.)
Wakes(t) == IF tr[t].kind = NoTimeline THEN BOOLEAN ELSE {FALSE}

\* The only sleeper that matters here is the thread that closes the session.
WokenUp == IF phase = "asleep" THEN "checking" ELSE phase

\* mali_timeline_tracker_activate: the waiter objects of t go back to the empty
\* list, and the owner is told.
Activate(t) ==
  /\ Running(<<"activate", t>>)
  /\ ReleaseWaiterList(t)
  /\ trackerCount' = [tl \in Counted |->
                        trackerCount[tl] - (IF tl = tr[t].kind THEN 1 ELSE 0)]
  /\ tr' = [tr EXCEPT ![t].state = "active", ![t].list = 0]
  /\ \E now \in AtOnce(t) :
       frames' = (IF now THEN <<<<"release", t>>>> ELSE <<>>) \o Tail(frames)
  /\ \E wakes \in Wakes(t) : phase' = IF wakes THEN WokenUp ELSE phase
  /\ UNCHANGED <<points, queue, waiters, allocated, holder>>

\* The oldest point of tl once only the trackers in rest are left.
OldestAfter(tl, rest) ==
  IF rest = <<>> THEN pointNext[tl] ELSE tr[Head(rest)].point

\* mali_timeline_tracker_release: t leaves its timeline; if it was the oldest, the
\* oldest point moves on and update_oldest_point looks for waiters to release.
Release(t) ==
  LET tl   == tr[t].on
      rest == Remove(queue[tl], t)
  IN
  /\ tr[t].state = "active"
  /\ Running(<<"release", t>>) \/ LockFree
  /\ tr' = [tr EXCEPT ![t] = Unused]
  /\ IF tl # NoTimeline /\ Head(queue[tl]) = t
     THEN /\ pointOldest' = [pointOldest EXCEPT ![tl] = OldestAfter(tl, rest)]
          /\ frames' = <<<<"oldest", tl>>>> \o (IF LockFree THEN <<>> ELSE Tail(frames))
     ELSE /\ UNCHANGED pointOldest
          /\ frames' = IF LockFree THEN <<>> ELSE Tail(frames)
  /\ queue' = IF tl = NoTimeline THEN queue ELSE [queue EXCEPT ![tl] = rest]
  /\ UNCHANGED <<pointNext, issued, waiters, emptyList, allocated, trackerCount,
                 holder, phase>>

\* mali_timeline_system_release_waiter: one reference less, the last one activates.
Unreference(t) ==
  /\ tr' = [tr EXCEPT ![t].refs = @ - 1]
  /\ IF tr[t].refs = 1 THEN Call(<<"activate", t>>) ELSE UNCHANGED frames

\* Mutant: a waiter for the oldest point itself is released.
StillOn_OldestReleased(tl, p) ==
  p # pointOldest[tl] /\ IsPointOn(pointOldest[tl], pointNext[tl], p)

\* The test that ends the loop of mali_timeline_update_oldest_point.
StillOn(tl, p) == IsPointOn(pointOldest[tl], pointNext[tl], p)

\* One turn of the loop of mali_timeline_update_oldest_point.  The loop reads the
\* timeline anew each time, since releasing a waiter may have changed it.
UpdateOldestPoint(tl) ==
  /\ Running(<<"oldest", tl>>)
  /\ IF waiters[tl] = <<>> \/ StillOn(tl, Head(waiters[tl]).point)
     THEN frames' = Tail(frames) /\ UNCHANGED <<waiters, tr>>
     ELSE /\ waiters' = [waiters EXCEPT ![tl] = Tail(@)]
          /\ Unreference(Head(waiters[tl]).tracker)
  /\ UNCHANGED <<points, queue, emptyList, allocated, trackerCount, holder, phase>>
-----------------------------------------------------------------------------
(***************************************************************************)
(* Sync fences, and the end of the session.                                *)
(***************************************************************************)

\* The sync fence signals: the framework is about to run the callback, without
\* any lock of the driver.
SyncSignal(t) ==
  /\ tr[t].sync = "registered"
  /\ tr' = [tr EXCEPT ![t].sync = "signalled"]
  /\ UNCHANGED <<points, queue, waiters, emptyList, allocated, trackerCount,
                 frames, holder, phase>>

\* Mutant: the callback of a closing session wakes nobody.
AfterCallback_NoWakeUp == <<>>

\* What is left to do at the end of the callback.
AfterCallback == IF phase = "open" THEN <<>> ELSE <<<<"wake_up">>>>

\* mali_timeline_sync_fence_callback, run by the framework or, for a cancelled
\* waiter, by the thread that closes the session.
SyncCallback(t) ==
  /\ LockFree /\ tr[t].sync \in {"signalled", "cancelled"}
  /\ tr' = [tr EXCEPT ![t].refs = @ - 1, ![t].sync = "none"]
  /\ frames' = (IF tr[t].refs = 1 THEN <<<<"activate", t>>>> ELSE <<>>) \o AfterCallback
  /\ UNCHANGED <<points, queue, waiters, emptyList, allocated, trackerCount,
                 holder, phase>>

\* The end of the callback, still under the lock.
WakeUp ==
  /\ Running(<<"wake_up">>)
  /\ frames' = Tail(frames)
  /\ phase' = WokenUp
  /\ UNCHANGED <<points, queue, waiters, tr, emptyList, allocated, trackerCount, holder>>

\* _mali_ukk_close sets is_aborting.  No ioctl of the session is under way.
StartAbort ==
  /\ phase = "open"
  /\ \A t \in Trackers : tr[t].state # "adding"
  /\ phase' = "aborting"
  /\ UNCHANGED <<points, queue, waiters, tr, emptyList, allocated, trackerCount,
                 frames, holder>>

\* t's sync fence waiter is cancelled before the fence signals: t is put on the
\* list of trackers whose callback is called by hand.
Cancelled(t) == [tr[t] EXCEPT !.sync = "cancelled"]

\* mali_timeline_cancel_sync_fence_waiters, the loop over the trackers of every
\* timeline; mali_scheduler_abort_session, mali_executor_abort_session and
\* mali_soft_job_system_abort have released the trackers that were active.
CancelSync ==
  /\ phase = "aborting" /\ LockFree
  /\ \A t \in Trackers : tr[t].state # "active"
  /\ phase' = "cancelled"
  /\ tr' = [t \in Trackers |->
       IF tr[t].on # NoTimeline /\ tr[t].sync = "registered"
       THEN Cancelled(t) ELSE tr[t]]
  /\ UNCHANGED <<points, queue, waiters, emptyList, allocated, trackerCount,
                 frames, holder>>

\* The condition of the sleep at the end of mali_timeline_cancel_sync_fence_waiters, which a build
\* without sync fences does not have.
Drained ==
  SyncKinds # {} => \A tl \in Timelines : IsEmpty(pointOldest[tl], pointNext[tl])

\* The closing thread has called the callbacks of all trackers it cancelled.
AllCancelled ==
  /\ phase = "cancelled" /\ LockFree
  /\ \A t \in Trackers : tr[t].sync # "cancelled"
  /\ phase' = "checking"
  /\ UNCHANGED <<points, queue, waiters, tr, emptyList, allocated, trackerCount,
                 frames, holder>>

\* The closing thread sees a tracker and sleeps until it is woken up.
Sleep ==
  /\ phase = "checking" /\ ~Drained
  /\ phase' = "asleep"
  /\ UNCHANGED <<points, queue, waiters, tr, emptyList, allocated, trackerCount,
                 frames, holder>>

\* mali_timeline_system_destroy, after the sleep.
Destroy ==
  /\ phase = "checking"
  /\ Drained
  /\ LockOnAbort => LockFree
  /\ phase' = "destroyed"
  /\ UNCHANGED <<points, queue, waiters, tr, emptyList, allocated, trackerCount,
                 frames, holder>>

Step(t) ==
  \/ AddTracker(t) \/ InsertTracker(t)
  \/ Activate(t) \/ Release(t)
  \/ SyncSignal(t) \/ SyncCallback(t)

Next ==
  \/ \E t \in Trackers : Step(t)
  \/ \E tl \in Timelines : UpdateOldestPoint(tl)
  \/ WakeUp
  \/ StartAbort \/ CancelSync \/ AllCancelled \/ Sleep \/ Destroy

Spec == Init /\ [][Next]_vars

\* The thread that holds the spinlock runs on; a thread that waits for it gets it
\* (the kernel's spinlocks are fair); a job that runs is completed, killed by the
\* GPU's timeout or aborted; a sync fence may never signal.
Fairness ==
  /\ \A t \in Trackers :
       /\ SF_vars(InsertTracker(t))
       /\ WF_vars(Activate(t)) /\ SF_vars(Release(t))
       /\ SF_vars(SyncCallback(t))
  /\ \A tl \in Timelines : WF_vars(UpdateOldestPoint(tl))
  /\ WF_vars(WakeUp)
  /\ SF_vars(CancelSync) /\ SF_vars(AllCancelled) /\ WF_vars(Sleep) /\ SF_vars(Destroy)

FairSpec == Spec /\ Fairness
-----------------------------------------------------------------------------
\* The fields have their types; the counters of a timeline are points, never 0.
TypeOK ==
  /\ pointNext \in [Timelines -> Point] /\ pointOldest \in [Timelines -> Point]
  /\ issued \in [Timelines -> 0 .. MaxIssued]
  /\ queue \in [Timelines -> Seq(Trackers)]
  /\ waiters \in [Timelines -> Seq([point : Point, tracker : Trackers])]
  /\ tr \in [Trackers ->
       [state : {"unused", "adding", "waiting", "active"},
        kind : Kinds, on : Kinds, point : Word, number : 0 .. MaxIssued,
        needs : [Timelines -> 0 .. MaxIssued], refs : Nat,
        sync : {"none", "wanted", "registered", "signalled", "cancelled"},
        stock : Nat, short : Nat, list : Nat]]
  /\ emptyList \in Nat /\ allocated \in Nat
  /\ trackerCount \in [Counted -> Int]
  /\ frames \in Seq(({"activate", "release"} \X Trackers) \cup ({"oldest"} \X Timelines)
                    \cup {<<"wake_up">>})
  /\ holder \in Trackers \cup {NoTracker}
  /\ phase \in {"open", "aborting", "cancelled", "checking", "asleep", "destroyed"}

\* No tracker is activated while work it must wait for is unfinished: for each
\* point of its fence, every tracker up to that point is released.
FenceRespected ==
  \A t \in Trackers : tr[t].state = "active" =>
    \A tl \in Timelines, u \in Trackers :
      tr[u].on = tl => tr[u].number > tr[t].needs[tl]

\* The reference count of a tracker that waits is exactly the number of waiters
\* still to come back, so it is activated once and not before the last of them;
\* at zero, its activation is under way.
RefsExact ==
  \A t \in Trackers : tr[t].state = "waiting" =>
    /\ tr[t].refs = Cardinality({w \in Timelines :
                        \E i \in DOMAIN waiters[w] : waiters[w][i].tracker = t})
                     + (IF tr[t].sync = "none" THEN 0 ELSE 1)
    /\ tr[t].refs = 0 <=> \E i \in DOMAIN frames : frames[i] = <<"activate", t>>

\* The oldest point is the point of the oldest tracker, and the tracker list is in
\* the order of the points, also across the wrap of the 32-bit counter.
PointsConsistent ==
  \A tl \in Timelines :
    /\ pointNext[tl] = PointNumber(issued[tl] + 1)
    /\ pointOldest[tl] = IF queue[tl] = <<>> THEN pointNext[tl]
                         ELSE tr[Head(queue[tl])].point
    /\ \A i \in DOMAIN queue[tl] :
         LET t == queue[tl][i] IN
         /\ tr[t].on = tl /\ tr[t].point = PointNumber(tr[t].number)
         /\ i > 1 => tr[queue[tl][i - 1]].number < tr[t].number

\* Waiters are kept in the order of their points, and no waiter whose point is
\* released stays behind once the lock is free.
WaitersConsistent ==
  \A tl \in Timelines :
    /\ \A i, j \in DOMAIN waiters[tl] : i < j =>
         tr[waiters[tl][i].tracker].needs[tl] <= tr[waiters[tl][j].tracker].needs[tl]
    /\ LockFree => \A i \in DOMAIN waiters[tl] :
         IsPointOn(pointOldest[tl], pointNext[tl], waiters[tl][i].point)

\* Every waiter object is on the empty list, on a tracker, or in the hands of
\* add_tracker: none is lost, none is on two lists.
WaitersConserved ==
  emptyList + MapThenSumSet(LAMBDA t : tr[t].list + tr[t].stock, Trackers) = allocated

\* gp_tracker_count and pp_tracker_count count the trackers that are on a timeline
\* and not activated ("how many jobs are delayed in the whole timeline system").
CountersExact ==
  LockFree => \A tl \in Counted :
    trackerCount[tl] =
      Cardinality({t \in Trackers : tr[t].on = tl /\ tr[t].state = "waiting"})

\* When the timeline system is freed, nobody is inside its lock and no tracker is
\* left that a callback could still activate.
DestroyedWhenUnused ==
  phase = "destroyed" => LockFree /\ \A t \in Trackers : tr[t].state = "unused"

\* "Once added to the timeline system, the tracker is guaranteed to be activated", but
\* for a sync fence that never signals while the session stays open.
EveryTrackerActivated ==
  \A t \in Trackers :
    tr[t].state = "adding" ~>
      tr[t].state = "active" \/ \E u \in Trackers : tr[u].sync = "registered"

\* Closing a session gets past mali_timeline_system_abort.
AbortFinishes == phase = "aborting" ~> phase = "destroyed"
-----------------------------------------------------------------------------
(***************************************************************************)
(* The promise this module keeps.                                          *)
(***************************************************************************)
Abstract == INSTANCE FenceOrder WITH
  pending <- [tl \in Timelines |-> {tr[t].number : t \in {u \in Trackers : tr[u].on = tl}}],
  work <- [t \in Trackers |->
    IF tr[t].state \in {"unused", "adding"} THEN [status |-> "idle"]
    ELSE [status |-> IF tr[t].state = "waiting" THEN "waiting" ELSE "started",
          needs |-> tr[t].needs, tl |-> tr[t].on, number |-> tr[t].number]]

FencesHonoured == Abstract!Spec

\* Every tracker that is added is activated, unless a sync fence never signals, and the
\* abort of a session gets past the sleep of mali_timeline_cancel_sync_fence_waiters.
TimelineEnds == EveryTrackerActivated /\ AbortFinishes
=============================================================================
