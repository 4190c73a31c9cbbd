---------------------------- MODULE MCTimelineSafety ----------------------------
(***************************************************************************)
(* The safety of the timeline system in one run: the counters of a         *)
(* timeline beside plain numbers (TimelineWindow), the timelines of a      *)
(* session (Timeline), and its soft jobs (SoftJob).  Each behaviour is one *)
(* of the module named by part.                                            *)
(***************************************************************************)
EXTENDS TimelineWindow, TLC

CONSTANTS Objects, Threads, Nobody

VARIABLES
  part,
  next, oldest, trackers, waiters, tr, emptyList, allocated, trackerCount, frames, holder,
  session, handed,
  job, queue, armed, enabled, work, lock, stack, phase

\* Three tracker objects on a GP and a SOFT timeline whose points cross 0.
T == INSTANCE Timeline WITH
       WordSize <- 16, MaxPointSpan <- 4, StartPoint <- 13, MaxIssued <- 3,
       Trackers <- Objects, Timelines <- {"GP", "SOFT"}, NoTimeline <- "NONE",
       NoTracker <- Nobody, SyncKinds <- {"GP"}, MayFail <- FALSE, DeferPP <- FALSE,
       LockOnAbort <- TRUE, FenceAge <- 2, MaxDrift <- 1,
       pointNext <- next, pointOldest <- oldest, queue <- trackers, phase <- session,
       issued <- handed

\* Three soft jobs and two threads.
S == INSTANCE SoftJob WITH
       Jobs <- Objects, NoJob <- Nobody, Types <- {"user", "self"},
       Needs <- {"none", "external", "previous"}, Timeout <- 1

timeline == <<next, oldest, trackers, waiters, tr, emptyList, allocated, trackerCount, frames,
              holder, session, handed>>
softJob == <<job, queue, armed, enabled, work, lock, stack, phase>>

PartInit ==
  /\ part \in {"window", "timeline", "soft job"}
  /\ Init /\ T!Init /\ S!Init
  /\ part # "window" => start = 1

PartNext ==
  /\ \/ part = "window" /\ Next /\ UNCHANGED <<timeline, softJob>>
     \/ part = "timeline" /\ T!Next /\ UNCHANGED <<vars, softJob>>
     \/ part = "soft job" /\ S!Next /\ UNCHANGED <<vars, timeline>>
  /\ UNCHANGED part

PartSpec == PartInit /\ [][PartNext]_<<part, vars, timeline, softJob>>

\* Trackers, jobs and the threads of the process are interchangeable.
Symmetry == Permutations(Objects) \cup Permutations(Threads)

\* Nothing is activated before its fence is met; and the lists and counts of
\* mali_timeline.c agree: a waiting tracker is referred to by as many waiters as it
\* counts, points follow their trackers and waiters their points across the wrap, no
\* waiter object is lost, the latest point is the last that is on;
\* mali_timeline_system_destroy finds nobody inside the lock and no tracker left.
TimelineConsistent ==
  /\ T!FenceRespected /\ T!DestroyedWhenUnused
  /\ PointsInTurn /\ LatestIsLast
  /\ T!TypeOK /\ T!RefsExact /\ T!PointsConsistent /\ T!WaitersConsistent /\ T!WaitersConserved

\* Each reference of a soft job is owed one destroy, no assertion of mali_soft_job.c
\* fails, and closing the session leaves nothing behind; nobody is still to use a soft
\* job that is freed, and it leaves its timeline once, whoever signals, times out or
\* aborts it.
SoftJobsSound ==
  /\ S!TypeOK /\ S!RefsExact /\ S!AssertionsHold /\ S!ClosedIsEmpty
  /\ S!NoUseAfterFree /\ S!ReleasedOnce
======================================================================
