-------------------------------- MODULE SoftJob --------------------------------
(***************************************************************************)
(* Soft jobs (mali_soft_job.c) and the timer that bounds them              *)
(* (mali_timeline.c): CPU work that user space starts, the timeline        *)
(* activates, and user space signals, or else the timer completes.         *)
(*                                                                         *)
(* Four kinds of contexts work on the jobs of a session: threads in an     *)
(* ioctl, the worker that runs the timer's delayed work, whoever ends a    *)
(* dependency (a GP or PP job, a sync fence), and the thread that closes   *)
(* the session.  Each has a stack of calls still to make; a step makes the *)
(* topmost one.  Steps are as large as the locks allow: what runs under    *)
(* the soft job lock, an interrupt-safe spinlock, is one step, but what    *)
(* runs under the timeline system lock is not, since soft jobs are also    *)
(* read and freed without it.                                              *)
(***************************************************************************)
EXTENDS Naturals, Sequences, FiniteSets, SequencesExt

CONSTANTS
  Jobs,         \* job objects; the memory of a freed one is used again
  Threads,      \* threads of the process, each in at most one ioctl; none is
                \* called "timer", "deps", "closer" or "nobody"
  NoJob,
  Types,        \* of the jobs user space starts: "user" or "self" signalled
  Needs,        \* of a fence: "none", "external" or "previous", the job before
  Timeout       \* MALI_TIMELINE_TIMEOUT_HZ, in ticks, at least 1

Contexts == Threads \cup {"timer", "deps", "closer"}

VARIABLES
  job,          \* the soft jobs, with the fields of their trackers
  queue,        \* tracker list of the soft timeline, the oldest first
  armed,        \* timeline->timer_active
  enabled,      \* system->timer_enabled
  work,         \* the delayed work: pending or not, and ticks to go
  lock,         \* the context that holds the timeline system lock, or "nobody"
  stack,        \* each context's calls, the next one first
  phase         \* of the session

vars == <<job, queue, armed, enabled, work, lock, stack, phase>>

timer == <<armed, enabled, work>>

Free ==
  [state |-> "free", type |-> "user", refs |-> 0, activated |-> FALSE,
   need |-> "none", timed |-> FALSE, age |-> 0]

Idle(c) == stack[c] = <<>>

\* c's next call is op, on job j.
At(c, op, j) == stack[c] # <<>> /\ Head(stack[c]) = <<op, j>>

\* c's next call is made and gives rise to calls.
Then(c, calls) == stack' = [stack EXCEPT ![c] = calls \o Tail(@)]

Locked(calls) == <<<<"lock", NoJob>>>> \o calls \o <<<<"unlock", NoJob>>>>

Aborting == phase # "open"

Init ==
  /\ job = [j \in Jobs |-> Free]
  /\ queue = <<>>
  /\ armed = FALSE /\ enabled = TRUE
  /\ work = [pending |-> FALSE, due |-> 0]
  /\ lock = "nobody"
  /\ stack = [c \in Contexts |-> <<>>]
  /\ phase = "open"
-----------------------------------------------------------------------------
(***************************************************************************)
(* Calls any context makes.                                                *)
(***************************************************************************)
Lock(c) ==
  /\ At(c, "lock", NoJob) /\ lock = "nobody"
  /\ lock' = c /\ Then(c, <<>>)
  /\ UNCHANGED <<job, queue, timer, phase>>

Unlock(c) ==
  /\ At(c, "unlock", NoJob)
  /\ lock' = "nobody" /\ Then(c, <<>>)
  /\ UNCHANGED <<job, queue, timer, phase>>

\* mali_soft_job_destroy: drops a reference.
Destroy(c, j) ==
  /\ At(c, "destroy", j)
  /\ job' = [job EXCEPT ![j].refs = @ - 1]
  /\ Then(c, IF job[j].refs > 1 THEN <<>> ELSE <<<<"free", j>>>>)
  /\ UNCHANGED <<queue, timer, lock, phase>>

\* mali_soft_job_system_free_job: unlinks the job, under the soft job lock.
FreeJob(c, j) ==
  /\ At(c, "free", j)
  /\ job' = [job EXCEPT ![j] = Free]
  /\ Then(c, <<>>)
  /\ UNCHANGED <<queue, timer, lock, phase>>

\* mali_timeline_tracker_release: the job leaves the timeline.
Release(c, j) ==
  /\ At(c, "release", j)
  /\ queue' = Remove(queue, j)
  /\ Then(c, (IF queue # <<>> /\ Head(queue) = j THEN <<<<"oldest", NoJob>>>> ELSE <<>>)
               \o <<<<"delayed", NoJob>>>>)
  /\ UNCHANGED <<job, timer, lock, phase>>

\* mali_timeline_update_oldest_point: a job that waits for the one before it on the
\* soft timeline loses its last waiter when it is the oldest.
UpdateOldestPoint(c) ==
  /\ At(c, "oldest", NoJob)
  /\ IF queue # <<>> /\ job[Head(queue)].need = "previous"
     THEN /\ job' = [job EXCEPT ![Head(queue)].need = "none"]
          /\ Then(c, <<<<"activate", Head(queue)>>, <<"oldest", NoJob>>>>)
     ELSE Then(c, <<>>) /\ UNCHANGED job
  /\ UNCHANGED <<queue, timer, lock, phase>>

\* mali_soft_job_system_activate_job, and the rest of mali_timeline_tracker_activate:
\* a closing session releases the job at once, as a self-signalled job does.
Activate(c, j) ==
  LET done == Aborting \/ job[j].type = "self" IN
  /\ At(c, "activate", j)
  /\ job' = [job EXCEPT ![j].age = 0,
                        ![j].activated = @ \/ ~Aborting,
                        ![j].state = IF job[j].type = "self" /\ ~Aborting
                                     THEN "signaled" ELSE @]
  /\ Then(c, (IF done THEN <<<<"release", j>>, <<"destroy", j>>>> ELSE <<>>)
               \o <<<<"delayed", NoJob>>>>)
  /\ UNCHANGED <<queue, timer, lock, phase>>

\* mali_timeline_update_delayed_work: the timer runs for the oldest job, if that is
\* activated.  Scheduling work that is pending already changes nothing.
UpdateDelayedWork(c) ==
  LET running   == queue # <<>> /\ job[Head(queue)].need = "none"
      cancelled == IF armed THEN [work EXCEPT !.pending = FALSE] ELSE work
  IN
  /\ At(c, "delayed", NoJob) /\ Then(c, <<>>)
  /\ CASE enabled /\ running /\ ~job[Head(queue)].timed ->
            /\ work' = IF cancelled.pending THEN cancelled
                       ELSE [pending |-> TRUE, due |-> Timeout]
            /\ job' = [job EXCEPT ![Head(queue)].timed = TRUE]
            /\ armed' = TRUE
       [] enabled /\ ~running /\ armed ->
            work' = cancelled /\ armed' = FALSE /\ UNCHANGED job
       [] OTHER -> UNCHANGED <<job, armed, work>>
  /\ UNCHANGED <<queue, enabled, lock, phase>>
-----------------------------------------------------------------------------
(***************************************************************************)
(* ioctls.                                                                 *)
(***************************************************************************)

\* mali_soft_job_create, in soft_job_start_wrapper.  If user space cannot be told
\* the id, the job is destroyed unstarted.
Create(c) ==
  \E j \in Jobs, type \in Types, told \in BOOLEAN :
    /\ Idle(c) /\ phase = "open" /\ job[j].state = "free"
    /\ job' = [job EXCEPT ![j] = [Free EXCEPT !.state = "allocated", !.type = type,
                                              !.refs = 1]]
    /\ stack' = [stack EXCEPT ![c] = IF told THEN <<<<"start", j>>>>
                                     ELSE <<<<"destroy", j>>>>]
    /\ UNCHANGED <<queue, timer, lock, phase>>

\* mali_soft_job_start, under the soft job lock.
Start(c, j) ==
  /\ At(c, "start", j)
  /\ job' = [job EXCEPT ![j].state = "started"]
  /\ Then(c, Locked(<<<<"add", j>>>>))
  /\ UNCHANGED <<queue, timer, lock, phase>>

\* mali_timeline_system_add_tracker: without a waiter the job is activated at once.
AddTracker(c, j) ==
  /\ At(c, "add", j)
  /\ queue' = Append(queue, j)
  /\ \E need \in Needs :
       LET waits == need = "external" \/ (need = "previous" /\ queue # <<>>) IN
       /\ job' = [job EXCEPT ![j].need = IF waits THEN need ELSE "none"]
       /\ Then(c, IF waits THEN <<>> ELSE <<<<"activate", j>>>>)
  /\ UNCHANGED <<timer, lock, phase>>

\* Mutant: the reference is dropped before the tracker is released.
AfterSignal_DestroysFirst(j) ==
  <<<<"wait", j>>, <<"destroy", j>>>> \o Locked(<<<<"release", j>>>>)

\* What the thread that signals a started job does after its critical section.
AfterSignal(j) ==
  <<<<"wait", j>>>> \o Locked(<<<<"release", j>>>>) \o <<<<"destroy", j>>>>

\* mali_soft_job_system_signal_job up to the end of its critical section; any id
\* that is not a started or timed out job of the right type is refused.
Signal(c) ==
  \E j \in Jobs :
    /\ Idle(c) /\ phase = "open"
    /\ job[j].type = "user" /\ job[j].state \in {"started", "timed_out"}
    /\ job' = [job EXCEPT ![j].state = "signaled"]
    /\ stack' = [stack EXCEPT ![c] =
         IF job[j].state = "started" THEN AfterSignal(j) ELSE <<<<"destroy", j>>>>]
    /\ UNCHANGED <<queue, timer, lock, phase>>

\* The sleep in mali_soft_job_system_signal_job.
WaitActivated(c, j) ==
  /\ At(c, "wait", j) /\ job[j].activated
  /\ Then(c, <<>>)
  /\ UNCHANGED <<job, queue, timer, lock, phase>>
-----------------------------------------------------------------------------
(***************************************************************************)
(* The end of a dependency, and the timer.                                 *)
(***************************************************************************)

\* A GP or PP job is released, or a sync fence signals.
DependencyDone ==
  \E j \in Jobs :
    /\ Idle("deps") /\ job[j].need = "external"
    /\ stack' = [stack EXCEPT !["deps"] = Locked(<<<<"satisfy", j>>>>)]
    /\ UNCHANGED <<job, queue, timer, lock, phase>>

\* mali_timeline_system_release_waiter for the job's only waiter.
ReleaseWaiter(c, j) ==
  /\ At(c, "satisfy", j)
  /\ job' = [job EXCEPT ![j].need = "none"]
  /\ Then(c, <<<<"activate", j>>>>)
  /\ UNCHANGED <<queue, timer, lock, phase>>

Tick ==
  /\ job' = [j \in Jobs |->
       IF job[j].activated /\ job[j].age < Timeout
       THEN [job[j] EXCEPT !.age = @ + 1] ELSE job[j]]
  /\ work' = IF work.pending /\ work.due > 0 THEN [work EXCEPT !.due = @ - 1] ELSE work
  /\ <<job', work'>> # <<job, work>>
  /\ UNCHANGED <<queue, armed, enabled, lock, stack, phase>>

\* The kernel takes the delayed work off its list and calls the handler.
Fire ==
  /\ Idle("timer") /\ work.pending /\ work.due = 0
  /\ work' = [work EXCEPT !.pending = FALSE]
  /\ stack' = [stack EXCEPT !["timer"] = Locked(<<<<"expire", NoJob>>>>)]
  /\ UNCHANGED <<job, queue, armed, enabled, lock, phase>>

\* The oldest job has run for the whole timeout.
Overdue == queue # <<>> /\ job[Head(queue)].timed /\ job[Head(queue)].age >= Timeout

\* mali_timeline_timer_callback.
TimerCallback(c) ==
  /\ At(c, "expire", NoJob)
  /\ armed' = (armed /\ ~enabled)
  /\ Then(c, IF enabled /\ Overdue
             THEN <<<<"time_out", Head(queue)>>, <<"clear", Head(queue)>>>> ELSE <<>>)
  /\ UNCHANGED <<job, queue, enabled, work, lock, phase>>

\* mali_soft_job_system_timeout_job.
TimeOutJob(c, j) ==
  /\ At(c, "time_out", j)
  /\ IF ~Aborting /\ job[j].state = "started"
     THEN /\ job' = [job EXCEPT ![j].state = "timed_out", ![j].refs = @ + 1]
          /\ Then(c, <<<<"release", j>>, <<"destroy", j>>>>)
     ELSE Then(c, <<>>) /\ UNCHANGED job
  /\ UNCHANGED <<queue, timer, lock, phase>>

\* The last write of mali_timeline_timer_callback, to the tracker it timed out.
ClearTimer(c, j) ==
  /\ At(c, "clear", j)
  /\ job' = [job EXCEPT ![j].timed = FALSE]
  /\ Then(c, <<>>)
  /\ UNCHANGED <<queue, timer, lock, phase>>
-----------------------------------------------------------------------------
(***************************************************************************)
(* Closing the session.                                                    *)
(***************************************************************************)

\* mali_timeline_system_stop_timer.
StopTimer == Locked(<<<<"disable", NoJob>>>>) \o <<<<"cancel", NoJob>>>>

\* _mali_ukk_close: no ioctl of the session is under way any more.
Close ==
  /\ phase = "open" /\ \A c \in Threads : Idle(c)
  /\ phase' = "aborting"
  /\ stack' = [stack EXCEPT !["closer"] =
                 StopTimer \o <<<<"abort", NoJob>>, <<"finish", NoJob>>>>]
  /\ UNCHANGED <<job, queue, timer, lock>>

DisableTimer(c) ==
  /\ At(c, "disable", NoJob)
  /\ enabled' = FALSE /\ Then(c, <<>>)
  /\ UNCHANGED <<job, queue, armed, work, lock, phase>>

\* cancel_delayed_work_sync waits for a callback that runs.
CancelWork(c) ==
  /\ At(c, "cancel", NoJob) /\ Idle("timer")
  /\ work' = [work EXCEPT !.pending = FALSE] /\ armed' = FALSE
  /\ Then(c, <<>>)
  /\ UNCHANGED <<job, queue, enabled, lock, phase>>

\* The jobs that abort takes from the list of used jobs.
Aborted ==
  {j \in Jobs : \/ job[j].state = "started" /\ job[j].activated
                \/ job[j].state = "timed_out"}

\* mali_soft_job_system_abort up to the end of its critical section, and the calls
\* it then makes for the jobs it has taken.
Abort(c) ==
  /\ At(c, "abort", NoJob)
  /\ job' = [j \in Jobs |-> IF j \in Aborted /\ job[j].state = "started"
                            THEN [job[j] EXCEPT !.state = "signaled"] ELSE job[j]]
  /\ \E order \in SetToSeqs(Aborted) :
       Then(c, FlattenSeq([i \in DOMAIN order |->
         (IF job[order[i]].state = "started" THEN Locked(<<<<"release", order[i]>>>>)
          ELSE <<>>) \o <<<<"relink", order[i]>>, <<"destroy", order[i]>>>>]))
  /\ UNCHANGED <<queue, timer, lock, phase>>

\* The job goes back to the list of used jobs, without the soft job lock.
Relink(c, j) ==
  /\ At(c, "relink", j) /\ Then(c, <<>>)
  /\ UNCHANGED <<job, queue, timer, lock, phase>>

\* The rest of _mali_ukk_close, once no GP or PP job and no sync fence is left that
\* a soft job waits for.
Finish(c) ==
  /\ At(c, "finish", NoJob)
  /\ Idle("deps") /\ \A j \in Jobs : job[j].need # "external"
  /\ phase' = "closed" /\ Then(c, <<>>)
  /\ UNCHANGED <<job, queue, timer, lock>>

CallOn(c, j) ==
  \/ Destroy(c, j) \/ FreeJob(c, j) \/ Release(c, j) \/ Activate(c, j)
  \/ Start(c, j) \/ AddTracker(c, j) \/ WaitActivated(c, j)
  \/ ReleaseWaiter(c, j) \/ TimeOutJob(c, j) \/ ClearTimer(c, j) \/ Relink(c, j)

Step(c) ==
  \/ \E j \in Jobs : CallOn(c, j)
  \/ Unlock(c) \/ UpdateOldestPoint(c) \/ UpdateDelayedWork(c)
  \/ TimerCallback(c) \/ DisableTimer(c) \/ CancelWork(c) \/ Abort(c) \/ Finish(c)

Next ==
  \/ \E c \in Contexts : Lock(c) \/ Step(c)
  \/ \E c \in Threads : Create(c) \/ Signal(c)
  \/ DependencyDone \/ Tick \/ Fire \/ Close

Spec == Init /\ [][Next]_vars

\* Every context runs, the lock is granted in the end, time passes, delayed work is
\* run, and what a job depends on ends.  User space need not start or signal.
Fairness ==
  /\ \A c \in Contexts : WF_vars(Step(c)) /\ SF_vars(Lock(c))
  /\ WF_vars(Tick) /\ WF_vars(Fire) /\ WF_vars(DependencyDone)

FairSpec == Spec /\ Fairness
-----------------------------------------------------------------------------
\* Where in the contexts' stacks op is called for j.
Calls(op, j) ==
  UNION {{<<c, i>> : i \in {k \in DOMAIN stack[c] : stack[c][k] = <<op, j>>}} : c \in Contexts}

JobCalls ==
  {"destroy", "free", "release", "activate", "start", "add", "wait", "satisfy",
   "time_out", "clear", "relink"}

\* The fields have their types; a job has at most two references, the one of its
\* creation and the one the timer takes.
TypeOK ==
  /\ job \in [Jobs ->
       [state : {"free", "allocated", "started", "signaled", "timed_out"},
        type : {"user", "self"}, refs : 0 .. 2, activated : BOOLEAN,
        need : Needs \cup {"none"}, timed : BOOLEAN, age : 0 .. Timeout]]
  /\ queue \in Seq(Jobs)
  /\ armed \in BOOLEAN /\ enabled \in BOOLEAN
  /\ work \in [pending : BOOLEAN, due : 0 .. Timeout]
  /\ lock \in Contexts \cup {"nobody"}
  /\ \A c \in Contexts : stack[c] \in Seq((JobCalls \X Jobs) \cup
       ({"lock", "unlock", "oldest", "delayed", "expire", "disable", "cancel",
         "abort", "finish"} \X {NoJob}))
  /\ phase \in {"open", "aborting", "closed"}

\* Every reference of a job is owed exactly one destroy: by a call some context is
\* bound to make or, for one of them, by whoever claims a job that is not signalled
\* yet.  So no job is freed early, none is leaked.
RefsExact ==
  \A j \in Jobs :
    LET owed == Cardinality(Calls("destroy", j)) IN
    /\ job[j].refs \in {owed, owed + 1}
    /\ job[j].refs > owed => job[j].state \in {"allocated", "started", "timed_out"}
    /\ job[j].state \in {"started", "timed_out"} /\ phase = "open" =>
         job[j].refs = owed + 1

\* Whatever a context is still to do with a job, the job is not freed; one context
\* frees it, after all others are done with it.  The timer callback's last write is
\* left out here.
NoUseAfterFree ==
  \A j \in Jobs : \A op \in JobCalls \ {"clear"} :
    Calls(op, j) # {} => job[j].state # "free" /\ (job[j].refs = 0 => op = "free")

\* "Soft jobs are reference counted to prevent premature deletion", for that write.
TimerWriteSafe ==
  \A j \in Jobs : At("timer", "clear", j) => job[j].state # "free"

\* A job leaves its timeline once: nobody releases a tracker that is not on it, and
\* no two contexts are about to release the same one.
ReleasedOnce ==
  \A j \in Jobs :
    /\ Cardinality(Calls("release", j)) <= 1
    /\ Calls("release", j) # {} /\ Calls("wait", j) = {} =>
         j \in ToSet(queue) /\ job[j].need = "none"
    /\ j \in ToSet(queue) => job[j].state # "free"

\* The assertion in mali_soft_job_system_abort: it finds only started and timed out
\* jobs.  An activation that had seen the session open is over, since the timer was
\* stopped under the timeline lock.
AbortFindsNoSignaled ==
  At("closer", "abort", NoJob) =>
    \A j \in Jobs : job[j].state \in {"free", "started", "timed_out"}

\* The assertions in mali_soft_job_system_timeout_job.
TimeOutOfActivated ==
  \A j \in Jobs : At("timer", "time_out", j) =>
    job[j].activated /\ job[j].state \in {"started", "signaled"}

\* No assertion of mali_soft_job.c fails, whatever races with the timer or with close.
AssertionsHold == AbortFindsNoSignaled /\ TimeOutOfActivated

\* After close nothing is left: no job, no tracker, no work, no held lock.
ClosedIsEmpty ==
  phase = "closed" =>
    /\ \A j \in Jobs : job[j].state = "free"
    /\ queue = <<>> /\ ~work.pending /\ lock = "nobody"
    /\ \A c \in Contexts : Idle(c)

\* A thread that signals a job returns, and so does every other ioctl.
IoctlsReturn == \A c \in Threads : ~Idle(c) ~> Idle(c)

\* Closing a session ends.
CloseEnds == phase = "aborting" ~> phase = "closed"

\* "In order to guarantee that every soft job is completed, we also have a timer":
\* an activated job that nobody signals is timed out.
TimedOutInTheEnd ==
  \A j \in Jobs :
    job[j].state = "started" /\ job[j].activated ~>
      ~(job[j].state = "started" /\ job[j].activated)
=============================================================================
