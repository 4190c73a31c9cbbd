------------------------------- MODULE Scheduler -------------------------------
(***************************************************************************)
(* The job queues of the driver (mali_scheduler.c) and the GP and PP jobs  *)
(* in them (mali_gp_job.c, mali_pp_job.c), from the ioctl that starts a    *)
(* job to the deletion of the job object, with the closing of a session.   *)
(*                                                                         *)
(* A job is tracked by the timeline system until its fence is honoured,    *)
(* then queued (PP jobs with dma-buf memory by a worker), taken by the     *)
(* executor one sub job at a time, completed, and deleted (PP jobs by a    *)
(* worker).  Of the timeline system only its contract is kept: a tracker   *)
(* that was added is activated once, when no GP job holds a reference on   *)
(* it.  Of the executor only what it does to jobs is kept; its groups are  *)
(* the subject of the module Executor.                                     *)
(*                                                                         *)
(* The scheduler's and the executor's counters of a PP job are atomic but  *)
(* under different locks.  With Races, a session's abort may run between   *)
(* the steps of a completion and the other way round.                      *)
(***************************************************************************)
EXTENDS Integers, Sequences, FiniteSets, SequencesExt, FiniteSetsExt

CONSTANTS
  Sessions,     \* open files of the driver
  GpJobs, PpJobs,
  Threads,      \* threads that call _mali_ukk_pending_submit
  PpCores,      \* physical PP groups
  None,
  Session,      \* the session of each job
  Partner,      \* of a GP job: a PP job submitted with it if at all, or None
  SubJobs,      \* of a PP job: its number of sub jobs
  Virtual,      \* PP jobs for the virtual group; they have one sub job
  Protected,    \* PP jobs that need the secure mode of the GPU
  DmaBuf,       \* PP jobs with memory cookies
  SwapFails,    \* PP jobs whose memory could not be swapped in
  Silent,       \* PP jobs with the no-notification flag
  Big,          \* GP jobs that bind much varying memory
  MaxPending,   \* MALI_MAX_PENDING_BIG_JOB
  FirstId, IdMod, IdSpan, \* job ids wrap at IdMod; MALI_SCHEDULER_JOB_ID_SPAN
  FenceFails,   \* whether the dma fences of a PP job may not be set up
  Zaps,         \* whether unmapping memory may meet a job in a page fault
  Races,
  MayClose,     \* bound: the sessions that may be closed
  MayRaise      \* bound: the sessions that may ask for high priority

Jobs == GpJobs \cup PpJobs
Groups == {"gp", "virtual"} \cup PpCores
Priorities == {"normal", "high"}

ASSUME JobsAssumption ==
  GpJobs \cap PpJobs = {} /\ Virtual \cup DmaBuf \cup Protected \subseteq PpJobs
ASSUME NoneAssumption ==
  /\ None \notin Jobs \cup Sessions \cup Groups
  /\ None \notin [job : PpJobs, step : {"release", "check"}]
ASSUME SubJobsAssumption ==
  /\ SubJobs \in [PpJobs -> Nat \ {0}] /\ \A j \in Virtual : SubJobs[j] = 1
  /\ Session \in [Jobs -> Sessions]
ASSUME PartnerAssumption == Partner \in [GpJobs -> PpJobs \cup {None}]
ASSUME CoresAssumption == IsFiniteSet(PpCores) /\ PpCores \cap {"gp", "virtual"} = {}
ASSUME FiniteAssumption == IsFiniteSet(Jobs)   \* job objects are memory
ASSUME IdAssumption == IdMod \in Nat /\ IdSpan \in 1..IdMod /\ FirstId \in 0..(IdMod - 1)

VARIABLES
  job,      \* the job objects
  numbered, \* how many job ids were handed out
  gp, pp,   \* job_queue_gp and job_queue_pp: their lists by priority
  depth,    \* their depths
  bigNum,   \* job_queue_gp.big_job_num
  mapping,  \* list of the deferred queue worker
  deferred, \* scheduler_pp_job_queue_list
  removed,  \* jobs abort_session took off the queues and has yet to complete
  ending,   \* jobs the executor is done with and has yet to complete
  deleting, \* scheduler_pp_job_deletion_queue
  running,  \* the job each group works for
  done,     \* the completion that holds the executor lock
  lock,     \* the session whose abort holds the scheduler lock
  session,  \* the sessions
  devRefs,  \* references on the powered device
  thread    \* callers of pending_submit

queues == <<gp, pp, depth, bigNum>>
lists == <<mapping, deferred, removed, ending, deleting>>
vars == <<job, numbered, queues, lists, running, done, lock, session, devRefs, thread>>

NewJob ==
  [at |-> "none", nr |-> 0, started |-> 0, completed |-> 0,
   held |-> FALSE, error |-> FALSE, released |-> 0, ended |-> 0, told |-> 0,
   notify |-> FALSE, fb |-> FALSE, wb |-> TRUE]

Init ==
  /\ job = [j \in Jobs |-> NewJob] /\ numbered = 0
  /\ gp = [p \in Priorities |-> <<>>] /\ pp = [p \in Priorities |-> <<>>]
  /\ depth = [gp |-> 0, pp |-> 0] /\ bigNum = 0
  /\ mapping = <<>> /\ deferred = <<>> /\ removed = {} /\ ending = {} /\ deleting = {}
  /\ running = [g \in Groups |-> None] /\ done = None /\ lock = None
  /\ session = [s \in Sessions |-> [phase |-> "open", high |-> FALSE]]
  /\ devRefs = 0
  /\ thread = [t \in Threads |-> "out"]

--------------------------------------------------------------------------------
(* Jobs *)

Num(j) == IF j \in PpJobs THEN SubJobs[j] ELSE 1
Unstarted(j) == Num(j) - job[j].started
IsComplete(j) == job[j].completed = Num(j)

\* The sub jobs of the jobs in S that have not started.
Waiting(S) == UNION {{j} \X ((job[j].started + 1)..Num(j)) : j \in S}
Aborting(j) == session[Session[j]].phase # "open"

\* mark_unstarted_failed: the sub jobs that did not start are over.  (The count of
\* failed sub jobs only makes up the status the user is told.)
MarkUnstartedFailed(r, n) ==
  [r EXCEPT !.started = n, !.completed = @ + (n - r.started)]

\* Job ids are numbers modulo IdMod; an id is after those of the last IdSpan jobs.
Id(j) == (FirstId + job[j].nr) % IdMod
IsAfter(j, i) == (Id(j) - Id(i)) % IdMod < IdSpan

\* list_add goes through the list from its end and stops behind the first job
\* that must stay in front.
InsertBehind(list, j, Stops(_)) ==
  LET stops == {n \in 1..Len(list) : Stops(list[n])}
  IN  InsertAt(list, (IF stops = {} THEN 0 ELSE Max(stops)) + 1, j)

\* Mutant: a job may be put in front of one that has started.
PpListAdd_Order(list, j) == InsertBehind(list, j, LAMBDA i : IsAfter(j, i))

GpListAdd(list, j) == InsertBehind(list, j, LAMBDA i : IsAfter(j, i))
PpListAdd(list, j) ==
  InsertBehind(list, j, LAMBDA i : job[i].started > 0 \/ IsAfter(j, i))

\* _mali_osk_list_delinit of the jobs in S: the k-th job that is left is the one with
\* k - 1 such jobs in front of it.
Without(list, S) ==
  LET left == {n \in 1..Len(list) : list[n] \notin S}
      Nth(k) == CHOOSE n \in left : Cardinality(left \cap (1..n)) = k
  IN  [k \in 1..Cardinality(left) |-> list[Nth(k)]]

\* A GP job submitted together with a PP job holds the tracker of that one.
Holds(js, g) == Partner[g] # None /\ js[Partner[g]].held

\* Mutant: a GP job that fails keeps its reference on the tracker.
SignalPpTracker_OnSuccess(js, g, failed) ==
  IF failed \/ ~Holds(js, g) THEN js ELSE [js EXCEPT ![Partner[g]].held = FALSE]

\* The PP job whose tracker a GP job holds is one reference closer to running;
\* it will run into an error if the GP job failed (signal_pp_tracker).
SignalPpTracker(js, g, failed) ==
  LET p == js[Partner[g]]
  IN  IF ~Holds(js, g) THEN js
      ELSE [js EXCEPT ![Partner[g]] = [p EXCEPT !.held = FALSE, !.error = p.error \/ failed]]

\* The object of a deleted job is free; what happened to the job is kept.
Deleted(r, told) ==
  [NewJob EXCEPT !.at = "deleted", !.released = r.released, !.ended = r.ended,
                 !.notify = r.notify, !.told = r.told + (IF told THEN 1 ELSE 0),
                 !.held = r.held, !.fb = r.fb]

\* complete_gp_job and complete_pp_job: the user hears of a GP job here, of a PP
\* job when the worker deletes it.
Complete(js, j, notify) ==
  LET over == [js[j] EXCEPT !.at = "deleting", !.ended = @ + 1, !.notify = notify]
  IN  [js EXCEPT ![j] = IF j \in GpJobs THEN Deleted(over, notify) ELSE over]

\* The tracker of a job that does not run is released, the PP job that waits for it is
\* told, and the job is completed.
Cancelled(js, j, notify) ==
  LET n == js[j].released + 1
      released == [js EXCEPT ![j].released = n]
      signalled == IF j \in GpJobs THEN SignalPpTracker(released, j, TRUE) ELSE released
  IN  Complete(signalled, j, notify)

CompleteToList(j) == deleting' = IF j \in PpJobs THEN deleting \cup {j} ELSE deleting

--------------------------------------------------------------------------------
(* Starting jobs *)

Fresh(j) == job[j].at = "none" /\ session[Session[j]].phase = "open"

\* _mali_ukk_gp_start_job for a GP job on its own: created and added to the
\* timeline system.
GpStartJob(j) ==
  /\ Fresh(j)
  /\ numbered' = numbered + 1
  /\ job' = [job EXCEPT ![j].at = "tracked", ![j].nr = numbered + 1]
  /\ UNCHANGED <<queues, lists, running, done, lock, session, devRefs, thread>>

\* _mali_ukk_pp_start_job creates the job; Submission is its second half.
PpStartJob(j) ==
  /\ Fresh(j) /\ \A g \in GpJobs : Partner[g] # j
  /\ numbered' = numbered + 1
  /\ job' = [job EXCEPT ![j].at = "created", ![j].nr = numbered + 1]
  /\ UNCHANGED <<queues, lists, running, done, lock, session, devRefs, thread>>

\* _mali_ukk_pp_and_gp_start_job: the GP job takes a reference on the tracker of
\* the PP job and is submitted first.  If it cannot be created, the PP job is
\* deleted again.
PpAndGpStartJob(g, created) ==
  LET p == Partner[g] IN
  /\ Fresh(g) /\ p # None /\ Fresh(p)
  /\ numbered' = numbered + 2
  /\ job' = IF created
            THEN [job EXCEPT ![p].at = "created", ![p].nr = numbered + 1, ![p].held = TRUE,
                             ![g].at = "tracked", ![g].nr = numbered + 2]
            ELSE [job EXCEPT ![p].at = "deleted", ![g].at = "deleted"]
  /\ UNCHANGED <<queues, lists, running, done, lock, session, devRefs, thread>>

\* submit_pp_job: the job is known to its frame builder, under the scheduler lock,
ListPpJob(j) ==
  /\ job[j].at = "created" /\ ~job[j].fb /\ lock = None
  /\ job' = [job EXCEPT ![j].fb = TRUE]
  /\ UNCHANGED <<numbered, queues, lists, running, done, lock, session, devRefs, thread>>

\* and added to the timeline system; or, when its dma fences cannot be set up, taken off
\* that list without the lock and forgotten by everybody.
SubmitPpJob(j, fences) ==
  /\ job[j].at = "created" /\ job[j].fb
  /\ fences \/ (FenceFails /\ j \in DmaBuf)
  /\ job' = IF fences THEN [job EXCEPT ![j].at = "tracked"]
            ELSE [job EXCEPT ![j].at = "leaked", ![j].fb = FALSE]
  /\ UNCHANGED <<numbered, queues, lists, running, done, lock, session, devRefs, thread>>

Submission(j) == ListPpJob(j) \/ \E fences \in BOOLEAN : SubmitPpJob(j, fences)

--------------------------------------------------------------------------------
(* Activation by the timeline system *)

Priority(j) == IF session[Session[j]].high THEN "high" ELSE "normal"

\* queue_gp_job and queue_pp_job refuse the jobs of a session that closes.
Accepted(j) == ~Aborting(j) /\ j \notin SwapFails

QueueJob(j) ==
  /\ IF j \in GpJobs
     THEN /\ gp' = [gp EXCEPT ![Priority(j)] = GpListAdd(@, j)]
          /\ depth' = [depth EXCEPT !.gp = @ + 1]
          /\ bigNum' = bigNum + (IF j \in Big THEN 1 ELSE 0)
          /\ UNCHANGED pp
     ELSE /\ pp' = [pp EXCEPT ![Priority(j)] = PpListAdd(@, j)]
          /\ depth' = [depth EXCEPT !.pp = @ + Num(j)]
          /\ UNCHANGED <<gp, bigNum>>
  /\ job' = [job EXCEPT ![j].at = "queued"]
  /\ devRefs' = devRefs + 1
  /\ UNCHANGED deleting

\* A job that is not queued: its tracker is released and it is completed with an
\* error.
RefuseJob(j) ==
  LET failed == MarkUnstartedFailed(job[j], Num(j))
  IN  /\ job' = Cancelled([job EXCEPT ![j] = [failed EXCEPT !.fb = FALSE]], j, TRUE)
      /\ CompleteToList(j)
      /\ UNCHANGED <<queues, devRefs>>

\* activate_gp_job and activate_pp_job.  "error" tells of a fence the job waited
\* for that failed; only PP jobs care.
Activate(j, error) ==
  /\ job[j].at = "tracked" /\ ~job[j].held /\ lock = None
  /\ error => j \in PpJobs
  /\ IF j \in PpJobs /\ (error \/ job[j].error)
     THEN RefuseJob(j) /\ UNCHANGED deferred
     ELSE IF j \in DmaBuf
     THEN /\ job' = [job EXCEPT ![j].at = "deferred"]
          /\ deferred' = Append(deferred, j)
          /\ UNCHANGED <<queues, devRefs, deleting>>
     ELSE (IF Accepted(j) THEN QueueJob(j) ELSE RefuseJob(j)) /\ UNCHANGED deferred
  /\ UNCHANGED <<numbered, mapping, removed, ending, running, done, lock, session, thread>>

\* do_pp_job_queue unhooks the list, maps the memory of its jobs without a lock,
DeferredTake ==
  /\ deferred # <<>> /\ mapping = <<>>
  /\ mapping' = deferred /\ deferred' = <<>>
  /\ UNCHANGED <<job, numbered, queues, removed, ending, deleting, running, done, lock,
                 session, devRefs, thread>>

\* and then queues them, or completes them as activate_pp_job does.
DeferredQueue ==
  /\ mapping # <<>> /\ lock = None
  /\ mapping' = Tail(mapping)
  /\ IF Accepted(Head(mapping)) THEN QueueJob(Head(mapping)) ELSE RefuseJob(Head(mapping))
  /\ UNCHANGED <<numbered, deferred, removed, ending, running, done, lock, session, thread>>

--------------------------------------------------------------------------------
(* The executor takes jobs *)

\* A partly started job is at the head of its list.
PartlyStarted == pp["normal"] # <<>> /\ job[Head(pp["normal"])].started > 0

\* job_pp_next
PpNext ==
  CASE PartlyStarted -> Head(pp["normal"])
    [] ~PartlyStarted /\ pp["high"] # <<>> -> Head(pp["high"])
    [] ~PartlyStarted /\ pp["high"] = <<>> /\ pp["normal"] # <<>> -> Head(pp["normal"])
    [] OTHER -> None

\* job_pp_physical_peek
PhysicalPeek ==
  LET low == IF pp["normal"] # <<>> /\ Head(pp["normal"]) \notin Virtual
             THEN Head(pp["normal"]) ELSE None
  IN  IF (low = None \/ job[low].started = 0)
         /\ pp["high"] # <<>> /\ Head(pp["high"]) \notin Virtual
      THEN Head(pp["high"]) ELSE low

\* job_pp_virtual_peek
VirtualPeek ==
  LET heads == {p \in Priorities : pp[p] # <<>> /\ Head(pp[p]) \in Virtual}
  IN  CASE "high" \in heads -> Head(pp["high"])
        [] heads = {"normal"} -> Head(pp["normal"])
        [] OTHER -> None

\* job_physical_head_count: the sub jobs of a partly started job, then those in
\* front of the first job of another kind.  Eight of them keep all groups busy;
\* instances are smaller than that.
PhysicalHeadCount(secure) ==
  LET fits(j) == j \notin Virtual /\ (j \in Protected) = secure
      first == IF PartlyStarted /\ fits(Head(pp["normal"])) THEN {Head(pp["normal"])} ELSE {}
      order == pp["high"] \o pp["normal"]
      stops == {n \in 1..Len(order) : \/ ~fits(order[n])
                                      \/ n > Len(pp["high"]) /\ job[order[n]].started > 0}
      upto == IF stops = {} THEN Len(order) ELSE Min(stops) - 1
  IN  Cardinality(Waiting(first \cup {order[n] : n \in 1..upto}))

\* Mutant: only PP groups are looked at.
MayStart_PpOnly ==
  LET working == {running[g] : g \in Groups \ {"gp"}} \ {None}
  IN  IF PpNext \in Protected THEN working \subseteq Protected ELSE working \cap Protected = {}

\* schedule_is_early_out: jobs in the secure mode and others do not run together.
SecureNeeded == PpNext \in Protected
MayStart ==
  LET working == {running[g] : g \in Groups \ {"gp"}} \ {None}
      protected == working \cap Protected # {}
      other == IF working # {} THEN ~protected ELSE running["gp"] # None
  IN  IF SecureNeeded THEN ~other ELSE ~protected

\* The executor looks at the queues under both locks.
MaySchedule == done = None /\ lock = None /\ MayStart

\* job_gp_get: the first job of high priority, else of normal priority.  Who
\* waits for fewer pending big jobs is woken up.
GpGet ==
  LET p == IF gp["high"] # <<>> THEN "high" ELSE "normal"
      j == Head(gp[p])
      left == bigNum - (IF j \in Big THEN 1 ELSE 0)
  IN  /\ MaySchedule /\ ~SecureNeeded
      /\ running["gp"] = None /\ depth.gp > 0
      /\ gp' = [gp EXCEPT ![p] = Tail(@)] /\ depth' = [depth EXCEPT !.gp = @ - 1]
      /\ bigNum' = left
      /\ thread' = IF j \in Big /\ left < MaxPending
                   THEN [t \in Threads |-> IF thread[t] = "asleep" THEN "woken" ELSE thread[t]]
                   ELSE thread
      /\ job' = [job EXCEPT ![j].at = "taken", ![j].started = 1]
      /\ running' = [running EXCEPT !["gp"] = j]
      /\ UNCHANGED <<numbered, pp, lists, done, lock, session, devRefs>>

\* A sub job starts: the job leaves its queue with the last one, and its
\* writeback can no longer be discarded.
TakeSubJob(j, g) ==
  LET last == Unstarted(j) = 1
  IN  /\ pp' = IF last THEN [p \in Priorities |-> Without(pp[p], {j})] ELSE pp
      /\ depth' = [depth EXCEPT !.pp = @ - 1]
      /\ job' = [job EXCEPT ![j].started = @ + 1, ![j].fb = FALSE,
                            ![j].at = IF last THEN "taken" ELSE @]
      /\ running' = [running EXCEPT ![g] = j]
      /\ UNCHANGED <<numbered, gp, bigNum, lists, done, lock, session, devRefs, thread>>

\* job_pp_physical_get
PpPhysicalGet(g) ==
  /\ MaySchedule /\ running[g] = None /\ PhysicalHeadCount(SecureNeeded) > 0
  /\ TakeSubJob(PhysicalPeek, g)

\* job_pp_virtual_get
PpVirtualGet ==
  /\ MaySchedule /\ running["virtual"] = None /\ VirtualPeek # None
  /\ (VirtualPeek \in Protected) = SecureNeeded
  /\ TakeSubJob(VirtualPeek, "virtual")

--------------------------------------------------------------------------------
(* The executor completes jobs *)

Quiet == Races \/ (done = None /\ ending = {})

\* A group finished: complete_gp releases the tracker of the job and signals the
\* PP job that waits for it.
GpComplete(success, notify) ==
  LET j == running["gp"]
      finished == [job EXCEPT ![j].completed = 1,
                              ![j].released = @ + 1, ![j].notify = notify]
  IN  /\ j # None /\ done = None
      /\ running' = [running EXCEPT !["gp"] = None]
      /\ job' = SignalPpTracker(finished, j, ~success)
      /\ ending' = ending \cup {j}

\* complete_pp counts the sub job under the executor lock,
PpMark(g, notify) ==
  LET j == running[g]
  IN  /\ g # "gp" /\ j # None /\ done = None
      /\ Races \/ lock = None
      /\ running' = [running EXCEPT ![g] = None]
      /\ job' = [job EXCEPT ![j].completed = @ + 1, ![j].notify = notify]
      /\ done' = [job |-> j, step |-> "release"]

\* Mutant: the tracker is released with every sub job.
PpRelease_EachSubJob ==
  /\ done # None /\ done.step = "release"
  /\ job' = [job EXCEPT ![done.job].released = @ + 1]
  /\ done' = [done EXCEPT !.step = "check"]
  /\ UNCHANGED <<numbered, queues, lists, running, lock, session, devRefs, thread>>

\* then releases the tracker if that was the last one,
PpRelease ==
  LET j == done.job
  IN  /\ done # None /\ done.step = "release"
      /\ job' = IF IsComplete(j) THEN [job EXCEPT ![j].released = @ + 1] ELSE job
      /\ done' = [done EXCEPT !.step = "check"]
      /\ UNCHANGED <<numbered, queues, lists, running, lock, session, devRefs, thread>>

\* and complete_group asks once more whether the job is complete.
PpCheck ==
  /\ done # None /\ done.step = "check"
  /\ ending' = IF IsComplete(done.job) THEN ending \cup {done.job} ELSE ending
  /\ done' = None
  /\ UNCHANGED <<job, numbered, queues, mapping, deferred, removed, deleting, running, lock,
                 session, devRefs, thread>>

\* The interrupt handlers tell the user; mali_executor_zap_all_active tells of a
\* GP job only.
GroupDone(g, success, zapped) ==
  /\ zapped => Zaps /\ ~success
  /\ success \/ zapped \/ g = "gp" \* failed sub jobs differ in the status only
  /\ IF g = "gp" THEN GpComplete(success, TRUE) /\ UNCHANGED done
     ELSE PpMark(g, ~zapped) /\ UNCHANGED ending
  /\ UNCHANGED <<numbered, queues, mapping, deferred, removed, deleting, lock, session,
                 devRefs, thread>>

\* complete_gp_job or complete_pp_job, after the executor lock is released.
EndJob(j) ==
  /\ j \in ending
  /\ ending' = ending \ {j}
  /\ job' = Complete(job, j, job[j].notify)
  /\ CompleteToList(j)
  /\ devRefs' = devRefs - 1
  /\ UNCHANGED <<numbered, queues, mapping, deferred, removed, running, done, lock, session,
                 thread>>

\* do_pp_job_delete: the user hears of a PP job when its object is deleted.
DeletePpJob(j) ==
  /\ j \in deleting
  /\ deleting' = deleting \ {j}
  /\ job' = [job EXCEPT ![j] = Deleted(@, job[j].notify /\ j \notin Silent)]
  /\ UNCHANGED <<numbered, queues, mapping, deferred, removed, ending, running, done, lock,
                 session, devRefs, thread>>

--------------------------------------------------------------------------------
(* Closing a session: _mali_ukk_close *)

JobsOf(s) == {j \in Jobs : Session[j] = s}

Enter(s, from, to) ==
  session[s].phase = from /\ session' = [session EXCEPT ![s].phase = to]

\* The file is released when no ioctl uses it any more.
Close(s) ==
  /\ s \in MayClose /\ \A j \in JobsOf(s) : job[j].at # "created"
  /\ Enter(s, "open", "aborting")
  /\ UNCHANGED <<job, numbered, queues, lists, running, done, lock, devRefs, thread>>

\* abort_session, under the scheduler lock: the session's jobs leave the queues.
\* What the PP jobs have not started counts as failed.
AbortMark(s) ==
  LET G == JobsOf(s) \cap UNION {ToSet(gp[p]) : p \in Priorities}
      P == JobsOf(s) \cap UNION {ToSet(pp[p]) : p \in Priorities}
  IN  /\ lock = None /\ Quiet
      /\ Enter(s, "aborting", "marked") /\ lock' = s
      /\ gp' = [p \in Priorities |-> Without(gp[p], G)]
      /\ pp' = [p \in Priorities |-> Without(pp[p], P)]
      /\ depth' = [gp |-> depth.gp - Cardinality(G),
                   pp |-> depth.pp - Cardinality(Waiting(P))]
      /\ bigNum' = bigNum - Cardinality(G \cap Big)
      /\ job' = [j \in Jobs |->
           CASE j \in G -> [job[j] EXCEPT !.at = "removed"]
             [] j \in P -> [MarkUnstartedFailed(job[j], Num(j)) EXCEPT !.fb = FALSE, !.at = "marked"]
             [] OTHER -> job[j]]
      /\ removed' = removed \cup G
      /\ UNCHANGED <<numbered, mapping, deferred, ending, deleting, running, done, devRefs, thread>>

\* Those that are complete now are completed by the abort, the others by the
\* executor when their last sub job ends.
AbortCheck(s) ==
  LET M == {j \in JobsOf(s) : job[j].at = "marked"}
  IN  /\ lock = s /\ Enter(s, "marked", "removing") /\ lock' = None
      /\ removed' = removed \cup {j \in M : IsComplete(j)}
      /\ job' = [j \in Jobs |->
           IF j \in M THEN [job[j] EXCEPT !.at = IF IsComplete(j) THEN "removed" ELSE "taken"]
           ELSE job[j]]
      /\ UNCHANGED <<numbered, queues, mapping, deferred, ending, deleting, running, done,
                     devRefs, thread>>

\* Without the lock: the removed jobs release their trackers and are completed;
\* the user is not told.
AbortJob(j) ==
  /\ j \in removed /\ session[Session[j]].phase = "removing"
  /\ removed' = removed \ {j}
  /\ job' = Cancelled(job, j, FALSE)
  /\ CompleteToList(j)
  /\ devRefs' = devRefs - 1
  /\ UNCHANGED <<numbered, queues, mapping, deferred, ending, running, done, lock, session,
                 thread>>

AbortRunning(s) ==
  /\ removed \cap JobsOf(s) = {} /\ Enter(s, "removing", "executor")
  /\ UNCHANGED <<job, numbered, queues, lists, running, done, lock, devRefs, thread>>

\* mali_executor_abort_session stops the groups that work for the session.
AbortGroup(s, g) ==
  /\ session[s].phase = "executor" /\ running[g] \in JobsOf(s)
  /\ IF g = "gp" THEN GpComplete(FALSE, FALSE) /\ UNCHANGED done
     ELSE PpMark(g, FALSE) /\ UNCHANGED ending
  /\ UNCHANGED <<numbered, queues, mapping, deferred, removed, deleting, lock, session,
                 devRefs, thread>>

\* It completes their jobs itself before it lets go of the executor lock.
AbortTimeline(s) ==
  /\ done = None /\ \A g \in Groups : running[g] \notin JobsOf(s)
  /\ \A j \in ending \cap JobsOf(s) : job[j].notify
  /\ Enter(s, "executor", "timeline")
  /\ UNCHANGED <<job, numbered, queues, lists, running, done, lock, devRefs, thread>>

\* mali_timeline_system_abort returns when the timelines are empty,
TimelineEmpty(s) ==
  /\ \A j \in JobsOf(s) : job[j].at \in {"none", "leaked", "deleted"} \/ job[j].released > 0
  /\ Enter(s, "timeline", "flushing")
  /\ UNCHANGED <<job, numbered, queues, lists, running, done, lock, devRefs, thread>>

\* _mali_osk_wq_flush when the workers have nothing left to do; then the session
\* is freed.
Closed(s) ==
  /\ Quiet /\ deleting = {} /\ deferred = <<>> /\ mapping = <<>>
  /\ Enter(s, "flushing", "closed")
  /\ UNCHANGED <<job, numbered, queues, lists, running, done, lock, devRefs, thread>>

--------------------------------------------------------------------------------
(* The other requests of a user *)

\* _mali_ukk_request_high_priority
RequestHighPriority(s) ==
  /\ s \in MayRaise /\ session[s].phase = "open" /\ ~session[s].high
  /\ session' = [session EXCEPT ![s].high = TRUE]
  /\ UNCHANGED <<job, numbered, queues, lists, running, done, lock, devRefs, thread>>

\* Mutant: jobs that have started are found as well.
IsListed_Started(j) == job[j].at \notin {"none", "created", "leaked", "deleting", "deleted"}

\* A PP job is in the list of its frame builder from its submission to the start of its
\* first sub job.
IsListed(j) == job[j].fb

\* _mali_ukk_pp_job_disable_wb discards the output of a frame builder's jobs.
DisableWb(s) ==
  LET found == {j \in JobsOf(s) \cap PpJobs : IsListed(j) /\ job[j].wb}
  IN  /\ session[s].phase = "open" /\ lock = None /\ found # {}
      /\ job' = [j \in Jobs |-> IF j \in found THEN [job[j] EXCEPT !.wb = FALSE] ELSE job[j]]
      /\ UNCHANGED <<numbered, queues, lists, running, done, lock, session, devRefs, thread>>

\* _mali_ukk_pending_submit sleeps while too many big jobs are queued.
PendingSubmit(t) ==
  /\ thread[t] \in {"out", "woken"}
  /\ thread' = [thread EXCEPT ![t] = IF bigNum < MaxPending THEN "out" ELSE "asleep"]
  /\ thread' # thread
  /\ UNCHANGED <<job, numbered, queues, lists, running, done, lock, session, devRefs>>

\* A signal ends the sleep.
Interrupted(t) ==
  /\ thread[t] = "asleep"
  /\ thread' = [thread EXCEPT ![t] = "out"]
  /\ UNCHANGED <<job, numbered, queues, lists, running, done, lock, session, devRefs>>

--------------------------------------------------------------------------------

Start ==
  \/ \E j \in GpJobs : GpStartJob(j)
  \/ \E j \in PpJobs : PpStartJob(j)
  \/ \E g \in GpJobs, created \in BOOLEAN : PpAndGpStartJob(g, created)
  \/ \E j \in PpJobs : Submission(j)

Workers ==
  \/ \E j \in Jobs, error \in BOOLEAN : Activate(j, error)
  \/ DeferredTake \/ DeferredQueue
  \/ \E j \in PpJobs : DeletePpJob(j)

Execute ==
  \/ GpGet \/ PpVirtualGet
  \/ \E g \in PpCores : PpPhysicalGet(g)
  \/ \E g \in Groups, success, zapped \in BOOLEAN : GroupDone(g, success, zapped)
  \/ PpRelease \/ PpCheck
  \/ \E j \in Jobs : EndJob(j)

Closing(s) ==
  \/ AbortMark(s) \/ AbortCheck(s) \/ AbortRunning(s) \/ AbortTimeline(s)
  \/ \E j \in JobsOf(s) : AbortJob(j)
  \/ \E g \in Groups : AbortGroup(s, g)
  \/ TimelineEmpty(s) \/ Closed(s)

Next ==
  \/ Start \/ Workers \/ Execute
  \/ \E s \in Sessions : Close(s) \/ Closing(s) \/ RequestHighPriority(s) \/ DisableWb(s)
  \/ \E t \in Threads : PendingSubmit(t) \/ Interrupted(t)

Spec == Init /\ [][Next]_vars

\* Workers, interrupts and the watchdog of a group make progress; so does a
\* thread that closes a file or was woken up.  Nobody has to submit or close, and
\* no fence has to fail.
Fairness ==
  /\ \A j \in PpJobs : WF_vars(Submission(j))
  /\ \A j \in Jobs : WF_vars(Activate(j, TRUE) \/ Activate(j, FALSE)) /\ WF_vars(EndJob(j))
  /\ WF_vars(DeferredTake) /\ WF_vars(DeferredQueue)
  /\ \A j \in PpJobs : WF_vars(DeletePpJob(j))
  /\ WF_vars(GpGet) /\ WF_vars(PpVirtualGet) /\ WF_vars(\E g \in PpCores : PpPhysicalGet(g))
  /\ \A g \in Groups : WF_vars(\E ok, zapped \in BOOLEAN : GroupDone(g, ok, zapped))
  /\ WF_vars(PpRelease) /\ WF_vars(PpCheck)
  /\ \A s \in Sessions : WF_vars(Closing(s))
  /\ \A t \in Threads : WF_vars(thread[t] = "woken" /\ PendingSubmit(t))

FairSpec == Spec /\ Fairness

--------------------------------------------------------------------------------
(* Properties *)

Places == {"none", "created", "tracked", "deferred", "queued", "taken", "marked", "removed",
           "deleting", "deleted", "leaked"}

TypeOK ==
  /\ job \in [Jobs -> [at : Places, nr : Nat, started : Nat, completed : Nat, held : BOOLEAN,
                       error : BOOLEAN, released : Nat, ended : Nat, told : Nat, notify : BOOLEAN, fb : BOOLEAN, wb : BOOLEAN]]
  /\ gp \in [Priorities -> Seq(GpJobs)] /\ pp \in [Priorities -> Seq(PpJobs)]
  /\ depth \in [gp : Nat, pp : Nat] /\ bigNum \in Nat /\ devRefs \in Nat
  /\ mapping \in Seq(DmaBuf) /\ deferred \in Seq(DmaBuf) /\ deleting \subseteq PpJobs
  /\ removed \subseteq Jobs /\ ending \subseteq Jobs
  /\ running \in [Groups -> Jobs \cup {None}]
  /\ done = None \/ (done.job \in PpJobs /\ done.step \in {"release", "check"})
  /\ lock \in Sessions \cup {None}
  /\ session \in [Sessions -> [phase : {"open", "aborting", "marked", "removing", "executor",
                                        "timeline", "flushing", "closed"}, high : BOOLEAN]]
  /\ thread \in [Threads -> {"out", "asleep", "woken"}]

Queued(q) == UNION {ToSet(q[p]) : p \in Priorities}

\* The depth and the number of big jobs that the executor and pending_submit read
\* are those of the lists, whatever was submitted, taken and aborted.
DepthsExact ==
  /\ depth.gp = Len(gp["normal"]) + Len(gp["high"])
  /\ bigNum = Cardinality(Queued(gp) \cap Big)
  /\ depth.pp = Cardinality(Waiting(Queued(pp)))
  /\ \A j \in PpJobs : j \in Queued(pp) <=> job[j].at = "queued"

\* Jobs of one queue run in the order in which they were submitted, although
\* they are activated in any order and ids wrap; only a job that has started may
\* have overtaken, and it is the first.
QueuesInOrder ==
  \A p \in Priorities :
    /\ \A a, b \in 1..Len(gp[p]) : a < b => job[gp[p][a]].nr < job[gp[p][b]].nr
    /\ \A a, b \in 1..Len(pp[p]) : a < b =>
         /\ job[pp[p][b]].started = 0
         /\ job[pp[p][a]].started > 0 \/ job[pp[p][a]].nr < job[pp[p][b]].nr

\* Every job is completed and every tracker released at most once, by exactly one
\* of the executor, the abort and the path that refuses it; the user hears of it
\* at most once.
CompletedOnce ==
  \A j \in Jobs : job[j].ended <= 1 /\ job[j].released <= 1 /\ job[j].told <= 1

\* The sub jobs on the groups are those that started and did not complete, and
\* nothing is completed while one of them runs.
SubJobsExact ==
  \A j \in Jobs :
    LET onGroups == Cardinality({g \in Groups : running[g] = j}) IN
    /\ onGroups = job[j].started - job[j].completed
    /\ job[j].at = "deleting" \/ j \in ending \cup removed =>
         onGroups = 0 /\ (j \in PpJobs => IsComplete(j))

\* One reference on the powered device per job from its queueing to its
\* completion: the GPU is not powered down under a job and not kept up for none.
DeviceHeldForJobs ==
  devRefs = Cardinality({j \in Jobs : job[j].at \in {"queued", "taken", "marked", "removed"}})

\* When a session is freed, no job, queue, list or group refers to it.
ClosedIsClean ==
  \A s \in Sessions : session[s].phase = "closed" =>
    \A j \in JobsOf(s) :
      /\ job[j].at \in {"none", "deleted", "leaked"} /\ ~job[j].fb
      /\ j \notin ending \cup removed \cup deleting

\* A protected PP job never shares the GPU with an unprotected PP job or with a
\* GP job.
SecureModesApart ==
  \A g, h \in Groups :
    running[g] \in Protected /\ running[h] # None => running[h] \in Protected

\* The user is told of every job that ended while the session was open, unless
\* the job asked for silence or was stopped by a zap of the executor.
ToldInTheEnd ==
  \A j \in Jobs :
    job[j].at = "deleted" /\ job[j].ended = 1 /\ job[j].notify /\ j \notin Silent
      => job[j].told = 1

\* The output of a job is not switched off once one of its sub jobs has started.
WritebackKept ==
  [][\A j \in PpJobs : job[j].started > 0 /\ job'[j].started > 0 => job'[j].wb = job[j].wb]_vars

\* Every submitted job is deleted in the end, except the one whose dma fences
\* could not be set up; every close returns.
JobsEnd ==
  \A j \in Jobs : job[j].at = "tracked" ~> job[j].at = "deleted"
CloseReturns ==
  \A s \in Sessions : session[s].phase = "aborting" ~> session[s].phase = "closed"

\* pending_submit sleeps only while too many big jobs are queued.
SleepersAreDue ==
  \A t \in Threads : thread[t] = "asleep" /\ bigNum < MaxPending ~> thread[t] = "out"

\* The queues hold what was submitted, in order, and the counts other components read
\* are those of the queues: mali_scheduler.c.
QueuesExact == TypeOK /\ DepthsExact /\ QueuesInOrder

\* Sub jobs, the tracker, the reference on the powered device and the notification of
\* every job are accounted for, whoever ended it, and nothing is left to a session that
\* is freed: mali_scheduler_complete_gp_job, _complete_pp_job, _abort_session.
JobsAccounted ==
  CompletedOnce /\ SubJobsExact /\ DeviceHeldForJobs /\ ToldInTheEnd /\ ClosedIsClean

\* Every submitted job ends, and every close of a session returns.
JobsAndClosesEnd == JobsEnd /\ CloseReturns

================================================================================
