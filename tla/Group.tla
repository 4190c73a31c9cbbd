--------------------------------- MODULE Group ---------------------------------
(***************************************************************************)
(* A group, that is a GP or PP core with its MMU, and what ends the job it *)
(* runs: interrupts of the core and of the MMU, each with an upper half    *)
(* and a bottom half on a work queue, the hang timer, user space that has  *)
(* no more heap memory for the GP, a session that is aborted.  Every       *)
(* handler runs under the executor lock and is a step here; between its    *)
(* unlock and the work it then schedules other handlers may run.  The next *)
(* job that mali_executor_schedule finds is the step Start.  Hardware:     *)
(* INT_STAT is INT_RAWSTAT under INT_MASK; a unit that has an error, a     *)
(* page fault or no heap stays active, and does not end, until that is     *)
(* dealt with.                                                             *)
(***************************************************************************)
EXTENDS Integers

CONSTANT MaxRuns   \* bound: jobs

VARIABLES
  kind,     \* "gp" or "pp"
  run,      \* number of the job that was started last
  working,  \* is_working
  units,    \* the units of the core that are active
  raw,      \* INT_RAWSTAT of the core
  mask,     \* INT_MASK of the core
  mmu,      \* whether the MMU has a page fault, and whether its interrupts are masked
  late,     \* mali_max_job_runtime has passed since the job was started
  timer,    \* whether the hang timer is armed, and whether its handler runs
  posting,  \* upper halves that are about to schedule their bottom half
  queued,   \* bottom halves on the work queue
  heap,     \* jobs whose request for heap memory user space has not answered
  notice,   \* whether the job has its notification for that request
  events,   \* what happened to the job
  verdict   \* the outcome of the last job, with what had happened to it

core == <<units, raw, mask>>
halves == <<posting, queued>>
job == <<kind, run>>
vars == <<kind, run, working, units, raw, mask, mmu, late, timer, posting, queued, heap,
          notice, events, verdict>>

Units == IF kind = "gp" THEN {"vs", "plbu"} ELSE {"frame"}
Used == Units \cup {"error"} \cup (IF kind = "gp" THEN {"oom"} ELSE {})
NoFault == [fault |-> FALSE, masked |-> FALSE]

Init ==
  /\ kind \in {"gp", "pp"} /\ run = 0 /\ working = FALSE
  /\ units = {} /\ raw = {} /\ mask = Used /\ mmu = NoFault
  /\ late = FALSE /\ timer = [armed |-> FALSE, runs |-> FALSE]
  /\ posting = {} /\ queued = {} /\ heap = {} /\ notice = FALSE
  /\ events = {} /\ verdict = [success |-> TRUE, events |-> {"end"}]

--------------------------------------------------------------------------------

\* mali_gp_job_start starts the vertex shader, the PLBU or both; a PP job has one unit.
Commands(u) == u # {} /\ u \subseteq Units /\ units' = u

\* Mutant: the hang timer is not started.
Started_NoTimer == run' = run + 1 /\ working' = TRUE /\ late' = FALSE /\ events' = {} /\ timer' = timer

\* The job runs and the hang timer is started.
Started ==
  /\ run' = run + 1 /\ working' = TRUE /\ late' = FALSE /\ events' = {}
  /\ timer' = [timer EXCEPT !.armed = TRUE]

\* mali_group_start_gp_job: the job still has the notification that was made with it.
StartGpJob(u) ==
  /\ kind = "gp" /\ ~working /\ run < MaxRuns /\ Commands(u) /\ Started /\ notice' = TRUE
  /\ UNCHANGED <<kind, raw, mask, mmu, halves, heap, verdict>>

\* mali_group_start_pp_job
StartPpJob(u) ==
  /\ kind = "pp" /\ ~working /\ run < MaxRuns /\ Commands(u) /\ Started
  /\ UNCHANGED <<kind, raw, mask, mmu, halves, heap, notice, verdict>>

\* mali_gp_hard_reset, or a soft reset: the core stops, its interrupts are cleared and
\* enabled.
ResetCore == units' = {} /\ mask' = Used /\ raw' = {}

\* mali_group_recovery_reset: core and MMU are reset, and a page fault is over.
RecoveryReset == ResetCore /\ mmu' = NoFault

\* mali_group_complete_gp, mali_group_complete_pp: a job that failed, or a core that does
\* not answer to a soft reset, needs the recovery reset.
Complete(success, why) ==
  /\ working' = FALSE /\ timer' = [timer EXCEPT !.armed = FALSE]
  /\ RecoveryReset \/ (success /\ ResetCore /\ UNCHANGED mmu)
  /\ verdict' = [success |-> success, events |-> why]
  /\ UNCHANGED <<job, late, notice, events>>

\* mali_gp_get_interrupt_result, which reads INT_STAT
GpResult ==
  LET stat == raw \cap mask
  IN  CASE stat = {} -> "none"
        [] stat # {} /\ stat = Units -> "success"
        [] stat = {"vs"} -> "vs"
        [] stat = {"plbu"} -> "plbu"
        [] "oom" \in stat -> "oom"
        [] OTHER -> "error"

\* mali_pp_get_interrupt_result, which reads INT_RAWSTAT
PpResult == CASE raw = {} -> "none" [] raw = {"frame"} -> "success" [] OTHER -> "error"

\* Mutant: a bottom half takes it for granted that there is something to end the job for.
TimedOut_Trust(upper) == late \/ ~upper

\* mali_group_has_timed_out: the time is looked at again, since the timer is deleted
\* without waiting for its handler.
TimedOut(upper) == late

\* mali_executor_send_gp_oom_to_user
SendOom ==
  /\ mask' = {} /\ heap' = heap \cup {run} /\ notice' = FALSE
  /\ UNCHANGED <<job, working, units, raw, mmu, late, timer, events, verdict>>

\* All interrupts of the core are masked; the bottom half has the rest to do, except that
\* the hang timer is left to schedule it if it is a timeout.
Masked(post) == mask' = {} /\ posting' = IF post THEN posting \cup {"core"} ELSE posting

\* A result with which nothing is done
Ignored ==
  UNCHANGED <<job, working, core, mmu, late, timer, posting, heap, notice, events, verdict>>

\* An error is not processed in the upper half.
Failure(upper) ==
  \/ /\ upper /\ Masked(~late)
     /\ UNCHANGED <<job, working, units, raw, mmu, late, timer, heap, notice, events, verdict>>
  \/ ~upper /\ Complete(FALSE, events) /\ UNCHANGED <<posting, heap>>

\* mali_executor_interrupt_gp on a core that works; while the other unit is active, only
\* the interrupt of the unit that has ended is masked.
HandleGp(upper) ==
  LET result == IF TimedOut(upper) THEN "error" ELSE GpResult
      partial == result \in {"vs", "plbu"} /\ units # {}
  IN  \/ result = "none" /\ Ignored
      \/ /\ partial /\ mask' = Used \ {result}
         /\ UNCHANGED <<job, working, units, raw, mmu, late, timer, posting, heap, notice, events, verdict>>
      \/ result = "oom" /\ SendOom /\ UNCHANGED posting
      \/ result = "error" /\ Failure(upper)
      \/ /\ result \in {"success", "vs", "plbu"} /\ ~partial
         /\ Complete(TRUE, events) /\ UNCHANGED <<posting, heap>>

\* mali_executor_interrupt_pp on a core that works
HandlePp(upper) ==
  LET result == IF TimedOut(upper) THEN "error" ELSE PpResult
  IN  \/ result = "none" /\ Ignored
      \/ result = "error" /\ Failure(upper)
      \/ result = "success" /\ Complete(TRUE, events) /\ UNCHANGED <<posting, heap>>

--------------------------------------------------------------------------------

\* An upper half runs while the core holds its interrupt raised; it and the bottom half do
\* nothing if the core works no longer.
Raised == raw \cap mask # {} /\ working
UpperGp == kind = "gp" /\ Raised /\ HandleGp(TRUE) /\ UNCHANGED queued
UpperPp == kind = "pp" /\ Raised /\ HandlePp(TRUE) /\ UNCHANGED queued

BottomGp ==
  /\ kind = "gp" /\ "core" \in queued /\ queued' = queued \ {"core"}
  /\ (working /\ HandleGp(FALSE)) \/ (~working /\ Ignored)

BottomPp ==
  /\ kind = "pp" /\ "core" \in queued /\ queued' = queued \ {"core"}
  /\ (working /\ HandlePp(FALSE)) \/ (~working /\ Ignored)

\* mali_executor_interrupt_mmu: a page fault ends the job, in the bottom half.
HandleMmu(upper) ==
  \/ /\ upper /\ mmu' = [mmu EXCEPT !.masked = TRUE] /\ posting' = posting \cup {"mmu"}
     /\ UNCHANGED <<job, working, core, late, timer, heap, notice, events, verdict>>
  \/ ~upper /\ Complete(FALSE, events) /\ UNCHANGED <<posting, heap>>

UpperMmu == mmu.fault /\ ~mmu.masked /\ working /\ HandleMmu(TRUE) /\ UNCHANGED queued

BottomMmu ==
  /\ "mmu" \in queued /\ queued' = queued \ {"mmu"}
  /\ IF working /\ mmu.fault THEN HandleMmu(FALSE) ELSE Ignored

\* An upper half schedules its bottom half, which is on the queue at most once.
Post ==
  \E h \in posting :
    /\ posting' = posting \ {h} /\ queued' = queued \cup {h}
    /\ UNCHANGED <<job, working, core, mmu, late, timer, heap, notice, events, verdict>>

\* The hang timer expires; its handler, mali_group_timeout, is not waited for by
\* whoever ends the job meanwhile.
Expire ==
  /\ timer.armed /\ late /\ timer' = [armed |-> FALSE, runs |-> TRUE]
  /\ UNCHANGED <<job, working, core, mmu, late, halves, heap, notice, events, verdict>>
HangTimeout ==
  /\ timer.runs /\ timer' = [timer EXCEPT !.runs = FALSE] /\ queued' = queued \cup {"core"}
  /\ UNCHANGED <<job, working, core, mmu, late, posting, heap, notice, events, verdict>>

\* mali_executor_abort_session, or a failed zap of the TLB in mali_executor_zap_all_active
\* because of a page fault
Abort ==
  /\ working /\ Complete(FALSE, events \cup {"abort"}) /\ UNCHANGED <<halves, heap>>
Zap ==
  /\ working /\ mmu.fault /\ Complete(FALSE, events) /\ UNCHANGED <<halves, heap>>

\* mali_gp_resume_with_new_heap: of no effect if the core has been reset meanwhile.
Resume == IF "oom" \in raw THEN raw' = raw \ {"oom"} /\ mask' = Used ELSE UNCHANGED <<raw, mask>>

\* _mali_ukk_gp_suspend_response with new heap memory, or without (also if there is no
\* memory for a new notification); of no effect if the job is no longer the one that runs.
NewHeap(r) ==
  /\ r \in heap /\ heap' = heap \ {r}
  /\ IF working /\ run = r THEN notice' = TRUE /\ Resume ELSE UNCHANGED <<notice, raw, mask>>
  /\ UNCHANGED <<job, working, units, mmu, late, timer, halves, events, verdict>>

NoHeap(r) ==
  /\ r \in heap /\ heap' = heap \ {r} /\ UNCHANGED halves
  /\ IF working /\ run = r THEN Complete(FALSE, events \cup {"abort"})
     ELSE UNCHANGED <<job, working, core, mmu, late, timer, notice, events, verdict>>

--------------------------------------------------------------------------------

\* The hardware: a unit ends, the core has an error, the PLBU needs heap memory, the
\* MMU finds no page; and time passes.
Runs == ~mmu.fault /\ "error" \notin raw
UnitEnds(u) ==
  /\ u \in units /\ Runs /\ (u = "plbu" => "oom" \notin raw)
  /\ units' = units \ {u} /\ raw' = raw \cup {u}
  /\ events' = events \cup (IF units = {u} THEN {"end"} ELSE {})
  /\ UNCHANGED <<job, working, mask, mmu, late, timer, halves, heap, notice, verdict>>
Fails ==
  /\ units # {} /\ Runs /\ raw' = raw \cup {"error"} /\ events' = events \cup {"error"}
  /\ UNCHANGED <<job, working, units, mask, mmu, late, timer, halves, heap, notice, verdict>>
OutOfHeap ==
  /\ "plbu" \in units /\ Runs /\ "oom" \notin raw /\ raw' = raw \cup {"oom"}
  /\ UNCHANGED <<job, working, units, mask, mmu, late, timer, halves, heap, notice, events, verdict>>
PageFault ==
  /\ units # {} /\ Runs /\ mmu' = [mmu EXCEPT !.fault = TRUE]
  /\ events' = events \cup {"fault"}
  /\ UNCHANGED <<job, working, core, late, timer, halves, heap, notice, verdict>>
TimePasses ==
  /\ working /\ ~late /\ late' = TRUE /\ events' = events \cup {"late"}
  /\ UNCHANGED <<job, working, core, mmu, timer, halves, heap, notice, verdict>>

Next ==
  \/ \E u \in SUBSET Units : StartGpJob(u) \/ StartPpJob(u)
  \/ UpperGp \/ UpperPp \/ BottomGp \/ BottomPp \/ UpperMmu \/ BottomMmu \/ Post \/ Expire \/ HangTimeout
  \/ Abort \/ Zap \/ (\E r \in heap : NewHeap(r) \/ NoHeap(r))
  \/ (\E u \in Units : UnitEnds(u)) \/ Fails \/ OutOfHeap \/ PageFault \/ TimePasses

Spec == Init /\ [][Next]_vars

\* Interrupts are taken, the timer and the work queue run, and time passes.  Neither the
\* hardware nor user space need go on.
Fairness ==
  WF_vars(TimePasses) /\ WF_vars(Expire) /\ WF_vars(HangTimeout)
  /\ WF_vars(BottomGp \/ BottomPp)

--------------------------------------------------------------------------------

\* A job succeeds only if its units have all ended, without an error and in time; it
\* fails only if something happened to this job, never because of an interrupt, a timer
\* or an answer that was meant for the job before.
JudgedOnItsOwn ==
  IF verdict.success THEN verdict.events = {"end"}
  ELSE verdict.events \cap {"error", "fault", "late", "abort"} # {}

\* What ends a job is under way: a page fault, or an error of a PP core, is with a handler
\* still to run or is noticed by the hang timer; a core that waits for heap memory has
\* told its user, once.  A core without a job has no interrupt raised.
Armed == late \/ timer.runs \/ "core" \in queued
Pursued ==
  /\ mmu.fault /\ mmu.masked => "mmu" \in posting \cup queued
  /\ kind = "pp" /\ "error" \in raw /\ mask = {} => "core" \in posting \/ Armed
  /\ "oom" \in raw /\ mask = {} /\ "error" \notin raw => run \in heap \/ Armed
  /\ working /\ run \in heap => ~notice
  /\ working /\ "oom" \in raw \cap mask => notice
  /\ ~working => raw = {} /\ ~mmu.fault /\ units = {}

\* An error of the GP core, once it is masked, is left to the bottom half.
ErrorPursued ==
  kind = "gp" /\ "error" \in raw /\ "oom" \notin raw /\ mask = {} => "core" \in posting \/ Armed

\* Every job ends, even if the core hangs or user space never answers.
JobsEnd == working ~> ~working
================================================================================
