------------------------------- MODULE Utilization -------------------------------
(***************************************************************************)
(* Measuring how busy the GPU is, and the control timer that does it       *)
(* (mali_kernel_utilization.c and mali_control_timer.c), with the clock    *)
(* that is set for it (mali_dvfs_policy.c).                                *)
(*                                                                         *)
(* A job counts from when it is queued, under the scheduler's lock, until  *)
(* it is completed.  The timer runs from the first job until a period      *)
(* without any.  The kernel must not be asked to add a timer that is       *)
(* pending: add_timer stops the system.                                    *)
(***************************************************************************)
EXTENDS Integers, Sequences

CONSTANTS
  WordBits, ScaleBits,
  Clocks,        \* the clock of each step, from 1 on, in ascending order
  Second,        \* a second in units of time
  MaxSystemFps, DesiredFps,
  MaxCores,      \* jobs that may be counted at a time, of each kind
  Elapses,       \* how much time may pass at once
  MaxElapses,    \* how often it may
  MaxWindows,    \* window jobs counted at a time
  FirstTimeout, Timeout,
  SuspendRaces   \* whether the system may suspend while a job is being queued

----------------------------------------------------------------------------
(***************************************************************************)
(* The arithmetic: mali_utilization_calculate and mali_dvfs_policy.c.  A   *)
(* word has WordBits bits (32 in the code), times have two words, and      *)
(* utilisation is counted in parts of 2^ScaleBits (256 in the code).       *)
(***************************************************************************)
Full == 2^ScaleBits
Last == Len(Clocks)

\* The number of bits of the upper word of a period that are in use.
ShiftFor(period) ==
  LET high == period \div 2^WordBits
  IN CHOOSE s \in 0..WordBits : 2^s > high /\ (s > 0 => 2^(s - 1) <= high)

Word(n) == n % 2^WordBits

\* The share of a period that was spent working.
Utilization(work, period) ==
  LET w == Word(work \div 2^ShiftFor(period))
      p == Word(period \div 2^ShiftFor(period))
  IN IF p > 2^(WordBits - ScaleBits) - 1
       THEN w \div (p \div Full)
       ELSE Word(w * Full) \div p

\* Frames per second, from the window jobs that were completed in a period.
RenderFps(windows, period) == (windows * Second) \div period

Percent(p) == (p * Full * 2 + 100) \div 200

FpsStep1 == MaxSystemFps \div 3
FpsStep2 == MaxSystemFps \div 5

\* A GPU works too hard above the first, and too little below the second.
Boundaries(fps) ==
  CASE DesiredFps <= fps /\ fps < MaxSystemFps -> <<Percent(90), Percent(70)>>
    [] FpsStep1 <= fps /\ fps < DesiredFps -> <<Percent(55), Percent(35)>>
    [] FpsStep2 <= fps /\ fps < FpsStep1 -> <<Percent(70), Percent(50)>>
    [] OTHER -> <<Percent(55), Percent(35)>>

\* The first step above the target, or the one before it.
ClosestStep(target, up) ==
  LET above == {i \in 1..Last : Clocks[i] > target}
      first == CHOOSE i \in above : \A k \in above : i <= k
  IN IF above = {} THEN Last
     ELSE IF ~up /\ first > 1 THEN first - 1 ELSE first

\* The step that the policy sets, from the step that the platform has.
NextStep(step, utilization, fps) ==
  LET under == Boundaries(fps)[1] over == Boundaries(fps)[2] IN
  CASE fps = 0 /\ utilization = 0 -> 1
    [] fps = 0 /\ utilization > over -> Last
    [] fps > 0 /\ utilization > under ->
         ClosestStep((((Clocks[step] * utilization * DesiredFps) \div under) \div fps), TRUE)
    [] fps > 0 /\ utilization <= under /\ utilization < over ->
         ClosestStep((Clocks[step] * utilization) \div under, FALSE)
    [] OTHER -> step

----------------------------------------------------------------------------
\* A fraction never exceeds the whole and is off by less than two parts, a GPU that does
\* too little is not clocked up, one that cannot keep up is not clocked down, and the
\* highest clock is reached for good reason only.
DecisionSound(work, period, windows, step) ==
  LET u == Utilization(work, period)
      fps == RenderFps(windows, period)
      next == NextStep(step, u, fps)
  IN /\ u <= Full
     /\ (u - 1) * period <= work * Full /\ work * Full < (u + 2) * period
     /\ next \in 1..Last
     /\ u < Boundaries(fps)[2] => next <= step
     /\ u > Boundaries(fps)[1] /\ fps <= DesiredFps => next > step \/ next = Last

----------------------------------------------------------------------------
VARIABLES
  now,
  gp, pp,       \* num_running_gp_cores, num_running_pp_cores
  start,        \* work_start_time_*, 0 when idle
  work,         \* accumulated_work_time_*
  running,      \* timer_running
  period,       \* period_start_time
  last,         \* last_utilization_gpu
  due,          \* when the timer expires, 0 if it is not pending
  callback,     \* where mali_control_timer_callback is
  queuing,      \* whether a job is between unlock and mali_control_timer_add
  suspending,   \* whether the system is between unlock and del_timer_sync
  windows,      \* window jobs completed since they were last counted
  step,         \* the clock
  busy,         \* for how long each part was truly busy in this period
  elapses, bad

vars == <<now, gp, pp, start, work, running, period, last, due, callback, queuing, suspending,
          windows, step, busy, elapses, bad>>

Units == {"gpu", "gp", "pp"}
Zero == [u \in Units |-> 0]
NoCallback == [at |-> "none", util |-> 0, period |-> 0, again |-> FALSE]

Busy(unit) == CASE unit = "gp" -> gp > 0 [] unit = "pp" -> pp > 0 [] OTHER -> gp + pp > 0

Init ==
  /\ now = 1 /\ gp = 0 /\ pp = 0 /\ start = Zero /\ work = Zero
  /\ running = FALSE /\ period = 0 /\ last = 0 /\ due = 0 /\ callback = NoCallback
  /\ queuing = FALSE /\ suspending = FALSE /\ windows = 0 /\ step = 1
  /\ busy = Zero /\ elapses = 0 /\ bad = FALSE

Pass(d) ==
  /\ elapses < MaxElapses
  /\ now' = now + d /\ elapses' = elapses + 1
  /\ busy' = [u \in Units |-> IF Busy(u) THEN busy[u] + d ELSE busy[u]]
  /\ UNCHANGED <<gp, pp, start, work, running, period, last, due, callback, queuing, suspending,
                 windows, step, bad>>

----------------------------------------------------------------------------
\* mali_control_timer_resume: a new period starts unless the timer runs.
Resume(unit) ==
  /\ start' = [start EXCEPT ![unit] = now, !["gpu"] = now]
  /\ running' = TRUE
  /\ IF running
       THEN UNCHANGED <<period, work, last, queuing, busy>>
       ELSE period' = now /\ work' = Zero /\ last' = 0 /\ queuing' = TRUE /\ busy' = Zero

\* mali_utilization_gp_start and mali_utilization_pp_start.
Start(unit, mine, other) ==
  IF mine > 0 THEN UNCHANGED <<start, running, period, work, last, queuing, busy>>
  ELSE IF other > 0
    THEN start' = [start EXCEPT ![unit] = now]
         /\ UNCHANGED <<running, period, work, last, queuing, busy>>
    ELSE Resume(unit)

MayQueue == ~queuing /\ (~suspending \/ SuspendRaces)

GpStart ==
  /\ MayQueue /\ gp < MaxCores
  /\ gp' = gp + 1 /\ Start("gp", gp, pp)
  /\ UNCHANGED <<now, pp, due, callback, suspending, windows, step, elapses, bad>>

PpStart ==
  /\ MayQueue /\ pp < MaxCores
  /\ pp' = pp + 1 /\ Start("pp", pp, gp)
  /\ UNCHANGED <<now, gp, due, callback, suspending, windows, step, elapses, bad>>

\* _mali_osk_timer_add
Add(timeout) ==
  /\ due' = now + timeout
  /\ bad' = (bad \/ due # 0)

\* A period starts at full power: mali_dvfs_policy_new_period.
NewPeriod ==
  /\ queuing /\ queuing' = FALSE
  /\ windows' = 0 /\ step' = Last
  /\ Add(FirstTimeout)
  /\ UNCHANGED <<now, gp, pp, start, work, running, period, last, callback, suspending, busy,
                 elapses>>

\* Mutant: a unit that does not work is taken to have started at 0.
Worked_NoTest(unit) == work[unit] + now - start[unit]

\* What a unit has worked until now.
Worked(unit) == IF start[unit] = 0 THEN work[unit] ELSE work[unit] + now - start[unit]

\* mali_utilization_gp_end and mali_utilization_pp_end.
End(unit, mine, other) ==
  LET idle == (IF mine = 1 THEN {unit} ELSE {}) \cup (IF mine = 1 /\ other = 0 THEN {"gpu"} ELSE {})
  IN /\ work' = [u \in Units |-> IF u \in idle THEN Worked(u) ELSE work[u]]
     /\ start' = [u \in Units |-> IF u \in idle THEN 0 ELSE start[u]]

GpEnd ==
  /\ gp > 0 /\ gp' = gp - 1 /\ End("gp", gp, pp)
  /\ UNCHANGED <<now, pp, running, period, last, due, callback, queuing, suspending, windows,
                 step, busy, elapses, bad>>

\* A job that draws a window is counted for the frames per second.
PpEnd ==
  /\ pp > 0 /\ pp' = pp - 1 /\ End("pp", pp, gp)
  /\ windows' \in {w \in {windows, windows + 1} : w <= MaxWindows}
  /\ UNCHANGED <<now, gp, running, period, last, due, callback, queuing, suspending, step, busy,
                 elapses, bad>>

----------------------------------------------------------------------------
\* The timer expires, no earlier than it is due.
Expire ==
  /\ due # 0 /\ now >= due /\ callback.at = "none"
  /\ due' = 0 /\ callback' = [NoCallback EXCEPT !.at = "expired"]
  /\ UNCHANGED <<now, gp, pp, start, work, running, period, last, queuing, suspending, windows,
                 step, busy, elapses, bad>>

\* mali_utilization_calculate, in the lock.
Calculate ==
  /\ callback.at = "expired"
  /\ IF work["gpu"] = 0 /\ start["gpu"] = 0
       THEN /\ running' = FALSE /\ last' = 0
            /\ callback' = [at |-> "calculated", util |-> 0, period |-> now - period, again |-> FALSE]
            /\ UNCHANGED <<start, work, period, busy, bad>>
       ELSE /\ bad' = (bad \/ now = period)
            /\ last' = IF now = period THEN 0 ELSE Utilization(Worked("gpu"), now - period)
            /\ callback' = [at |-> "calculated", util |-> last', period |-> now - period, again |-> TRUE]
            /\ start' = [u \in Units |-> IF start[u] = 0 THEN 0 ELSE now]
            /\ work' = Zero /\ period' = now /\ busy' = Zero
            /\ UNCHANGED running
  /\ UNCHANGED <<now, gp, pp, due, queuing, suspending, windows, step, elapses>>

\* mali_dvfs_policy_realize, outside of it.
Realize ==
  /\ callback.at = "calculated"
  /\ step' = IF callback.period = 0 THEN step
             ELSE NextStep(step, callback.util, RenderFps(windows, callback.period))
  /\ windows' = 0
  /\ callback' = [callback EXCEPT !.at = "realized"]
  /\ UNCHANGED <<now, gp, pp, start, work, running, period, last, due, queuing, suspending, busy,
                 elapses, bad>>

AddAgain ==
  /\ callback.at = "realized"
  /\ callback' = NoCallback
  /\ IF callback.again THEN Add(Timeout) ELSE UNCHANGED <<due, bad>>
  /\ UNCHANGED <<now, gp, pp, start, work, running, period, last, queuing, suspending, windows,
                 step, busy, elapses>>

----------------------------------------------------------------------------
\* mali_control_timer_suspend stops the timer; del_timer_sync waits for the callback.
Suspend ==
  /\ running /\ ~suspending /\ (SuspendRaces \/ ~queuing)
  /\ running' = FALSE /\ suspending' = TRUE
  /\ UNCHANGED <<now, gp, pp, start, work, period, last, due, callback, queuing, windows, step,
                 busy, elapses, bad>>

DeleteTimer ==
  /\ suspending /\ callback.at = "none"
  /\ suspending' = FALSE /\ due' = 0 /\ work' = Zero /\ last' = 0
  /\ UNCHANGED <<now, gp, pp, start, running, period, callback, queuing, windows, step, busy,
                 elapses, bad>>

Next ==
  \/ \E d \in Elapses : Pass(d)
  \/ GpStart \/ PpStart \/ NewPeriod \/ GpEnd \/ PpEnd
  \/ Expire \/ Calculate \/ Realize \/ AddAgain
  \/ Suspend \/ DeleteTimer

Spec == Init /\ [][Next]_vars

----------------------------------------------------------------------------
\* The timer is added only when it is not pending and no period is empty, it expires again
\* as long as it is said to run, what is measured is what was worked, and the clock follows
\* from that: mali_control_timer.c and mali_utilization_calculate.
UtilizationSound ==
  /\ ~bad
  /\ running => due # 0 \/ queuing \/ callback.at = "expired" \/ callback.again
  /\ due # 0 => running \/ suspending
  /\ running => \A u \in Units : Worked(u) = busy[u]
  /\ running /\ now > period => DecisionSound(Worked("gpu"), now - period, windows, step)

\* A new period has full power until it is first measured: mali_dvfs_policy_new_period.
FullPowerFirst ==
  running /\ ~queuing /\ due = period + FirstTimeout /\ now < due => step = Last
================================================================================
