----------------------------- MODULE PowerManagement -----------------------------
(***************************************************************************)
(* Power management of the GPU: mali_pm.c with the executor it notifies.   *)
(*                                                                         *)
(* Jobs make groups want power under the executor lock; the PM update work *)
(* item, the runtime PM callbacks and OS suspend or mali_dev_pause change  *)
(* what is powered, one at a time under pm_lock_exec, but in several steps *)
(* between which the executor runs: it must never find a group ready whose *)
(* power is not there, and never be left waiting for power nobody switches *)
(* on.                                                                     *)
(***************************************************************************)
EXTENDS Executor

CONSTANTS
  Configs,    \* the configurations considered, each with bounds on its users
  Pausers,    \* threads that call mali_pm_os_suspend and mali_pm_os_resume
  Worker,     \* the PM update work item, as a holder of pm_lock_exec
  Runtime,    \* the runtime PM callback, as a holder of pm_lock_exec
  Nobody      \* pm_lock_exec is free

ASSUME ConfigsAssumption == \A c \in Configs : IsConfig(c)
ASSUME HoldersAssumption ==
  /\ IsFiniteSet(Pausers)
  /\ Pausers \cap {Worker, Runtime, Nobody} = {}
  /\ Worker # Runtime /\ Worker # Nobody /\ Runtime # Nobody

VARIABLES
  gpu,        \* the state the executor lock guards, see Executor
  kick,       \* someone is about to call mali_executor_schedule
  pmu,        \* pmu_mask_current
  l2On,       \* cache->power_is_on
  pm,         \* who holds pm_lock_exec, and where in the update it is
  active,     \* mali_pm_runtime_active
  rpm,        \* the state of the device in the kernel's runtime PM
  pauser      \* where each pauser is

vars == <<gpu, kick, pmu, l2On, pm, active, rpm, pauser>>

Free == [who |-> Nobody, pc |-> "none", mask |-> {}, off |-> FALSE]

\* mali_pmu_get_mask: the domains of the cores, nothing if there is no PMU.
PmuDomains == ({gpu.cfg.dom[g] : g \in Groups} \cup {gpu.cfg.l2}) \ {Dummy}

InDomains(D) == {g \in Groups : gpu.cfg.dom[g] \in D}

\* The references on the device that keep runtime PM from suspending it: one per
\* used domain, one per job from queueing to completion.
DeviceInUse ==
  \/ \E d \in Domains : gpu.use[d] > 0
  \/ gpu.gpQ + gpu.ppQ > 0
  \/ IsWorking(gpu)

\* After mali_executor_populate and mali_pm_init_end.
Init ==
  /\ \E c \in Configs :
       gpu = [cfg     |-> c,
              gs      |-> [g \in Groups |-> "INACTIVE"],
              on      |-> {},
              list    |-> [g \in Groups |-> "INACTIVE"],
              req     |-> {},
              delay   |-> [d \in Domains |-> 0],
              enabled |-> NumPP,
              pause   |-> 0,
              use     |-> [d \in Domains |-> 0],
              wanted  |-> {},
              current |-> {},
              work    |-> FALSE,
              gpQ |-> 0, ppQ |-> 0, gpT |-> 0, ppT |-> 0]
  /\ kick = FALSE
  /\ pmu = {}
  /\ l2On = FALSE
  /\ pm = Free
  /\ active = FALSE
  /\ rpm = "suspended"
  /\ pauser = [p \in Pausers |-> "running"]

Executes == UNCHANGED <<pmu, l2On, pm, active, rpm, pauser>>

(***************************************************************************)
(* Jobs                                                                    *)
(***************************************************************************)

\* A GP job or n PP sub jobs enter their timelines.
Submit ==
  /\ \/ /\ gpu.gpT + gpu.gpQ + Cardinality({GP} \cap In(gpu, "WORKING")) < gpu.cfg.maxGP
        /\ gpu' = [gpu EXCEPT !.gpT = @ + 1]
     \/ \E n \in 1 .. gpu.cfg.maxPP :
          /\ gpu.ppT + gpu.ppQ + Cardinality(PPs \cap In(gpu, "WORKING")) + n <= gpu.cfg.maxPP
          /\ gpu' = [gpu EXCEPT !.ppT = @ + n]
  /\ UNCHANGED <<kick>> /\ Executes

\* Jobs are activated, and mali_executor_schedule_from_mask will be called by this
\* thread or by a work item.
Queue ==
  /\ gpu' \in Activated(gpu) \ {gpu}
  /\ kick' = TRUE
  /\ Executes

\* mali_executor_schedule_from_mask and mali_executor_wq_schedule
RunSchedule ==
  /\ kick
  /\ gpu' \in Schedule(gpu)
  /\ kick' = FALSE
  /\ Executes

\* An interrupt, the job timeout, a page fault, a zap or the end of its session ends
\* the job of a working group.
Complete(g) ==
  /\ g \in In(gpu, "WORKING")
  /\ gpu' \in CompleteGroup(gpu, g)
  /\ UNCHANGED <<kick>> /\ Executes

\* mali_scheduler_abort_session and the refusals of mali_scheduler_activate_gp_job
\* and _pp_job: jobs that wait or are queued go away, and nobody is told.
Abort ==
  /\ \E i \in 0 .. gpu.gpT, j \in 0 .. gpu.gpQ, k \in 0 .. gpu.ppT, l \in 0 .. gpu.ppQ :
       /\ i + j + k + l > 0
       /\ gpu' = [gpu EXCEPT !.gpT = @ - i, !.gpQ = @ - j, !.ppT = @ - k, !.ppQ = @ - l]
  /\ UNCHANGED <<kick>> /\ Executes

(***************************************************************************)
(* Changing the number of cores                                            *)
(***************************************************************************)

GroupEnable(g) ==
  /\ g \in gpu.cfg.switched
  /\ gpu' \in Schedule(IF gpu.list[g] = "DISABLED" THEN EnableAll(gpu, {g}) ELSE gpu)
  /\ UNCHANGED <<kick>> /\ Executes

GroupDisable(g) ==
  /\ g \in gpu.cfg.switched
  /\ gpu' \in Schedule(IF gpu.list[g] # "DISABLED" THEN DisableAll(gpu, {g}) ELSE gpu)
  /\ UNCHANGED <<kick>> /\ Executes

\* mali_executor_set_perf_level.  Its early return reads the number of enabled cores
\* before it takes the lock, so any number may be what is found under the lock.
SetPerfLevel(n) ==
  /\ PPs \cap gpu.cfg.switched # {}
  /\ gpu' \in UNION {Schedule(f) : f \in CoreScale(gpu, n)}
  /\ UNCHANGED kick /\ Executes

(***************************************************************************)
(* Taking and giving back pm_lock_exec                                     *)
(***************************************************************************)
Enter(who, pc) == pm' = [Free EXCEPT !.who = who, !.pc = pc]
Goto(pc)       == pm' = [pm EXCEPT !.pc = pc]

\* Mutant: the work item gives up if the lock is taken.
WorkerEnter_TryLock ==
  /\ gpu.work
  /\ gpu' = [gpu EXCEPT !.work = FALSE]
  /\ IF active /\ pm = Free THEN Enter(Worker, "up") ELSE UNCHANGED pm
  /\ UNCHANGED <<kick, pmu, l2On, active, rpm, pauser>>

\* mali_pm_update_work: nothing to do while the GPU is off.
WorkerEnter ==
  /\ gpu.work /\ pm = Free
  /\ gpu' = [gpu EXCEPT !.work = FALSE]
  /\ IF active THEN Enter(Worker, "up") ELSE UNCHANGED pm
  /\ UNCHANGED <<kick, pmu, l2On, active, rpm, pauser>>

\* The kernel decides to suspend the device, or to resume it because somebody took
\* a reference.
RuntimeDecide ==
  /\ rpm' = IF rpm = "active" THEN "suspending" ELSE "resuming"
  /\ rpm \in {"active", "suspended"}
  /\ rpm = "active" => ~DeviceInUse
  /\ UNCHANGED <<gpu, kick, pmu, l2On, pm, active, pauser>>

RuntimeSuspend ==
  /\ rpm = "suspending" /\ pm = Free
  /\ Enter(Runtime, "suspend")
  /\ UNCHANGED <<gpu, kick, pmu, l2On, active, rpm, pauser>>

RuntimeResume ==
  /\ rpm = "resuming" /\ pm = Free
  /\ active' = TRUE
  /\ pmu' = PmuDomains
  /\ Enter(Runtime, "up")
  /\ UNCHANGED <<gpu, kick, l2On, rpm, pauser>>

At(p, state) == pauser' = [pauser EXCEPT ![p] = state]

\* mali_executor_suspend: no more jobs are started ...
Pause(p) ==
  /\ pauser[p] = "running"
  /\ gpu' = [gpu EXCEPT !.pause = @ + 1]
  /\ At(p, "draining")
  /\ UNCHANGED <<kick, pmu, l2On, pm, active, rpm>>

\* ... and when the last one has completed all groups give up their power.
Drained(p) ==
  /\ pauser[p] = "draining" /\ ~IsWorking(gpu)
  /\ gpu' = Quiesce(gpu)
  /\ At(p, "stopping")
  /\ UNCHANGED <<kick, pmu, l2On, pm, active, rpm>>

SuspendEnter(p) ==
  /\ pauser[p] = "stopping" /\ pm = Free
  /\ Enter(p, "suspend")
  /\ UNCHANGED <<gpu, kick, pmu, l2On, active, rpm, pauser>>

ResumeEnter(p) ==
  /\ pauser[p] = "paused" /\ pm = Free
  /\ IF active
     THEN pmu' = PmuDomains /\ Enter(p, "up") /\ UNCHANGED pauser
     ELSE At(p, "resuming") /\ UNCHANGED <<pm, pmu>>
  /\ UNCHANGED <<gpu, kick, l2On, active, rpm>>

\* mali_executor_resume
Resume(p) ==
  /\ pauser[p] = "resuming"
  /\ gpu' \in Schedule([gpu EXCEPT !.pause = @ - 1])
  /\ At(p, "running")
  /\ UNCHANGED <<kick, pmu, l2On, pm, active, rpm>>

\* What the holder does with the lock still held, and the unlock.
Leave ==
  /\ pm' = Free
  /\ active' = (active /\ ~(pm.who = Runtime /\ pm.off))
  /\ rpm' = IF pm.who # Runtime THEN rpm ELSE IF pm.off THEN "suspended" ELSE "active"
  /\ pauser' = IF pm.who \notin Pausers THEN pauser
               ELSE [pauser EXCEPT ![pm.who] = IF @ = "stopping" THEN "paused" ELSE "resuming"]

(***************************************************************************)
(* mali_pm_update_sync_internal                                            *)
(***************************************************************************)

\* Mutant: every wanted domain is switched on and told so, also one that is on.
PowerUp_All ==
  /\ pm.pc = "up" /\ gpu.wanted \ gpu.current # {}
  /\ pmu' = pmu \cup (gpu.wanted \ {Dummy})
  /\ gpu' = [gpu EXCEPT !.current = @ \cup gpu.wanted \cup {Dummy}]
  /\ pm' = [pm EXCEPT !.pc = "l2up", !.mask = gpu.wanted \cup {Dummy}]
  /\ UNCHANGED <<kick, l2On, active, rpm, pauser>>

\* The first section under the PM state lock: domains that are wanted and off are
\* switched on, the dummy domain with them.
PowerUp ==
  /\ pm.pc = "up" /\ gpu.wanted \ gpu.current # {}
  /\ LET up == gpu.wanted \ gpu.current
     IN  /\ pmu' = pmu \cup (up \ {Dummy})
         /\ gpu' = [gpu EXCEPT !.current = @ \cup up \cup {Dummy}]
         /\ pm' = [pm EXCEPT !.pc = "l2up", !.mask = up \cup {Dummy}]
  /\ UNCHANGED <<kick, l2On, active, rpm, pauser>>

\* mali_l2_cache_power_up
L2Up ==
  /\ pm.pc = "l2up"
  /\ l2On' = (l2On \/ gpu.cfg.l2 \in pm.mask)
  /\ Goto("groupsup")
  /\ UNCHANGED <<gpu, kick, pmu, active, rpm, pauser>>

GroupsUp ==
  /\ pm.pc = "groupsup"
  /\ gpu' \in PowerUpGroups(gpu, InDomains(pm.mask))
  /\ Goto("down")
  /\ UNCHANGED <<kick, pmu, l2On, active, rpm, pauser>>

\* The second section: domains that are on and not wanted are marked off.  If there
\* was nothing to switch on it is the same section as the first.
PowerDown ==
  /\ pm.pc \in {"up", "down"}
  /\ pm.pc = "up" => gpu.wanted \subseteq gpu.current
  /\ LET down == gpu.current \ (gpu.wanted \cup {Dummy})
     IN  /\ gpu' = [gpu EXCEPT !.current = @ \ down]
         /\ pm' = [pm EXCEPT !.pc = IF down = {} THEN "cut" ELSE "groupsdown",
                             !.mask = down]
  /\ UNCHANGED <<kick, pmu, l2On, active, rpm, pauser>>

GroupsDown ==
  /\ pm.pc = "groupsdown"
  /\ gpu' = PowerDownGroups(gpu, InDomains(pm.mask))
  /\ Goto("cut")
  /\ UNCHANGED <<kick, pmu, l2On, active, rpm, pauser>>

\* mali_l2_cache_power_down; then the PMU switches off what is not marked on.  A
\* suspend only notes that the whole GPU goes off.
CutPower ==
  /\ pm.pc = "cut"
  /\ l2On' = (l2On /\ gpu.cfg.l2 \notin pm.mask)
  /\ pmu' = IF pm.off THEN IF pm.mask = {} THEN pmu ELSE {} ELSE pmu \cap gpu.current
  /\ Leave
  /\ UNCHANGED <<gpu, kick>>

(***************************************************************************)
(* mali_pm_common_suspend, for runtime PM and for a pauser                 *)
(***************************************************************************)

\* Domains are wanted: runtime PM makes up for a power up that may have been lost,
\* a pauser ignores the failure.
SuspendRefused ==
  /\ pm.pc = "suspend" /\ gpu.wanted # {}
  /\ IF pm.who = Runtime
     THEN Goto("up") /\ UNCHANGED <<active, rpm, pauser>>
     ELSE Leave
  /\ UNCHANGED <<gpu, kick, pmu, l2On>>

SuspendMark ==
  /\ pm.pc = "suspend" /\ gpu.wanted = {}
  /\ gpu' = [gpu EXCEPT !.current = {}]
  /\ pm' = [pm EXCEPT !.pc = IF gpu.current = {} THEN "cut" ELSE "groupsdown",
                      !.mask = gpu.current, !.off = TRUE]
  /\ UNCHANGED <<kick, pmu, l2On, active, rpm, pauser>>

Update == PowerUp \/ L2Up \/ GroupsUp \/ PowerDown \/ GroupsDown \/ CutPower

Suspend == SuspendRefused \/ SuspendMark

Next ==
  \/ Submit \/ Queue \/ RunSchedule \/ Abort
  \/ \E g \in Groups : Complete(g) \/ GroupEnable(g) \/ GroupDisable(g)
  \/ \E n \in 1 .. NumPP : SetPerfLevel(n)
  \/ WorkerEnter \/ RuntimeDecide \/ RuntimeSuspend \/ RuntimeResume
  \/ \E p \in Pausers : Pause(p) \/ Drained(p) \/ SuspendEnter(p) \/ ResumeEnter(p) \/ Resume(p)
  \/ Update \/ Suspend

Spec == Init /\ [][Next]_vars
-----------------------------------------------------------------------------
\* Group states, executor states, masks and counters are what the fields hold.
TypeOK ==
  /\ gpu.cfg \in Configs
  /\ gpu.gs \in [Groups -> GroupState]
  /\ gpu.list \in [Groups -> ExecState]
  /\ gpu.on \subseteq Groups /\ gpu.req \subseteq Groups
  /\ gpu.delay \in [Domains -> 0 .. NumPP]
  /\ gpu.use \in [Domains -> 0 .. 2 * Cardinality(Groups)]
  /\ gpu.wanted \subseteq Domains /\ gpu.current \subseteq Domains
  /\ gpu.pause \in 0 .. Cardinality(Pausers)
  /\ gpu.gpQ \in 0 .. gpu.cfg.maxGP /\ gpu.gpT \in 0 .. gpu.cfg.maxGP
  /\ gpu.ppQ \in 0 .. gpu.cfg.maxPP /\ gpu.ppT \in 0 .. gpu.cfg.maxPP
  /\ gpu.work \in BOOLEAN /\ kick \in BOOLEAN /\ active \in BOOLEAN /\ l2On \in BOOLEAN
  /\ pmu \subseteq PmuDomains
  /\ pm.who \in Pausers \cup {Worker, Runtime, Nobody}
  /\ pm.mask \subseteq Domains
  /\ rpm \in {"active", "suspending", "suspended", "resuming"}
  /\ pauser \in [Pausers -> {"running", "draining", "stopping", "paused", "resuming"}]

\* A group that runs a job, or is ready to, has power: its own and the L2's domain
\* are wanted and marked on, the PMU has them on, the L2 has been reset, and the
\* group has been told.  mali_group_start_gp_job and _pp_job touch the registers of
\* the core and of the L2 without asking.
ReadyIsPowered ==
  \A g \in Groups : gpu.list[g] \in {"IDLE", "WORKING"} =>
    /\ gpu.gs[g] = "ACTIVE" /\ g \in gpu.on
    /\ DomainsOf(gpu, {g}) \subseteq gpu.wanted \cap gpu.current
    /\ DomainsOf(gpu, {g}) \subseteq pmu \cup {Dummy}
    /\ l2On

\* domain->use_count counts the groups that are active or about to be, and a domain
\* is wanted exactly while it is used (mali_pm_get_domain_refs, _put_domain_refs).
UseExact ==
  LET held == {g \in Groups : gpu.gs[g] # "INACTIVE"}
  IN  /\ \A d \in Domains : gpu.use[d] = Refs(gpu, held, d)
      /\ gpu.wanted = DomainsOf(gpu, held)

\* The assertions of mali_executor_group_power_down and mali_group_power_down, and
\* of mali_l2_cache_power_down: what is about to be told that its power goes is
\* inactive or disabled, and thinks that it is on.
PowerDownExpected ==
  /\ pm.pc = "groupsdown" =>
       \A g \in InDomains(pm.mask) :
         gpu.list[g] \in {"INACTIVE", "DISABLED"} /\ g \in gpu.on
  /\ pm.pc \in {"groupsdown", "cut"} /\ gpu.cfg.l2 \in pm.mask => l2On

\* The assertions on the other way: mali_executor_group_power_up is never called
\* without a group, and no running group is reset (mali_group_reset).
PowerUpExpected ==
  pm.pc \in {"l2up", "groupsup"} =>
    /\ InDomains(pm.mask) # {}
    /\ \A g \in InDomains(pm.mask) : gpu.list[g] # "WORKING"

\* While the device is suspended, or about to be resumed, everything is off, as the
\* assertions of mali_pm_runtime_resume say.
SuspendedIsOff ==
  rpm = "suspended" \/ (rpm = "resuming" /\ pm.who # Runtime) =>
    gpu.current = {} /\ pmu = {} /\ gpu.on = {} /\ ~l2On

\* A pending activation is never forgotten: the update is queued or under way, or
\* the device is off and runtime PM knows that it is needed.
PendingIsServed ==
  \A g \in Groups : gpu.gs[g] = "PENDING" =>
    \/ gpu.work
    \/ pm.pc = "up"
    \/ pm.pc \in {"l2up", "groupsup"} /\ gpu.cfg.dom[g] \in pm.mask
    \/ ~active \/ rpm = "suspending" \/ pm.off

\* num_physical_pp_cores_enabled is the number of PP groups that are not disabled.
EnabledExact == gpu.enabled = Cardinality(PPs \ In(gpu, "DISABLED"))

\* After mali_executor_suspend no job runs until mali_executor_resume, whatever is
\* queued, completed, enabled or switched on in between.
PausedIsIdle ==
  (\E p \in Pausers : pauser[p] \in {"stopping", "paused"}) => ~IsWorking(gpu)

AsLeft == gpu.wanted = {} /\ gpu.current = {} /\ pmu = {}

\* mali_pm_os_resume finds nothing wanted and everything off, as its assertions say,
\* if no core is enabled meanwhile.
ResumeAsLeft ==
  gpu.cfg.switched = {} =>
    \A p \in Pausers : pauser[p] = "paused" /\ pm = Free => AsLeft

\* The assertions of mali_pm_os_resume as they stand: "things are as we left them in
\* os_suspend()".
AlwaysAsLeft ==
  \A p \in Pausers : pauser[p] = "paused" /\ pm = Free => AsLeft

\* Work is never forgotten: with the executor running and no call of
\* mali_executor_schedule outstanding, a queued GP job finds the GP core busy, waiting
\* for power or disabled, and a queued PP sub job some PP core that is, or all of
\* them disabled.
JobsNotForgotten ==
  ~kick /\ gpu.pause = 0 =>
    /\ gpu.gpQ > 0 => gpu.list[GP] \in {"WORKING", "DISABLED"} \/ gpu.gs[GP] = "PENDING"
    /\ gpu.ppQ > 0 => \/ \E p \in PPs : gpu.list[p] = "WORKING" \/ gpu.gs[p] = "PENDING"
                      \/ PPs \subseteq In(gpu, "DISABLED")

\* The lists and counters of the executor and the use counts of the domains agree with
\* the groups: mali_executor.c, mali_pm_domain.c.
GroupsConsistent == TypeOK /\ EnabledExact /\ UseExact

\* What an update tells the executor is what the executor expects, whatever it did since
\* the update was computed: mali_pm_update_sync_internal.
UpdatesExpected == PowerDownExpected /\ PowerUpExpected

\* A paused GPU is idle, a suspended one off, and resume finds what suspend left.
PauseSafe == PausedIsIdle /\ SuspendedIsOff /\ ResumeAsLeft

\* No activation and no queued job is forgotten, whatever order updates, suspends and
\* completions come in: mali_pm_update_sync, mali_executor_schedule.
NothingForgotten == PendingIsServed /\ JobsNotForgotten
=============================================================================
