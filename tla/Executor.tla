-------------------------------- MODULE Executor --------------------------------
(***************************************************************************)
(* The executor of mali_executor.c with the groups of mali_group.c and the *)
(* power domain references of mali_pm.c, for a GPU without a virtual group *)
(* (Mali-300/400).  A group is a GP or PP core with its MMU.               *)
(*                                                                         *)
(* Everything the executor lock, the scheduler lock and the PM state lock  *)
(* guard is one record; a function that runs under these locks is an       *)
(* operator from a record to a record, or to the set of records it may     *)
(* leave.  PowerManagement turns them into actions.                        *)
(*                                                                         *)
(*   cfg      the hardware: which power domain each core and the L2 are in *)
(*   gs       group->state                                                 *)
(*   on       the groups with group->power_is_on                           *)
(*   list     gp_group_state, and the list each PP group is on             *)
(*   req      the groups with group->disable_requested                     *)
(*   delay    core_scaling_delay_up_mask                                   *)
(*   enabled  num_physical_pp_cores_enabled                                *)
(*   pause    pause_count                                                  *)
(*   use      domain->use_count                                            *)
(*   wanted   pd_mask_wanted                                               *)
(*   current  pd_mask_current, and the domains with domain->power_is_on    *)
(*   work     the PM update work item is queued                            *)
(*   gpQ ppQ  GP jobs and PP sub jobs in the scheduler's queues            *)
(*   gpT ppT  GP jobs and PP sub jobs the timelines have not activated yet *)
(*                                                                         *)
(* The lists are sets: which of several equal groups is taken first is     *)
(* left open.                                                              *)
(***************************************************************************)
EXTENDS Integers, FiniteSets, FiniteSetsExt

CONSTANTS
  GP,         \* gp_group
  PPs,        \* the physical PP groups
  Dummy,      \* the domain of whatever has no domain of its own
  Domains     \* all power domains

Groups == {GP} \cup PPs
NumPP  == Cardinality(PPs)

ASSUME GroupsAssumption  == GP \notin PPs /\ IsFiniteSet(PPs)
ASSUME DomainsAssumption == Dummy \in Domains /\ IsFiniteSet(Domains)

\* Where the cores are, and how mali_pm_power_cost_setup spreads n enabled PP cores
\* over the domains (mali_pm_domain_power_cost_result); then bounds on what users do.
Config == [dom      : [Groups -> Domains],
           l2       : Domains,
           best     : [0 .. NumPP -> [Domains -> 0 .. NumPP]],
           maxGP    : Nat,                 \* GP jobs in the system at once
           maxPP    : Nat,                 \* PP sub jobs in the system at once
           switched : SUBSET Groups]       \* groups enabled and disabled by users

\* The cores that a number for each domain makes.
Total(cores) == MapThenSumSet(LAMBDA d : cores[d], Domains)

IsConfig(c) ==
  /\ c \in Config
  /\ \A n \in 0 .. NumPP :
       /\ Total(c.best[n]) = n
       /\ \A d \in Domains : c.best[n][d] <= Cardinality({p \in PPs : c.dom[p] = d})

GroupState == {"INACTIVE", "PENDING", "ACTIVE"}
ExecState  == {"INACTIVE", "IDLE", "WORKING", "DISABLED"}

In(e, state) == {g \in Groups : e.list[g] = state}
MoveTo(e, G, state) ==
  [e EXCEPT !.list = [g \in Groups |-> IF g \in G THEN state ELSE @[g]]]
Trigger(e, needed) == [e EXCEPT !.work = @ \/ needed]

IsWorking(e) == In(e, "WORKING") # {}

\* mali_timeline_has_gp_job and mali_timeline_has_physical_pp_job: some job has still
\* to be activated.
HasGPJob(e) == e.gpT > 0
HasPPJob(e) == e.ppT > 0

(***************************************************************************)
(* Groups and their domain references                                      *)
(***************************************************************************)

\* How many references the groups G hold on domain d: each has one for its own
\* domain and one for the L2's, which may be the same.
Refs(e, G, d) ==
  Cardinality({g \in G : e.cfg.dom[g] = d}) + (IF e.cfg.l2 = d THEN Cardinality(G) ELSE 0)

DomainsOf(e, G) == {d \in Domains : Refs(e, G, d) > 0}

\* Mutant: a domain that is on makes its group active, though the group has not
\* been told yet.
ActivateAll_IgnoreGroup(e, G) ==
  LET new   == {g \in G : e.gs[g] = "INACTIVE"}
      ready == {g \in new : DomainsOf(e, {g}) \subseteq e.current}
  IN  [e EXCEPT !.gs     = [g \in Groups |-> IF g \in ready THEN "ACTIVE"
                                             ELSE IF g \in new THEN "PENDING" ELSE @[g]],
                !.use    = [d \in Domains |-> @[d] + Refs(e, new, d)],
                !.wanted = @ \cup DomainsOf(e, new)]

\* mali_group_activate of each group of G, with mali_pm_get_domain_refs: at once
\* active only if its domains and the group itself are known to be on.
ActivateAll(e, G) ==
  LET new   == {g \in G : e.gs[g] = "INACTIVE"}
      ready == {g \in new \cap e.on : DomainsOf(e, {g}) \subseteq e.current}
  IN  [e EXCEPT !.gs     = [g \in Groups |-> IF g \in ready THEN "ACTIVE"
                                             ELSE IF g \in new THEN "PENDING" ELSE @[g]],
                !.use    = [d \in Domains |-> @[d] + Refs(e, new, d)],
                !.wanted = @ \cup DomainsOf(e, new)]

\* Every caller puts the groups that are active now on the idle list and asks for
\* a PM update if one is not.
Bring(e, G) ==
  LET f      == ActivateAll(e, G)
      active == {g \in G : f.gs[g] = "ACTIVE"}
  IN  Trigger(MoveTo(f, active, "IDLE"), active # G)

\* The domains that lose their last reference when G is deactivated.
Unused(e, G) == {d \in DomainsOf(e, G) : e.use[d] = Refs(e, G, d)}

\* Mutant: a domain is given up as soon as one of its users leaves.
DeactivateAll_AnyRef(e, G) ==
  [e EXCEPT !.gs     = [g \in Groups |-> IF g \in G THEN "INACTIVE" ELSE @[g]],
            !.use    = [d \in Domains |-> @[d] - Refs(e, G, d)],
            !.wanted = @ \ DomainsOf(e, G)]

\* mali_group_deactivate of each group of G, with mali_pm_put_domain_refs.
DeactivateAll(e, G) ==
  [e EXCEPT !.gs     = [g \in Groups |-> IF g \in G THEN "INACTIVE" ELSE @[g]],
            !.use    = [d \in Domains |-> @[d] - Refs(e, G, d)],
            !.wanted = @ \ Unused(e, G)]

(***************************************************************************)
(* mali_executor_schedule                                                  *)
(***************************************************************************)

\* Step 2: a GP job is queued and the GP group is inactive.
WakeGP(e) ==
  IF e.list[GP] = "INACTIVE" /\ e.gpQ > 0 THEN Bring(e, {GP}) ELSE e

\* Steps 3 to 3.1: as many inactive PP groups as there are sub jobs for which no
\* group is idle.
WakePPs(e) ==
  LET idle     == PPs \cap In(e, "IDLE")
      inactive == PPs \cap In(e, "INACTIVE")
      missing  == Cardinality(inactive)
      short    == e.ppQ - Cardinality(idle)
  IN  IF short <= 0 THEN {e}
      ELSE {Bring(e, A) : A \in kSubset(IF short < missing THEN short ELSE missing, inactive)}

\* Steps 3.3 and 4: sub jobs go to idle groups, and groups left idle are given up
\* when no PP job waits on a timeline.  While the GPU is GP bound a large job is held
\* back as long as some PP group works, and no group is given up.
Assign(e, S) ==
  [MoveTo(e, S, "WORKING") EXCEPT !.ppQ = @ - Cardinality(S)]

\* mali_executor_deactivate_list_idle
GiveUpIdle(e) ==
  LET idle == PPs \cap In(e, "IDLE")
  IN  Trigger(MoveTo(DeactivateAll(e, idle), idle, "INACTIVE"), Unused(e, idle) # {})

StartPPs(e) ==
  LET idle  == PPs \cap In(e, "IDLE")
      avail == Cardinality(idle)
      count == IF e.ppQ < avail THEN e.ppQ ELSE avail
      Rest(f) == IF HasPPJob(f) THEN f ELSE GiveUpIdle(f)
  IN  {Rest(Assign(e, S)) : S \in kSubset(count, idle)}
        \cup {f \in {Assign(e, S) : S \in SUBSET idle} :
                 /\ f.ppQ > e.ppQ - count
                 /\ PPs \cap In(f, "WORKING") # {}}

\* Step 8: the GP job goes to the idle GP group, or the group is given up.
StartGP(e) ==
  IF e.list[GP] # "IDLE" THEN e
  ELSE IF e.gpQ > 0 THEN [MoveTo(e, {GP}, "WORKING") EXCEPT !.gpQ = @ - 1]
  ELSE IF HasGPJob(e) THEN e
  ELSE Trigger(MoveTo(DeactivateAll(e, {GP}), {GP}, "INACTIVE"), Unused(e, {GP}) # {})

Schedule(e) ==
  IF e.pause > 0 THEN {e}
  ELSE {StartGP(g) : g \in UNION {StartPPs(f) : f \in WakePPs(WakeGP(e))}}

(***************************************************************************)
(* Enabling and disabling groups, and core scaling                         *)
(***************************************************************************)

\* mali_executor_group_enable_internal of each group of G, all disabled.
EnableAll(e, G) ==
  Bring([MoveTo(e, G, "INACTIVE") EXCEPT !.enabled = @ + Cardinality(G \cap PPs)], G)

\* mali_executor_group_disable_internal of each group of G, none disabled: a working
\* group is only marked.
DisableAll(e, G) ==
  LET now  == G \ In(e, "WORKING")
      held == {g \in now : e.gs[g] # "INACTIVE"}
      f    == [MoveTo(e, now, "DISABLED") EXCEPT
                 !.enabled = @ - Cardinality(now \cap PPs),
                 !.req     = @ \cup (G \ now)]
  IN  Trigger(DeactivateAll(f, held), Unused(e, held) # {})

InDomain(e, S, d) == {p \in S : e.cfg.dom[p] = d}
DisabledIn(e, d) == InDomain(e, PPs \cap In(e, "DISABLED"), d)
EnabledIn(e, d)  == InDomain(e, PPs \ In(e, "DISABLED"), d)

\* mali_executor_core_scale_in_group_complete: the group is disabled after all, and
\* for a PP core one of the cores that had to wait for it is enabled instead.
ScaleInGroupComplete(e, g) ==
  LET f    == [DisableAll(e, {g}) EXCEPT !.req = @ \ {g}]
      ups  == {d \in Domains : f.delay[d] > 0 /\ DisabledIn(f, d) # {}}
  IN  IF g = GP \/ ups = {} THEN {f}
      ELSE {[EnableAll(f, {p}) EXCEPT !.delay[f.cfg.dom[p]] = @ - 1] :
              p \in UNION {DisabledIn(f, d) : d \in ups}}

Least(a, b) == IF a < b THEN a ELSE b

\* How many cores each domain has to gain or lose for n cores.
Delta(e, n) == [d \in Domains |-> e.cfg.best[n][d] - e.cfg.best[e.enabled][d]]

\* The cores that may be chosen to be disabled, and then to be enabled: in each domain as
\* many as it loses or gains, as far as it has them, and not more than n altogether.
ToDisable(e, delta) ==
  {D \in SUBSET PPs : \A d \in Domains :
     /\ InDomain(e, D, d) \subseteq EnabledIn(e, d)
     /\ Cardinality(InDomain(e, D, d)) =
          IF delta[d] >= 0 THEN 0 ELSE Least(-delta[d], Cardinality(EnabledIn(e, d)))}

Room(e, delta) ==
  [d \in Domains |-> IF delta[d] <= 0 THEN 0 ELSE Least(delta[d], Cardinality(DisabledIn(e, d)))]

ToEnable(e, delta, n) ==
  LET missing == IF n > e.enabled THEN n - e.enabled ELSE 0
  IN  {U \in kSubset(Least(Total(Room(e, delta)), missing), PPs \cap In(e, "DISABLED")) :
         \A d \in Domains : Cardinality(InDomain(e, U, d)) <= Room(e, delta)[d]}

\* The cores that cannot be enabled yet, left to ScaleInGroupComplete.
Delayed(e, delta, U) ==
  [d \in Domains |-> IF delta[d] <= 0 THEN 0 ELSE delta[d] - Cardinality(InDomain(e, U, d))]

\* mali_executor_core_scale: the requests of the last scaling are dropped, cores are
\* disabled and enabled domain by domain until n are enabled.
CoreScale(e, n) ==
  LET delta == Delta(e, n)
      reset == [e EXCEPT !.req = {}, !.delay = [d \in Domains |-> 0]]
  IN  UNION {{[EnableAll(f, U) EXCEPT !.delay = Delayed(f, delta, U)] :
                U \in ToEnable(f, delta, n)} :
             f \in {DisableAll(reset, D) : D \in ToDisable(e, delta)}}

(***************************************************************************)
(* Completion, suspend and resume                                          *)
(***************************************************************************)

\* A tracker is released or a fence signalled: some of the waiting jobs are queued.
Queued(e, gp, pp) == [e EXCEPT !.gpT = @ - gp, !.gpQ = @ + gp, !.ppT = @ - pp, !.ppQ = @ + pp]
Activated(e) == {Queued(e, i, j) : i \in 0 .. e.gpT, j \in 0 .. e.ppT}

\* mali_executor_complete_group: the group has finished its job, well or badly.
CompleteGroup(e, g) ==
  LET After(f) == IF f.pause > 0 THEN {f}
                  ELSE IF g \in f.req THEN UNION {Schedule(h) : h \in ScaleInGroupComplete(f, g)}
                  ELSE Schedule(f)
  IN  UNION {After(f) : f \in Activated(MoveTo(e, {g}, "IDLE"))}

\* Mutant: groups that are waiting for power keep their references.
Quiesce_PendingKept(e) ==
  LET held == {g \in Groups : e.gs[g] = "ACTIVE"}
  IN  MoveTo(DeactivateAll(e, held), held, "INACTIVE")

\* The second half of mali_executor_suspend: every group that is active or about to
\* be gives up its power, without a PM update.
Quiesce(e) ==
  LET held == {g \in Groups : e.gs[g] # "INACTIVE"}
  IN  MoveTo(DeactivateAll(e, held), held, "INACTIVE")

\* mali_executor_group_power_up for the groups G, with mali_group_power_up.
PowerUpGroups(e, G) ==
  LET waiting == {g \in G : e.gs[g] = "PENDING" /\ e.list[g] = "INACTIVE"}
      f == [MoveTo(e, waiting, "IDLE") EXCEPT
              !.on = @ \cup G,
              !.gs = [g \in Groups |-> IF g \in waiting THEN "ACTIVE" ELSE @[g]]]
  IN  IF waiting = {} THEN {f} ELSE Schedule(f)

\* mali_executor_group_power_down, with mali_group_power_down.
PowerDownGroups(e, G) == [e EXCEPT !.on = @ \ G]
=============================================================================
