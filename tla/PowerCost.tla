------------------------------- MODULE PowerCost -------------------------------
(***************************************************************************)
(* Which power domains the cores of a GPU are in, and how the PP cores     *)
(* that are to be enabled are spread over the domains so that it costs     *)
(* least (mali_pm.c): the domains are detected or given by the device      *)
(* tree, cores and caches are registered, and mali_pm_power_cost_setup     *)
(* fills the table that core scaling reads.  Core scaling itself is the    *)
(* subject of Executor, whose IsConfig is what is shown of the table here. *)
(*                                                                         *)
(* A domain is the number of its bit, a mask a set of domains.             *)
(***************************************************************************)
EXTENDS Integers, FiniteSets, FiniteSetsExt

CONSTANTS
  Boards,  \* the GPUs: chip, PP cores, whether there is a PMU, device tree, limit of PP cores
  None

VARIABLES
  board,
  config,  \* domain_config, None for 0
  groups,  \* the cores that have a group
  best     \* mali_pm_domain_power_cost_result, None until it is set up

vars == <<board, config, groups, best>>

GP == 0
PPs == 1..8
L20 == 9
L21 == 10
L22 == 11
Units == 0..11
Dummy == 12

NoDomains == [u \in Units |-> None]

Init == board \in Boards /\ config = NoDomains /\ groups = {} /\ best = None

--------------------------------------------------------------------------------

\* mali_parse_config_l2_cache
Caches ==
  CASE board.chip = 400 -> {L20}
    [] board.chip = 450 -> {L20, L21} \cup (IF board.pps \cap 5..8 = {} THEN {} ELSE {L22})
    [] board.chip = 470 -> {L21}

\* mali_pm_set_default_pm_domain_config
Default ==
  [u \in Units |->
     CASE u = GP -> 0
       [] u \in 1..4 \cap board.pps ->
            (CASE board.chip = 400 -> u + 1
               [] board.chip = 450 -> IF u = 1 THEN 1 ELSE 2
               [] board.chip = 470 -> IF u = 1 THEN 0 ELSE 1)
       [] u \in 5..8 \cap board.pps -> 3
       [] u = L20 /\ u \in Caches -> IF board.chip = 400 THEN 1 ELSE 0
       [] u = L21 /\ u \in Caches -> IF board.chip = 450 THEN 1 ELSE 0
       [] u = L22 /\ u \in Caches -> 3
       [] OTHER -> None]

\* mali_pm_set_pmu_domain_config: nothing is set if there is no PMU.
SetDomains ==
  /\ config = NoDomains /\ groups = {}
  /\ config' = IF ~board.pmu THEN NoDomains
               ELSE IF board.tree # NoDomains THEN board.tree ELSE Default
  /\ UNCHANGED <<board, groups, best>>

\* mali_parse_config_groups: the PP cores get groups in their order, up to the limit.
Limited(cores) == {p \in cores : Cardinality({q \in cores : q < p}) < board.limit}

\* mali_pm_register_group, mali_pm_register_l2_cache: a unit that has no domain gets
\* the dummy domain.
Register ==
  /\ groups = {} /\ (board.pmu => config # NoDomains)
  /\ groups' = {GP} \cup Limited(board.pps \cap 1..4) \cup (board.pps \cap 5..8)
  /\ config' = [u \in Units |-> IF config[u] = None /\ u \in groups' \cup Caches
                                  THEN Dummy ELSE config[u]]
  /\ UNCHANGED <<board, best>>

--------------------------------------------------------------------------------

\* MALI_GP_COST, MALI_PP_COST, MALI_L2_COST
Cost(u) == IF u = GP THEN 3 ELSE IF u \in PPs THEN 6 ELSE 1
CacheOf(p) == IF board.chip = 400 THEN L20 ELSE IF p <= 4 THEN L21 ELSE L22

\* mali_pm_stat_from_mask: what a mask powers, what that costs, and the PP cores among
\* it whose L2 cache has power.
Powered(mask) == {u \in Units : config[u] \in mask}
CostOf(mask) == MapThenSumSet(Cost, Powered(mask))
Usable(mask) == {p \in PPs \cap Powered(mask) : config[CacheOf(p)] \in mask \cup {Dummy}}

\* mali_pm_power_cost_setup, first: all masks up to the highest domain of a PP core.
AlwaysOn == {p \in PPs : config[p] = Dummy}
Switched == {config[p] : p \in PPs} \ {Dummy, None}
Masks == SUBSET (IF Switched = {} THEN {} ELSE 0..Max(Switched))
Number(mask) == MapThenSumSet(LAMBDA d : 2^d, mask)

\* The cheapest mask for n cores, of equal ones the last; {} if there is none.
BestMask(n) ==
  LET able == {m \in Masks : Cardinality(Usable(m)) >= n}
      cheapest == {m \in able : \A k \in able : CostOf(m) <= CostOf(k)}
  IN  IF able = {} THEN {}
      ELSE CHOOSE m \in cheapest : \A k \in cheapest : Number(k) <= Number(m)

\* Its domains give a core each in turn, until n are given.  The cores of the domains are
\* not counted if the unit with number n - 1 is in the dummy domain.
Turns(n) ==
  {t \in (1..8) \X BestMask(n) :
     config[n - 1] # Dummy /\ t[1] <= Cardinality({p \in PPs : config[p] = t[2]})}
Before(t, u) == t[1] < u[1] \/ (t[1] = u[1] /\ t[2] < u[2])
Given(n) == {t \in Turns(n) : Cardinality({u \in Turns(n) : Before(u, t)}) < n}

\* The loop that gives them ends only if there are enough.
Ends(n) == BestMask(n) = {} \/ Cardinality(Turns(n)) >= n

Total == Cardinality(groups \cap PPs)
Always(n) == Min({n, Cardinality(AlwaysOn)})

PowerCostSetup ==
  /\ groups # {} /\ best = None
  /\ \A n \in 1..(Total - Cardinality(AlwaysOn)) : Ends(n)
  /\ best' = [n \in 0..Total |-> [d \in 0..Dummy |->
                IF d = Dummy THEN Always(n)
                ELSE IF n <= Cardinality(AlwaysOn) THEN 0
                ELSE Cardinality({t \in Given(n - Cardinality(AlwaysOn)) : t[2] = d})]]
  /\ UNCHANGED <<board, config, groups>>

Next == SetDomains \/ Register \/ PowerCostSetup

Spec == Init /\ [][Next]_vars

--------------------------------------------------------------------------------

\* The domains that must be powered to use some PP cores, with their L2 caches
Needs(cores) == ({config[p] : p \in cores} \cup {config[CacheOf(p)] : p \in cores}) \ {Dummy}

\* The table is set up, and for every number of cores it names as many, cores that exist
\* and, but for those that are always on, a choice than which none is cheaper.
CheapestCores ==
  /\ groups # {} => \A n \in 1..(Total - Cardinality(AlwaysOn)) : Ends(n)
  /\ best # None => \A n \in 0..Total :
       LET at(d) == {p \in groups \cap PPs : config[p] = d}
           used == {p \in groups \cap PPs : config[p] # Dummy /\ best[n][config[p]] > 0}
           others == kSubset(n - Always(n), (groups \cap PPs) \ AlwaysOn)
       IN /\ MapThenSumSet(LAMBDA d : best[n][d], 0..Dummy) = n
          /\ \A d \in 0..Dummy : best[n][d] <= Cardinality(at(d))
          /\ \A cores \in others : CostOf(Needs(used)) <= CostOf(Needs(cores))
================================================================================
