-------------------------- MODULE PowerManagementProofs --------------------------
(***************************************************************************)
(* For any number of PP cores, domains, jobs and pausers, if the cores and *)
(* the L2 cache either all have power domains or none has: no group is     *)
(* ever ready, or at work, without its power; what an update tells the     *)
(* executor is expected; the counters and lists agree; a paused GPU is     *)
(* idle and a suspended one off; and no activation and no queued job is    *)
(* forgotten.                                                              *)
(*                                                                         *)
(* The first invariant (IInv) has two halves.  What the executor lock      *)
(* guards is in order (InOrder) before and after every function of the     *)
(* executor, none of which changes what is marked on.  An update changes   *)
(* only that, and in an order (InStep) in which a group that was not told  *)
(* of its power never finds its domains marked on as long as something is  *)
(* missing.                                                                *)
(*                                                                         *)
(* The second (SInv) adds who pauses and who has been asked: no function   *)
(* of the executor leaves a group waiting for power without asking for it  *)
(* (Lean, Careful), each call of mali_executor_schedule leaves the queued  *)
(* jobs fed (Fed), and what holds pm_lock_exec answers for the groups that *)
(* wait (Served) until it has told them.                                   *)
(***************************************************************************)
EXTENDS PowerManagement, FiniteSetTheorems, TLAPS

\* Every unit has a power domain, or none has.
Whole(c) == \A g \in Groups : c.dom[g] = Dummy <=> c.l2 = Dummy

Held(e) == {g \in Groups : e.gs[g] # "INACTIVE"}

Gpu == [cfg : Configs, gs : [Groups -> GroupState], on : SUBSET Groups,
        list : [Groups -> ExecState], req : SUBSET Groups, delay : [Domains -> Int],
        enabled : Int, pause : Int, use : [Domains -> Int], wanted : SUBSET Domains,
        current : SUBSET Domains, work : BOOLEAN, gpQ : Int, ppQ : Int, gpT : Int, ppT : Int]

\* A group is idle or working exactly if it is active, and holds nothing if disabled.
ListsRight(e) ==
  \A g \in Groups : /\ e.list[g] \in {"IDLE", "WORKING"} <=> e.gs[g] = "ACTIVE"
                    /\ e.list[g] = "DISABLED" => e.gs[g] = "INACTIVE"

CoresCounted(e) == e.enabled = Cardinality(PPs \ In(e, "DISABLED"))

UsesCounted(e) ==
  /\ \A d \in Domains : e.use[d] = Refs(e, Held(e), d)
  /\ e.wanted = DomainsOf(e, Held(e))

ActiveIsOn(e) ==
  \A g \in Groups : e.gs[g] = "ACTIVE" => g \in e.on /\ DomainsOf(e, {g}) \subseteq e.current

InOrder(e) == e \in Gpu /\ ListsRight(e) /\ CoresCounted(e) /\ UsesCounted(e) /\ ActiveIsOn(e)

Has(g) == gpu.cfg.dom[g] \in gpu.current
Going(g) == pm.pc = "groupsdown" /\ gpu.cfg.dom[g] \in pm.mask
Coming(g) == pm.pc \in {"l2up", "groupsup"} /\ gpu.cfg.dom[g] \in pm.mask

Places == {"none", "up", "l2up", "groupsup", "down", "groupsdown", "cut", "suspend"}
Holders == [who : Pausers \cup {Worker, Runtime, Nobody}, pc : Places, mask : SUBSET Domains,
            off : BOOLEAN]

PmType == pm \in Holders /\ l2On \in BOOLEAN

\* What is marked on has power; what is being switched on is marked already, and what
\* is being switched off no longer.
DomainsInStep ==
  /\ gpu.current \subseteq PmuDomains \cup {Dummy}
  /\ gpu.current \ {Dummy} \subseteq pmu
  /\ pm.pc \in {"l2up", "groupsup"} =>
       /\ pm.mask \subseteq gpu.current /\ gpu.cfg.l2 \in gpu.current
       /\ InDomains(pm.mask) # {}
  /\ pm.pc \in {"groupsdown", "cut"} => pm.mask \cap gpu.current = {}
  /\ pm.off => pm.pc \in {"groupsdown", "cut"} /\ gpu.current = {}

\* A group that was told of its power has it, or will be told that it goes.
GroupsInStep ==
  \A g \in Groups :
    /\ g \in gpu.on => Has(g) \/ Going(g)
    /\ Has(g) => (g \in gpu.on \/ Coming(g)) /\ gpu.cfg.l2 \in gpu.current
    /\ Going(g) => g \in gpu.on
    /\ Coming(g) => g \notin gpu.on

\* The L2 cache is marked on before it is reset only while no group was told of power.
CacheInStep ==
  /\ gpu.cfg.l2 \in gpu.current => l2On \/ (pm.pc = "l2up" /\ gpu.cfg.l2 \in pm.mask /\ gpu.on = {})
  /\ pm.pc \in {"groupsdown", "cut"} /\ gpu.cfg.l2 \in pm.mask => l2On

InStep == PmType /\ DomainsInStep /\ GroupsInStep /\ CacheInStep

IInv == InOrder(gpu) /\ InStep
--------------------------------------------------------------------------------
\* A subset of the groups is finite and has a number of elements.
LEMMA GroupsFinite ==
  ASSUME NEW G \in SUBSET Groups
  PROVE  IsFiniteSet(G) /\ Cardinality(G) \in Nat /\ (Cardinality(G) = 0 <=> G = {})
<1>1. IsFiniteSet(Groups)
  BY GroupsAssumption, FS_Singleton, FS_Union DEF Groups
<1> QED
  BY <1>1, FS_Subset, FS_CardinalityType, FS_EmptySet

\* Cardinalities of disjoint sets of groups add up.
LEMMA DisjointCount ==
  ASSUME NEW A \in SUBSET Groups, NEW B \in SUBSET Groups, A \cap B = {}
  PROVE  Cardinality(A \cup B) = Cardinality(A) + Cardinality(B)
<1>1. Cardinality(A \cup B) = Cardinality(A) + Cardinality(B) - Cardinality(A \cap B)
  BY GroupsFinite, FS_Union
<1> QED
  BY <1>1, GroupsFinite, FS_EmptySet

\* A reference is counted where the group's core or the L2 cache is.
LEMMA RefsCount ==
  ASSUME NEW e \in Gpu, NEW G \in SUBSET Groups, NEW d \in Domains
  PROVE  /\ Refs(e, G, d) \in Nat
         /\ Refs(e, G, d) > 0 <=> \E g \in G : d \in {e.cfg.dom[g], e.cfg.l2}
<1> DEFINE at == {g \in G : e.cfg.dom[g] = d}
<1>1. Cardinality(at) \in Nat /\ (Cardinality(at) = 0 <=> at = {})
  BY GroupsFinite
<1>2. Cardinality(G) \in Nat /\ (Cardinality(G) = 0 <=> G = {})
  BY GroupsFinite
<1>3. Refs(e, G, d) = Cardinality(at) + (IF e.cfg.l2 = d THEN Cardinality(G) ELSE 0)
  BY DEF Refs
<1> HIDE DEF at
<1>4. /\ Refs(e, G, d) \in Nat
      /\ Refs(e, G, d) > 0 <=> at # {} \/ (e.cfg.l2 = d /\ G # {})
  BY <1>1, <1>2, <1>3
<1> QED
  BY <1>4 DEF at

LEMMA RefsAdd ==
  ASSUME NEW e \in Gpu, NEW A \in SUBSET Groups, NEW B \in SUBSET Groups, A \cap B = {},
         NEW d \in Domains
  PROVE  Refs(e, A \cup B, d) = Refs(e, A, d) + Refs(e, B, d)
<1> DEFINE at(G) == {g \in G : e.cfg.dom[g] = d}
<1>1. Cardinality(at(A \cup B)) = Cardinality(at(A)) + Cardinality(at(B))
  <2>1. at(A \cup B) = at(A) \cup at(B) /\ at(A) \cap at(B) = {}
    OBVIOUS
  <2>2. at(A) \in SUBSET Groups /\ at(B) \in SUBSET Groups
    OBVIOUS
  <2> QED
    BY <2>1, <2>2, DisjointCount
<1>2. Cardinality(A \cup B) = Cardinality(A) + Cardinality(B)
  BY DisjointCount
<1>3. /\ Cardinality(at(A)) \in Nat /\ Cardinality(at(B)) \in Nat
      /\ Cardinality(A) \in Nat /\ Cardinality(B) \in Nat
  BY GroupsFinite
<1> QED
  BY <1>1, <1>2, <1>3 DEF Refs

\* The domains of some groups: theirs and that of the L2 cache.
LEMMA DomainsAre ==
  ASSUME NEW e \in Gpu, NEW G \in SUBSET Groups
  PROVE  DomainsOf(e, G) = {d \in Domains : \E g \in G : d \in {e.cfg.dom[g], e.cfg.l2}}
BY RefsCount DEF DomainsOf

\* References and domains depend on the board alone.
LEMMA SameBoard ==
  ASSUME NEW e, NEW f, f.cfg = e.cfg, NEW G
  PROVE  /\ \A d \in Domains : Refs(f, G, d) = Refs(e, G, d)
         /\ DomainsOf(f, G) = DomainsOf(e, G)
BY DEF Refs, DomainsOf

\* The board, and what is marked on, is what a function of the executor leaves alone.
Same(e, f) == f.cfg = e.cfg /\ f.on = e.on /\ f.current = e.current

\* Records stay records.
LEMMA UpdateType ==
  ASSUME NEW e \in Gpu
  PROVE  /\ \A v \in [Groups -> GroupState] : [e EXCEPT !.gs = v] \in Gpu
         /\ \A v \in [Groups -> ExecState] : [e EXCEPT !.list = v] \in Gpu
         /\ \A v \in [Domains -> Int] : [e EXCEPT !.use = v] \in Gpu
         /\ \A v \in [Domains -> Int] : [e EXCEPT !.delay = v] \in Gpu
         /\ \A v \in SUBSET Domains : [e EXCEPT !.wanted = v] \in Gpu
         /\ \A v \in SUBSET Domains : [e EXCEPT !.current = v] \in Gpu
         /\ \A v \in SUBSET Groups : [e EXCEPT !.on = v] \in Gpu
         /\ \A v \in SUBSET Groups : [e EXCEPT !.req = v] \in Gpu
         /\ \A v \in BOOLEAN : [e EXCEPT !.work = v] \in Gpu
         /\ \A v \in Int : [e EXCEPT !.enabled = v] \in Gpu
         /\ \A v \in Int : [e EXCEPT !.pause = v] \in Gpu
         /\ \A v \in Int : [e EXCEPT !.gpQ = v] \in Gpu
         /\ \A v \in Int : [e EXCEPT !.ppQ = v] \in Gpu
         /\ \A v \in Int : [e EXCEPT !.gpT = v] \in Gpu
         /\ \A v \in Int : [e EXCEPT !.ppT = v] \in Gpu
BY DEF Gpu

\* mali_group_activate
LEMMA ActivateEffect ==
  ASSUME NEW e \in Gpu, NEW G \in SUBSET Groups
  PROVE  LET new == {g \in G : e.gs[g] = "INACTIVE"}
             f == ActivateAll(e, G)
         IN  /\ f \in Gpu /\ Same(e, f) /\ f.list = e.list /\ f.enabled = e.enabled
             /\ \A g \in Groups \ new : f.gs[g] = e.gs[g]
             /\ \A g \in new : f.gs[g] \in {"ACTIVE", "PENDING"}
             /\ \A g \in new : f.gs[g] = "ACTIVE" =>
                  g \in e.on /\ DomainsOf(e, {g}) \subseteq e.current
             /\ \A d \in Domains : f.use[d] = e.use[d] + Refs(e, new, d)
             /\ f.wanted = e.wanted \cup DomainsOf(e, new)
<1> DEFINE new == {g \in G : e.gs[g] = "INACTIVE"}
           ready == {g \in new \cap e.on : DomainsOf(e, {g}) \subseteq e.current}
           gs == [g \in Groups |-> IF g \in ready THEN "ACTIVE"
                                   ELSE IF g \in new THEN "PENDING" ELSE e.gs[g]]
           use == [d \in Domains |-> e.use[d] + Refs(e, new, d)]
           wanted == e.wanted \cup DomainsOf(e, new)
           f == [[[e EXCEPT !.gs = gs] EXCEPT !.use = use] EXCEPT !.wanted = wanted]
<1>1. gs \in [Groups -> GroupState]
  BY DEF Gpu, GroupState
<1>2. use \in [Domains -> Int]
  BY RefsCount DEF Gpu
<1>3. wanted \in SUBSET Domains
  BY DEF Gpu, DomainsOf
<1>4. ActivateAll(e, G) = f
  BY DEF ActivateAll, Gpu
<1>5. /\ \A g \in Groups \ new : gs[g] = e.gs[g]
      /\ \A g \in new : gs[g] \in {"ACTIVE", "PENDING"}
      /\ \A g \in new : gs[g] = "ACTIVE" =>
           g \in e.on /\ DomainsOf(e, {g}) \subseteq e.current
  OBVIOUS
<1>6. \A d \in Domains : use[d] = e.use[d] + Refs(e, new, d)
  OBVIOUS
<1> HIDE DEF gs, use, wanted
<1>7. f \in Gpu
  BY <1>1, <1>2, <1>3, UpdateType
<1>8. /\ f.gs = gs /\ f.use = use /\ f.wanted = wanted /\ f.list = e.list
      /\ f.enabled = e.enabled /\ Same(e, f)
  BY DEF Gpu, Same
<1> QED
  BY <1>4, <1>5, <1>6, <1>7, <1>8 DEF wanted

\* Counts and wanted domains stay right when groups take references ...
LEMMA UsesTaken ==
  ASSUME NEW e \in Gpu, UsesCounted(e), NEW f \in Gpu, f.cfg = e.cfg,
         NEW G \in SUBSET Groups, G \cap Held(e) = {}, Held(f) = Held(e) \cup G,
         \A d \in Domains : f.use[d] = e.use[d] + Refs(e, G, d),
         f.wanted = e.wanted \cup DomainsOf(e, G)
  PROVE  UsesCounted(f)
<1>1. Held(e) \in SUBSET Groups
  BY DEF Held
<1>2. \A d \in Domains : Refs(f, Held(f), d) = Refs(e, Held(e), d) + Refs(e, G, d)
  BY <1>1, RefsAdd, SameBoard
<1>3. \A d \in Domains : f.use[d] = Refs(f, Held(f), d)
  BY <1>2 DEF UsesCounted
<1>4. DomainsOf(e, Held(e) \cup G) = DomainsOf(e, Held(e)) \cup DomainsOf(e, G)
  BY <1>1, DomainsAre
<1>5. f.wanted = DomainsOf(f, Held(f))
  BY <1>4, SameBoard DEF UsesCounted
<1> QED
  BY <1>3, <1>5 DEF UsesCounted

\* ... and when they give theirs back.
LEMMA UsesGiven ==
  ASSUME NEW e \in Gpu, UsesCounted(e), NEW f \in Gpu, f.cfg = e.cfg,
         NEW G \in SUBSET Held(e), Held(f) = Held(e) \ G,
         \A d \in Domains : f.use[d] = e.use[d] - Refs(e, G, d),
         f.wanted = e.wanted \ Unused(e, G)
  PROVE  UsesCounted(f)
<1> DEFINE rest == Held(e) \ G
<1>1. /\ Held(e) \in SUBSET Groups /\ rest \in SUBSET Groups /\ G \in SUBSET Groups
      /\ rest \cap G = {} /\ rest \cup G = Held(e) /\ Held(f) = rest
  BY DEF Held
<1> HIDE DEF rest
<1>2. \A d \in Domains : Refs(e, Held(e), d) = Refs(e, rest, d) + Refs(e, G, d)
  BY <1>1, RefsAdd
<1>3. \A d \in Domains : Refs(e, rest, d) \in Nat /\ Refs(e, G, d) \in Nat
  BY <1>1, RefsCount
<1>4. \A d \in Domains : e.use[d] = Refs(e, Held(e), d)
  BY DEF UsesCounted
<1>5. \A d \in Domains : f.use[d] = Refs(f, Held(f), d)
  <2> SUFFICES ASSUME NEW d \in Domains PROVE f.use[d] = Refs(e, rest, d)
    BY <1>1, SameBoard
  <2>1. f.use[d] = e.use[d] - Refs(e, G, d)
    OBVIOUS
  <2> QED
    BY <1>2, <1>3, <1>4, <2>1
<1>6. ASSUME NEW d \in Domains
      PROVE  /\ d \in Unused(e, G) <=> Refs(e, G, d) > 0 /\ Refs(e, rest, d) = 0
             /\ d \in e.wanted <=> Refs(e, rest, d) > 0 \/ Refs(e, G, d) > 0
  <2>1. Refs(e, Held(e), d) = Refs(e, rest, d) + Refs(e, G, d)
    BY <1>2
  <2>2. Refs(e, rest, d) \in Nat /\ Refs(e, G, d) \in Nat
    BY <1>3
  <2>3. e.use[d] = Refs(e, Held(e), d)
    BY <1>4
  <2>4. d \in Unused(e, G) <=> Refs(e, G, d) > 0 /\ e.use[d] = Refs(e, G, d)
    BY DEF Unused, DomainsOf
  <2>5. d \in e.wanted <=> Refs(e, Held(e), d) > 0
    BY DEF UsesCounted, DomainsOf
  <2> QED
    BY <2>1, <2>2, <2>3, <2>4, <2>5
<1>7. ASSUME NEW d \in Domains
      PROVE  d \in f.wanted <=> d \in DomainsOf(e, rest)
  <2>1. d \in DomainsOf(e, rest) <=> Refs(e, rest, d) > 0
    BY DEF DomainsOf
  <2>2. Refs(e, rest, d) \in Nat
    BY <1>3
  <2>3. d \in f.wanted <=> d \in e.wanted /\ d \notin Unused(e, G)
    OBVIOUS
  <2> QED
    BY <1>6, <2>1, <2>2, <2>3
<1>8. f.wanted \subseteq Domains /\ DomainsOf(e, rest) \subseteq Domains
  BY DEF Gpu, DomainsOf
<1>9. f.wanted = DomainsOf(f, Held(f))
  BY <1>1, <1>7, <1>8, SameBoard
<1> QED
  BY <1>5, <1>9 DEF UsesCounted

\* A group is moved from list to list.
LEMMA MoveEffect ==
  ASSUME NEW e \in Gpu, NEW G \in SUBSET Groups, NEW state \in ExecState
  PROVE  LET f == MoveTo(e, G, state)
         IN  /\ f \in Gpu /\ Same(e, f) /\ f.gs = e.gs /\ f.use = e.use
             /\ f.wanted = e.wanted /\ f.enabled = e.enabled
             /\ \A g \in Groups : f.list[g] = IF g \in G THEN state ELSE e.list[g]
<1> DEFINE list == [g \in Groups |-> IF g \in G THEN state ELSE e.list[g]]
<1>1. list \in [Groups -> ExecState]
  BY DEF Gpu
<1>2. \A g \in Groups : list[g] = IF g \in G THEN state ELSE e.list[g]
  OBVIOUS
<1>3. MoveTo(e, G, state) = [e EXCEPT !.list = list]
  BY DEF MoveTo, Gpu
<1> HIDE DEF list
<1>4. [e EXCEPT !.list = list] \in Gpu
  BY <1>1, UpdateType
<1>5. LET f == [e EXCEPT !.list = list]
      IN  /\ Same(e, f) /\ f.gs = e.gs /\ f.use = e.use /\ f.wanted = e.wanted
          /\ f.enabled = e.enabled /\ f.list = list
  BY DEF Gpu, Same
<1> QED
  BY <1>2, <1>3, <1>4, <1>5

\* Fields the invariant says nothing of.
Alike(e, f) ==
  /\ Same(e, f) /\ f.gs = e.gs /\ f.list = e.list /\ f.use = e.use /\ f.wanted = e.wanted
  /\ f.enabled = e.enabled

LEMMA AlikeKept ==
  ASSUME NEW e \in Gpu, InOrder(e), NEW f \in Gpu, Alike(e, f)
  PROVE  InOrder(f)
<1>1. ListsRight(f) /\ CoresCounted(f)
  BY DEF InOrder, Alike, ListsRight, CoresCounted, In
<1>2. Held(f) = Held(e)
  BY DEF Held, Alike
<1>3. UsesCounted(f)
  BY <1>2, SameBoard DEF InOrder, Alike, Same, UsesCounted
<1>4. ActiveIsOn(f)
  BY SameBoard DEF InOrder, Alike, Same, ActiveIsOn
<1> QED
  BY <1>1, <1>3, <1>4 DEF InOrder

LEMMA TriggerEffect ==
  ASSUME NEW e \in Gpu, NEW needed \in BOOLEAN
  PROVE  Trigger(e, needed) \in Gpu /\ Alike(e, Trigger(e, needed))
<1>1. (e.work \/ needed) \in BOOLEAN
  OBVIOUS
<1>2. [e EXCEPT !.work = e.work \/ needed] \in Gpu
  BY <1>1, UpdateType
<1>3. Trigger(e, needed) = [e EXCEPT !.work = e.work \/ needed]
  BY DEF Trigger
<1>4. Alike(e, [e EXCEPT !.work = e.work \/ needed])
  BY DEF Alike, Same, Gpu
<1> QED
  BY <1>2, <1>3, <1>4

\* Groups on the inactive list become active or wait for power.
LEMMA BringKeeps ==
  ASSUME NEW e \in Gpu, InOrder(e), NEW G \in SUBSET Groups,
         \A g \in G : e.list[g] = "INACTIVE"
  PROVE  InOrder(Bring(e, G)) /\ Same(e, Bring(e, G))
<1> DEFINE new == {g \in G : e.gs[g] = "INACTIVE"}
           f == ActivateAll(e, G)
           ready == {g \in G : f.gs[g] = "ACTIVE"}
           h == MoveTo(f, ready, "IDLE")
<1> HIDE DEF f
<1>1. /\ f \in Gpu /\ Same(e, f) /\ f.list = e.list /\ f.enabled = e.enabled
      /\ \A g \in Groups \ new : f.gs[g] = e.gs[g]
      /\ \A g \in new : f.gs[g] \in {"ACTIVE", "PENDING"}
      /\ \A g \in new : f.gs[g] = "ACTIVE" =>
           g \in e.on /\ DomainsOf(e, {g}) \subseteq e.current
      /\ \A d \in Domains : f.use[d] = e.use[d] + Refs(e, new, d)
      /\ f.wanted = e.wanted \cup DomainsOf(e, new)
  BY ActivateEffect DEF f
<1>2. new \in SUBSET Groups /\ ready \in SUBSET Groups /\ "IDLE" \in ExecState
  BY DEF ExecState
<1>3. \A g \in Groups : g \in ready <=> g \in G /\ f.gs[g] = "ACTIVE"
  OBVIOUS
<1> HIDE DEF ready
<1>4. /\ h \in Gpu /\ Same(f, h) /\ h.gs = f.gs /\ h.use = f.use
      /\ h.wanted = f.wanted /\ h.enabled = f.enabled
      /\ \A g \in Groups : h.list[g] = IF g \in ready THEN "IDLE" ELSE f.list[g]
  <2>1. f \in Gpu
    BY <1>1
  <2> HIDE DEF new
  <2> QED
    BY <1>2, <2>1, MoveEffect
<1> HIDE DEF h
<1>5. UsesCounted(h)
  <2>1. Held(h) = Held(e) \cup new /\ new \cap Held(e) = {}
    <3>1. \A g \in Groups : h.gs[g] # "INACTIVE" <=> e.gs[g] # "INACTIVE" \/ g \in new
      BY <1>1, <1>4
    <3>2. \A g \in new : g \in Groups /\ e.gs[g] = "INACTIVE"
      OBVIOUS
    <3> HIDE DEF new
    <3> QED
      BY <3>1, <3>2 DEF Held
  <2>2. h.cfg = e.cfg
    BY <1>1, <1>4 DEF Same
  <2>3. /\ \A d \in Domains : h.use[d] = e.use[d] + Refs(e, new, d)
        /\ h.wanted = e.wanted \cup DomainsOf(e, new)
    BY <1>1, <1>4
  <2> QED
    BY <1>2, <1>4, <2>1, <2>2, <2>3, UsesTaken DEF InOrder
<1>6. ActiveIsOn(h)
  <2>1. h.on = e.on /\ h.current = e.current /\ h.cfg = e.cfg
    BY <1>1, <1>4 DEF Same
  <2> SUFFICES ASSUME NEW g \in Groups, h.gs[g] = "ACTIVE"
               PROVE  g \in e.on /\ DomainsOf(e, {g}) \subseteq e.current
    BY <2>1, SameBoard DEF ActiveIsOn
  <2>2. CASE g \in new
    BY <1>1, <1>4, <2>2
  <2>3. CASE g \notin new
    BY <1>1, <1>4, <2>3 DEF InOrder, ActiveIsOn
  <2> QED
    BY <2>2, <2>3
<1>7. ListsRight(h)
  <2> SUFFICES ASSUME NEW g \in Groups
               PROVE  /\ h.list[g] \in {"IDLE", "WORKING"} <=> h.gs[g] = "ACTIVE"
                      /\ h.list[g] = "DISABLED" => h.gs[g] = "INACTIVE"
    BY DEF ListsRight
  <2>1. /\ e.list[g] \in {"IDLE", "WORKING"} <=> e.gs[g] = "ACTIVE"
        /\ e.list[g] = "DISABLED" => e.gs[g] = "INACTIVE"
    BY DEF InOrder, ListsRight
  <2>2. CASE g \in ready
    BY <1>3, <1>4, <2>2
  <2>3. CASE g \in G \ ready
    BY <1>1, <1>3, <1>4, <2>3
  <2>4. CASE g \notin G
    BY <1>1, <1>3, <1>4, <2>1, <2>4
  <2> QED
    BY <2>2, <2>3, <2>4
<1>8. CoresCounted(h)
  <2>1. \A g \in Groups : h.list[g] = "DISABLED" <=> e.list[g] = "DISABLED"
    BY <1>1, <1>3, <1>4
  <2>2. In(h, "DISABLED") = In(e, "DISABLED")
    BY <2>1 DEF In
  <2> QED
    BY <1>1, <1>4, <2>2 DEF InOrder, CoresCounted
<1>9. InOrder(h) /\ Same(e, h)
  BY <1>1, <1>4, <1>5, <1>6, <1>7, <1>8 DEF InOrder, Same
<1>10. Bring(e, G) = Trigger(h, ready # G)
  BY DEF Bring, f, h, ready
<1>11. (ready # G) \in BOOLEAN
  OBVIOUS
<1> HIDE DEF new
<1>12. LET t == Trigger(h, ready # G) IN t \in Gpu /\ Alike(h, t)
  BY <1>4, <1>11, TriggerEffect
<1>13. LET t == Trigger(h, ready # G) IN InOrder(t) /\ Same(e, t)
  BY <1>4, <1>9, <1>12, AlikeKept DEF Same, Alike
<1> QED
  BY <1>10, <1>13

\* mali_group_deactivate
LEMMA DeactivateEffect ==
  ASSUME NEW e \in Gpu, NEW G \in SUBSET Groups
  PROVE  LET f == DeactivateAll(e, G)
         IN  /\ f \in Gpu /\ Same(e, f) /\ f.list = e.list /\ f.enabled = e.enabled
             /\ \A g \in Groups : f.gs[g] = IF g \in G THEN "INACTIVE" ELSE e.gs[g]
             /\ \A d \in Domains : f.use[d] = e.use[d] - Refs(e, G, d)
             /\ f.wanted = e.wanted \ Unused(e, G)
<1> DEFINE gs == [g \in Groups |-> IF g \in G THEN "INACTIVE" ELSE e.gs[g]]
           use == [d \in Domains |-> e.use[d] - Refs(e, G, d)]
           wanted == e.wanted \ Unused(e, G)
           f == [[[e EXCEPT !.gs = gs] EXCEPT !.use = use] EXCEPT !.wanted = wanted]
<1>1. gs \in [Groups -> GroupState]
  BY DEF Gpu, GroupState
<1>2. use \in [Domains -> Int]
  BY RefsCount DEF Gpu
<1>3. wanted \in SUBSET Domains
  BY DEF Gpu
<1>4. DeactivateAll(e, G) = f
  BY DEF DeactivateAll, Gpu
<1>5. /\ \A g \in Groups : gs[g] = IF g \in G THEN "INACTIVE" ELSE e.gs[g]
      /\ \A d \in Domains : use[d] = e.use[d] - Refs(e, G, d)
  OBVIOUS
<1> HIDE DEF gs, use, wanted
<1>6. f \in Gpu
  BY <1>1, <1>2, <1>3, UpdateType
<1>7. /\ f.gs = gs /\ f.use = use /\ f.wanted = wanted /\ f.list = e.list
      /\ f.enabled = e.enabled /\ Same(e, f)
  BY DEF Gpu, Same
<1> QED
  BY <1>4, <1>5, <1>6, <1>7 DEF wanted

\* What a function of the executor does to a state in order.
Kept(e, f) == InOrder(f) /\ Same(e, f)

LEMMA KeptTrans ==
  ASSUME NEW e, NEW f, NEW h, Kept(e, f), Kept(f, h)
  PROVE  Kept(e, h)
BY DEF Kept, Same

\* Active and pending groups become inactive.
LEMMA GiveBackKeeps ==
  ASSUME NEW e \in Gpu, InOrder(e), NEW G \in SUBSET Held(e)
  PROVE  Kept(e, MoveTo(DeactivateAll(e, G), G, "INACTIVE"))
<1> DEFINE f == DeactivateAll(e, G)
           h == MoveTo(f, G, "INACTIVE")
<1>1. G \in SUBSET Groups /\ "INACTIVE" \in ExecState
  BY DEF Held, ExecState
<1>2. /\ f \in Gpu /\ Same(e, f) /\ f.list = e.list /\ f.enabled = e.enabled
      /\ \A g \in Groups : f.gs[g] = IF g \in G THEN "INACTIVE" ELSE e.gs[g]
      /\ \A d \in Domains : f.use[d] = e.use[d] - Refs(e, G, d)
      /\ f.wanted = e.wanted \ Unused(e, G)
  BY <1>1, DeactivateEffect
<1> HIDE DEF f
<1>3. /\ h \in Gpu /\ Same(f, h) /\ h.gs = f.gs /\ h.use = f.use
      /\ h.wanted = f.wanted /\ h.enabled = f.enabled
      /\ \A g \in Groups : h.list[g] = IF g \in G THEN "INACTIVE" ELSE f.list[g]
  <2>1. f \in Gpu
    BY <1>2
  <2> QED
    BY <1>1, <2>1, MoveEffect
<1> HIDE DEF h
<1>4. Same(e, h)
  BY <1>2, <1>3 DEF Same
<1>5. UsesCounted(h)
  <2>1. Held(h) = Held(e) \ G
    <3>1. \A g \in Groups : h.gs[g] # "INACTIVE" <=> e.gs[g] # "INACTIVE" /\ g \notin G
      BY <1>2, <1>3
    <3> QED
      BY <3>1 DEF Held
  <2>2. /\ \A d \in Domains : h.use[d] = e.use[d] - Refs(e, G, d)
        /\ h.wanted = e.wanted \ Unused(e, G)
    BY <1>2, <1>3
  <2>3. h.cfg = e.cfg
    BY <1>4 DEF Same
  <2> QED
    BY <1>3, <2>1, <2>2, <2>3, UsesGiven DEF InOrder
<1>6. ActiveIsOn(h)
  <2>1. \A g \in Groups : h.gs[g] = "ACTIVE" => e.gs[g] = "ACTIVE"
    BY <1>2, <1>3
  <2> QED
    BY <1>4, <2>1, SameBoard DEF InOrder, ActiveIsOn, Same
<1>7. ListsRight(h)
  <2> SUFFICES ASSUME NEW g \in Groups
               PROVE  /\ h.list[g] \in {"IDLE", "WORKING"} <=> h.gs[g] = "ACTIVE"
                      /\ h.list[g] = "DISABLED" => h.gs[g] = "INACTIVE"
    BY DEF ListsRight
  <2>1. /\ e.list[g] \in {"IDLE", "WORKING"} <=> e.gs[g] = "ACTIVE"
        /\ e.list[g] = "DISABLED" => e.gs[g] = "INACTIVE"
    BY DEF InOrder, ListsRight
  <2> QED
    BY <1>2, <1>3, <2>1
<1>8. CoresCounted(h)
  <2>1. \A g \in Groups : h.list[g] = "DISABLED" <=> e.list[g] = "DISABLED"
    <3> SUFFICES ASSUME NEW g \in Groups PROVE h.list[g] = "DISABLED" <=> e.list[g] = "DISABLED"
      OBVIOUS
    <3>1. CASE g \in G
      BY <1>3, <3>1 DEF InOrder, ListsRight, Held
    <3>2. CASE g \notin G
      BY <1>2, <1>3, <3>2
    <3> QED
      BY <3>1, <3>2
  <2>2. In(h, "DISABLED") = In(e, "DISABLED")
    BY <2>1 DEF In
  <2> QED
    BY <1>2, <1>3, <2>2 DEF InOrder, CoresCounted
<1> QED
  BY <1>3, <1>4, <1>5, <1>6, <1>7, <1>8 DEF InOrder, Kept, h, f

\* A job is given to an active group, or ends.
LEMMA SwitchKeeps ==
  ASSUME NEW e \in Gpu, InOrder(e), NEW G \in SUBSET Groups,
         \A g \in G : e.list[g] \in {"IDLE", "WORKING"}, NEW state \in {"IDLE", "WORKING"}
  PROVE  Kept(e, MoveTo(e, G, state))
<1> DEFINE h == MoveTo(e, G, state)
<1>1. state \in ExecState
  BY DEF ExecState
<1>2. /\ h \in Gpu /\ Same(e, h) /\ h.gs = e.gs /\ h.use = e.use
      /\ h.wanted = e.wanted /\ h.enabled = e.enabled
      /\ \A g \in Groups : h.list[g] = IF g \in G THEN state ELSE e.list[g]
  BY <1>1, MoveEffect
<1> HIDE DEF h
<1>3. Held(h) = Held(e)
  BY <1>2 DEF Held
<1>4. UsesCounted(h)
  BY <1>2, <1>3, SameBoard DEF InOrder, UsesCounted, Same
<1>5. ActiveIsOn(h)
  BY <1>2, SameBoard DEF InOrder, ActiveIsOn, Same
<1>6. ListsRight(h)
  BY <1>2 DEF InOrder, ListsRight
<1>7. CoresCounted(h)
  <2>1. \A g \in Groups : h.list[g] = "DISABLED" <=> e.list[g] = "DISABLED"
    BY <1>2
  <2>2. In(h, "DISABLED") = In(e, "DISABLED")
    BY <2>1 DEF In
  <2> QED
    BY <1>2, <2>2 DEF InOrder, CoresCounted
<1> QED
  BY <1>2, <1>4, <1>5, <1>6, <1>7 DEF InOrder, Kept, h

LEMMA TriggerKeeps ==
  ASSUME NEW e \in Gpu, InOrder(e), NEW needed \in BOOLEAN
  PROVE  Kept(e, Trigger(e, needed))
BY TriggerEffect, AlikeKept DEF Kept, Alike

\* Counting jobs concerns no group.
LEMMA QueuesKeep ==
  ASSUME NEW e \in Gpu, InOrder(e), NEW n \in Int
  PROVE  /\ Kept(e, [e EXCEPT !.gpQ = n]) /\ Kept(e, [e EXCEPT !.ppQ = n])
         /\ Kept(e, [e EXCEPT !.gpT = n]) /\ Kept(e, [e EXCEPT !.ppT = n])
         /\ Kept(e, [e EXCEPT !.pause = n])
<1>1. /\ [e EXCEPT !.gpQ = n] \in Gpu /\ [e EXCEPT !.ppQ = n] \in Gpu
      /\ [e EXCEPT !.gpT = n] \in Gpu /\ [e EXCEPT !.ppT = n] \in Gpu
      /\ [e EXCEPT !.pause = n] \in Gpu
  BY UpdateType
<1>2. /\ Alike(e, [e EXCEPT !.gpQ = n]) /\ Alike(e, [e EXCEPT !.ppQ = n])
      /\ Alike(e, [e EXCEPT !.gpT = n]) /\ Alike(e, [e EXCEPT !.ppT = n])
      /\ Alike(e, [e EXCEPT !.pause = n])
  BY DEF Alike, Same, Gpu
<1> QED
  BY <1>1, <1>2, AlikeKept DEF Kept, Alike
--------------------------------------------------------------------------------
\* mali_executor_schedule, step 2
LEMMA WakeGPKeeps ==
  ASSUME NEW e \in Gpu, InOrder(e)
  PROVE  Kept(e, WakeGP(e))
<1>1. CASE e.list[GP] = "INACTIVE" /\ e.gpQ > 0
  <2>1. {GP} \in SUBSET Groups /\ \A g \in {GP} : e.list[g] = "INACTIVE"
    BY <1>1 DEF Groups
  <2> QED
    BY <1>1, <2>1, BringKeeps DEF WakeGP, Kept
<1>2. CASE ~(e.list[GP] = "INACTIVE" /\ e.gpQ > 0)
  BY <1>2 DEF WakeGP, Kept, Same
<1> QED
  BY <1>1, <1>2

\* Steps 3 to 3.1
LEMMA WakePPsKeep ==
  ASSUME NEW e \in Gpu, InOrder(e), NEW f \in WakePPs(e)
  PROVE  Kept(e, f)
<1> DEFINE inactive == PPs \cap In(e, "INACTIVE")
<1>1. f = e \/ \E A \in SUBSET inactive : f = Bring(e, A)
  BY DEF WakePPs, kSubset
<1>2. CASE f = e
  BY <1>2 DEF Kept, Same
<1>3. ASSUME NEW A \in SUBSET inactive, f = Bring(e, A)
      PROVE  Kept(e, f)
  <2>1. A \in SUBSET Groups /\ \A g \in A : e.list[g] = "INACTIVE"
    BY DEF In, Groups
  <2> QED
    BY <1>3, <2>1, BringKeeps DEF Kept
<1> QED
  BY <1>1, <1>2, <1>3

\* Steps 3.3 and 4
LEMMA AssignKeeps ==
  ASSUME NEW e \in Gpu, InOrder(e), NEW S \in SUBSET (PPs \cap In(e, "IDLE"))
  PROVE  Kept(e, Assign(e, S))
<1> DEFINE f == MoveTo(e, S, "WORKING")
<1>1. S \in SUBSET Groups /\ \A g \in S : e.list[g] \in {"IDLE", "WORKING"}
  BY DEF In, Groups
<1>2. Kept(e, f)
  BY <1>1, SwitchKeeps
<1>3. f \in Gpu /\ InOrder(f)
  BY <1>2 DEF Kept, InOrder
<1> HIDE DEF f
<1>4. f.ppQ - Cardinality(S) \in Int
  BY <1>1, <1>3, GroupsFinite DEF Gpu
<1>5. Kept(f, [f EXCEPT !.ppQ = f.ppQ - Cardinality(S)])
  BY <1>3, <1>4, QueuesKeep
<1>6. Assign(e, S) = [f EXCEPT !.ppQ = f.ppQ - Cardinality(S)]
  BY DEF Assign, f
<1> QED
  BY <1>2, <1>5, <1>6, KeptTrans

LEMMA GiveUpKeeps ==
  ASSUME NEW e \in Gpu, InOrder(e)
  PROVE  Kept(e, GiveUpIdle(e))
<1> DEFINE idle == PPs \cap In(e, "IDLE")
           f == MoveTo(DeactivateAll(e, idle), idle, "INACTIVE")
<1>1. idle \in SUBSET Held(e)
  BY DEF In, Held, InOrder, ListsRight
<1>2. Kept(e, f)
  BY <1>1, GiveBackKeeps
<1>3. f \in Gpu /\ InOrder(f)
  BY <1>2 DEF Kept, InOrder
<1> HIDE DEF f
<1>4. Kept(f, Trigger(f, Unused(e, idle) # {}))
  BY <1>3, TriggerKeeps
<1>5. GiveUpIdle(e) = Trigger(f, Unused(e, idle) # {})
  BY DEF GiveUpIdle, f
<1> QED
  BY <1>2, <1>4, <1>5, KeptTrans

LEMMA StartPPsKeep ==
  ASSUME NEW e \in Gpu, InOrder(e), NEW f \in StartPPs(e)
  PROVE  Kept(e, f)
<1> DEFINE idle == PPs \cap In(e, "IDLE")
<1>1. PICK S \in SUBSET idle : f = Assign(e, S) \/ f = GiveUpIdle(Assign(e, S))
  BY DEF StartPPs, kSubset
<1>2. Kept(e, Assign(e, S))
  BY AssignKeeps
<1>3. Assign(e, S) \in Gpu /\ InOrder(Assign(e, S))
  BY <1>2 DEF Kept, InOrder
<1>4. Kept(Assign(e, S), GiveUpIdle(Assign(e, S)))
  BY <1>3, GiveUpKeeps
<1> QED
  BY <1>1, <1>2, <1>4, KeptTrans

\* Step 8
LEMMA StartGPKeeps ==
  ASSUME NEW e \in Gpu, InOrder(e)
  PROVE  Kept(e, StartGP(e))
<1>1. CASE e.list[GP] # "IDLE" \/ (~(e.gpQ > 0) /\ HasGPJob(e))
  BY <1>1 DEF StartGP, Kept, Same
<1>2. CASE e.list[GP] = "IDLE" /\ e.gpQ > 0
  <2> DEFINE f == MoveTo(e, {GP}, "WORKING")
  <2>1. {GP} \in SUBSET Groups /\ \A g \in {GP} : e.list[g] \in {"IDLE", "WORKING"}
    BY <1>2 DEF Groups
  <2>2. Kept(e, f)
    BY <2>1, SwitchKeeps
  <2>3. f \in Gpu /\ InOrder(f)
    BY <2>2 DEF Kept, InOrder
  <2> HIDE DEF f
  <2>4. f.gpQ - 1 \in Int
    BY <2>3 DEF Gpu
  <2>5. Kept(f, [f EXCEPT !.gpQ = f.gpQ - 1])
    BY <2>3, <2>4, QueuesKeep
  <2>6. StartGP(e) = [f EXCEPT !.gpQ = f.gpQ - 1]
    BY <1>2 DEF StartGP, f
  <2> QED
    BY <2>2, <2>5, <2>6, KeptTrans
<1>3. CASE e.list[GP] = "IDLE" /\ ~(e.gpQ > 0) /\ ~HasGPJob(e)
  <2> DEFINE f == MoveTo(DeactivateAll(e, {GP}), {GP}, "INACTIVE")
  <2>1. {GP} \in SUBSET Held(e)
    BY <1>3 DEF Held, InOrder, ListsRight, Groups
  <2>2. Kept(e, f)
    BY <2>1, GiveBackKeeps
  <2>3. f \in Gpu /\ InOrder(f)
    BY <2>2 DEF Kept, InOrder
  <2> HIDE DEF f
  <2>4. Kept(f, Trigger(f, Unused(e, {GP}) # {}))
    BY <2>3, TriggerKeeps
  <2>5. StartGP(e) = Trigger(f, Unused(e, {GP}) # {})
    BY <1>3 DEF StartGP, f
  <2> QED
    BY <2>2, <2>4, <2>5, KeptTrans
<1> QED
  BY <1>1, <1>2, <1>3

\* mali_executor_schedule
LEMMA ScheduleKeeps ==
  ASSUME NEW e \in Gpu, InOrder(e), NEW f \in Schedule(e)
  PROVE  Kept(e, f)
<1>1. CASE f = e
  BY <1>1 DEF Kept, Same
<1>2. ASSUME NEW h \in WakePPs(WakeGP(e)), NEW i \in StartPPs(h), f = StartGP(i)
      PROVE  Kept(e, f)
  <2>1. Kept(e, WakeGP(e)) /\ WakeGP(e) \in Gpu /\ InOrder(WakeGP(e))
    BY WakeGPKeeps DEF Kept, InOrder
  <2>2. Kept(WakeGP(e), h) /\ h \in Gpu /\ InOrder(h)
    BY <2>1, WakePPsKeep DEF Kept, InOrder
  <2>3. Kept(h, i) /\ i \in Gpu /\ InOrder(i)
    BY <2>2, StartPPsKeep DEF Kept, InOrder
  <2>4. Kept(i, f)
    BY <1>2, <2>3, StartGPKeeps
  <2> QED
    BY <2>1, <2>2, <2>3, <2>4, KeptTrans
<1> QED
  BY <1>1, <1>2 DEF Schedule
--------------------------------------------------------------------------------
LEMMA RequestsKeep ==
  ASSUME NEW e \in Gpu, InOrder(e)
  PROVE  /\ \A v \in SUBSET Groups : Kept(e, [e EXCEPT !.req = v])
         /\ \A v \in [Domains -> Int] : Kept(e, [e EXCEPT !.delay = v])
<1>1. ASSUME NEW v \in SUBSET Groups
      PROVE  [e EXCEPT !.req = v] \in Gpu /\ Alike(e, [e EXCEPT !.req = v])
  <2>1. [e EXCEPT !.req = v] \in Gpu
    BY UpdateType
  <2> QED
    BY <2>1 DEF Alike, Same, Gpu
<1>2. ASSUME NEW v \in [Domains -> Int]
      PROVE  [e EXCEPT !.delay = v] \in Gpu /\ Alike(e, [e EXCEPT !.delay = v])
  <2>1. [e EXCEPT !.delay = v] \in Gpu
    BY UpdateType
  <2> QED
    BY <2>1 DEF Alike, Same, Gpu
<1> QED
  BY <1>1, <1>2, AlikeKept DEF Kept, Alike

\* mali_executor_group_enable_internal
LEMMA EnableKeeps ==
  ASSUME NEW e \in Gpu, InOrder(e), NEW G \in SUBSET Groups,
         \A g \in G : e.list[g] = "DISABLED"
  PROVE  Kept(e, EnableAll(e, G))
<1> DEFINE f == MoveTo(e, G, "INACTIVE")
           h == [f EXCEPT !.enabled = f.enabled + Cardinality(G \cap PPs)]
<1>1. "INACTIVE" \in ExecState
  BY DEF ExecState
<1>2. /\ f \in Gpu /\ Same(e, f) /\ f.gs = e.gs /\ f.use = e.use
      /\ f.wanted = e.wanted /\ f.enabled = e.enabled
      /\ \A g \in Groups : f.list[g] = IF g \in G THEN "INACTIVE" ELSE e.list[g]
  BY <1>1, MoveEffect
<1> HIDE DEF f
<1>3. Cardinality(G \cap PPs) \in Nat /\ f.enabled \in Int
  BY <1>2, GroupsFinite DEF Gpu
<1>4. /\ h \in Gpu /\ Same(e, h) /\ h.gs = e.gs /\ h.use = e.use /\ h.wanted = e.wanted
      /\ h.enabled = e.enabled + Cardinality(G \cap PPs)
      /\ \A g \in Groups : h.list[g] = IF g \in G THEN "INACTIVE" ELSE e.list[g]
  <2>1. h \in Gpu
    BY <1>2, <1>3, UpdateType
  <2>2. /\ Same(f, h) /\ h.gs = f.gs /\ h.use = f.use /\ h.wanted = f.wanted
        /\ h.enabled = f.enabled + Cardinality(G \cap PPs) /\ h.list = f.list
    BY <1>2 DEF Same, Gpu
  <2> QED
    BY <1>2, <2>1, <2>2 DEF Same
<1>5. EnableAll(e, G) = Bring(h, G)
  BY DEF EnableAll, f
<1> HIDE DEF h
<1>6. UsesCounted(h)
  <2>1. Held(h) = Held(e)
    BY <1>4 DEF Held
  <2> QED
    BY <1>4, <2>1, SameBoard DEF InOrder, UsesCounted, Same
<1>7. ActiveIsOn(h)
  BY <1>4, SameBoard DEF InOrder, ActiveIsOn, Same
<1>8. ListsRight(h)
  <2> SUFFICES ASSUME NEW g \in Groups
               PROVE  /\ h.list[g] \in {"IDLE", "WORKING"} <=> h.gs[g] = "ACTIVE"
                      /\ h.list[g] = "DISABLED" => h.gs[g] = "INACTIVE"
    BY DEF ListsRight
  <2>1. /\ e.list[g] \in {"IDLE", "WORKING"} <=> e.gs[g] = "ACTIVE"
        /\ e.list[g] = "DISABLED" => e.gs[g] = "INACTIVE"
    BY DEF InOrder, ListsRight
  <2> QED
    BY <1>4, <2>1
<1>9. CoresCounted(h)
  <2> DEFINE was == PPs \ In(e, "DISABLED")
  <2>1. \A g \in Groups : h.list[g] = "DISABLED" <=> e.list[g] = "DISABLED" /\ g \notin G
    BY <1>4
  <2>2. PPs \ In(h, "DISABLED") = was \cup (G \cap PPs)
    BY <2>1 DEF In, Groups
  <2>3. was \cap (G \cap PPs) = {}
    BY DEF In
  <2>4. was \in SUBSET Groups /\ G \cap PPs \in SUBSET Groups
    BY DEF Groups
  <2>5. Cardinality(was \cup (G \cap PPs)) = Cardinality(was) + Cardinality(G \cap PPs)
    BY <2>3, <2>4, DisjointCount
  <2> QED
    BY <1>4, <2>2, <2>5 DEF InOrder, CoresCounted
<1>10. InOrder(h) /\ \A g \in G : h.list[g] = "INACTIVE"
  BY <1>4, <1>6, <1>7, <1>8, <1>9 DEF InOrder
<1> QED
  BY <1>4, <1>5, <1>10, BringKeeps DEF Kept, Same

\* mali_executor_group_disable_internal
LEMMA DisableKeeps ==
  ASSUME NEW e \in Gpu, InOrder(e), NEW G \in SUBSET Groups,
         \A g \in G : e.list[g] # "DISABLED"
  PROVE  Kept(e, DisableAll(e, G))
<1> DEFINE now == G \ In(e, "WORKING")
           held == {g \in now : e.gs[g] # "INACTIVE"}
           m == MoveTo(e, now, "DISABLED")
           k == [m EXCEPT !.enabled = m.enabled - Cardinality(now \cap PPs)]
           f == [k EXCEPT !.req = k.req \cup (G \ now)]
           h == DeactivateAll(f, held)
<1>1. /\ now \in SUBSET Groups /\ held \in SUBSET Groups /\ "DISABLED" \in ExecState
      /\ held \in SUBSET Held(e)
  BY DEF ExecState, Held
<1>2. /\ m \in Gpu /\ Same(e, m) /\ m.gs = e.gs /\ m.use = e.use
      /\ m.wanted = e.wanted /\ m.enabled = e.enabled
      /\ \A g \in Groups : m.list[g] = IF g \in now THEN "DISABLED" ELSE e.list[g]
  <2> HIDE DEF now
  <2> QED
    BY <1>1, MoveEffect
<1>3. \A g \in held : g \in now
  OBVIOUS
<1>4. \A g \in now : g \notin held => e.gs[g] = "INACTIVE"
  OBVIOUS
<1>5. DisableAll(e, G) = Trigger(h, Unused(e, held) # {})
  BY DEF DisableAll
<1>6. \A g \in now : g \in G /\ e.list[g] # "WORKING"
  BY DEF In
<1> HIDE DEF m, held, now
<1>7. Cardinality(now \cap PPs) \in Nat /\ m.enabled \in Int
  BY <1>1, <1>2, GroupsFinite DEF Gpu
<1>8. /\ k \in Gpu /\ Same(m, k) /\ k.gs = m.gs /\ k.use = m.use /\ k.wanted = m.wanted
      /\ k.enabled = m.enabled - Cardinality(now \cap PPs) /\ k.list = m.list
  <2>1. k \in Gpu
    BY <1>2, <1>7, UpdateType
  <2> QED
    BY <1>2, <2>1 DEF Same, Gpu
<1> HIDE DEF k
<1>9. /\ f \in Gpu /\ Same(k, f) /\ f.gs = k.gs /\ f.use = k.use /\ f.wanted = k.wanted
      /\ f.enabled = k.enabled /\ f.list = k.list
  <2>1. k.req \cup (G \ now) \in SUBSET Groups
    BY <1>8 DEF Gpu
  <2>2. f \in Gpu
    BY <1>8, <2>1, UpdateType
  <2> QED
    BY <1>8, <2>2 DEF Same, Gpu
<1> HIDE DEF f
<1>10. /\ Same(e, f) /\ f.gs = e.gs /\ f.use = e.use /\ f.wanted = e.wanted
       /\ f.enabled = e.enabled - Cardinality(now \cap PPs)
       /\ \A g \in Groups : f.list[g] = IF g \in now THEN "DISABLED" ELSE e.list[g]
  BY <1>2, <1>8, <1>9 DEF Same
<1>11. /\ h \in Gpu /\ Same(f, h) /\ h.list = f.list /\ h.enabled = f.enabled
       /\ \A g \in Groups : h.gs[g] = IF g \in held THEN "INACTIVE" ELSE f.gs[g]
       /\ \A d \in Domains : h.use[d] = f.use[d] - Refs(f, held, d)
       /\ h.wanted = f.wanted \ Unused(f, held)
  BY <1>1, <1>9, DeactivateEffect
<1> HIDE DEF h
<1>12. Same(e, h)
  BY <1>10, <1>11 DEF Same
<1>13. UsesCounted(h)
  <2>1. Held(f) = Held(e)
    BY <1>10 DEF Held
  <2>2. UsesCounted(f)
    BY <1>10, <2>1, SameBoard DEF InOrder, UsesCounted, Same
  <2>3. Held(h) = Held(f) \ held
    <3>1. \A g \in Groups : h.gs[g] # "INACTIVE" <=> f.gs[g] # "INACTIVE" /\ g \notin held
      BY <1>11
    <3> QED
      BY <3>1 DEF Held
  <2>4. held \in SUBSET Held(f) /\ h.cfg = f.cfg
    BY <1>1, <1>11, <2>1 DEF Same
  <2> QED
    BY <1>9, <1>11, <2>2, <2>3, <2>4, UsesGiven
<1>14. ActiveIsOn(h)
  <2>1. \A g \in Groups : h.gs[g] = "ACTIVE" => e.gs[g] = "ACTIVE"
    BY <1>10, <1>11
  <2> QED
    BY <1>12, <2>1, SameBoard DEF InOrder, ActiveIsOn, Same
<1>15. ListsRight(h)
  <2> SUFFICES ASSUME NEW g \in Groups
               PROVE  /\ h.list[g] \in {"IDLE", "WORKING"} <=> h.gs[g] = "ACTIVE"
                      /\ h.list[g] = "DISABLED" => h.gs[g] = "INACTIVE"
    BY DEF ListsRight
  <2>1. /\ e.list[g] \in {"IDLE", "WORKING"} <=> e.gs[g] = "ACTIVE"
        /\ e.list[g] = "DISABLED" => e.gs[g] = "INACTIVE"
    BY DEF InOrder, ListsRight
  <2>2. CASE g \in now
    <3>1. h.gs[g] = "INACTIVE"
      BY <1>4, <1>10, <1>11, <2>2
    <3> QED
      BY <1>10, <1>11, <2>2, <3>1
  <2>3. CASE g \notin now
    BY <1>3, <1>10, <1>11, <2>1, <2>3
  <2> QED
    BY <2>2, <2>3
<1>16. CoresCounted(h)
  <2> DEFINE left == PPs \ In(h, "DISABLED")
  <2>1. \A g \in Groups : h.list[g] = "DISABLED" <=> e.list[g] = "DISABLED" \/ g \in now
    BY <1>10, <1>11
  <2>2. PPs \ In(e, "DISABLED") = left \cup (now \cap PPs)
    BY <1>6, <2>1 DEF In, Groups
  <2>3. left \cap (now \cap PPs) = {}
    BY <2>1 DEF In, Groups
  <2>4. left \in SUBSET Groups /\ now \cap PPs \in SUBSET Groups
    BY DEF Groups
  <2>5. Cardinality(left \cup (now \cap PPs)) = Cardinality(left) + Cardinality(now \cap PPs)
    BY <2>3, <2>4, DisjointCount
  <2>6. Cardinality(left) \in Nat
    BY <2>4, GroupsFinite
  <2>7. e.enabled = Cardinality(PPs \ In(e, "DISABLED"))
    BY DEF InOrder, CoresCounted
  <2>8. h.enabled = Cardinality(left)
    <3> HIDE DEF left
    <3> QED
      <4>1. e.enabled = Cardinality(left) + Cardinality(now \cap PPs)
        BY <2>2, <2>5, <2>7
      <4>2. h.enabled = e.enabled - Cardinality(now \cap PPs)
        BY <1>10, <1>11
      <4> QED
        BY <1>7, <2>6, <4>1, <4>2
  <2> QED
    BY <2>8 DEF CoresCounted
<1>17. Kept(e, h)
  BY <1>11, <1>12, <1>13, <1>14, <1>15, <1>16 DEF InOrder, Kept
<1>18. Kept(h, Trigger(h, Unused(e, held) # {}))
  BY <1>11, <1>17, TriggerKeeps DEF Kept
<1> QED
  BY <1>5, <1>17, <1>18, KeptTrans

--------------------------------------------------------------------------------
\* Where a core is, and how many cores are enabled
LEMMA BoardType ==
  ASSUME NEW e \in Gpu, InOrder(e)
  PROVE  /\ \A g \in Groups : e.cfg.dom[g] \in Domains
         /\ e.cfg.l2 \in Domains
         /\ e.enabled \in 0 .. NumPP
         /\ \A n \in 0 .. NumPP : \A d \in Domains : e.cfg.best[n][d] \in Nat
<1>1. e.cfg \in Config
  BY ConfigsAssumption DEF Gpu, IsConfig
<1>2. PPs \in SUBSET Groups /\ PPs \ In(e, "DISABLED") \in SUBSET Groups
  BY DEF Groups
<1>3. Cardinality(PPs \ In(e, "DISABLED")) <= NumPP
  BY <1>2, GroupsFinite, FS_Subset DEF NumPP
<1>4. NumPP \in Nat /\ Cardinality(PPs \ In(e, "DISABLED")) \in Nat
  BY <1>2, GroupsFinite DEF NumPP
<1>5. e.enabled \in 0 .. NumPP
  BY <1>3, <1>4 DEF InOrder, CoresCounted
<1>6. /\ e.cfg.dom \in [Groups -> Domains] /\ e.cfg.l2 \in Domains
      /\ e.cfg.best \in [0 .. NumPP -> [Domains -> 0 .. NumPP]]
  BY <1>1 DEF Config
<1>7. ASSUME NEW n \in 0 .. NumPP, NEW d \in Domains
      PROVE  e.cfg.best[n][d] \in Nat
  <2>1. e.cfg.best[n] \in [Domains -> 0 .. NumPP]
    BY <1>6
  <2> QED
    BY <2>1
<1> QED
  BY <1>5, <1>6, <1>7

\* mali_executor_core_scale_in_group_complete
LEMMA ScaleInKeeps ==
  ASSUME NEW e \in Gpu, InOrder(e), NEW g \in Groups, e.list[g] = "IDLE",
         NEW h \in ScaleInGroupComplete(e, g)
  PROVE  Kept(e, h)
<1> DEFINE k == DisableAll(e, {g})
           f == [k EXCEPT !.req = k.req \ {g}]
<1>1. Kept(e, k)
  BY DisableKeeps
<1> HIDE DEF k
<1>2. k \in Gpu /\ InOrder(k) /\ k.req \ {g} \in SUBSET Groups
  BY <1>1 DEF Kept, InOrder, Gpu
<1>3. Kept(k, f)
  BY <1>2, RequestsKeep
<1> HIDE DEF f
<1>4. f \in Gpu /\ InOrder(f)
  BY <1>3 DEF Kept, InOrder
<1>5. \/ h = f
      \/ \E p \in PPs : /\ f.list[p] = "DISABLED"
                        /\ h = [EnableAll(f, {p}) EXCEPT !.delay[f.cfg.dom[p]] = @ - 1]
  <2> DEFINE ups == {d \in Domains : f.delay[d] > 0 /\ DisabledIn(f, d) # {}}
             F(p) == [EnableAll(f, {p}) EXCEPT !.delay[f.cfg.dom[p]] = @ - 1]
  <2>1. ScaleInGroupComplete(e, g) =
          IF g = GP \/ ups = {} THEN {f} ELSE {F(p) : p \in UNION {DisabledIn(f, d) : d \in ups}}
    BY DEF ScaleInGroupComplete, f, k
  <2>2. ASSUME NEW d \in Domains, NEW p \in DisabledIn(f, d)
        PROVE  p \in PPs /\ f.list[p] = "DISABLED"
    BY DEF DisabledIn, InDomain, In
  <2> HIDE DEF F
  <2>3. h = f \/ \E p \in PPs : f.list[p] = "DISABLED" /\ h = F(p)
    BY <2>1, <2>2
  <2> QED
    BY <2>3 DEF F
<1>6. CASE h = f
  BY <1>1, <1>3, <1>6, KeptTrans
<1>7. ASSUME NEW p \in PPs, f.list[p] = "DISABLED",
             h = [EnableAll(f, {p}) EXCEPT !.delay[f.cfg.dom[p]] = @ - 1]
      PROVE  Kept(e, h)
  <2> DEFINE i == EnableAll(f, {p})
  <2>1. {p} \in SUBSET Groups
    BY DEF Groups
  <2>2. Kept(f, i)
    BY <1>4, <1>7, <2>1, EnableKeeps
  <2>3. h = [i EXCEPT !.delay[f.cfg.dom[p]] = @ - 1]
    BY <1>7
  <2> HIDE DEF i
  <2>4. i \in Gpu /\ InOrder(i)
    BY <2>2 DEF Kept, InOrder
  <2>5. f.cfg.dom[p] \in Domains
    BY <1>4, BoardType DEF Groups
  <2> DEFINE v == [i.delay EXCEPT ![f.cfg.dom[p]] = @ - 1]
  <2>6. i.delay \in [Domains -> Int]
    BY <2>4 DEF Gpu
  <2>7. v \in [Domains -> Int]
    BY <2>5, <2>6
  <2>8. h = [i EXCEPT !.delay = v]
    BY <2>3, <2>4 DEF Gpu
  <2> HIDE DEF v
  <2>9. Kept(i, h)
    BY <2>4, <2>7, <2>8, RequestsKeep
  <2> QED
    BY <1>1, <1>3, <2>2, <2>9, KeptTrans
<1> QED
  BY <1>5, <1>6, <1>7

\* mali_executor_core_scale
LEMMA CoreScaleKeeps ==
  ASSUME NEW e \in Gpu, InOrder(e), NEW n \in 0 .. NumPP, NEW h \in CoreScale(e, n)
  PROVE  Kept(e, h)
<1> DEFINE none == [d \in Domains |-> 0]
           q == [e EXCEPT !.req = {}]
           reset == [q EXCEPT !.delay = none]
<1>1. Kept(e, q)
  BY RequestsKeep
<1>2. q \in Gpu /\ InOrder(q) /\ none \in [Domains -> Int]
  BY <1>1 DEF Kept, InOrder
<1>3. Kept(q, reset)
  <2> HIDE DEF q, none
  <2> QED
    BY <1>2, RequestsKeep
<1>4. reset \in Gpu /\ InOrder(reset) /\ Kept(e, reset)
  BY <1>1, <1>3, KeptTrans DEF Kept, InOrder
<1>5. reset.list = e.list
  BY DEF Gpu
<1>6. \E D \in SUBSET PPs : \E U \in SUBSET PPs : \E v \in [Domains -> Int] :
        LET f == DisableAll(reset, D)
        IN  /\ \A p \in D : e.list[p] # "DISABLED"
            /\ \A p \in U : f.list[p] = "DISABLED"
            /\ h = [EnableAll(f, U) EXCEPT !.delay = v]
  <2> DEFINE delta == Delta(e, n)
  <2>1. PICK D \in ToDisable(e, delta) : \E U \in ToEnable(DisableAll(reset, D), delta, n) :
          LET f == DisableAll(reset, D)
          IN  h = [EnableAll(f, U) EXCEPT !.delay = Delayed(f, delta, U)]
    BY DEF CoreScale
  <2> DEFINE f == DisableAll(reset, D)
  <2>2. PICK U \in ToEnable(f, delta, n) :
          h = [EnableAll(f, U) EXCEPT !.delay = Delayed(f, delta, U)]
    BY <2>1
  <2>3. \A d \in Domains : delta[d] \in Int
    BY BoardType DEF Delta
  <2>4. D \in SUBSET PPs /\ \A d \in Domains : InDomain(e, D, d) \subseteq EnabledIn(e, d)
    BY DEF ToDisable
  <2>5. \A p \in D : e.list[p] # "DISABLED"
    BY <2>4, BoardType DEF EnabledIn, InDomain, In, Groups
  <2> HIDE DEF f, delta
  <2>6. U \in SUBSET (PPs \cap In(f, "DISABLED"))
    BY DEF ToEnable, kSubset
  <2>7. U \in SUBSET PPs /\ \A p \in U : f.list[p] = "DISABLED"
    BY <2>6 DEF In
  <2>8. \A d \in Domains : Cardinality(InDomain(f, U, d)) \in Nat
    BY <2>7, GroupsFinite DEF InDomain, Groups
  <2>9. Delayed(f, delta, U) \in [Domains -> Int]
    BY <2>3, <2>8 DEF Delayed
  <2> QED
    BY <2>2, <2>4, <2>5, <2>7, <2>9 DEF f
<1>7. PICK D \in SUBSET PPs, U \in SUBSET PPs, v \in [Domains -> Int] :
        LET f == DisableAll(reset, D)
        IN  /\ \A p \in D : e.list[p] # "DISABLED"
            /\ \A p \in U : f.list[p] = "DISABLED"
            /\ h = [EnableAll(f, U) EXCEPT !.delay = v]
  BY <1>6
<1> DEFINE f == DisableAll(reset, D)
           i == EnableAll(f, U)
<1>8. D \in SUBSET Groups /\ U \in SUBSET Groups
  BY DEF Groups
<1> HIDE DEF reset
<1>9. Kept(reset, f)
  BY <1>4, <1>5, <1>7, <1>8, DisableKeeps
<1>10. f \in Gpu /\ InOrder(f) /\ (\A p \in U : f.list[p] = "DISABLED")
  BY <1>7, <1>9 DEF Kept, InOrder
<1>11. h = [i EXCEPT !.delay = v]
  BY <1>7
<1> HIDE DEF f
<1>12. Kept(f, i)
  BY <1>8, <1>10, EnableKeeps
<1>13. i \in Gpu /\ InOrder(i)
  BY <1>12 DEF Kept, InOrder
<1> HIDE DEF i
<1>14. Kept(i, h)
  BY <1>11, <1>13, RequestsKeep
<1> QED
  BY <1>4, <1>9, <1>12, <1>14, KeptTrans
--------------------------------------------------------------------------------
\* Trackers are released and fences signalled.
LEMMA ActivatedKeeps ==
  ASSUME NEW e \in Gpu, InOrder(e), NEW f \in Activated(e)
  PROVE  Kept(e, f) /\ f.list = e.list
<1>1. PICK i \in 0 .. e.gpT, j \in 0 .. e.ppT : f = Queued(e, i, j)
  BY DEF Activated
<1>2. /\ e.gpT - i \in Int /\ e.gpQ + i \in Int /\ e.ppT - j \in Int /\ e.ppQ + j \in Int
  BY DEF Gpu
<1> DEFINE k == [[[[e EXCEPT !.gpT = e.gpT - i] EXCEPT !.gpQ = e.gpQ + i]
                     EXCEPT !.ppT = e.ppT - j] EXCEPT !.ppQ = e.ppQ + j]
<1>3. f = k
  BY <1>1 DEF Queued, Gpu
<1>4. k \in Gpu
  BY <1>2, UpdateType
<1>5. Alike(e, k)
  BY DEF Alike, Same, Gpu
<1> QED
  BY <1>3, <1>4, <1>5, AlikeKept DEF Kept, Alike

\* mali_executor_complete_group
LEMMA CompleteKeeps ==
  ASSUME NEW e \in Gpu, InOrder(e), NEW g \in In(e, "WORKING"), NEW h \in CompleteGroup(e, g)
  PROVE  Kept(e, h)
<1> DEFINE m == MoveTo(e, {g}, "IDLE")
<1>1. g \in Groups /\ e.list[g] = "WORKING" /\ {g} \in SUBSET Groups
  BY DEF In
<1>2. Kept(e, m) /\ m.list[g] = "IDLE"
  <2>1. "IDLE" \in ExecState /\ \A q \in {g} : e.list[q] \in {"IDLE", "WORKING"}
    BY <1>1 DEF ExecState
  <2> QED
    BY <1>1, <2>1, SwitchKeeps, MoveEffect
<1> HIDE DEF m
<1>3. m \in Gpu /\ InOrder(m)
  BY <1>2 DEF Kept, InOrder
<1>4. PICK f \in Activated(m) :
        \/ h = f
        \/ \E i \in ScaleInGroupComplete(f, g) : h \in Schedule(i)
        \/ h \in Schedule(f)
  BY DEF CompleteGroup, m
<1>5. Kept(m, f) /\ f.list = m.list
  BY <1>3, ActivatedKeeps
<1>6. f \in Gpu /\ InOrder(f) /\ f.list[g] = "IDLE" /\ Kept(e, f)
  BY <1>2, <1>5, KeptTrans DEF Kept, InOrder
<1>7. CASE h = f
  BY <1>6, <1>7
<1>8. CASE h \in Schedule(f)
  BY <1>6, <1>8, ScheduleKeeps, KeptTrans
<1>9. ASSUME NEW i \in ScaleInGroupComplete(f, g), h \in Schedule(i)
      PROVE  Kept(e, h)
  <2>1. Kept(f, i) /\ i \in Gpu /\ InOrder(i)
    BY <1>1, <1>6, ScaleInKeeps DEF Kept, InOrder
  <2> QED
    BY <1>6, <1>9, <2>1, ScheduleKeeps, KeptTrans
<1> QED
  BY <1>4, <1>7, <1>8, <1>9

\* The second half of mali_executor_suspend
LEMMA QuiesceKeeps ==
  ASSUME NEW e \in Gpu, InOrder(e)
  PROVE  Kept(e, Quiesce(e))
BY GiveBackKeeps DEF Quiesce, Held

\* The groups of G are told that they have power: those that were waiting for it are
\* active now.
Waiting(e, G) == {g \in G : e.gs[g] = "PENDING" /\ e.list[g] = "INACTIVE"}

Told(e, G) ==
  [MoveTo(e, Waiting(e, G), "IDLE") EXCEPT
     !.on = @ \cup G, !.gs = [g \in Groups |-> IF g \in Waiting(e, G) THEN "ACTIVE" ELSE @[g]]]

LEMMA ToldEffect ==
  ASSUME NEW e \in Gpu, NEW G \in SUBSET Groups
  PROVE  LET f == Told(e, G)
         IN  /\ f \in Gpu /\ f.on = e.on \cup G /\ f.cfg = e.cfg /\ f.current = e.current
             /\ f.use = e.use /\ f.wanted = e.wanted /\ f.enabled = e.enabled
             /\ f.pause = e.pause /\ f.work = e.work /\ f.delay = e.delay /\ f.gpT = e.gpT
             /\ f.gpQ = e.gpQ /\ f.ppT = e.ppT /\ f.ppQ = e.ppQ
             /\ \A g \in Groups : f.gs[g] = IF g \in Waiting(e, G) THEN "ACTIVE" ELSE e.gs[g]
             /\ \A g \in Groups : f.list[g] = IF g \in Waiting(e, G) THEN "IDLE" ELSE e.list[g]
<1> DEFINE W == Waiting(e, G)
           m == MoveTo(e, W, "IDLE")
           on == m.on \cup G
           k == [m EXCEPT !.on = on]
           gs == [g \in Groups |-> IF g \in W THEN "ACTIVE" ELSE k.gs[g]]
           f == [k EXCEPT !.gs = gs]
<1>1. W \in SUBSET Groups /\ "IDLE" \in ExecState
  BY DEF Waiting, ExecState
<1>2. Told(e, G) = f
  BY DEF Told, MoveTo, Gpu
<1> HIDE DEF W
<1>3. /\ m \in Gpu /\ Same(e, m) /\ m.gs = e.gs /\ m.use = e.use
      /\ m.wanted = e.wanted /\ m.enabled = e.enabled
      /\ \A g \in Groups : m.list[g] = IF g \in W THEN "IDLE" ELSE e.list[g]
  <2>1. MoveTo(e, W, "IDLE") \in Gpu /\ Same(e, MoveTo(e, W, "IDLE"))
    BY <1>1, MoveEffect
  <2>2. /\ MoveTo(e, W, "IDLE").gs = e.gs /\ MoveTo(e, W, "IDLE").use = e.use
        /\ MoveTo(e, W, "IDLE").wanted = e.wanted /\ MoveTo(e, W, "IDLE").enabled = e.enabled
    BY <1>1, MoveEffect
  <2>3. \A g \in Groups : MoveTo(e, W, "IDLE").list[g] = IF g \in W THEN "IDLE" ELSE e.list[g]
    BY <1>1, MoveEffect
  <2> QED
    BY <2>1, <2>2, <2>3
<1>4. /\ m.pause = e.pause /\ m.work = e.work /\ m.delay = e.delay /\ m.gpT = e.gpT
      /\ m.gpQ = e.gpQ /\ m.ppT = e.ppT /\ m.ppQ = e.ppQ
  BY DEF MoveTo, Gpu
<1> HIDE DEF m
<1>5. on \in SUBSET Groups /\ on = e.on \cup G
  BY <1>3 DEF Gpu, Same
<1> HIDE DEF on
<1>6. /\ k \in Gpu /\ k.on = on /\ k.cfg = m.cfg /\ k.current = m.current
      /\ k.gs = m.gs /\ k.use = m.use /\ k.wanted = m.wanted /\ k.enabled = m.enabled
      /\ k.pause = m.pause /\ k.work = m.work /\ k.delay = m.delay /\ k.gpT = m.gpT
      /\ k.gpQ = m.gpQ /\ k.ppT = m.ppT /\ k.ppQ = m.ppQ /\ k.list = m.list
  <2>1. k \in Gpu
    BY <1>3, <1>5, UpdateType
  <2> QED
    BY <1>3, <2>1 DEF Gpu
<1> HIDE DEF k
<1>7. gs \in [Groups -> GroupState]
  BY <1>6 DEF Gpu, GroupState
<1>8. \A g \in Groups : gs[g] = IF g \in W THEN "ACTIVE" ELSE k.gs[g]
  OBVIOUS
<1> HIDE DEF gs
<1>9. /\ f \in Gpu /\ f.on = k.on /\ f.cfg = k.cfg /\ f.current = k.current
      /\ f.gs = gs /\ f.use = k.use /\ f.wanted = k.wanted /\ f.enabled = k.enabled
      /\ f.pause = k.pause /\ f.work = k.work /\ f.delay = k.delay /\ f.gpT = k.gpT
      /\ f.gpQ = k.gpQ /\ f.ppT = k.ppT /\ f.ppQ = k.ppQ /\ f.list = k.list
  <2>1. f \in Gpu
    BY <1>6, <1>7, UpdateType
  <2> QED
    BY <1>6, <2>1 DEF Gpu
<1> HIDE DEF f
<1>10. /\ \A g \in Groups : f.gs[g] = IF g \in W THEN "ACTIVE" ELSE e.gs[g]
       /\ \A g \in Groups : f.list[g] = IF g \in W THEN "IDLE" ELSE e.list[g]
  BY <1>3, <1>6, <1>8, <1>9
<1>11. /\ f \in Gpu /\ f.on = e.on \cup G /\ f.cfg = e.cfg /\ f.current = e.current
       /\ f.use = e.use /\ f.wanted = e.wanted /\ f.enabled = e.enabled
       /\ f.pause = e.pause /\ f.work = e.work /\ f.delay = e.delay /\ f.gpT = e.gpT
       /\ f.gpQ = e.gpQ /\ f.ppT = e.ppT /\ f.ppQ = e.ppQ
  BY <1>3, <1>4, <1>5, <1>6, <1>9 DEF Same
<1> QED
  BY <1>2, <1>10, <1>11 DEF W

LEMMA ToldKeeps ==
  ASSUME NEW e \in Gpu, InOrder(e), NEW G \in SUBSET Groups,
         \A g \in G : DomainsOf(e, {g}) \subseteq e.current
  PROVE  InOrder(Told(e, G))
<1> DEFINE W == Waiting(e, G)
           f == Told(e, G)
<1>1. \A g \in W : g \in G /\ g \in Groups /\ e.gs[g] = "PENDING" /\ e.list[g] = "INACTIVE"
  BY DEF Waiting
<1>2. /\ f \in Gpu /\ f.on = e.on \cup G /\ f.cfg = e.cfg /\ f.current = e.current
      /\ f.use = e.use /\ f.wanted = e.wanted /\ f.enabled = e.enabled
      /\ \A g \in Groups : f.gs[g] = IF g \in W THEN "ACTIVE" ELSE e.gs[g]
      /\ \A g \in Groups : f.list[g] = IF g \in W THEN "IDLE" ELSE e.list[g]
  BY ToldEffect
<1> HIDE DEF f, W
<1>9. UsesCounted(f)
  <2>1. \A g \in Groups : f.gs[g] # "INACTIVE" <=> e.gs[g] # "INACTIVE"
    BY <1>1, <1>2
  <2>2. Held(f) = Held(e)
    BY <2>1 DEF Held
  <2> QED
    BY <1>2, <2>2, SameBoard DEF InOrder, UsesCounted
<1>10. ActiveIsOn(f)
  <2> SUFFICES ASSUME NEW g \in Groups, f.gs[g] = "ACTIVE"
               PROVE  g \in e.on \cup G /\ DomainsOf(e, {g}) \subseteq e.current
    BY <1>2, SameBoard DEF ActiveIsOn
  <2>1. CASE g \in W
    BY <1>1, <2>1
  <2>2. CASE g \notin W
    BY <1>2, <2>2 DEF InOrder, ActiveIsOn
  <2> QED
    BY <2>1, <2>2
<1>11. ListsRight(f)
  <2> SUFFICES ASSUME NEW g \in Groups
               PROVE  /\ f.list[g] \in {"IDLE", "WORKING"} <=> f.gs[g] = "ACTIVE"
                      /\ f.list[g] = "DISABLED" => f.gs[g] = "INACTIVE"
    BY DEF ListsRight
  <2>1. /\ e.list[g] \in {"IDLE", "WORKING"} <=> e.gs[g] = "ACTIVE"
        /\ e.list[g] = "DISABLED" => e.gs[g] = "INACTIVE"
    BY DEF InOrder, ListsRight
  <2> QED
    BY <1>2, <2>1
<1>12. CoresCounted(f)
  <2>1. \A g \in Groups : f.list[g] = "DISABLED" <=> e.list[g] = "DISABLED"
    BY <1>1, <1>2
  <2>2. In(f, "DISABLED") = In(e, "DISABLED")
    BY <2>1 DEF In
  <2> QED
    BY <1>2, <2>2 DEF InOrder, CoresCounted
<1>13. InOrder(f)
  BY <1>2, <1>9, <1>10, <1>11, <1>12 DEF InOrder
<1> QED
  BY <1>13 DEF f

\* mali_executor_group_power_up
LEMMA PowerUpAre ==
  ASSUME NEW e \in Gpu, NEW G \in SUBSET Groups, NEW h \in PowerUpGroups(e, G)
  PROVE  h \in IF Waiting(e, G) = {} THEN {Told(e, G)} ELSE Schedule(Told(e, G))
BY DEF PowerUpGroups, Told, Waiting

LEMMA PowerUpKeeps ==
  ASSUME NEW e \in Gpu, InOrder(e), NEW G \in SUBSET Groups,
         \A g \in G : DomainsOf(e, {g}) \subseteq e.current, NEW h \in PowerUpGroups(e, G)
  PROVE  /\ InOrder(h) /\ h.cfg = e.cfg /\ h.current = e.current /\ h.on = e.on \cup G
<1> DEFINE f == Told(e, G)
<1>1. /\ f \in Gpu /\ InOrder(f)
      /\ f.on = e.on \cup G /\ f.cfg = e.cfg /\ f.current = e.current
  BY ToldEffect, ToldKeeps
<1>2. h = f \/ h \in Schedule(f)
  BY PowerUpAre
<1> HIDE DEF f
<1>3. Kept(f, h)
  <2>1. CASE h = f
    BY <1>1, <2>1 DEF Kept, Same
  <2>2. CASE h \in Schedule(f)
    BY <1>1, <2>2, ScheduleKeeps
  <2> QED
    BY <1>2, <2>1, <2>2
<1> QED
  BY <1>1, <1>3 DEF Kept, Same
--------------------------------------------------------------------------------
\* The domains a group needs: its own and that of the L2 cache, which both are domains.
LEMMA Needed ==
  ASSUME NEW e \in Gpu, InOrder(e), NEW g \in Groups
  PROVE  /\ e.cfg.dom[g] \in Domains /\ e.cfg.l2 \in Domains
         /\ DomainsOf(e, {g}) = {e.cfg.dom[g], e.cfg.l2}
BY BoardType, DomainsAre

\* What is wanted includes the domain of the L2 cache and those of an active group; if
\* anything is wanted then for some group.
LEMMA WantedAre ==
  ASSUME NEW e \in Gpu, InOrder(e)
  PROVE  /\ \A g \in Held(e) : DomainsOf(e, {g}) \subseteq e.wanted
         /\ e.wanted # {} => e.cfg.l2 \in e.wanted
         /\ \A d \in e.wanted : \E g \in Held(e) : d \in {e.cfg.dom[g], e.cfg.l2}
         /\ e.wanted \subseteq {e.cfg.dom[g] : g \in Groups} \cup {e.cfg.l2}
<1>1. Held(e) \in SUBSET Groups
  BY DEF Held
<1>2. e.wanted = {d \in Domains : \E g \in Held(e) : d \in {e.cfg.dom[g], e.cfg.l2}}
  BY <1>1, DomainsAre DEF InOrder, UsesCounted
<1>3. \A g \in Held(e) : e.cfg.dom[g] \in Domains /\ DomainsOf(e, {g}) = {e.cfg.dom[g], e.cfg.l2}
  BY <1>1, Needed
<1>4. e.cfg.l2 \in Domains
  BY BoardType
<1> QED
  BY <1>1, <1>2, <1>3, <1>4

\* A function of the executor leaves the update alone.
LEMMA InStepSame ==
  ASSUME InStep, Same(gpu, gpu'), UNCHANGED <<pmu, l2On, pm>>
  PROVE  InStep'
<1>1. gpu'.cfg = gpu.cfg /\ gpu'.on = gpu.on /\ gpu'.current = gpu.current
  BY DEF Same
<1>2. PmType'
  BY DEF InStep, PmType
<1>3. PmuDomains' = PmuDomains /\ InDomains(pm.mask)' = InDomains(pm.mask)
  BY <1>1 DEF PmuDomains, InDomains
<1>4. DomainsInStep'
  BY <1>1, <1>3 DEF InStep, DomainsInStep
<1>5. \A g \in Groups : Has(g)' = Has(g) /\ Going(g)' = Going(g) /\ Coming(g)' = Coming(g)
  BY <1>1 DEF Has, Going, Coming
<1>6. GroupsInStep'
  BY <1>1, <1>5 DEF InStep, GroupsInStep
<1>7. CacheInStep'
  BY <1>1 DEF InStep, CacheInStep
<1> QED
  BY <1>2, <1>4, <1>6, <1>7 DEF InStep

\* Taking or giving back the lock changes nothing if nothing is on its way.
Quiet == {"none", "up", "down", "suspend"}

LEMMA InStepQuiet ==
  ASSUME InStep, pm.pc \in Quiet, pm' \in Holders, pm'.pc \in Quiet, ~pm'.off,
         Same(gpu, gpu'), l2On' = l2On, pmu' = pmu \/ pmu' = PmuDomains
  PROVE  InStep'
<1>1. gpu'.cfg = gpu.cfg /\ gpu'.on = gpu.on /\ gpu'.current = gpu.current
  BY DEF Same
<1>2. PmType'
  BY DEF InStep, PmType
<1>3. PmuDomains' = PmuDomains
  BY <1>1 DEF PmuDomains
<1>4. DomainsInStep'
  BY <1>1, <1>3 DEF InStep, DomainsInStep, Quiet
<1>5. \A g \in Groups : Has(g)' = Has(g) /\ ~Going(g) /\ ~Going(g)' /\ ~Coming(g) /\ ~Coming(g)'
  BY <1>1 DEF Has, Going, Coming, Quiet
<1>6. GroupsInStep'
  BY <1>1, <1>5 DEF InStep, GroupsInStep
<1>7. CacheInStep'
  BY <1>1 DEF InStep, CacheInStep, Quiet
<1> QED
  BY <1>2, <1>4, <1>6, <1>7 DEF InStep

LEMMA InitInv == Init => IInv
<1> SUFFICES ASSUME Init PROVE IInv
  OBVIOUS
<1>1. PICK c \in Configs :
        gpu = [cfg     |-> c,
               gs      |-> [g \in Groups |-> "INACTIVE"],
               on      |-> {},
               list    |-> [g \in Groups |-> "INACTIVE"],
               req     |-> {},
               delay   |-> [d \in Domains |-> 0],
               enabled |-> NumPP,
               pause   |-> 0,
               use     |-> [d \in Domains |-> 0],
               wanted  |-> {},
               current |-> {},
               work    |-> FALSE,
               gpQ |-> 0, ppQ |-> 0, gpT |-> 0, ppT |-> 0]
  BY DEF Init
<1>2. NumPP \in Int
  BY GroupsFinite DEF NumPP, Groups
<1>3. gpu \in Gpu
  BY <1>1, <1>2 DEF Gpu, GroupState, ExecState
<1>4. /\ \A g \in Groups : gpu.gs[g] = "INACTIVE" /\ gpu.list[g] = "INACTIVE"
      /\ gpu.on = {} /\ gpu.wanted = {} /\ gpu.current = {} /\ gpu.enabled = NumPP
      /\ \A d \in Domains : gpu.use[d] = 0
  BY <1>1
<1>5. ListsRight(gpu) /\ ActiveIsOn(gpu)
  BY <1>4 DEF ListsRight, ActiveIsOn
<1>6. CoresCounted(gpu)
  <2>1. PPs \ In(gpu, "DISABLED") = PPs
    BY <1>4 DEF In
  <2> QED
    BY <1>4, <2>1 DEF CoresCounted, NumPP
<1>7. UsesCounted(gpu)
  <2>1. Held(gpu) = {}
    BY <1>4 DEF Held
  <2>2. \A d \in Domains : Refs(gpu, {}, d) \in Nat /\ ~(Refs(gpu, {}, d) > 0)
    BY <1>3, RefsCount
  <2>3. \A d \in Domains : Refs(gpu, {}, d) = 0
    BY <2>2
  <2>4. DomainsOf(gpu, {}) = {}
    BY <2>2 DEF DomainsOf
  <2> QED
    BY <1>4, <2>1, <2>3, <2>4 DEF UsesCounted
<1>8. pm = Free /\ l2On = FALSE /\ pmu = {}
  BY DEF Init
<1>9. InStep
  BY <1>4, <1>8 DEF InStep, PmType, Holders, Places, DomainsInStep, GroupsInStep, CacheInStep,
                    Has, Going, Coming, Free
<1> QED
  BY <1>3, <1>5, <1>6, <1>7, <1>9 DEF IInv, InOrder

--------------------------------------------------------------------------------
\* The steps of jobs and of those who change the number of cores or pause the executor
ExecutorStep ==
  \/ Submit \/ Queue \/ RunSchedule \/ Abort
  \/ \E g \in Groups : Complete(g) \/ GroupEnable(g) \/ GroupDisable(g)
  \/ \E n \in 1 .. NumPP : SetPerfLevel(n)
  \/ \E p \in Pausers : Pause(p) \/ Drained(p) \/ Resume(p)

LEMMA ExecutorKeeps ==
  ASSUME InOrder(gpu), ExecutorStep
  PROVE  Kept(gpu, gpu') /\ UNCHANGED <<pmu, l2On, pm>>
<1>0. gpu \in Gpu
  BY DEF InOrder
<1>1. CASE Submit
  <2>1. gpu.gpT + 1 \in Int /\ \A n \in 1 .. gpu.cfg.maxPP : gpu.ppT + n \in Int
    BY <1>0 DEF Gpu
  <2>2. \/ gpu' = [gpu EXCEPT !.gpT = gpu.gpT + 1]
        \/ \E n \in 1 .. gpu.cfg.maxPP : gpu' = [gpu EXCEPT !.ppT = gpu.ppT + n]
    BY <1>1 DEF Submit
  <2>3. Kept(gpu, gpu')
    BY <1>0, <2>1, <2>2, QueuesKeep
  <2> QED
    BY <1>1, <2>3 DEF Submit, Executes
<1>2. CASE Queue
  BY <1>0, <1>2, ActivatedKeeps DEF Queue, Executes
<1>3. CASE RunSchedule
  BY <1>0, <1>3, ScheduleKeeps DEF RunSchedule, Executes
<1>4. CASE Abort
  <2>1. PICK i \in 0 .. gpu.gpT, j \in 0 .. gpu.gpQ, k \in 0 .. gpu.ppT, l \in 0 .. gpu.ppQ :
          gpu' = [gpu EXCEPT !.gpT = @ - i, !.gpQ = @ - j, !.ppT = @ - k, !.ppQ = @ - l]
    BY <1>4 DEF Abort
  <2> DEFINE h == [[[[gpu EXCEPT !.gpT = gpu.gpT - i] EXCEPT !.gpQ = gpu.gpQ - j]
                       EXCEPT !.ppT = gpu.ppT - k] EXCEPT !.ppQ = gpu.ppQ - l]
  <2>2. /\ gpu.gpT - i \in Int /\ gpu.gpQ - j \in Int
        /\ gpu.ppT - k \in Int /\ gpu.ppQ - l \in Int
    BY <1>0 DEF Gpu
  <2>3. h \in Gpu
    BY <1>0, <2>2, UpdateType
  <2>4. gpu' = h
    BY <1>0, <2>1 DEF Gpu
  <2>5. Alike(gpu, h)
    BY <1>0 DEF Alike, Same, Gpu
  <2>6. Kept(gpu, gpu')
    BY <1>0, <2>3, <2>4, <2>5, AlikeKept DEF Kept, Alike
  <2> QED
    BY <1>4, <2>6 DEF Abort, Executes
<1>5. ASSUME NEW g \in Groups, Complete(g)
      PROVE  Kept(gpu, gpu') /\ UNCHANGED <<pmu, l2On, pm>>
  BY <1>0, <1>5, CompleteKeeps DEF Complete, Executes
<1>6. ASSUME NEW g \in Groups, GroupEnable(g)
      PROVE  Kept(gpu, gpu') /\ UNCHANGED <<pmu, l2On, pm>>
  <2> DEFINE f == IF gpu.list[g] = "DISABLED" THEN EnableAll(gpu, {g}) ELSE gpu
  <2>1. Kept(gpu, f)
    BY <1>0, EnableKeeps DEF Kept, Same
  <2>2. gpu' \in Schedule(f)
    BY <1>6 DEF GroupEnable
  <2> HIDE DEF f
  <2>3. Kept(f, gpu')
    BY <2>1, <2>2, ScheduleKeeps DEF Kept, InOrder
  <2> QED
    BY <1>6, <2>1, <2>3, KeptTrans DEF GroupEnable, Executes
<1>7. ASSUME NEW g \in Groups, GroupDisable(g)
      PROVE  Kept(gpu, gpu') /\ UNCHANGED <<pmu, l2On, pm>>
  <2> DEFINE f == IF gpu.list[g] # "DISABLED" THEN DisableAll(gpu, {g}) ELSE gpu
  <2>1. Kept(gpu, f)
    BY <1>0, DisableKeeps DEF Kept, Same
  <2>2. gpu' \in Schedule(f)
    BY <1>7 DEF GroupDisable
  <2> HIDE DEF f
  <2>3. Kept(f, gpu')
    BY <2>1, <2>2, ScheduleKeeps DEF Kept, InOrder
  <2> QED
    BY <1>7, <2>1, <2>3, KeptTrans DEF GroupDisable, Executes
<1>8. ASSUME NEW n \in 1 .. NumPP, SetPerfLevel(n)
      PROVE  Kept(gpu, gpu') /\ UNCHANGED <<pmu, l2On, pm>>
  <2>1. PICK f \in CoreScale(gpu, n) : gpu' \in Schedule(f)
    BY <1>8 DEF SetPerfLevel
  <2>2. n \in 0 .. NumPP
    BY GroupsFinite DEF NumPP, Groups
  <2>3. Kept(gpu, f)
    BY <1>0, <2>2, CoreScaleKeeps
  <2>4. Kept(f, gpu')
    BY <2>1, <2>3, ScheduleKeeps DEF Kept, InOrder
  <2> QED
    BY <1>8, <2>3, <2>4, KeptTrans DEF SetPerfLevel, Executes
<1>9. ASSUME NEW p \in Pausers, Pause(p)
      PROVE  Kept(gpu, gpu') /\ UNCHANGED <<pmu, l2On, pm>>
  <2>1. gpu.pause + 1 \in Int
    BY <1>0 DEF Gpu
  <2>2. gpu' = [gpu EXCEPT !.pause = gpu.pause + 1]
    BY <1>9 DEF Pause
  <2>3. Kept(gpu, gpu')
    BY <1>0, <2>1, <2>2, QueuesKeep
  <2> QED
    BY <1>9, <2>3 DEF Pause
<1>10. ASSUME NEW p \in Pausers, Drained(p)
       PROVE  Kept(gpu, gpu') /\ UNCHANGED <<pmu, l2On, pm>>
  BY <1>0, <1>10, QuiesceKeeps DEF Drained
<1>11. ASSUME NEW p \in Pausers, Resume(p)
       PROVE  Kept(gpu, gpu') /\ UNCHANGED <<pmu, l2On, pm>>
  <2> DEFINE f == [gpu EXCEPT !.pause = gpu.pause - 1]
  <2>1. gpu.pause - 1 \in Int
    BY <1>0 DEF Gpu
  <2>2. Kept(gpu, f)
    BY <1>0, <2>1, QueuesKeep
  <2>3. gpu' \in Schedule(f)
    BY <1>11 DEF Resume
  <2> HIDE DEF f
  <2>4. Kept(f, gpu')
    BY <2>2, <2>3, ScheduleKeeps DEF Kept, InOrder
  <2> QED
    BY <1>11, <2>2, <2>4, KeptTrans DEF Resume
<1> QED
  BY <1>1, <1>2, <1>3, <1>4, <1>5, <1>6, <1>7, <1>8, <1>9, <1>10, <1>11 DEF ExecutorStep
--------------------------------------------------------------------------------
\* The steps of those who hold pm_lock_exec, first those that take it or give it back.
LEMMA LockSteps ==
  ASSUME IInv,
         \/ WorkerEnter \/ RuntimeDecide \/ RuntimeSuspend \/ RuntimeResume \/ SuspendRefused
         \/ \E p \in Pausers : SuspendEnter(p) \/ ResumeEnter(p)
  PROVE  IInv'
<1>0. gpu \in Gpu /\ InOrder(gpu) /\ InStep /\ pm \in Holders
  BY DEF IInv, InOrder, InStep, PmType
<1>1. Kept(gpu, gpu')
  <2>1. CASE UNCHANGED gpu
    BY <1>0, <2>1 DEF Kept, Same
  <2>2. CASE WorkerEnter
    <3>1. gpu' = [gpu EXCEPT !.work = FALSE]
      BY <2>2 DEF WorkerEnter
    <3>2. [gpu EXCEPT !.work = FALSE] \in Gpu
      BY <1>0, UpdateType
    <3>3. Alike(gpu, [gpu EXCEPT !.work = FALSE])
      BY <1>0 DEF Alike, Same, Gpu
    <3> QED
      BY <1>0, <3>1, <3>2, <3>3, AlikeKept DEF Kept, Alike
  <2> QED
    BY <2>1, <2>2 DEF RuntimeDecide, RuntimeSuspend, RuntimeResume, SuspendRefused,
                      SuspendEnter, ResumeEnter, Leave, Goto
<1>2. l2On' = l2On /\ (pmu' = pmu \/ pmu' = PmuDomains)
  BY DEF WorkerEnter, RuntimeDecide, RuntimeSuspend, RuntimeResume, SuspendRefused,
         SuspendEnter, ResumeEnter
<1>3. Free \in Holders /\ Free.pc = "none" /\ ~Free.off
  BY DEF Free, Holders, Places
<1>4. \A who \in Pausers \cup {Worker, Runtime}, pc \in {"up", "suspend"} :
        Enter(who, pc) => pm' \in Holders /\ pm'.pc = pc /\ ~pm'.off
  <2> SUFFICES ASSUME NEW who \in Pausers \cup {Worker, Runtime}, NEW pc \in {"up", "suspend"},
                      Enter(who, pc)
               PROVE  pm' \in Holders /\ pm'.pc = pc /\ ~pm'.off
    OBVIOUS
  <2>1. pm' = [who |-> who, pc |-> pc, mask |-> {}, off |-> FALSE]
    BY DEF Enter, Free
  <2> QED
    BY <2>1 DEF Holders, Places
<1>5. pm.pc = "suspend" => ~pm.off
  BY <1>0 DEF InStep, DomainsInStep
<1>6. \/ UNCHANGED <<pm, pmu>>
      \/ pm = Free /\ \E who \in Pausers \cup {Worker, Runtime}, pc \in {"up", "suspend"} :
           Enter(who, pc)
      \/ pm.pc = "suspend" /\ (Goto("up") \/ pm' = Free)
  BY DEF WorkerEnter, RuntimeDecide, RuntimeSuspend, RuntimeResume, SuspendRefused,
         SuspendEnter, ResumeEnter, Leave
<1>7. pm.pc = "suspend" /\ Goto("up") => pm' \in Holders /\ pm'.pc = "up" /\ ~pm'.off
  BY <1>0, <1>5 DEF Goto, Holders, Places
<1>8. \/ UNCHANGED <<pm, pmu>>
      \/ pm.pc \in Quiet /\ pm' \in Holders /\ pm'.pc \in Quiet /\ ~pm'.off
  BY <1>3, <1>4, <1>6, <1>7 DEF Quiet
<1>9. InStep'
  <2>1. CASE UNCHANGED <<pm, pmu>>
    BY <1>0, <1>1, <1>2, <2>1, InStepSame DEF Kept
  <2>2. CASE pm.pc \in Quiet /\ pm' \in Holders /\ pm'.pc \in Quiet /\ ~pm'.off
    BY <1>0, <1>1, <1>2, <2>2, InStepQuiet DEF Kept
  <2> QED
    BY <1>8, <2>1, <2>2
<1> QED
  BY <1>1, <1>9 DEF IInv, Kept

\* What the invariant says of gpu after a step that changes only what is marked on
LEMMA MarkKeeps ==
  ASSUME InOrder(gpu), NEW S \in SUBSET Domains, gpu' = [gpu EXCEPT !.current = S],
         \A g \in Groups : gpu.gs[g] = "ACTIVE" => DomainsOf(gpu, {g}) \subseteq S
  PROVE  /\ InOrder(gpu') /\ gpu'.cfg = gpu.cfg /\ gpu'.on = gpu.on /\ gpu'.current = S
         /\ gpu'.wanted = gpu.wanted
<1> DEFINE h == [gpu EXCEPT !.current = S]
<1>0. gpu \in Gpu
  BY DEF InOrder
<1>1. h \in Gpu
  BY <1>0, UpdateType
<1>2. /\ h.cfg = gpu.cfg /\ h.on = gpu.on /\ h.current = S /\ h.wanted = gpu.wanted
      /\ h.gs = gpu.gs /\ h.list = gpu.list /\ h.use = gpu.use /\ h.enabled = gpu.enabled
  BY <1>0 DEF Gpu
<1>3. gpu' = h
  OBVIOUS
<1> HIDE DEF h
<1>4. ListsRight(h) /\ CoresCounted(h)
  BY <1>2 DEF InOrder, ListsRight, CoresCounted, In
<1>5. Held(h) = Held(gpu)
  BY <1>2 DEF Held
<1>6. UsesCounted(h)
  BY <1>2, <1>5, SameBoard DEF InOrder, UsesCounted
<1>7. ActiveIsOn(h)
  BY <1>2, SameBoard DEF InOrder, ActiveIsOn
<1> QED
  BY <1>1, <1>2, <1>3, <1>4, <1>6, <1>7 DEF InOrder

\* The first section of an update
LEMMA PowerUpStep ==
  ASSUME \A c \in Configs : Whole(c), IInv, PowerUp
  PROVE  IInv'
<1> DEFINE up == gpu.wanted \ gpu.current
           S == gpu.current \cup up \cup {Dummy}
<1>0. /\ gpu \in Gpu /\ InOrder(gpu) /\ InStep /\ pm \in Holders /\ pm.pc = "up"
      /\ Whole(gpu.cfg)
  BY DEF IInv, InOrder, InStep, PmType, PowerUp, Gpu
<1>1. S \in SUBSET Domains /\ gpu' = [gpu EXCEPT !.current = S]
  BY <1>0, DomainsAssumption DEF PowerUp, Gpu
<1>2. /\ InOrder(gpu') /\ gpu'.cfg = gpu.cfg /\ gpu'.on = gpu.on /\ gpu'.current = S
      /\ gpu'.wanted = gpu.wanted
  BY <1>0, <1>1, MarkKeeps DEF InOrder, ActiveIsOn
<1>3. /\ up # {} /\ pmu' = pmu \cup (up \ {Dummy}) /\ l2On' = l2On
      /\ pm' = [pm EXCEPT !.pc = "l2up", !.mask = up \cup {Dummy}]
  BY DEF PowerUp
<1>4. up \subseteq Domains
  BY <1>0 DEF Gpu
<1>5. /\ pm' \in Holders /\ pm'.pc = "l2up" /\ pm'.mask = up \cup {Dummy} /\ pm'.off = pm.off
  BY <1>0, <1>3, <1>4, DomainsAssumption DEF Holders, Places
<1>6. ~pm.off
  BY <1>0 DEF InStep, DomainsInStep
<1>7. /\ gpu.cfg.l2 \in gpu.wanted
      /\ \A d \in gpu.wanted : \E g \in Groups : d \in {gpu.cfg.dom[g], gpu.cfg.l2} /\ gpu.cfg.dom[g] \in gpu.wanted
      /\ gpu.wanted \subseteq PmuDomains \cup {Dummy}
  <2>1. gpu.wanted # {} /\ gpu.cfg.l2 \in gpu.wanted
    BY <1>0, <1>3, WantedAre
  <2>2. \A g \in Held(gpu) : g \in Groups /\ gpu.cfg.dom[g] \in gpu.wanted
    <3> SUFFICES ASSUME NEW g \in Held(gpu)
                 PROVE  g \in Groups /\ gpu.cfg.dom[g] \in gpu.wanted
      OBVIOUS
    <3>1. g \in Groups
      BY DEF Held
    <3>2. gpu.cfg.dom[g] \in DomainsOf(gpu, {g})
      BY <1>0, <3>1, Needed
    <3>3. DomainsOf(gpu, {g}) \subseteq gpu.wanted
      BY <1>0, WantedAre
    <3> QED
      BY <3>1, <3>2, <3>3
  <2>3. gpu.wanted \subseteq PmuDomains \cup {Dummy}
    BY <1>0, WantedAre DEF PmuDomains
  <2> QED
    BY <1>0, <2>1, <2>2, <2>3, WantedAre
<1>8. \A g \in Groups :
        /\ g \in gpu.on <=> Has(g)
        /\ Has(g) => gpu.cfg.l2 \in gpu.current
        /\ gpu.cfg.dom[g] = Dummy <=> gpu.cfg.l2 = Dummy
  BY <1>0 DEF InStep, GroupsInStep, Going, Coming, Whole
<1>9. \A g \in Groups : gpu.cfg.dom[g] \in up \cup {Dummy} => ~Has(g)
  <2> SUFFICES ASSUME NEW g \in Groups, gpu.cfg.dom[g] = Dummy, Dummy \in gpu.current
               PROVE  FALSE
    BY DEF Has
  <2>1. gpu.cfg.l2 = Dummy /\ \A q \in Groups : gpu.cfg.dom[q] = Dummy
    BY <1>8
  <2>2. gpu.wanted \subseteq {Dummy}
    BY <1>7, <2>1
  <2> QED
    BY <1>3, <2>2
<1>10. PmuDomains' = PmuDomains /\ \A D : InDomains(D)' = {g \in Groups : gpu.cfg.dom[g] \in D'}
  BY <1>2 DEF PmuDomains, InDomains
<1>11. DomainsInStep'
  <2>1. gpu'.current \subseteq PmuDomains \cup {Dummy} /\ gpu'.current \ {Dummy} \subseteq pmu'
    BY <1>0, <1>2, <1>3, <1>7 DEF InStep, DomainsInStep
  <2>2. pm'.mask \subseteq gpu'.current /\ gpu'.cfg.l2 \in gpu'.current
    BY <1>2, <1>5, <1>7
  <2>3. \E g \in Groups : gpu.cfg.dom[g] \in up
    <3>1. PICK d \in up : TRUE
      BY <1>3
    <3>2. PICK g \in Groups : d \in {gpu.cfg.dom[g], gpu.cfg.l2} /\ gpu.cfg.dom[g] \in gpu.wanted
      BY <1>7
    <3> QED
      BY <1>8, <3>1, <3>2 DEF Has
  <2>4. InDomains(pm.mask)' # {}
    BY <1>5, <1>10, <2>3
  <2> QED
    BY <1>5, <1>6, <1>10, <2>1, <2>2, <2>4 DEF DomainsInStep
<1>12. \A g \in Groups :
         /\ Has(g)' <=> Has(g) \/ gpu.cfg.dom[g] \in up \cup {Dummy}
         /\ ~Going(g)'
         /\ Coming(g)' <=> gpu.cfg.dom[g] \in up \cup {Dummy}
  BY <1>2, <1>5 DEF Has, Going, Coming
<1>13. GroupsInStep'
  <2> SUFFICES ASSUME NEW g \in Groups
               PROVE  /\ g \in gpu.on => Has(g)'
                      /\ Has(g)' => (g \in gpu.on \/ Coming(g)') /\ gpu.cfg.l2 \in S
                      /\ Coming(g)' => g \notin gpu.on
    BY <1>2, <1>12 DEF GroupsInStep
  <2> QED
    BY <1>7, <1>8, <1>9, <1>12
<1>14. CacheInStep'
  <2>1. gpu.cfg.l2 \in gpu.current => l2On
    BY <1>0 DEF InStep, CacheInStep
  <2>2. gpu.cfg.l2 \notin gpu.current => gpu.on = {} /\ gpu.cfg.l2 \in up
    BY <1>0, <1>7, <1>8 DEF Gpu
  <2> QED
    BY <1>2, <1>3, <1>5, <2>1, <2>2 DEF CacheInStep
<1>15. PmType'
  BY <1>0, <1>3, <1>5 DEF PmType, InStep
<1> QED
  BY <1>2, <1>11, <1>13, <1>14, <1>15 DEF IInv, InStep

\* mali_l2_cache_power_up
LEMMA L2UpStep ==
  ASSUME IInv, L2Up
  PROVE  IInv'
<1>0. /\ gpu \in Gpu /\ InOrder(gpu) /\ InStep /\ pm \in Holders /\ pm.pc = "l2up"
      /\ l2On \in BOOLEAN
  BY DEF IInv, InOrder, InStep, PmType, L2Up
<1>1. /\ UNCHANGED <<gpu, pmu>> /\ l2On' = (l2On \/ gpu.cfg.l2 \in pm.mask)
      /\ pm' = [pm EXCEPT !.pc = "groupsup"]
  BY DEF L2Up, Goto
<1>2. /\ pm' \in Holders /\ pm'.pc = "groupsup" /\ pm'.mask = pm.mask /\ pm'.off = pm.off
  BY <1>0, <1>1 DEF Holders, Places
<1>3. PmuDomains' = PmuDomains /\ InDomains(pm.mask)' = InDomains(pm.mask)
  BY <1>1, <1>2 DEF PmuDomains, InDomains
<1>4. DomainsInStep'
  BY <1>0, <1>1, <1>2, <1>3 DEF InStep, DomainsInStep
<1>5. \A g \in Groups : Has(g)' = Has(g) /\ Going(g)' = Going(g) /\ Coming(g)' = Coming(g)
  BY <1>0, <1>1, <1>2 DEF Has, Going, Coming
<1>6. GroupsInStep'
  BY <1>1, <1>5 DEF InStep, GroupsInStep, IInv
<1>7. CacheInStep'
  BY <1>0, <1>1, <1>2 DEF InStep, CacheInStep
<1>8. PmType'
  BY <1>0, <1>1, <1>2 DEF PmType
<1> QED
  BY <1>0, <1>1, <1>4, <1>6, <1>7, <1>8 DEF IInv, InStep

\* The groups of the domains that were switched on are told of it.
LEMMA GroupsUpStep ==
  ASSUME IInv, GroupsUp
  PROVE  IInv'
<1> DEFINE G == InDomains(pm.mask)
<1>0. /\ gpu \in Gpu /\ InOrder(gpu) /\ InStep /\ pm \in Holders /\ pm.pc = "groupsup"
  BY DEF IInv, InOrder, InStep, PmType, GroupsUp
<1>1. /\ UNCHANGED <<pmu, l2On>> /\ gpu' \in PowerUpGroups(gpu, G)
      /\ pm' = [pm EXCEPT !.pc = "down"]
  BY DEF GroupsUp, Goto
<1>2. /\ pm' \in Holders /\ pm'.pc = "down" /\ pm'.mask = pm.mask /\ pm'.off = pm.off
  BY <1>0, <1>1 DEF Holders, Places
<1>3. G \in SUBSET Groups /\ \A g \in Groups : g \in G <=> gpu.cfg.dom[g] \in pm.mask
  BY DEF InDomains
<1> HIDE DEF G
<1>4. pm.mask \subseteq gpu.current /\ gpu.cfg.l2 \in gpu.current
  BY <1>0 DEF InStep, DomainsInStep
<1>5. \A g \in G : DomainsOf(gpu, {g}) \subseteq gpu.current
  <2> SUFFICES ASSUME NEW g \in G
               PROVE  DomainsOf(gpu, {g}) \subseteq gpu.current
    OBVIOUS
  <2>1. g \in Groups /\ gpu.cfg.dom[g] \in gpu.current
    BY <1>3, <1>4
  <2>2. DomainsOf(gpu, {g}) = {gpu.cfg.dom[g], gpu.cfg.l2}
    BY <1>0, <2>1, Needed
  <2> QED
    BY <1>4, <2>1, <2>2
<1>6. /\ InOrder(gpu') /\ gpu'.cfg = gpu.cfg /\ gpu'.current = gpu.current
      /\ gpu'.on = gpu.on \cup G
  BY <1>0, <1>1, <1>3, <1>5, PowerUpKeeps
<1>7. PmuDomains' = PmuDomains
  BY <1>6 DEF PmuDomains
<1>8. DomainsInStep'
  BY <1>0, <1>1, <1>2, <1>6, <1>7 DEF InStep, DomainsInStep
<1>9. \A g \in Groups : /\ Has(g)' = Has(g) /\ ~Going(g) /\ ~Going(g)'
                        /\ (Coming(g) <=> g \in G) /\ ~Coming(g)'
  BY <1>0, <1>2, <1>3, <1>6 DEF Has, Going, Coming
<1>10. GroupsInStep'
  <2> SUFFICES ASSUME NEW g \in Groups
               PROVE  /\ g \in gpu.on \cup G => Has(g)
                      /\ Has(g) => g \in gpu.on \cup G /\ gpu.cfg.l2 \in gpu.current
    BY <1>6, <1>9 DEF GroupsInStep
  <2>1. /\ g \in gpu.on => Has(g) \/ Going(g)
        /\ Has(g) => g \in gpu.on \/ Coming(g)
    BY <1>0 DEF InStep, GroupsInStep
  <2>2. g \in G => Has(g)
    BY <1>3, <1>4 DEF Has
  <2> QED
    BY <1>4, <1>9, <2>1, <2>2
<1>11. CacheInStep'
  BY <1>0, <1>1, <1>2, <1>6 DEF InStep, CacheInStep
<1>12. PmType'
  BY <1>0, <1>1, <1>2 DEF PmType, InStep
<1> QED
  BY <1>6, <1>8, <1>10, <1>11, <1>12 DEF IInv, InStep

\* What is no longer wanted is marked off, all of it or all that is not wanted; no group
\* is active there.
LEMMA MarkedOff ==
  ASSUME \A c \in Configs : Whole(c), IInv, pm.pc \in Quiet,
         NEW S \in SUBSET gpu.current, gpu.wanted \cap gpu.current \subseteq S,
         S \subseteq gpu.wanted \cup {Dummy}, Dummy \in gpu.current => Dummy \in S \/ S = {},
         gpu' = [gpu EXCEPT !.current = S], UNCHANGED <<pmu, l2On>>,
         pm' \in Holders, pm'.mask = gpu.current \ S,
         pm'.pc = IF gpu.current \ S = {} THEN "cut" ELSE "groupsdown",
         pm'.off => S = {}
  PROVE  IInv'
<1> DEFINE down == gpu.current \ S
<1>0. /\ gpu \in Gpu /\ InOrder(gpu) /\ InStep /\ pm \in Holders /\ Whole(gpu.cfg)
  BY DEF IInv, InOrder, InStep, PmType, Gpu
<1>1. S \in SUBSET Domains
  BY <1>0 DEF Gpu
<1>2. \A g \in Groups : gpu.gs[g] = "ACTIVE" => DomainsOf(gpu, {g}) \subseteq S
  <2> SUFFICES ASSUME NEW g \in Groups, gpu.gs[g] = "ACTIVE"
               PROVE  DomainsOf(gpu, {g}) \subseteq S
    OBVIOUS
  <2>1. g \in Held(gpu)
    BY DEF Held
  <2>2. DomainsOf(gpu, {g}) \subseteq gpu.wanted
    BY <1>0, <2>1, WantedAre
  <2>3. DomainsOf(gpu, {g}) \subseteq gpu.current
    BY <1>0 DEF InOrder, ActiveIsOn
  <2> QED
    BY <2>2, <2>3
<1>3. /\ InOrder(gpu') /\ gpu'.cfg = gpu.cfg /\ gpu'.on = gpu.on /\ gpu'.current = S
      /\ gpu'.wanted = gpu.wanted
  BY <1>0, <1>1, <1>2, MarkKeeps
<1>4. PmuDomains' = PmuDomains
  BY <1>3 DEF PmuDomains
<1>5. DomainsInStep'
  <2>1. gpu.current \subseteq PmuDomains \cup {Dummy} /\ gpu.current \ {Dummy} \subseteq pmu
    BY <1>0 DEF InStep, DomainsInStep
  <2>2. pm'.pc \in {"cut", "groupsdown"}
    OBVIOUS
  <2> QED
    BY <1>3, <1>4, <2>1, <2>2 DEF DomainsInStep
<1>6. \A g \in Groups :
        /\ g \in gpu.on <=> Has(g)
        /\ Has(g) => gpu.cfg.l2 \in gpu.current
        /\ gpu.cfg.dom[g] = Dummy <=> gpu.cfg.l2 = Dummy
  BY <1>0 DEF InStep, GroupsInStep, Going, Coming, Whole, Quiet
<1>7. \A g \in Groups : /\ Has(g)' <=> gpu.cfg.dom[g] \in S
                        /\ Going(g)' <=> Has(g) /\ gpu.cfg.dom[g] \notin S
                        /\ ~Coming(g)'
  BY <1>3 DEF Has, Going, Coming
<1>8. \A g \in Groups : gpu.cfg.dom[g] \in S => gpu.cfg.l2 \in S
  <2> SUFFICES ASSUME NEW g \in Groups, gpu.cfg.dom[g] \in S, gpu.cfg.l2 \notin S
               PROVE  FALSE
    OBVIOUS
  <2>1. gpu.cfg.l2 \in gpu.current
    BY <1>6 DEF Has
  <2>2. gpu.cfg.l2 \notin gpu.wanted /\ gpu.cfg.l2 # Dummy
    BY <2>1
  <2>3. gpu.wanted = {}
    BY <1>0, <2>2, WantedAre
  <2>4. gpu.cfg.dom[g] = Dummy
    BY <2>3
  <2> QED
    BY <1>6, <2>2, <2>4
<1>9. GroupsInStep'
  <2> SUFFICES ASSUME NEW g \in Groups
               PROVE  /\ g \in gpu.on => Has(g)' \/ Going(g)'
                      /\ Has(g)' => g \in gpu.on /\ gpu.cfg.l2 \in S
                      /\ Going(g)' => g \in gpu.on
    BY <1>3, <1>7 DEF GroupsInStep
  <2> QED
    BY <1>6, <1>7, <1>8 DEF Has
<1>10. CacheInStep'
  BY <1>0, <1>3 DEF InStep, CacheInStep, Quiet
<1>11. PmType'
  BY <1>0 DEF PmType, InStep
<1> QED
  BY <1>3, <1>5, <1>9, <1>10, <1>11 DEF IInv, InStep

\* The second section of an update, and mali_pm_common_suspend with nothing wanted
LEMMA PowerDownStep ==
  ASSUME \A c \in Configs : Whole(c), IInv, PowerDown
  PROVE  IInv'
<1> DEFINE S == gpu.current \cap (gpu.wanted \cup {Dummy})
<1>0. /\ gpu \in Gpu /\ InStep /\ pm \in Holders /\ pm.pc \in {"up", "down"} /\ ~pm.off
  BY DEF IInv, InOrder, InStep, PmType, PowerDown, DomainsInStep
<1>1. /\ gpu.current \ (gpu.wanted \cup {Dummy}) = gpu.current \ S
      /\ gpu.current \ (gpu.current \ S) = S
  OBVIOUS
<1> HIDE DEF S
<1>2. /\ gpu' = [gpu EXCEPT !.current = S] /\ UNCHANGED <<pmu, l2On>>
      /\ pm' = [pm EXCEPT !.pc = IF gpu.current \ S = {} THEN "cut" ELSE "groupsdown",
                          !.mask = gpu.current \ S]
  BY <1>0, <1>1 DEF PowerDown, Gpu
<1>3. gpu.current \ S \in SUBSET Domains
  BY <1>0 DEF Gpu
<1>4. /\ pm' \in Holders /\ pm'.mask = gpu.current \ S /\ ~pm'.off
      /\ pm'.pc = IF gpu.current \ S = {} THEN "cut" ELSE "groupsdown"
  BY <1>0, <1>2, <1>3 DEF Holders, Places
<1>5. /\ S \in SUBSET gpu.current /\ gpu.wanted \cap gpu.current \subseteq S
      /\ S \subseteq gpu.wanted \cup {Dummy} /\ (Dummy \in gpu.current => Dummy \in S \/ S = {})
  BY DEF S
<1>6. pm.pc \in Quiet
  BY <1>0 DEF Quiet
<1> QED
  BY <1>2, <1>4, <1>5, <1>6, MarkedOff

LEMMA SuspendMarkStep ==
  ASSUME \A c \in Configs : Whole(c), IInv, SuspendMark
  PROVE  IInv'
<1>0. /\ gpu \in Gpu /\ InStep /\ pm \in Holders /\ pm.pc = "suspend" /\ gpu.wanted = {}
  BY DEF IInv, InOrder, InStep, PmType, SuspendMark
<1>1. /\ gpu' = [gpu EXCEPT !.current = {}] /\ UNCHANGED <<pmu, l2On>>
      /\ pm' = [pm EXCEPT !.pc = IF gpu.current = {} THEN "cut" ELSE "groupsdown",
                          !.mask = gpu.current, !.off = TRUE]
  BY DEF SuspendMark
<1>2. gpu.current \in SUBSET Domains /\ gpu.current \ {} = gpu.current
  BY <1>0 DEF Gpu
<1>3. /\ pm' \in Holders /\ pm'.mask = gpu.current
      /\ pm'.pc = IF gpu.current = {} THEN "cut" ELSE "groupsdown"
  BY <1>0, <1>1, <1>2 DEF Holders, Places
<1>4. pm.pc \in Quiet
  BY <1>0 DEF Quiet
<1>5. /\ {} \in SUBSET gpu.current /\ gpu.wanted \cap gpu.current \subseteq {}
      /\ {} \subseteq gpu.wanted \cup {Dummy}
  BY <1>0
<1> QED
  BY <1>1, <1>2, <1>3, <1>4, <1>5, MarkedOff

\* The groups of the domains that are marked off are told of it.
LEMMA GroupsDownStep ==
  ASSUME IInv, GroupsDown
  PROVE  IInv'
<1> DEFINE G == InDomains(pm.mask)
           h == [gpu EXCEPT !.on = gpu.on \ G]
<1>0. /\ gpu \in Gpu /\ InOrder(gpu) /\ InStep /\ pm \in Holders /\ pm.pc = "groupsdown"
  BY DEF IInv, InOrder, InStep, PmType, GroupsDown
<1>1. /\ UNCHANGED <<pmu, l2On>> /\ gpu' = h /\ pm' = [pm EXCEPT !.pc = "cut"]
  BY <1>0 DEF GroupsDown, Goto, PowerDownGroups, Gpu
<1>2. /\ pm' \in Holders /\ pm'.pc = "cut" /\ pm'.mask = pm.mask /\ pm'.off = pm.off
  BY <1>0, <1>1 DEF Holders, Places
<1>3. G \in SUBSET Groups /\ \A g \in Groups : g \in G <=> gpu.cfg.dom[g] \in pm.mask
  BY DEF InDomains
<1> HIDE DEF G
<1>4. pm.mask \cap gpu.current = {}
  BY <1>0 DEF InStep, DomainsInStep
<1>5. h \in Gpu
  <2>1. gpu.on \ G \in SUBSET Groups
    BY <1>0 DEF Gpu
  <2> QED
    BY <1>0, <2>1, UpdateType
<1>6. /\ h.cfg = gpu.cfg /\ h.on = gpu.on \ G /\ h.current = gpu.current
      /\ h.wanted = gpu.wanted /\ h.gs = gpu.gs /\ h.list = gpu.list /\ h.use = gpu.use
      /\ h.enabled = gpu.enabled
  BY <1>0 DEF Gpu
<1> HIDE DEF h
<1>7. ListsRight(h) /\ CoresCounted(h)
  BY <1>0, <1>6 DEF InOrder, ListsRight, CoresCounted, In
<1>8. UsesCounted(h)
  <2>1. Held(h) = Held(gpu)
    BY <1>6 DEF Held
  <2> QED
    BY <1>0, <1>6, <2>1, SameBoard DEF InOrder, UsesCounted
<1>9. ActiveIsOn(h)
  <2> SUFFICES ASSUME NEW g \in Groups, gpu.gs[g] = "ACTIVE"
               PROVE  g \in gpu.on \ G /\ DomainsOf(gpu, {g}) \subseteq gpu.current
    BY <1>6, SameBoard DEF ActiveIsOn
  <2>1. g \in gpu.on /\ DomainsOf(gpu, {g}) \subseteq gpu.current
    BY <1>0 DEF InOrder, ActiveIsOn
  <2>2. gpu.cfg.dom[g] \in gpu.current
    BY <1>0, <2>1, Needed
  <2> QED
    BY <1>3, <1>4, <2>1, <2>2
<1>10. InOrder(gpu')
  BY <1>1, <1>5, <1>7, <1>8, <1>9 DEF InOrder
<1>11. /\ gpu'.cfg = gpu.cfg /\ gpu'.on = gpu.on \ G /\ gpu'.current = gpu.current
  BY <1>1, <1>6
<1>12. DomainsInStep'
  <2>1. PmuDomains' = PmuDomains
    BY <1>11 DEF PmuDomains
  <2> QED
    BY <1>0, <1>1, <1>2, <1>11, <2>1 DEF InStep, DomainsInStep
<1>13. \A g \in Groups : /\ Has(g)' = Has(g) /\ (Going(g) <=> g \in G) /\ ~Going(g)'
                         /\ ~Coming(g) /\ ~Coming(g)'
  BY <1>0, <1>2, <1>3, <1>11 DEF Has, Going, Coming
<1>14. GroupsInStep'
  <2> SUFFICES ASSUME NEW g \in Groups
               PROVE  /\ g \in gpu.on \ G => Has(g)
                      /\ Has(g) => g \in gpu.on \ G /\ gpu.cfg.l2 \in gpu.current
    BY <1>11, <1>13 DEF GroupsInStep
  <2>1. /\ g \in gpu.on => Has(g) \/ Going(g)
        /\ Has(g) => g \in gpu.on \/ Coming(g)
        /\ Has(g) => gpu.cfg.l2 \in gpu.current
    BY <1>0 DEF InStep, GroupsInStep
  <2>2. g \in G => ~Has(g)
    BY <1>3, <1>4 DEF Has
  <2> QED
    BY <1>13, <2>1, <2>2
<1>15. CacheInStep'
  BY <1>0, <1>1, <1>2, <1>11 DEF InStep, CacheInStep
<1>16. PmType'
  BY <1>0, <1>1, <1>2 DEF PmType, InStep
<1> QED
  BY <1>10, <1>12, <1>14, <1>15, <1>16 DEF IInv, InStep

\* The L2 cache is told and the PMU switches off.
LEMMA CutPowerStep ==
  ASSUME IInv, CutPower
  PROVE  IInv'
<1>0. /\ gpu \in Gpu /\ InOrder(gpu) /\ InStep /\ pm \in Holders /\ pm.pc = "cut"
      /\ l2On \in BOOLEAN
  BY DEF IInv, InOrder, InStep, PmType, CutPower
<1>1. /\ UNCHANGED gpu /\ l2On' = (l2On /\ gpu.cfg.l2 \notin pm.mask) /\ pm' = Free
      /\ pmu' = IF pm.off THEN IF pm.mask = {} THEN pmu ELSE {} ELSE pmu \cap gpu.current
  BY DEF CutPower, Leave
<1>2. pm' \in Holders /\ pm'.pc = "none" /\ ~pm'.off
  BY <1>1 DEF Free, Holders, Places
<1>3. PmuDomains' = PmuDomains
  BY <1>1 DEF PmuDomains
<1>4. /\ gpu.current \subseteq PmuDomains \cup {Dummy} /\ gpu.current \ {Dummy} \subseteq pmu
      /\ pm.mask \cap gpu.current = {} /\ (pm.off => gpu.current = {})
  BY <1>0 DEF InStep, DomainsInStep
<1>5. gpu.current \ {Dummy} \subseteq pmu'
  BY <1>1, <1>4
<1>6. DomainsInStep'
  BY <1>1, <1>2, <1>3, <1>4, <1>5 DEF DomainsInStep
<1>7. \A g \in Groups : /\ Has(g)' = Has(g) /\ ~Going(g) /\ ~Going(g)'
                        /\ ~Coming(g) /\ ~Coming(g)'
  BY <1>0, <1>1, <1>2 DEF Has, Going, Coming
<1>8. GroupsInStep'
  BY <1>0, <1>1, <1>7 DEF InStep, GroupsInStep
<1>9. CacheInStep'
  BY <1>0, <1>1, <1>2, <1>4 DEF InStep, CacheInStep
<1>10. PmType'
  BY <1>0, <1>1, <1>2 DEF PmType
<1> QED
  BY <1>0, <1>1, <1>6, <1>8, <1>9, <1>10 DEF IInv, InStep
--------------------------------------------------------------------------------
LEMMA Inductive ==
  ASSUME \A c \in Configs : Whole(c), IInv, [Next]_vars
  PROVE  IInv'
<1>1. CASE ExecutorStep
  <2>1. Kept(gpu, gpu') /\ UNCHANGED <<pmu, l2On, pm>>
    BY <1>1, ExecutorKeeps DEF IInv
  <2> QED
    BY <2>1, InStepSame DEF IInv, Kept
<1>2. CASE UNCHANGED vars
  <2>1. Same(gpu, gpu') /\ UNCHANGED <<gpu, pmu, l2On, pm>>
    BY <1>2 DEF vars, Same
  <2> QED
    BY <2>1, InStepSame DEF IInv
<1>3. CASE \/ WorkerEnter \/ RuntimeDecide \/ RuntimeSuspend \/ RuntimeResume \/ SuspendRefused
           \/ \E p \in Pausers : SuspendEnter(p) \/ ResumeEnter(p)
  BY <1>3, LockSteps
<1>4. CASE PowerUp \/ L2Up \/ GroupsUp
  BY <1>4, PowerUpStep, L2UpStep, GroupsUpStep
<1>5. CASE PowerDown \/ GroupsDown \/ CutPower \/ SuspendMark
  BY <1>5, PowerDownStep, GroupsDownStep, CutPowerStep, SuspendMarkStep
<1> QED
  BY <1>1, <1>2, <1>3, <1>4, <1>5 DEF Next, ExecutorStep, Update, Suspend

LEMMA Invariant ==
  ASSUME \A c \in Configs : Whole(c)
  PROVE  Spec => []IInv
BY InitInv, Inductive, PTL DEF Spec

LEMMA ReadyFollows ==
  ASSUME IInv
  PROVE  ReadyIsPowered
<1>0. gpu \in Gpu /\ InOrder(gpu) /\ InStep /\ l2On \in BOOLEAN
  BY DEF IInv, InOrder, InStep, PmType
<1> SUFFICES ASSUME NEW g \in Groups, gpu.list[g] \in {"IDLE", "WORKING"}
             PROVE  /\ gpu.gs[g] = "ACTIVE" /\ g \in gpu.on
                    /\ DomainsOf(gpu, {g}) \subseteq gpu.wanted \cap gpu.current
                    /\ DomainsOf(gpu, {g}) \subseteq pmu \cup {Dummy}
                    /\ l2On
  BY DEF ReadyIsPowered
<1>1. gpu.gs[g] = "ACTIVE"
  BY <1>0 DEF InOrder, ListsRight
<1>2. g \in gpu.on /\ DomainsOf(gpu, {g}) \subseteq gpu.current
  BY <1>0, <1>1 DEF InOrder, ActiveIsOn
<1>3. DomainsOf(gpu, {g}) \subseteq gpu.wanted
  <2>1. g \in Held(gpu)
    BY <1>1 DEF Held
  <2> QED
    BY <1>0, <2>1, WantedAre
<1>4. DomainsOf(gpu, {g}) \subseteq pmu \cup {Dummy}
  BY <1>0, <1>2 DEF InStep, DomainsInStep
<1>5. gpu.cfg.l2 \in gpu.current
  BY <1>0, <1>2, Needed
<1>6. l2On
  BY <1>0, <1>2, <1>5 DEF InStep, CacheInStep
<1> QED
  BY <1>1, <1>2, <1>3, <1>4, <1>6

LEMMA UpdatesFollow ==
  ASSUME IInv
  PROVE  UpdatesExpected
<1>0. gpu \in Gpu /\ InOrder(gpu) /\ InStep /\ l2On \in BOOLEAN /\ gpu.list \in [Groups -> ExecState]
  BY DEF IInv, InOrder, InStep, PmType, Gpu
<1>1. \A g \in Groups : gpu.gs[g] = "ACTIVE" => g \in gpu.on /\ Has(g)
  <2> SUFFICES ASSUME NEW g \in Groups, gpu.gs[g] = "ACTIVE"
               PROVE  g \in gpu.on /\ Has(g)
    OBVIOUS
  <2>1. g \in gpu.on /\ DomainsOf(gpu, {g}) \subseteq gpu.current
    BY <1>0 DEF InOrder, ActiveIsOn
  <2> QED
    BY <1>0, <2>1, Needed DEF Has
<1>2. \A g \in Groups : gpu.list[g] \in {"IDLE", "WORKING"} => gpu.gs[g] = "ACTIVE"
  BY <1>0 DEF InOrder, ListsRight
<1>3. PowerDownExpected
  <2>1. ASSUME pm.pc = "groupsdown", NEW g \in InDomains(pm.mask)
        PROVE  gpu.list[g] \in {"INACTIVE", "DISABLED"} /\ g \in gpu.on
    <3>1. g \in Groups /\ Going(g)
      BY <2>1 DEF InDomains, Going
    <3>2. g \in gpu.on
      BY <1>0, <3>1 DEF InStep, GroupsInStep
    <3>3. ~Has(g)
      BY <1>0, <2>1, <3>1 DEF InStep, DomainsInStep, Has, Going
    <3>4. gpu.list[g] \notin {"IDLE", "WORKING"} /\ gpu.list[g] \in ExecState
      BY <1>0, <1>1, <1>2, <3>1, <3>3
    <3> QED
      BY <3>2, <3>4 DEF ExecState
  <2>2. pm.pc \in {"groupsdown", "cut"} /\ gpu.cfg.l2 \in pm.mask => l2On
    BY <1>0 DEF InStep, CacheInStep
  <2> QED
    BY <2>1, <2>2 DEF PowerDownExpected
<1>4. PowerUpExpected
  <2>1. ASSUME pm.pc \in {"l2up", "groupsup"}, NEW g \in InDomains(pm.mask)
        PROVE  gpu.list[g] # "WORKING"
    <3>1. g \in Groups /\ Coming(g)
      BY <2>1 DEF InDomains, Coming
    <3>2. g \notin gpu.on
      BY <1>0, <3>1 DEF InStep, GroupsInStep
    <3> QED
      BY <1>1, <1>2, <3>1, <3>2
  <2>2. pm.pc \in {"l2up", "groupsup"} => InDomains(pm.mask) # {}
    BY <1>0 DEF InStep, DomainsInStep
  <2> QED
    BY <2>1, <2>2 DEF PowerUpExpected
<1> QED
  BY <1>3, <1>4 DEF UpdatesExpected

\* mali_executor.c, mali_pm.c: no group is ever idle, or at work, without power, its own
\* and the L2 cache's.
THEOREM PoweredWhenReady ==
  ASSUME \A c \in Configs : Whole(c)
  PROVE  Spec => []ReadyIsPowered
BY Invariant, ReadyFollows, PTL

\* mali_pm_update_sync_internal: the assertions of the executor and of the L2 cache about
\* what they are told always hold.
THEOREM UpdatesAsExpected ==
  ASSUME \A c \in Configs : Whole(c)
  PROVE  Spec => []UpdatesExpected
BY Invariant, UpdatesFollow, PTL

\* mali_executor.c, mali_pm_domain.c: num_physical_pp_cores_enabled is the number of cores
\* that are not disabled, and the use count of a domain the number of its users.
THEOREM CountsRight ==
  ASSUME \A c \in Configs : Whole(c)
  PROVE  Spec => [](EnabledExact /\ UseExact)
<1>1. IInv => EnabledExact /\ UseExact
  BY DEF IInv, InOrder, CoresCounted, UsesCounted, EnabledExact, UseExact, Held
<1> QED
  BY <1>1, Invariant, PTL
--------------------------------------------------------------------------------
\* A group that is told at once that it has power: mali_group_activate.
Ready(e, g) == g \in e.on /\ DomainsOf(e, {g}) \subseteq e.current

DelaysRight(e) == \A d \in Domains : e.delay[d] \in 0 .. NumPP

\* What every function of the executor does but those that start jobs: no job moves,
\* and a group is left waiting for power only if somebody is asked for it.
Lean(e, f) ==
  /\ Same(e, f) /\ f.pause = e.pause
  /\ f.gpT = e.gpT /\ f.gpQ = e.gpQ /\ f.ppT = e.ppT /\ f.ppQ = e.ppQ
  /\ \A g \in Groups : f.list[g] = "WORKING" => e.list[g] = "WORKING"
  /\ DelaysRight(e) => DelaysRight(f)
  /\ e.work => f.work
  /\ \A g \in Groups : f.gs[g] = "PENDING" => e.gs[g] = "PENDING" \/ (f.work /\ ~Ready(f, g))

LEMMA CoresNumber == NumPP \in Nat
BY GroupsFinite DEF NumPP, Groups

LEMMA ReadySame ==
  ASSUME NEW e, NEW f, Same(e, f), NEW g
  PROVE  Ready(f, g) <=> Ready(e, g)
BY SameBoard DEF Same, Ready

LEMMA LeanTrans ==
  ASSUME NEW e, NEW f, NEW h, Lean(e, f), Lean(f, h)
  PROVE  Lean(e, h)
<1>1. \A g \in Groups : h.gs[g] = "PENDING" => e.gs[g] = "PENDING" \/ (h.work /\ ~Ready(h, g))
  <2>1. \A g \in Groups : Ready(h, g) <=> Ready(f, g)
    BY ReadySame DEF Lean
  <2> QED
    BY <2>1 DEF Lean
<1> QED
  BY <1>1 DEF Lean, Same

\* Functions that only move groups, give references back or note something
LEMMA LeanFields ==
  ASSUME NEW e \in Gpu
  PROVE  /\ Lean(e, e)
         /\ \A n \in Int : Lean(e, [e EXCEPT !.enabled = n])
         /\ \A v \in SUBSET Groups : Lean(e, [e EXCEPT !.req = v])
         /\ \A v \in [Domains -> 0 .. NumPP] : Lean(e, [e EXCEPT !.delay = v])
         /\ \A b \in BOOLEAN : Lean(e, Trigger(e, b))
BY DEF Lean, Same, Gpu, DelaysRight, Trigger

LEMMA LeanMove ==
  ASSUME NEW e \in Gpu, NEW G \in SUBSET Groups, NEW state \in ExecState, state # "WORKING"
  PROVE  Lean(e, MoveTo(e, G, state))
<1> DEFINE list == [g \in Groups |-> IF g \in G THEN state ELSE e.list[g]]
           f == [e EXCEPT !.list = list]
<1>1. MoveTo(e, G, state) = f
  BY DEF MoveTo, Gpu
<1>2. \A g \in Groups : list[g] = "WORKING" => e.list[g] = "WORKING"
  OBVIOUS
<1> HIDE DEF list
<1>3. /\ f.list = list /\ Same(e, f) /\ f.pause = e.pause /\ f.gpT = e.gpT /\ f.gpQ = e.gpQ
      /\ f.ppT = e.ppT /\ f.ppQ = e.ppQ /\ f.delay = e.delay /\ f.work = e.work /\ f.gs = e.gs
  BY DEF Gpu, Same
<1> HIDE DEF f
<1>4. Lean(e, f)
  BY <1>2, <1>3 DEF Lean, DelaysRight
<1> QED
  BY <1>1, <1>4

LEMMA LeanDeactivate ==
  ASSUME NEW e \in Gpu, NEW G \in SUBSET Groups
  PROVE  Lean(e, DeactivateAll(e, G))
<1> DEFINE f == DeactivateAll(e, G)
<1>1. /\ f.list = e.list /\ Same(e, f) /\ f.pause = e.pause /\ f.gpT = e.gpT /\ f.gpQ = e.gpQ
      /\ f.ppT = e.ppT /\ f.ppQ = e.ppQ /\ f.delay = e.delay /\ f.work = e.work
  BY DEF Gpu, Same, DeactivateAll
<1>2. \A g \in Groups : f.gs[g] = "PENDING" => e.gs[g] = "PENDING"
  BY DeactivateEffect
<1> HIDE DEF f
<1>3. Lean(e, f)
  BY <1>1, <1>2 DEF Lean, DelaysRight
<1> QED
  BY <1>3 DEF f

\* Groups that are activated: if one is not active at once, an update is asked for.
LEMMA LeanBring ==
  ASSUME NEW e \in Gpu, NEW G \in SUBSET Groups
  PROVE  Lean(e, Bring(e, G)) /\ Bring(e, G) \in Gpu
<1> DEFINE new == {g \in G : e.gs[g] = "INACTIVE"}
           f == ActivateAll(e, G)
           up == {g \in G : f.gs[g] = "ACTIVE"}
           h == MoveTo(f, up, "IDLE")
           k == Trigger(h, up # G)
<1>1. /\ f.list = e.list /\ Same(e, f) /\ f.pause = e.pause /\ f.gpT = e.gpT /\ f.gpQ = e.gpQ
      /\ f.ppT = e.ppT /\ f.ppQ = e.ppQ /\ f.delay = e.delay /\ f.work = e.work
  BY DEF Gpu, Same, ActivateAll
<1>2. /\ f \in Gpu /\ \A g \in Groups \ new : f.gs[g] = e.gs[g]
  BY ActivateEffect
<1>3. \A g \in new : f.gs[g] = "PENDING" => ~Ready(e, g)
  BY DEF ActivateAll, Gpu, Ready
<1>4. \A g \in new : g \in G
  OBVIOUS
<1> HIDE DEF f, new
<1>5. up \in SUBSET Groups /\ \A g \in G : f.gs[g] = "PENDING" => up # G
  OBVIOUS
<1>6. "IDLE" \in ExecState /\ "IDLE" # "WORKING"
  BY DEF ExecState
<1> HIDE DEF up
<1>7. h \in Gpu /\ h.gs = f.gs
  <2>1. f \in Gpu /\ up \in SUBSET Groups
    BY <1>2, <1>5
  <2>2. "IDLE" \in ExecState
    BY <1>6
  <2>3. MoveTo(f, up, "IDLE") \in Gpu
    BY <2>1, <2>2, MoveEffect
  <2>4. MoveTo(f, up, "IDLE").gs = f.gs
    BY <2>1, <2>2, MoveEffect
  <2> QED
    BY <2>3, <2>4
<1>8. Lean(f, h)
  BY <1>2, <1>5, <1>6, LeanMove
<1> HIDE DEF h
<1>9. (up # G) \in BOOLEAN
  OBVIOUS
<1>10. k \in Gpu /\ k.gs = h.gs /\ Lean(h, k) /\ (k.work <=> h.work \/ up # G)
  <2>1. k.work <=> h.work \/ up # G
    BY <1>7 DEF Trigger, Gpu
  <2>2. k \in Gpu /\ Lean(h, k) /\ Alike(h, k)
    BY <1>7, <1>9, TriggerEffect, LeanFields
  <2> QED
    BY <2>1, <2>2 DEF Alike
<1> HIDE DEF k
<1>11. Lean(f, k)
  BY <1>8, <1>10, LeanTrans
<1>12. \A g \in Groups : k.gs[g] = "PENDING" => e.gs[g] = "PENDING" \/ (k.work /\ ~Ready(k, g))
  <2>1. Same(e, k)
    BY <1>1, <1>11 DEF Lean, Same
  <2>2. \A g \in Groups : Ready(k, g) <=> Ready(e, g)
    BY <2>1, ReadySame
  <2> QED
    BY <1>2, <1>3, <1>4, <1>5, <1>7, <1>10, <2>2
<1>13. Lean(e, k)
  <2>1. Same(e, k)
    BY <1>1, <1>11 DEF Lean, Same
  <2> QED
    BY <1>1, <1>11, <1>12, <2>1 DEF Lean, DelaysRight
<1>14. Bring(e, G) = k
  BY DEF Bring, k, h, up, f
<1> QED
  BY <1>10, <1>13, <1>14

LEMMA LeanWakeGP ==
  ASSUME NEW e \in Gpu
  PROVE  Lean(e, WakeGP(e)) /\ WakeGP(e) \in Gpu
<1>1. {GP} \in SUBSET Groups
  BY DEF Groups
<1> QED
  BY <1>1, LeanBring, LeanFields DEF WakeGP

LEMMA LeanWakePPs ==
  ASSUME NEW e \in Gpu, NEW f \in WakePPs(e)
  PROVE  Lean(e, f) /\ f \in Gpu
<1> DEFINE inactive == PPs \cap In(e, "INACTIVE")
<1>1. f = e \/ \E A \in SUBSET inactive : f = Bring(e, A)
  BY DEF WakePPs, kSubset
<1>2. \A A \in SUBSET inactive : A \in SUBSET Groups
  BY DEF Groups
<1> QED
  BY <1>1, <1>2, LeanBring, LeanFields

\* Groups that give up what they hold
LEMMA LeanGiveBack ==
  ASSUME NEW e \in Gpu, NEW G \in SUBSET Groups, NEW state \in ExecState, state # "WORKING"
  PROVE  LET f == MoveTo(DeactivateAll(e, G), G, state) IN Lean(e, f) /\ f \in Gpu
<1> DEFINE d == DeactivateAll(e, G)
<1>1. d \in Gpu /\ Lean(e, d)
  BY DeactivateEffect, LeanDeactivate
<1> HIDE DEF d
<1>2. MoveTo(d, G, state) \in Gpu /\ Lean(d, MoveTo(d, G, state))
  BY <1>1, MoveEffect, LeanMove
<1>3. Lean(e, MoveTo(d, G, state))
  BY <1>1, <1>2, LeanTrans
<1> QED
  BY <1>2, <1>3 DEF d

LEMMA LeanTriggered ==
  ASSUME NEW e \in Gpu, NEW f \in Gpu, Lean(e, f), NEW b \in BOOLEAN
  PROVE  Lean(e, Trigger(f, b)) /\ Trigger(f, b) \in Gpu
BY LeanFields, TriggerEffect, LeanTrans

LEMMA LeanGiveUp ==
  ASSUME NEW e \in Gpu
  PROVE  Lean(e, GiveUpIdle(e)) /\ GiveUpIdle(e) \in Gpu
<1> DEFINE idle == PPs \cap In(e, "IDLE")
           f == MoveTo(DeactivateAll(e, idle), idle, "INACTIVE")
<1>1. idle \in SUBSET Groups /\ "INACTIVE" \in ExecState /\ "INACTIVE" # "WORKING"
  BY DEF Groups, ExecState
<1>2. GiveUpIdle(e) = Trigger(f, Unused(e, idle) # {})
  BY DEF GiveUpIdle
<1> HIDE DEF idle
<1>3. Lean(e, f) /\ f \in Gpu
  BY <1>1, LeanGiveBack
<1> HIDE DEF f
<1>4. (Unused(e, idle) # {}) \in BOOLEAN
  OBVIOUS
<1> QED
  BY <1>2, <1>3, <1>4, LeanTriggered

LEMMA LeanQuiesce ==
  ASSUME NEW e \in Gpu
  PROVE  Lean(e, Quiesce(e)) /\ Held(Quiesce(e)) = {}
<1> DEFINE d == DeactivateAll(e, Held(e))
<1>1. Held(e) \in SUBSET Groups /\ "INACTIVE" \in ExecState /\ "INACTIVE" # "WORKING"
  BY DEF Held, ExecState
<1>2. Quiesce(e) = MoveTo(d, Held(e), "INACTIVE")
  BY DEF Quiesce, Held
<1>3. d \in Gpu /\ \A g \in Groups : d.gs[g] = "INACTIVE"
  BY <1>1, DeactivateEffect DEF Held
<1>4. Lean(e, Quiesce(e))
  BY <1>1, <1>2, LeanGiveBack
<1> HIDE DEF d
<1>5. Quiesce(e).gs = d.gs
  BY <1>1, <1>2, <1>3, MoveEffect
<1> QED
  BY <1>3, <1>4, <1>5 DEF Held

--------------------------------------------------------------------------------
\* mali_executor_group_enable_internal
LEMMA LeanEnable ==
  ASSUME NEW e \in Gpu, NEW G \in SUBSET Groups
  PROVE  /\ Lean(e, EnableAll(e, G)) /\ EnableAll(e, G) \in Gpu
         /\ EnableAll(e, G).delay = e.delay
<1> DEFINE f == MoveTo(e, G, "INACTIVE")
           n == f.enabled + Cardinality(G \cap PPs)
           h == [f EXCEPT !.enabled = n]
<1>1. "INACTIVE" \in ExecState /\ "INACTIVE" # "WORKING"
  BY DEF ExecState
<1>2. f \in Gpu /\ Lean(e, f)
  BY <1>1, MoveEffect, LeanMove
<1>3. f.delay = e.delay
  BY DEF MoveTo, Gpu
<1>4. EnableAll(e, G) = Bring(h, G)
  BY DEF EnableAll
<1> HIDE DEF f
<1>5. n \in Int
  BY <1>2, GroupsFinite DEF Gpu
<1> HIDE DEF n
<1>6. h \in Gpu /\ Lean(f, h) /\ h.delay = e.delay
  <2>1. h \in Gpu /\ Lean(f, h)
    BY <1>2, <1>5, UpdateType, LeanFields
  <2>2. h.delay = f.delay
    BY <1>2 DEF Gpu
  <2> QED
    BY <1>3, <2>1, <2>2
<1> HIDE DEF h
<1>7. Lean(h, Bring(h, G)) /\ Bring(h, G) \in Gpu
  BY <1>6, LeanBring
<1>8. Bring(h, G).delay = h.delay
  BY <1>6 DEF Bring, Trigger, MoveTo, ActivateAll, Gpu
<1>9. Lean(e, Bring(h, G))
  BY <1>2, <1>6, <1>7, LeanTrans
<1> QED
  BY <1>4, <1>6, <1>7, <1>8, <1>9

\* mali_executor_group_disable_internal
LEMMA LeanDisable ==
  ASSUME NEW e \in Gpu, NEW G \in SUBSET Groups
  PROVE  Lean(e, DisableAll(e, G)) /\ DisableAll(e, G) \in Gpu
<1> DEFINE now == G \ In(e, "WORKING")
           held == {g \in now : e.gs[g] # "INACTIVE"}
           m == MoveTo(e, now, "DISABLED")
           n == m.enabled - Cardinality(now \cap PPs)
           k == [m EXCEPT !.enabled = n]
           r == k.req \cup (G \ now)
           f == [k EXCEPT !.req = r]
           h == DeactivateAll(f, held)
<1>1. now \in SUBSET Groups /\ held \in SUBSET Groups /\ "DISABLED" \in ExecState
      /\ "DISABLED" # "WORKING"
  BY DEF ExecState
<1>2. DisableAll(e, G) = Trigger(h, Unused(e, held) # {})
  BY DEF DisableAll
<1> HIDE DEF held, now
<1>3. m \in Gpu /\ Lean(e, m)
  BY <1>1, MoveEffect, LeanMove
<1> HIDE DEF m
<1>4. n \in Int
  BY <1>1, <1>3, GroupsFinite DEF Gpu
<1> HIDE DEF n
<1>5. k \in Gpu /\ Lean(m, k)
  BY <1>3, <1>4, UpdateType, LeanFields
<1> HIDE DEF k
<1>6. r \in SUBSET Groups
  BY <1>1, <1>5 DEF Gpu
<1> HIDE DEF r
<1>7. f \in Gpu /\ Lean(k, f)
  BY <1>5, <1>6, UpdateType, LeanFields
<1> HIDE DEF f
<1>8. h \in Gpu /\ Lean(f, h)
  BY <1>1, <1>7, DeactivateEffect, LeanDeactivate
<1> HIDE DEF h
<1>9. Lean(e, h)
  BY <1>3, <1>5, <1>7, <1>8, LeanTrans
<1>10. (Unused(e, held) # {}) \in BOOLEAN
  OBVIOUS
<1> QED
  BY <1>2, <1>8, <1>9, <1>10, LeanTriggered

\* mali_executor_core_scale_in_group_complete
LEMMA LeanScaleIn ==
  ASSUME NEW e \in Gpu, InOrder(e), NEW g \in Groups, e.list[g] = "IDLE",
         NEW h \in ScaleInGroupComplete(e, g)
  PROVE  Lean(e, h)
<1> DEFINE k == DisableAll(e, {g})
           f == [k EXCEPT !.req = k.req \ {g}]
           ups == {d \in Domains : f.delay[d] > 0 /\ DisabledIn(f, d) # {}}
           F(p) == [EnableAll(f, {p}) EXCEPT !.delay[f.cfg.dom[p]] = @ - 1]
<1>1. ScaleInGroupComplete(e, g) =
        IF g = GP \/ ups = {} THEN {f} ELSE {F(p) : p \in UNION {DisabledIn(f, d) : d \in ups}}
  BY DEF ScaleInGroupComplete
<1>2. Kept(e, k)
  BY DisableKeeps
<1>3. k \in Gpu /\ InOrder(k) /\ Lean(e, k)
  BY <1>2, LeanDisable DEF Kept, InOrder
<1> HIDE DEF k
<1>4. k.req \ {g} \in SUBSET Groups
  BY <1>3 DEF Gpu
<1>5. Lean(k, f) /\ Kept(k, f)
  BY <1>3, <1>4, LeanFields, RequestsKeep
<1>6. f \in Gpu /\ InOrder(f) /\ Lean(e, f)
  BY <1>3, <1>5, LeanTrans DEF Kept, InOrder
<1> HIDE DEF f
<1>7. CASE h = f
  BY <1>6, <1>7
<1>8. ASSUME NEW d \in ups, NEW p \in DisabledIn(f, d), h = F(p)
      PROVE  Lean(e, h)
  <2> DEFINE i == EnableAll(f, {p})
             v == [x \in Domains |-> IF x = d THEN i.delay[x] - 1 ELSE i.delay[x]]
  <2>1. p \in PPs /\ f.cfg.dom[p] = d /\ d \in Domains /\ f.delay[d] > 0 /\ {p} \in SUBSET Groups
    BY DEF DisabledIn, InDomain, Groups
  <2>2. i \in Gpu /\ Lean(f, i) /\ i.delay = f.delay
    BY <1>6, <2>1, LeanEnable
  <2>3. h = [i EXCEPT !.delay[d] = @ - 1]
    BY <1>8, <2>1
  <2> HIDE DEF i
  <2>4. i.delay \in [Domains -> Int]
    BY <2>2 DEF Gpu
  <2>5. h = [i EXCEPT !.delay = v]
    BY <2>2, <2>3, <2>4 DEF Gpu
  <2>6. v \in [Domains -> Int]
    BY <2>4
  <2>7. DelaysRight(i) => \A x \in Domains : v[x] \in 0 .. NumPP
    <3>1. i.delay[d] \in Int /\ i.delay[d] > 0
      BY <2>1, <2>2, <2>4
    <3>2. i.delay[d] \in 0 .. NumPP => i.delay[d] - 1 \in 0 .. NumPP
      BY <3>1, CoresNumber
    <3> QED
      BY <3>2 DEF DelaysRight
  <2> HIDE DEF v
  <2>8. /\ Same(i, h) /\ h.pause = i.pause /\ h.gpT = i.gpT /\ h.gpQ = i.gpQ /\ h.ppT = i.ppT
        /\ h.ppQ = i.ppQ /\ h.list = i.list /\ h.work = i.work /\ h.gs = i.gs /\ h.delay = v
    BY <2>2, <2>5 DEF Gpu, Same
  <2>9. Lean(i, h)
    BY <2>7, <2>8 DEF Lean, DelaysRight
  <2> QED
    BY <1>6, <2>2, <2>9, LeanTrans
<1> HIDE DEF F, ups
<1>9. h = f \/ \E d \in ups : \E p \in DisabledIn(f, d) : h = F(p)
  BY <1>1
<1> QED
  BY <1>7, <1>8, <1>9

\* mali_executor_core_scale
LEMMA LeanCoreScale ==
  ASSUME NEW e \in Gpu, InOrder(e), NEW n \in 0 .. NumPP, NEW h \in CoreScale(e, n)
  PROVE  Lean(e, h)
<1> DEFINE none == [d \in Domains |-> 0]
           q == [e EXCEPT !.req = {}]
           reset == [q EXCEPT !.delay = none]
           delta == Delta(e, n)
<1>1. PICK D \in ToDisable(e, delta) : \E U \in ToEnable(DisableAll(reset, D), delta, n) :
        LET f == DisableAll(reset, D)
        IN  h = [EnableAll(f, U) EXCEPT !.delay = Delayed(f, delta, U)]
  BY DEF CoreScale
<1> DEFINE f == DisableAll(reset, D)
<1>2. PICK U \in ToEnable(f, delta, n) :
        h = [EnableAll(f, U) EXCEPT !.delay = Delayed(f, delta, U)]
  BY <1>1
<1> DEFINE v == Delayed(f, delta, U)
           i == EnableAll(f, U)
<1>3. none \in [Domains -> 0 .. NumPP] /\ none \in [Domains -> Int]
  BY CoresNumber
<1> HIDE DEF none
<1>4. q \in Gpu /\ Lean(e, q)
  BY UpdateType, LeanFields
<1> HIDE DEF q
<1>5. reset \in Gpu /\ Lean(q, reset)
  BY <1>3, <1>4, UpdateType, LeanFields
<1> HIDE DEF reset
<1>6. D \in SUBSET Groups
  BY DEF ToDisable, Groups
<1>7. f \in Gpu /\ Lean(reset, f)
  BY <1>5, <1>6, LeanDisable
<1>8. \A d \in Domains : delta[d] \in Int /\ delta[d] <= NumPP
  <2>1. e.cfg \in Config
    BY ConfigsAssumption DEF Gpu, IsConfig
  <2>2. e.enabled \in 0 .. NumPP
    BY BoardType
  <2>3. \A d \in Domains : e.cfg.best[n][d] \in 0 .. NumPP /\ e.cfg.best[e.enabled][d] \in 0 .. NumPP
    BY <2>1, <2>2 DEF Config
  <2>4. \A d \in Domains : delta[d] = e.cfg.best[n][d] - e.cfg.best[e.enabled][d]
    BY DEF Delta
  <2> HIDE DEF delta
  <2> QED
    BY <2>3, <2>4, CoresNumber
<1> HIDE DEF delta
<1>9. U \in SUBSET (PPs \cap In(f, "DISABLED"))
  BY DEF ToEnable, kSubset
<1>10. U \in SUBSET Groups
  BY <1>9 DEF Groups
<1>11. ASSUME NEW d \in Domains
       PROVE  v[d] \in 0 .. NumPP
  <2> DEFINE gained == Cardinality(InDomain(f, U, d))
  <2>1. gained \in Nat
    BY <1>10, GroupsFinite DEF InDomain
  <2>2. gained <= Room(f, delta)[d]
    BY DEF ToEnable
  <2>3. Cardinality(DisabledIn(f, d)) \in Nat
    BY GroupsFinite DEF DisabledIn, InDomain, Groups
  <2>4. Room(f, delta)[d] = IF delta[d] <= 0 THEN 0 ELSE Least(delta[d], Cardinality(DisabledIn(f, d)))
    BY DEF Room
  <2>5. delta[d] > 0 => gained <= delta[d]
    BY <1>8, <2>1, <2>2, <2>3, <2>4 DEF Least
  <2>6. v[d] = IF delta[d] <= 0 THEN 0 ELSE delta[d] - gained
    BY DEF Delayed
  <2> HIDE DEF v, gained
  <2> QED
    BY <1>8, <2>1, <2>5, <2>6, CoresNumber
<1>12. v \in [Domains -> 0 .. NumPP]
  <2>1. v = [d \in Domains |-> v[d]]
    BY DEF Delayed
  <2> HIDE DEF v
  <2> QED
    BY <1>11, <2>1
<1>13. h = [i EXCEPT !.delay = v]
  BY <1>2
<1> HIDE DEF v
<1>14. i \in Gpu /\ Lean(f, i)
  BY <1>7, <1>10, LeanEnable
<1> HIDE DEF i, f
<1>15. Lean(i, h)
  BY <1>12, <1>13, <1>14, LeanFields
<1> QED
  BY <1>4, <1>5, <1>7, <1>14, <1>15, LeanTrans
--------------------------------------------------------------------------------
\* Jobs are not more than there may be.
JobsBounded(e) ==
  /\ e.gpT >= 0 /\ e.gpQ >= 0 /\ e.ppT >= 0 /\ e.ppQ >= 0
  /\ e.gpT + e.gpQ + Cardinality({GP} \cap In(e, "WORKING")) <= e.cfg.maxGP
  /\ e.ppT + e.ppQ + Cardinality(PPs \cap In(e, "WORKING")) <= e.cfg.maxPP

Bounded(e) == JobsBounded(e) /\ DelaysRight(e)

\* What every function of the executor does, also those that start jobs
Careful(e, f) ==
  /\ Same(e, f) /\ f.pause = e.pause
  /\ Bounded(e) => Bounded(f)
  /\ e.work => f.work
  /\ \A g \in Groups : f.gs[g] = "PENDING" => e.gs[g] = "PENDING" \/ (f.work /\ ~Ready(f, g))

LEMMA CarefulTrans ==
  ASSUME NEW e, NEW f, NEW h, Careful(e, f), Careful(f, h)
  PROVE  Careful(e, h)
<1>1. \A g \in Groups : h.gs[g] = "PENDING" => e.gs[g] = "PENDING" \/ (h.work /\ ~Ready(h, g))
  <2>1. \A g \in Groups : Ready(h, g) <=> Ready(f, g)
    BY ReadySame DEF Careful
  <2> QED
    BY <2>1 DEF Careful
<1> QED
  BY <1>1 DEF Careful, Same

\* How many cores work
LEMMA WorkersCount ==
  ASSUME NEW e \in Gpu
  PROVE  /\ Cardinality({GP} \cap In(e, "WORKING")) \in Nat
         /\ Cardinality(PPs \cap In(e, "WORKING")) \in Nat
         /\ Cardinality({GP} \cap In(e, "WORKING")) = IF e.list[GP] = "WORKING" THEN 1 ELSE 0
<1>1. {GP} \cap In(e, "WORKING") = IF e.list[GP] = "WORKING" THEN {GP} ELSE {}
  BY DEF In, Groups
<1> QED
  BY <1>1, GroupsFinite, FS_Singleton, FS_EmptySet DEF Groups

LEMMA FewerWorkers ==
  ASSUME NEW e \in Gpu, NEW f \in Gpu, \A g \in Groups : f.list[g] = "WORKING" => e.list[g] = "WORKING"
  PROVE  /\ Cardinality({GP} \cap In(f, "WORKING")) <= Cardinality({GP} \cap In(e, "WORKING"))
         /\ Cardinality(PPs \cap In(f, "WORKING")) <= Cardinality(PPs \cap In(e, "WORKING"))
<1>1. In(f, "WORKING") \subseteq In(e, "WORKING")
  BY DEF In
<1>2. IsFiniteSet({GP} \cap In(e, "WORKING")) /\ IsFiniteSet(PPs \cap In(e, "WORKING"))
  BY GroupsFinite DEF In
<1> QED
  BY <1>1, <1>2, FS_Subset

LEMMA MaxJobs ==
  ASSUME NEW e \in Gpu
  PROVE  e.cfg.maxGP \in Nat /\ e.cfg.maxPP \in Nat
BY ConfigsAssumption DEF Gpu, IsConfig, Config

LEMMA LeanIsCareful ==
  ASSUME NEW e \in Gpu, NEW f \in Gpu, Lean(e, f)
  PROVE  Careful(e, f)
<1>1. JobsBounded(e) => JobsBounded(f)
  <2>1. /\ Cardinality({GP} \cap In(f, "WORKING")) <= Cardinality({GP} \cap In(e, "WORKING"))
        /\ Cardinality(PPs \cap In(f, "WORKING")) <= Cardinality(PPs \cap In(e, "WORKING"))
    BY FewerWorkers DEF Lean
  <2>2. /\ f.gpT = e.gpT /\ f.gpQ = e.gpQ /\ f.ppT = e.ppT /\ f.ppQ = e.ppQ /\ f.cfg = e.cfg
        /\ e.gpT \in Int /\ e.gpQ \in Int /\ e.ppT \in Int /\ e.ppQ \in Int
    BY DEF Lean, Same, Gpu
  <2>3. /\ Cardinality({GP} \cap In(e, "WORKING")) \in Nat /\ Cardinality(PPs \cap In(e, "WORKING")) \in Nat
        /\ Cardinality({GP} \cap In(f, "WORKING")) \in Nat /\ Cardinality(PPs \cap In(f, "WORKING")) \in Nat
        /\ e.cfg.maxGP \in Nat /\ e.cfg.maxPP \in Nat
    BY WorkersCount, MaxJobs
  <2> QED
    BY <2>1, <2>2, <2>3 DEF JobsBounded
<1> QED
  BY <1>1 DEF Lean, Careful, Bounded
--------------------------------------------------------------------------------
\* Sub jobs are given to idle cores.
LEMMA AssignEffect ==
  ASSUME NEW e \in Gpu, NEW S \in SUBSET (PPs \cap In(e, "IDLE"))
  PROVE  LET f == Assign(e, S)
         IN  /\ f \in Gpu /\ Same(e, f) /\ f.pause = e.pause /\ f.gs = e.gs /\ f.work = e.work
             /\ f.gpT = e.gpT /\ f.gpQ = e.gpQ /\ f.ppT = e.ppT /\ f.delay = e.delay
             /\ f.ppQ = e.ppQ - Cardinality(S) /\ Cardinality(S) \in Nat
             /\ \A g \in Groups : f.list[g] = IF g \in S THEN "WORKING" ELSE e.list[g]
<1> DEFINE m == MoveTo(e, S, "WORKING")
           n == m.ppQ - Cardinality(S)
           f == [m EXCEPT !.ppQ = n]
<1>1. S \in SUBSET Groups /\ "WORKING" \in ExecState
  BY DEF Groups, ExecState
<1>2. /\ m \in Gpu /\ Same(e, m) /\ m.gs = e.gs
      /\ \A g \in Groups : m.list[g] = IF g \in S THEN "WORKING" ELSE e.list[g]
  BY <1>1, MoveEffect
<1>3. /\ m.pause = e.pause /\ m.work = e.work /\ m.gpT = e.gpT /\ m.gpQ = e.gpQ /\ m.ppT = e.ppT
      /\ m.ppQ = e.ppQ /\ m.delay = e.delay
  BY DEF MoveTo, Gpu
<1>4. Assign(e, S) = f
  BY DEF Assign
<1> HIDE DEF m
<1>5. n \in Int /\ n = e.ppQ - Cardinality(S) /\ Cardinality(S) \in Nat
  BY <1>1, <1>2, <1>3, GroupsFinite DEF Gpu
<1> HIDE DEF n
<1>6. /\ Same(m, f) /\ f.pause = m.pause /\ f.gs = m.gs /\ f.work = m.work
      /\ f.gpT = m.gpT /\ f.gpQ = m.gpQ /\ f.ppT = m.ppT /\ f.delay = m.delay
      /\ f.ppQ = n /\ f.list = m.list
  BY <1>2 DEF Gpu, Same
<1>7. f \in Gpu
  BY <1>2, <1>5, UpdateType
<1> HIDE DEF f
<1>8. Same(e, f)
  BY <1>2, <1>6 DEF Same
<1> QED
  BY <1>2, <1>3, <1>4, <1>5, <1>6, <1>7, <1>8

LEMMA AssignCareful ==
  ASSUME NEW e \in Gpu, NEW S \in SUBSET (PPs \cap In(e, "IDLE")),
         e.ppQ >= 0 => Cardinality(S) <= e.ppQ
  PROVE  Careful(e, Assign(e, S))
<1> DEFINE f == Assign(e, S)
           was == PPs \cap In(e, "WORKING")
<1>1. /\ f \in Gpu /\ Same(e, f) /\ f.pause = e.pause /\ f.gs = e.gs /\ f.work = e.work
      /\ f.gpT = e.gpT /\ f.gpQ = e.gpQ /\ f.ppT = e.ppT /\ f.delay = e.delay
      /\ f.ppQ = e.ppQ - Cardinality(S) /\ Cardinality(S) \in Nat
      /\ \A g \in Groups : f.list[g] = IF g \in S THEN "WORKING" ELSE e.list[g]
  BY AssignEffect
<1> HIDE DEF f
<1>2. PPs \cap In(f, "WORKING") = was \cup S /\ was \cap S = {}
  BY <1>1 DEF In, Groups
<1>3. was \in SUBSET Groups /\ S \in SUBSET Groups
  BY DEF Groups
<1>4. Cardinality(PPs \cap In(f, "WORKING")) = Cardinality(was) + Cardinality(S)
  BY <1>2, <1>3, DisjointCount
<1>5. Cardinality({GP} \cap In(f, "WORKING")) = Cardinality({GP} \cap In(e, "WORKING"))
  <2>1. GP \in Groups /\ GP \notin S
    BY GroupsAssumption DEF Groups
  <2> QED
    BY <1>1, <2>1, WorkersCount
<1>6. JobsBounded(e) => JobsBounded(f)
  <2>1. /\ e.gpT \in Int /\ e.gpQ \in Int /\ e.ppT \in Int /\ e.ppQ \in Int /\ f.cfg = e.cfg
    BY <1>1 DEF Same, Gpu
  <2>2. Cardinality(was) \in Nat /\ e.cfg.maxPP \in Nat
    BY WorkersCount, MaxJobs
  <2> QED
    BY <1>1, <1>4, <1>5, <2>1, <2>2 DEF JobsBounded
<1>7. Careful(e, f)
  BY <1>1, <1>6 DEF Careful, Bounded, DelaysRight
<1> QED
  BY <1>7 DEF f

\* Steps 3.3 and 4 of mali_executor_schedule
LEMMA StartPPsAre ==
  ASSUME NEW e \in Gpu, NEW f \in StartPPs(e)
  PROVE  \E S \in SUBSET (PPs \cap In(e, "IDLE")) :
           /\ e.ppQ >= 0 => Cardinality(S) <= e.ppQ
           /\ f = Assign(e, S) \/ f = GiveUpIdle(Assign(e, S))
           /\ \/ S # {} \/ PPs \cap In(e, "IDLE") = {} \/ ~(e.ppQ > 0)
              \/ PPs \cap In(f, "WORKING") # {}
<1> DEFINE idle == PPs \cap In(e, "IDLE")
           avail == Cardinality(idle)
           count == IF e.ppQ < avail THEN e.ppQ ELSE avail
<1>1. \/ \E S \in kSubset(count, idle) : f = Assign(e, S) \/ f = GiveUpIdle(Assign(e, S))
      \/ \E S \in SUBSET idle : /\ f = Assign(e, S) /\ f.ppQ > e.ppQ - count
                                /\ PPs \cap In(f, "WORKING") # {}
  BY DEF StartPPs
<1>2. avail \in Nat /\ (avail = 0 <=> idle = {}) /\ e.ppQ \in Int
  BY GroupsFinite DEF Gpu, Groups
<1>3. CASE \E S \in kSubset(count, idle) : f = Assign(e, S) \/ f = GiveUpIdle(Assign(e, S))
  <2>1. PICK S \in SUBSET idle : /\ Cardinality(S) = count
                                 /\ f = Assign(e, S) \/ f = GiveUpIdle(Assign(e, S))
    BY <1>3 DEF kSubset
  <2>2. Cardinality(S) = 0 <=> S = {}
    BY GroupsFinite DEF Groups
  <2> HIDE DEF avail, idle
  <2>3. Cardinality(S) <= e.ppQ \/ ~(e.ppQ >= 0)
    BY <1>2, <2>1
  <2>4. S # {} \/ idle = {} \/ ~(e.ppQ > 0)
    BY <1>2, <2>1, <2>2
  <2> QED
    BY <2>1, <2>3, <2>4 DEF idle
<1>4. CASE \E S \in SUBSET idle : /\ f = Assign(e, S) /\ f.ppQ > e.ppQ - count
                                  /\ PPs \cap In(f, "WORKING") # {}
  <2>1. PICK S \in SUBSET idle : /\ f = Assign(e, S) /\ f.ppQ > e.ppQ - count
                                 /\ PPs \cap In(f, "WORKING") # {}
    BY <1>4
  <2>2. f.ppQ = e.ppQ - Cardinality(S) /\ Cardinality(S) \in Nat
    BY <2>1, AssignEffect
  <2> HIDE DEF avail, idle
  <2>3. Cardinality(S) <= e.ppQ \/ ~(e.ppQ >= 0)
    BY <1>2, <2>1, <2>2
  <2> QED
    BY <2>1, <2>3 DEF idle
<1> QED
  BY <1>1, <1>3, <1>4

LEMMA StartPPsCareful ==
  ASSUME NEW e \in Gpu, NEW f \in StartPPs(e)
  PROVE  Careful(e, f) /\ f \in Gpu
<1>1. PICK S \in SUBSET (PPs \cap In(e, "IDLE")) :
        /\ e.ppQ >= 0 => Cardinality(S) <= e.ppQ
        /\ f = Assign(e, S) \/ f = GiveUpIdle(Assign(e, S))
  BY StartPPsAre
<1> DEFINE a == Assign(e, S)
<1>2. a \in Gpu /\ Careful(e, a)
  BY <1>1, AssignEffect, AssignCareful
<1> HIDE DEF a
<1>3. GiveUpIdle(a) \in Gpu /\ Careful(a, GiveUpIdle(a))
  BY <1>2, LeanGiveUp, LeanIsCareful
<1> QED
  BY <1>1, <1>2, <1>3, CarefulTrans DEF a

\* Step 8 of mali_executor_schedule
LEMMA StartGPCareful ==
  ASSUME NEW e \in Gpu
  PROVE  /\ Careful(e, StartGP(e)) /\ StartGP(e) \in Gpu
         /\ \A p \in PPs : StartGP(e).list[p] = e.list[p] /\ StartGP(e).gs[p] = e.gs[p]
         /\ StartGP(e).ppQ = e.ppQ
         /\ StartGP(e).gpQ > 0 =>
              \/ StartGP(e).list[GP] = "WORKING"
              \/ e.list[GP] # "IDLE" /\ StartGP(e) = e
<1>0. GP \in Groups /\ PPs \in SUBSET Groups /\ GP \notin PPs /\ {GP} \in SUBSET Groups
  BY GroupsAssumption DEF Groups
<1>1. CASE e.list[GP] # "IDLE" \/ (~(e.gpQ > 0) /\ HasGPJob(e))
  <2>1. StartGP(e) = e
    BY <1>1 DEF StartGP
  <2>2. Careful(e, e)
    BY LeanFields, LeanIsCareful
  <2> QED
    BY <1>1, <2>1, <2>2
<1>2. CASE e.list[GP] = "IDLE" /\ e.gpQ > 0
  <2> DEFINE m == MoveTo(e, {GP}, "WORKING")
             n == m.gpQ - 1
             f == [m EXCEPT !.gpQ = n]
  <2>1. StartGP(e) = f
    BY <1>2 DEF StartGP
  <2>2. "WORKING" \in ExecState
    BY DEF ExecState
  <2>3. /\ m \in Gpu /\ Same(e, m) /\ m.gs = e.gs
        /\ \A g \in Groups : m.list[g] = IF g \in {GP} THEN "WORKING" ELSE e.list[g]
    BY <1>0, <2>2, MoveEffect
  <2>4. /\ m.pause = e.pause /\ m.work = e.work /\ m.gpT = e.gpT /\ m.gpQ = e.gpQ
        /\ m.ppT = e.ppT /\ m.ppQ = e.ppQ /\ m.delay = e.delay
    BY DEF MoveTo, Gpu
  <2> HIDE DEF m
  <2>5. n \in Int /\ n = e.gpQ - 1
    BY <2>3, <2>4 DEF Gpu
  <2> HIDE DEF n
  <2>6. /\ Same(m, f) /\ f.pause = m.pause /\ f.gs = m.gs /\ f.work = m.work
        /\ f.gpT = m.gpT /\ f.gpQ = n /\ f.ppT = m.ppT /\ f.delay = m.delay
        /\ f.ppQ = m.ppQ /\ f.list = m.list
    BY <2>3 DEF Gpu, Same
  <2>7. f \in Gpu
    BY <2>3, <2>5, UpdateType
  <2> HIDE DEF f
  <2>8. /\ Same(e, f) /\ f.list[GP] = "WORKING" /\ \A p \in PPs : f.list[p] = e.list[p]
        /\ f.gs = e.gs
    BY <1>0, <2>3, <2>6 DEF Same
  <2>9. PPs \cap In(f, "WORKING") = PPs \cap In(e, "WORKING")
    BY <1>0, <2>8 DEF In
  <2>10. /\ Cardinality({GP} \cap In(f, "WORKING")) = 1
         /\ Cardinality({GP} \cap In(e, "WORKING")) = 0
    BY <1>2, <2>7, <2>8, WorkersCount
  <2>11. JobsBounded(e) => JobsBounded(f)
    <3>1. e.gpT \in Int /\ e.gpQ \in Int /\ e.gpQ > 0 /\ f.cfg = e.cfg /\ e.cfg.maxGP \in Nat
      BY <1>2, <2>8, MaxJobs DEF Gpu, Same
    <3>2. /\ f.gpT = e.gpT /\ f.gpQ = e.gpQ - 1 /\ f.ppT = e.ppT /\ f.ppQ = e.ppQ
      BY <2>4, <2>5, <2>6
    <3>3. f.ppT + f.ppQ + Cardinality(PPs \cap In(f, "WORKING"))
            = e.ppT + e.ppQ + Cardinality(PPs \cap In(e, "WORKING"))
      BY <2>9, <3>2
    <3>4. f.gpT + f.gpQ + 1 = e.gpT + e.gpQ + 0
      BY <3>1, <3>2
    <3> QED
      BY <2>10, <3>1, <3>2, <3>3, <3>4 DEF JobsBounded
  <2>12. Careful(e, f)
    BY <2>4, <2>6, <2>8, <2>11 DEF Careful, Bounded, DelaysRight
  <2> QED
    BY <2>1, <2>4, <2>6, <2>7, <2>8, <2>12
<1>3. CASE e.list[GP] = "IDLE" /\ ~(e.gpQ > 0) /\ ~HasGPJob(e)
  <2> DEFINE d == DeactivateAll(e, {GP})
             m == MoveTo(d, {GP}, "INACTIVE")
             b == Unused(e, {GP}) # {}
             f == Trigger(m, b)
  <2>1. StartGP(e) = f
    BY <1>3 DEF StartGP
  <2>2. "INACTIVE" \in ExecState /\ "INACTIVE" # "WORKING" /\ b \in BOOLEAN
    BY DEF ExecState
  <2>3. /\ d \in Gpu /\ d.list = e.list
        /\ \A g \in Groups : d.gs[g] = IF g \in {GP} THEN "INACTIVE" ELSE e.gs[g]
    BY <1>0, DeactivateEffect
  <2>4. Lean(e, m) /\ m \in Gpu
    BY <1>0, <2>2, LeanGiveBack
  <2> HIDE DEF d, b
  <2>5. /\ m.gs = d.gs
        /\ \A g \in Groups : m.list[g] = IF g \in {GP} THEN "INACTIVE" ELSE d.list[g]
    BY <1>0, <2>2, <2>3, MoveEffect
  <2> HIDE DEF m
  <2>6. Lean(e, f) /\ f \in Gpu /\ Alike(m, f)
    BY <2>2, <2>4, LeanTriggered, TriggerEffect
  <2> HIDE DEF f
  <2>7. \A p \in PPs : f.list[p] = e.list[p] /\ f.gs[p] = e.gs[p]
    BY <1>0, <2>3, <2>5, <2>6 DEF Alike
  <2> QED
    BY <1>3, <2>1, <2>6, <2>7, LeanIsCareful DEF Lean
<1> QED
  BY <1>1, <1>2, <1>3

LEMMA ScheduleCareful ==
  ASSUME NEW e \in Gpu, NEW f \in Schedule(e)
  PROVE  Careful(e, f) /\ f \in Gpu
<1>1. CASE f = e
  BY <1>1, LeanFields, LeanIsCareful
<1>2. ASSUME NEW v \in WakePPs(WakeGP(e)), NEW u \in StartPPs(v), f = StartGP(u)
      PROVE  Careful(e, f) /\ f \in Gpu
  <2>1. WakeGP(e) \in Gpu /\ Careful(e, WakeGP(e))
    BY LeanWakeGP, LeanIsCareful
  <2>2. v \in Gpu /\ Careful(WakeGP(e), v)
    BY <2>1, LeanWakePPs, LeanIsCareful
  <2>3. u \in Gpu /\ Careful(v, u)
    BY <2>2, StartPPsCareful
  <2>4. f \in Gpu /\ Careful(u, f)
    BY <1>2, <2>3, StartGPCareful
  <2> QED
    BY <2>1, <2>2, <2>3, <2>4, CarefulTrans
<1> QED
  BY <1>1, <1>2 DEF Schedule
--------------------------------------------------------------------------------
\* A queued GP job finds the GP core at work, disabled or about to be powered.
FedGP(e) == e.gpQ > 0 => e.list[GP] \in {"WORKING", "DISABLED"} \/ e.gs[GP] = "PENDING"

\* A queued PP sub job finds such a PP core, or all of them disabled.
FedPP(e) ==
  e.ppQ > 0 => \/ \E p \in PPs : e.list[p] = "WORKING" \/ e.gs[p] = "PENDING"
               \/ \A p \in PPs : e.list[p] = "DISABLED"

Fed(e) == FedGP(e) /\ FedPP(e)

\* Before the jobs are given out, the core may also be idle.
AwakeGP(e) == e.gpQ > 0 => e.list[GP] # "INACTIVE" \/ e.gs[GP] = "PENDING"

AwakePP(e) ==
  e.ppQ > 0 => \/ \E p \in PPs : e.list[p] \in {"IDLE", "WORKING"} \/ e.gs[p] = "PENDING"
               \/ \A p \in PPs : e.list[p] = "DISABLED"

\* Groups that are brought up are idle or wait for power; the others stay as they are.
LEMMA BringEffect ==
  ASSUME NEW e \in Gpu, InOrder(e), NEW G \in SUBSET Groups,
         \A g \in G : e.list[g] = "INACTIVE"
  PROVE  LET f == Bring(e, G)
         IN  /\ \A g \in Groups \ G : f.list[g] = e.list[g] /\ f.gs[g] = e.gs[g]
             /\ \A g \in G : f.list[g] = "IDLE" \/ f.gs[g] = "PENDING"
<1> DEFINE new == {g \in G : e.gs[g] = "INACTIVE"}
           f == ActivateAll(e, G)
           up == {g \in G : f.gs[g] = "ACTIVE"}
           h == MoveTo(f, up, "IDLE")
           b == up # G
           k == Trigger(h, b)
<1>1. /\ f \in Gpu /\ f.list = e.list
      /\ \A g \in Groups \ new : f.gs[g] = e.gs[g]
      /\ \A g \in new : f.gs[g] \in {"ACTIVE", "PENDING"}
  BY ActivateEffect
<1>2. \A g \in Groups : g \in new <=> g \in G /\ e.gs[g] = "INACTIVE"
  OBVIOUS
<1> HIDE DEF f, new
<1>3. up \in SUBSET Groups /\ \A g \in Groups : g \in up <=> g \in G /\ f.gs[g] = "ACTIVE"
  OBVIOUS
<1>4. "IDLE" \in ExecState /\ b \in BOOLEAN
  BY DEF ExecState
<1>5. Bring(e, G) = k
  BY DEF Bring, f
<1> HIDE DEF up, b
<1>6. /\ h \in Gpu /\ h.gs = f.gs
      /\ \A g \in Groups : h.list[g] = IF g \in up THEN "IDLE" ELSE f.list[g]
  <2>1. f \in Gpu /\ up \in SUBSET Groups /\ "IDLE" \in ExecState
    BY <1>1, <1>3, <1>4
  <2>2. MoveTo(f, up, "IDLE") \in Gpu
    BY <2>1, MoveEffect
  <2>3. MoveTo(f, up, "IDLE").gs = f.gs
    BY <2>1, MoveEffect
  <2>4. \A g \in Groups : MoveTo(f, up, "IDLE").list[g] = IF g \in up THEN "IDLE" ELSE f.list[g]
    BY <2>1, MoveEffect
  <2> QED
    BY <2>2, <2>3, <2>4
<1> HIDE DEF h
<1>7. k.gs = h.gs /\ k.list = h.list
  BY <1>4, <1>6, TriggerEffect DEF Alike
<1> HIDE DEF k
<1>8. \A g \in Groups : e.gs[g] \in {"INACTIVE", "PENDING", "ACTIVE"}
  BY DEF Gpu, GroupState
<1>9. \A g \in G : g \in Groups /\ e.gs[g] # "ACTIVE"
  BY DEF InOrder, ListsRight
<1>10. \A g \in Groups \ G : k.list[g] = e.list[g] /\ k.gs[g] = e.gs[g]
  BY <1>1, <1>2, <1>3, <1>6, <1>7
<1>11. \A g \in G : k.list[g] = "IDLE" \/ k.gs[g] = "PENDING"
  BY <1>1, <1>2, <1>3, <1>6, <1>7, <1>8, <1>9
<1> QED
  BY <1>5, <1>10, <1>11

LEMMA WakeGPFeeds ==
  ASSUME NEW e \in Gpu, InOrder(e)
  PROVE  AwakeGP(WakeGP(e))
<1>1. CASE e.list[GP] = "INACTIVE" /\ e.gpQ > 0
  <2> DEFINE f == Bring(e, {GP})
  <2>1. {GP} \in SUBSET Groups /\ (\A g \in {GP} : e.list[g] = "INACTIVE") /\ GP \in {GP}
    BY <1>1 DEF Groups
  <2>2. f.list[GP] = "IDLE" \/ f.gs[GP] = "PENDING"
    BY <2>1, BringEffect
  <2>3. WakeGP(e) = f
    BY <1>1 DEF WakeGP
  <2> QED
    BY <2>2, <2>3 DEF AwakeGP
<1>2. CASE ~(e.list[GP] = "INACTIVE" /\ e.gpQ > 0)
  BY <1>2 DEF WakeGP, AwakeGP
<1> QED
  BY <1>1, <1>2

LEMMA WakePPsFeed ==
  ASSUME NEW e \in Gpu, InOrder(e), AwakeGP(e), NEW f \in WakePPs(e)
  PROVE  AwakeGP(f) /\ AwakePP(f)
<1> DEFINE idle == PPs \cap In(e, "IDLE")
           inactive == PPs \cap In(e, "INACTIVE")
           missing == Cardinality(inactive)
           short == e.ppQ - Cardinality(idle)
<1>1. /\ Cardinality(idle) \in Nat /\ (Cardinality(idle) = 0 <=> idle = {})
      /\ missing \in Nat /\ (missing = 0 <=> inactive = {}) /\ e.ppQ \in Int
  BY GroupsFinite DEF Gpu, Groups
<1>2. \/ f = e /\ short <= 0
      \/ \E A \in kSubset(IF short < missing THEN short ELSE missing, inactive) :
           f = Bring(e, A) /\ ~(short <= 0)
  BY DEF WakePPs
<1>3. \A p \in PPs : /\ p \in Groups /\ e.list[p] \in {"INACTIVE", "IDLE", "WORKING", "DISABLED"}
                     /\ p \in idle <=> e.list[p] = "IDLE"
                     /\ p \in inactive <=> e.list[p] = "INACTIVE"
  BY DEF Gpu, ExecState, Groups, In
<1>4. idle \subseteq PPs /\ inactive \subseteq PPs
  OBVIOUS
<1> HIDE DEF idle, inactive
<1>5. CASE f = e /\ short <= 0
  <2>1. e.ppQ > 0 => idle # {}
    BY <1>1, <1>5
  <2> QED
    BY <1>3, <1>4, <1>5, <2>1 DEF AwakePP
<1>6. CASE \E A \in kSubset(IF short < missing THEN short ELSE missing, inactive) :
             f = Bring(e, A) /\ ~(short <= 0)
  <2>1. PICK A \in SUBSET inactive :
          /\ Cardinality(A) = IF short < missing THEN short ELSE missing
          /\ f = Bring(e, A) /\ ~(short <= 0)
    BY <1>6 DEF kSubset
  <2>2. A \in SUBSET Groups /\ (\A g \in A : e.list[g] = "INACTIVE") /\ GP \in Groups \ A /\ A \subseteq PPs
    BY <1>3, <1>4, GroupsAssumption DEF Groups
  <2>3. /\ \A g \in Groups \ A : f.list[g] = e.list[g] /\ f.gs[g] = e.gs[g]
        /\ \A g \in A : f.list[g] = "IDLE" \/ f.gs[g] = "PENDING"
    BY <2>1, <2>2, BringEffect
  <2>4. f.gpQ = e.gpQ
    BY LeanWakePPs DEF Lean
  <2>5. AwakeGP(f)
    BY <2>2, <2>3, <2>4 DEF AwakeGP
  <2>6. Cardinality(A) = 0 <=> A = {}
    BY <2>2, GroupsFinite
  <2>7. A # {} \/ inactive = {}
    BY <1>1, <2>1, <2>6
  <2>8. CASE A # {}
    BY <2>2, <2>3, <2>5, <2>8 DEF AwakePP
  <2>9. CASE inactive = {}
    <3>1. \A p \in PPs : f.list[p] \in {"IDLE", "WORKING", "DISABLED"}
      BY <1>3, <2>1, <2>3, <2>9
    <3> QED
      BY <2>5, <3>1 DEF AwakePP
  <2> QED
    BY <2>5, <2>7, <2>8, <2>9
<1> QED
  BY <1>2, <1>5, <1>6

\* Idle cores that are given up are the only ones that change.
LEMMA GiveUpEffect ==
  ASSUME NEW e \in Gpu
  PROVE  \A g \in Groups : ~(g \in PPs /\ e.list[g] = "IDLE") =>
           GiveUpIdle(e).list[g] = e.list[g] /\ GiveUpIdle(e).gs[g] = e.gs[g]
<1> DEFINE idle == PPs \cap In(e, "IDLE")
           d == DeactivateAll(e, idle)
           m == MoveTo(d, idle, "INACTIVE")
           b == Unused(e, idle) # {}
<1>1. idle \in SUBSET Groups /\ "INACTIVE" \in ExecState /\ b \in BOOLEAN
  BY DEF Groups, ExecState
<1>2. \A g \in Groups : g \in idle <=> g \in PPs /\ e.list[g] = "IDLE"
  BY DEF In
<1>3. GiveUpIdle(e) = Trigger(m, b)
  BY DEF GiveUpIdle
<1> HIDE DEF idle, b
<1>4. /\ d \in Gpu /\ d.list = e.list
      /\ \A g \in Groups : d.gs[g] = IF g \in idle THEN "INACTIVE" ELSE e.gs[g]
  BY <1>1, DeactivateEffect
<1> HIDE DEF d
<1>5. /\ m \in Gpu /\ m.gs = d.gs
      /\ \A g \in Groups : m.list[g] = IF g \in idle THEN "INACTIVE" ELSE d.list[g]
  BY <1>1, <1>4, MoveEffect
<1> HIDE DEF m
<1>6. Alike(m, Trigger(m, b))
  BY <1>1, <1>5, TriggerEffect
<1> QED
  BY <1>2, <1>3, <1>4, <1>5, <1>6 DEF Alike

LEMMA StartPPsFeed ==
  ASSUME NEW e \in Gpu, InOrder(e), AwakeGP(e), AwakePP(e), NEW f \in StartPPs(e)
  PROVE  AwakeGP(f) /\ FedPP(f)
<1>1. PICK S \in SUBSET (PPs \cap In(e, "IDLE")) :
        /\ f = Assign(e, S) \/ f = GiveUpIdle(Assign(e, S))
        /\ \/ S # {} \/ PPs \cap In(e, "IDLE") = {} \/ ~(e.ppQ > 0)
           \/ PPs \cap In(f, "WORKING") # {}
  BY StartPPsAre
<1> DEFINE a == Assign(e, S)
<1>2. /\ a \in Gpu /\ a.gs = e.gs /\ a.gpQ = e.gpQ
      /\ a.ppQ = e.ppQ - Cardinality(S) /\ Cardinality(S) \in Nat
      /\ \A g \in Groups : a.list[g] = IF g \in S THEN "WORKING" ELSE e.list[g]
  BY AssignEffect
<1>3. Kept(e, a)
  BY AssignKeeps
<1> HIDE DEF a
<1>4. /\ f.gpQ = e.gpQ /\ f.ppQ = a.ppQ
  BY <1>1, <1>2, LeanGiveUp DEF Lean, a
<1>5. \A g \in Groups : ~(g \in PPs /\ a.list[g] = "IDLE") => f.list[g] = a.list[g] /\ f.gs[g] = a.gs[g]
  BY <1>1, <1>2, GiveUpEffect DEF a
<1>6. GP \in Groups /\ GP \notin PPs /\ GP \notin S /\ \A p \in S : p \in PPs /\ p \in Groups
  BY GroupsAssumption DEF Groups
<1>7. AwakeGP(f)
  BY <1>2, <1>4, <1>5, <1>6 DEF AwakeGP
<1>8. FedPP(f)
  <2> SUFFICES ASSUME f.ppQ > 0
               PROVE  \/ \E p \in PPs : f.list[p] = "WORKING" \/ f.gs[p] = "PENDING"
                      \/ \A p \in PPs : f.list[p] = "DISABLED"
    BY DEF FedPP
  <2>1. e.ppQ > 0
    BY <1>2, <1>4 DEF Gpu
  <2>2. \A p \in PPs : p \in Groups
    BY DEF Groups
  <2>3. CASE S # {}
    <3>1. PICK p \in S : TRUE
      BY <2>3
    <3>2. a.list[p] = "WORKING"
      BY <1>2, <1>6, <3>1
    <3> QED
      BY <1>5, <1>6, <3>1, <3>2
  <2>4. CASE PPs \cap In(f, "WORKING") # {}
    BY <2>4 DEF In
  <2>5. CASE S = {} /\ PPs \cap In(e, "IDLE") = {}
    <3>1. \A p \in PPs : e.list[p] # "IDLE"
      BY <2>2, <2>5 DEF In
    <3>2. \A p \in PPs : f.list[p] = e.list[p] /\ f.gs[p] = e.gs[p]
      BY <1>2, <1>5, <2>2, <2>5, <3>1
    <3> QED
      BY <2>1, <3>1, <3>2 DEF AwakePP
  <2> QED
    BY <1>1, <2>1, <2>3, <2>4, <2>5
<1> QED
  BY <1>7, <1>8

\* mali_executor_schedule forgets no job.
LEMMA ScheduleFeeds ==
  ASSUME NEW e \in Gpu, InOrder(e), ~(e.pause > 0), NEW f \in Schedule(e)
  PROVE  Fed(f)
<1>1. PICK v \in WakePPs(WakeGP(e)) : \E u \in StartPPs(v) : f = StartGP(u)
  BY DEF Schedule
<1>9. PICK u \in StartPPs(v) : f = StartGP(u)
  BY <1>1
<1>2. WakeGP(e) \in Gpu /\ InOrder(WakeGP(e)) /\ AwakeGP(WakeGP(e))
  BY LeanWakeGP, WakeGPKeeps, WakeGPFeeds DEF Kept
<1>3. v \in Gpu /\ InOrder(v) /\ AwakeGP(v) /\ AwakePP(v)
  BY <1>2, LeanWakePPs, WakePPsKeep, WakePPsFeed DEF Kept
<1>4. u \in Gpu /\ AwakeGP(u) /\ FedPP(u)
  BY <1>3, StartPPsCareful, StartPPsFeed
<1>5. /\ \A p \in PPs : f.list[p] = u.list[p] /\ f.gs[p] = u.gs[p]
      /\ f.ppQ = u.ppQ
      /\ f.gpQ > 0 => f.list[GP] = "WORKING" \/ (u.list[GP] # "IDLE" /\ f = u)
  BY <1>9, <1>4, StartGPCareful
<1>6. FedPP(f)
  BY <1>4, <1>5 DEF FedPP
<1>7. u.list[GP] \in {"INACTIVE", "IDLE", "WORKING", "DISABLED"}
  BY <1>4 DEF Gpu, ExecState, Groups
<1>8. FedGP(f)
  BY <1>4, <1>5, <1>7 DEF FedGP, AwakeGP
<1> QED
  BY <1>6, <1>8 DEF Fed
--------------------------------------------------------------------------------
\* Jobs leave their timelines.
LEMMA ActivatedCareful ==
  ASSUME NEW e \in Gpu, NEW f \in Activated(e)
  PROVE  /\ Careful(e, f) /\ f \in Gpu /\ f.gs = e.gs /\ f.list = e.list /\ f.pause = e.pause
<1>1. PICK i \in 0 .. e.gpT, j \in 0 .. e.ppT : f = Queued(e, i, j)
  BY DEF Activated
<1>2. /\ e.gpT \in Int /\ e.gpQ \in Int /\ e.ppT \in Int /\ e.ppQ \in Int
  BY DEF Gpu
<1> DEFINE k == [[[[e EXCEPT !.gpT = e.gpT - i] EXCEPT !.gpQ = e.gpQ + i]
                     EXCEPT !.ppT = e.ppT - j] EXCEPT !.ppQ = e.ppQ + j]
<1>3. f = k
  BY <1>1 DEF Queued, Gpu
<1>4. k \in Gpu
  <2>1. i \in Int /\ j \in Int
    BY <1>2
  <2>2. e.gpT - i \in Int /\ e.gpQ + i \in Int /\ e.ppT - j \in Int /\ e.ppQ + j \in Int
    BY <1>2, <2>1
  <2> QED
    BY <2>2, UpdateType
<1>5. /\ Same(e, f) /\ f.gs = e.gs /\ f.list = e.list /\ f.pause = e.pause /\ f.work = e.work
      /\ f.delay = e.delay
  BY <1>3 DEF Gpu, Same
<1>6. f.gpT = e.gpT - i /\ f.gpQ = e.gpQ + i /\ f.ppT = e.ppT - j /\ f.ppQ = e.ppQ + j
  BY <1>3 DEF Gpu
<1>7. JobsBounded(e) => JobsBounded(f)
  <2>1. In(f, "WORKING") = In(e, "WORKING") /\ f.cfg = e.cfg
    BY <1>5 DEF In, Same
  <2>2. /\ i \in Int /\ i >= 0 /\ e.gpT - i >= 0 /\ j \in Int /\ j >= 0 /\ e.ppT - j >= 0
    BY <1>1, <1>2
  <2>3. f.gpT + f.gpQ = e.gpT + e.gpQ /\ f.ppT + f.ppQ = e.ppT + e.ppQ
    BY <1>2, <1>6, <2>2
  <2>4. e.gpQ >= 0 /\ e.ppQ >= 0 => f.gpT >= 0 /\ f.gpQ >= 0 /\ f.ppT >= 0 /\ f.ppQ >= 0
    BY <1>2, <1>6, <2>2
  <2>5. /\ f.gpT + f.gpQ + Cardinality({GP} \cap In(f, "WORKING"))
             = e.gpT + e.gpQ + Cardinality({GP} \cap In(e, "WORKING"))
        /\ f.ppT + f.ppQ + Cardinality(PPs \cap In(f, "WORKING"))
             = e.ppT + e.ppQ + Cardinality(PPs \cap In(e, "WORKING"))
    BY <2>1, <2>3
  <2> QED
    BY <2>1, <2>4, <2>5 DEF JobsBounded
<1>8. Careful(e, f)
  BY <1>5, <1>7 DEF Careful, Bounded, DelaysRight
<1> QED
  BY <1>3, <1>4, <1>5, <1>8

\* While the executor is paused, no core starts to work and none is brought up.
Resting(e, f) ==
  /\ \A g \in Groups : f.list[g] = "WORKING" => e.list[g] = "WORKING"
  /\ Held(f) \subseteq Held(e)

\* mali_executor_complete_group
LEMMA CompleteCareful ==
  ASSUME NEW e \in Gpu, InOrder(e), NEW g \in In(e, "WORKING"), NEW h \in CompleteGroup(e, g)
  PROVE  Careful(e, h) /\ (IF e.pause > 0 THEN Resting(e, h) ELSE Fed(h))
<1> DEFINE m == MoveTo(e, {g}, "IDLE")
<1>1. g \in Groups /\ e.list[g] = "WORKING" /\ {g} \in SUBSET Groups
  BY DEF In
<1>2. "IDLE" \in ExecState /\ "IDLE" # "WORKING" /\ \A q \in {g} : e.list[q] \in {"IDLE", "WORKING"}
  BY <1>1 DEF ExecState
<1>3. Kept(e, m) /\ m.list[g] = "IDLE"
  BY <1>1, <1>2, SwitchKeeps, MoveEffect
<1>4. m \in Gpu /\ InOrder(m) /\ Lean(e, m) /\ m.gs = e.gs
  BY <1>1, <1>2, <1>3, LeanMove, MoveEffect DEF Kept, InOrder
<1>5. PICK f \in Activated(m) :
        h \in (IF f.pause > 0 THEN {f}
               ELSE IF g \in f.req THEN UNION {Schedule(i) : i \in ScaleInGroupComplete(f, g)}
               ELSE Schedule(f))
  BY DEF CompleteGroup
<1> HIDE DEF m
<1>6. Kept(m, f) /\ f.list = m.list /\ f.gs = m.gs /\ f \in Gpu /\ Careful(m, f) /\ f.pause = m.pause
  BY <1>4, ActivatedKeeps, ActivatedCareful
<1>7. InOrder(f) /\ f.list[g] = "IDLE" /\ Careful(e, f) /\ f.pause = e.pause
  BY <1>3, <1>4, <1>6, LeanIsCareful, CarefulTrans DEF Kept, Lean
<1>8. CASE e.pause > 0
  <2>1. h = f
    BY <1>5, <1>7, <1>8
  <2>2. Resting(e, f)
    BY <1>4, <1>6 DEF Resting, Held, Lean
  <2> QED
    BY <1>7, <1>8, <2>1, <2>2
<1>9. CASE ~(e.pause > 0)
  <2>1. \/ h \in Schedule(f)
        \/ \E i \in ScaleInGroupComplete(f, g) : h \in Schedule(i)
    BY <1>5, <1>7, <1>9
  <2>2. CASE h \in Schedule(f)
    <3>1. Fed(h) /\ Careful(f, h)
      BY <1>6, <1>7, <1>9, <2>2, ScheduleFeeds, ScheduleCareful
    <3> QED
      BY <1>7, <1>9, <3>1, CarefulTrans
  <2>3. ASSUME NEW i \in ScaleInGroupComplete(f, g), h \in Schedule(i)
        PROVE  Careful(e, h) /\ Fed(h)
    <3>1. Kept(f, i) /\ Lean(f, i)
      BY <1>1, <1>6, <1>7, ScaleInKeeps, LeanScaleIn
    <3>2. i \in Gpu /\ InOrder(i) /\ Careful(f, i) /\ ~(i.pause > 0)
      BY <1>6, <1>7, <1>9, <3>1, LeanIsCareful DEF Kept, InOrder, Lean
    <3>3. Fed(h) /\ Careful(i, h)
      BY <2>3, <3>2, ScheduleFeeds, ScheduleCareful
    <3> QED
      BY <1>7, <3>2, <3>3, CarefulTrans
  <2> QED
    BY <1>9, <2>1, <2>2, <2>3
<1> QED
  BY <1>8, <1>9

\* What the executor does after cores were enabled, disabled or scaled
LEMMA SwitchedCareful ==
  ASSUME NEW e \in Gpu, NEW f \in Gpu, InOrder(f), Lean(e, f), NEW h \in Schedule(f)
  PROVE  /\ Careful(e, h)
         /\ e.pause > 0 => \A g \in Groups : h.list[g] = "WORKING" => e.list[g] = "WORKING"
         /\ ~(e.pause > 0) => Fed(h)
<1>1. Careful(e, h)
  BY LeanIsCareful, ScheduleCareful, CarefulTrans
<1>2. f.pause = e.pause
  BY DEF Lean
<1>3. e.pause > 0 => h = f
  BY <1>2 DEF Schedule
<1> QED
  BY <1>1, <1>2, <1>3, ScheduleFeeds DEF Lean

\* Whether the queued jobs are fed depends on states, lists and queues alone.
LEMMA FedSame ==
  ASSUME NEW e, NEW f, f.gpQ = e.gpQ, f.ppQ = e.ppQ, Fed(e),
         \A g \in Groups : f.gs[g] = e.gs[g] /\ f.list[g] = e.list[g]
  PROVE  Fed(f)
BY DEF Fed, FedGP, FedPP, Groups

\* mali_executor_group_power_up: the groups that waited for this power are active.
LEMMA PowerUpCareful ==
  ASSUME NEW e \in Gpu, InOrder(e), NEW G \in SUBSET Groups,
         \A g \in G : DomainsOf(e, {g}) \subseteq e.current, NEW h \in PowerUpGroups(e, G)
  PROVE  /\ Bounded(e) => Bounded(h)
         /\ h.pause = e.pause /\ (e.work => h.work)
         /\ \A g \in Groups : h.gs[g] = "PENDING" =>
              (e.gs[g] = "PENDING" /\ g \notin G) \/ (h.work /\ ~Ready(h, g))
         /\ e.pause > 0 => Resting(e, h)
         /\ ~(e.pause > 0) /\ Fed(e) => Fed(h)
<1> DEFINE W == Waiting(e, G)
           f == Told(e, G)
<1>1. /\ f \in Gpu /\ f.cfg = e.cfg /\ f.pause = e.pause /\ f.work = e.work /\ f.delay = e.delay
      /\ f.gpT = e.gpT /\ f.gpQ = e.gpQ /\ f.ppT = e.ppT /\ f.ppQ = e.ppQ
      /\ \A g \in Groups : f.gs[g] = IF g \in W THEN "ACTIVE" ELSE e.gs[g]
      /\ \A g \in Groups : f.list[g] = IF g \in W THEN "IDLE" ELSE e.list[g]
  BY ToldEffect
<1>2. InOrder(f)
  BY ToldKeeps
<1>3. h \in IF W = {} THEN {f} ELSE Schedule(f)
  BY PowerUpAre
<1>4. \A g \in Groups : g \in W <=> g \in G /\ e.gs[g] = "PENDING"
  <2>1. \A g \in Groups : e.gs[g] = "PENDING" => e.list[g] = "INACTIVE"
    BY DEF InOrder, ListsRight, Gpu, ExecState
  <2> QED
    BY <2>1 DEF Waiting
<1> HIDE DEF f, W
<1>5. \A g \in Groups : f.list[g] = "WORKING" => e.list[g] = "WORKING"
  BY <1>1
<1>6. Bounded(e) => Bounded(f)
  <2>1. /\ Cardinality({GP} \cap In(f, "WORKING")) <= Cardinality({GP} \cap In(e, "WORKING"))
        /\ Cardinality(PPs \cap In(f, "WORKING")) <= Cardinality(PPs \cap In(e, "WORKING"))
    BY <1>1, <1>5, FewerWorkers
  <2>2. e.gpT \in Int /\ e.gpQ \in Int /\ e.ppT \in Int /\ e.ppQ \in Int
    BY DEF Gpu
  <2>3. /\ Cardinality({GP} \cap In(e, "WORKING")) \in Nat /\ Cardinality(PPs \cap In(e, "WORKING")) \in Nat
        /\ Cardinality({GP} \cap In(f, "WORKING")) \in Nat /\ Cardinality(PPs \cap In(f, "WORKING")) \in Nat
        /\ e.cfg.maxGP \in Nat /\ e.cfg.maxPP \in Nat
    BY <1>1, WorkersCount, MaxJobs
  <2>4. JobsBounded(e) => JobsBounded(f)
    BY <1>1, <2>1, <2>2, <2>3 DEF JobsBounded
  <2> QED
    BY <1>1, <2>4 DEF Bounded, DelaysRight
<1>7. h \in Schedule(f) => Careful(f, h)
  BY <1>1, ScheduleCareful
<1>8. h = f \/ h \in Schedule(f)
  BY <1>3
<1>9. (Bounded(e) => Bounded(h)) /\ h.pause = e.pause /\ (e.work => h.work)
  BY <1>1, <1>6, <1>7, <1>8 DEF Careful
<1>10. \A g \in Groups : h.gs[g] = "PENDING" =>
         (e.gs[g] = "PENDING" /\ g \notin G) \/ (h.work /\ ~Ready(h, g))
  <2>1. \A g \in Groups : h.gs[g] = "PENDING" => f.gs[g] = "PENDING" \/ (h.work /\ ~Ready(h, g))
    BY <1>7, <1>8 DEF Careful
  <2>2. \A g \in Groups : f.gs[g] = "PENDING" => e.gs[g] = "PENDING" /\ g \notin G
    BY <1>1, <1>4
  <2> QED
    BY <2>1, <2>2
<1>11. e.pause > 0 => Resting(e, h)
  <2> SUFFICES ASSUME e.pause > 0 PROVE Resting(e, h)
    OBVIOUS
  <2>1. h = f
    BY <1>1, <1>8 DEF Schedule
  <2>2. Held(f) \subseteq Held(e)
    BY <1>1, <1>4 DEF Held
  <2> QED
    BY <1>5, <2>1, <2>2 DEF Resting
<1>12. ~(e.pause > 0) /\ Fed(e) => Fed(h)
  <2>1. CASE W = {}
    BY <1>1, <1>3, <2>1, FedSame
  <2>2. CASE W # {}
    BY <1>1, <1>2, <1>3, <2>2, ScheduleFeeds
  <2> QED
    BY <2>1, <2>2
<1> QED
  BY <1>9, <1>10, <1>11, <1>12
--------------------------------------------------------------------------------
\* Groups that wait for power are those for which somebody is asked for it.
Asked(e, f) ==
  \A g \in Groups : f.gs[g] = "PENDING" => e.gs[g] = "PENDING" \/ (f.work /\ ~Ready(f, g))

\* With the executor running and no call of mali_executor_schedule outstanding, the queued
\* jobs are fed.
JobsFed == ~kick /\ ~(gpu.pause > 0) => Fed(gpu)

\* The steps of jobs and of those who change the number of cores
JobStep ==
  \/ Submit \/ Queue \/ RunSchedule \/ Abort
  \/ \E g \in Groups : Complete(g) \/ GroupEnable(g) \/ GroupDisable(g)
  \/ \E n \in 1 .. NumPP : SetPerfLevel(n)

\* Jobs that come and go while no group changes
Counted(e, a, b, c, d) ==
  [[[[e EXCEPT !.gpT = a] EXCEPT !.gpQ = b] EXCEPT !.ppT = c] EXCEPT !.ppQ = d]

LEMMA CountsCareful ==
  ASSUME NEW e \in Gpu, NEW a \in Int, NEW b \in Int, NEW c \in Int, NEW d \in Int,
         NEW f, f = Counted(e, a, b, c, d)
  PROVE  /\ f \in Gpu /\ Same(e, f) /\ f.gs = e.gs /\ f.list = e.list /\ f.pause = e.pause
         /\ f.work = e.work /\ f.delay = e.delay
         /\ f.gpT = a /\ f.gpQ = b /\ f.ppT = c /\ f.ppQ = d
         /\ /\ a >= 0 /\ b >= 0 /\ c >= 0 /\ d >= 0
            /\ a + b + Cardinality({GP} \cap In(e, "WORKING")) <= e.cfg.maxGP
            /\ c + d + Cardinality(PPs \cap In(e, "WORKING")) <= e.cfg.maxPP
            => JobsBounded(f)
<1>1. f \in Gpu
  BY UpdateType DEF Counted
<1>2. /\ Same(e, f) /\ f.gs = e.gs /\ f.list = e.list /\ f.pause = e.pause /\ f.work = e.work
      /\ f.delay = e.delay
  BY DEF Gpu, Same, Counted
<1>3. f.gpT = a /\ f.gpQ = b /\ f.ppT = c /\ f.ppQ = d
  BY DEF Gpu, Counted
<1>4. In(f, "WORKING") = In(e, "WORKING") /\ f.cfg = e.cfg
  BY <1>2 DEF In, Same
<1> HIDE DEF Gpu
<1> QED
  BY <1>1, <1>2, <1>3, <1>4 DEF JobsBounded

LEMMA SubmitEffect ==
  ASSUME InOrder(gpu), Submit
  PROVE  /\ gpu' \in Gpu /\ gpu'.pause = gpu.pause /\ gpu'.work = gpu.work /\ gpu'.gs = gpu.gs
         /\ gpu'.list = gpu.list /\ gpu'.gpQ = gpu.gpQ /\ gpu'.ppQ = gpu.ppQ
         /\ Bounded(gpu) => Bounded(gpu')
<1>0. gpu \in Gpu
  BY DEF InOrder
<1> DEFINE one == Cardinality({GP} \cap In(gpu, "WORKING"))
           two == Cardinality(PPs \cap In(gpu, "WORKING"))
<1>1. /\ gpu.gpT \in Int /\ gpu.gpQ \in Int /\ gpu.ppT \in Int /\ gpu.ppQ \in Int
      /\ one \in Nat /\ two \in Nat /\ gpu.cfg.maxGP \in Nat /\ gpu.cfg.maxPP \in Nat
  <2>1. gpu.gpT \in Int /\ gpu.gpQ \in Int /\ gpu.ppT \in Int /\ gpu.ppQ \in Int
    BY <1>0 DEF Gpu
  <2> QED
    BY <1>0, <2>1, WorkersCount, MaxJobs
<1>2. PICK a \in Int, c \in Int :
        /\ gpu' = Counted(gpu, a, gpu.gpQ, c, gpu.ppQ)
        /\ JobsBounded(gpu) => /\ a >= 0 /\ c >= 0
                               /\ a + gpu.gpQ + one <= gpu.cfg.maxGP
                               /\ c + gpu.ppQ + two <= gpu.cfg.maxPP
  <2>1. CASE /\ gpu.gpT + gpu.gpQ + one < gpu.cfg.maxGP
             /\ gpu' = [gpu EXCEPT !.gpT = @ + 1]
    <3> DEFINE a == gpu.gpT + 1
    <3>1. gpu' = Counted(gpu, a, gpu.gpQ, gpu.ppT, gpu.ppQ)
      BY <1>0, <2>1 DEF Gpu, Counted
    <3>2. a \in Int /\ (gpu.gpT >= 0 => a >= 0) /\ a + gpu.gpQ + one <= gpu.cfg.maxGP
      <4> HIDE DEF one, two
      <4> QED
        BY <1>1, <2>1
    <3> HIDE DEF a, one, two
    <3>3. JobsBounded(gpu) => /\ gpu.gpT >= 0 /\ gpu.ppT >= 0
                              /\ gpu.ppT + gpu.ppQ + two <= gpu.cfg.maxPP
      BY DEF JobsBounded, two
    <3> QED
      BY <1>1, <3>1, <3>2, <3>3
  <2>2. ASSUME NEW n \in 1 .. gpu.cfg.maxPP,
               gpu.ppT + gpu.ppQ + two + n <= gpu.cfg.maxPP,
               gpu' = [gpu EXCEPT !.ppT = @ + n]
        PROVE  \E a \in Int, c \in Int :
                 /\ gpu' = Counted(gpu, a, gpu.gpQ, c, gpu.ppQ)
                 /\ JobsBounded(gpu) => /\ a >= 0 /\ c >= 0
                                        /\ a + gpu.gpQ + one <= gpu.cfg.maxGP
                                        /\ c + gpu.ppQ + two <= gpu.cfg.maxPP
    <3> DEFINE c == gpu.ppT + n
    <3>1. gpu' = Counted(gpu, gpu.gpT, gpu.gpQ, c, gpu.ppQ)
      BY <1>0, <2>2 DEF Gpu, Counted
    <3>2. c \in Int /\ (gpu.ppT >= 0 => c >= 0) /\ c + gpu.ppQ + two <= gpu.cfg.maxPP
      <4> HIDE DEF one, two
      <4> QED
        BY <1>1, <2>2
    <3> HIDE DEF c, one, two
    <3>3. JobsBounded(gpu) => /\ gpu.gpT >= 0 /\ gpu.ppT >= 0
                              /\ gpu.gpT + gpu.gpQ + one <= gpu.cfg.maxGP
      BY DEF JobsBounded, one
    <3> QED
      BY <1>1, <3>1, <3>2, <3>3
  <2> QED
    BY <2>1, <2>2 DEF Submit
<1>3. /\ gpu' \in Gpu /\ gpu'.pause = gpu.pause /\ gpu'.work = gpu.work /\ gpu'.gs = gpu.gs
      /\ gpu'.list = gpu.list /\ gpu'.gpQ = gpu.gpQ /\ gpu'.ppQ = gpu.ppQ /\ gpu'.delay = gpu.delay
  BY <1>0, <1>1, <1>2, CountsCareful
<1>4. JobsBounded(gpu) => JobsBounded(gpu')
  <2> SUFFICES ASSUME JobsBounded(gpu) PROVE JobsBounded(gpu')
    OBVIOUS
  <2>1. gpu.gpQ >= 0 /\ gpu.ppQ >= 0
    BY DEF JobsBounded
  <2> QED
    BY <1>0, <1>1, <1>2, <2>1, CountsCareful
<1> QED
  BY <1>3, <1>4 DEF Bounded, DelaysRight

LEMMA AbortEffect ==
  ASSUME InOrder(gpu), Abort
  PROVE  /\ gpu' \in Gpu /\ gpu'.pause = gpu.pause /\ gpu'.work = gpu.work /\ gpu'.gs = gpu.gs
         /\ gpu'.list = gpu.list /\ (gpu'.gpQ > 0 => gpu.gpQ > 0) /\ (gpu'.ppQ > 0 => gpu.ppQ > 0)
         /\ Bounded(gpu) => Bounded(gpu')
<1>0. gpu \in Gpu
  BY DEF InOrder
<1> DEFINE one == Cardinality({GP} \cap In(gpu, "WORKING"))
           two == Cardinality(PPs \cap In(gpu, "WORKING"))
<1>1. /\ gpu.gpT \in Int /\ gpu.gpQ \in Int /\ gpu.ppT \in Int /\ gpu.ppQ \in Int
      /\ one \in Nat /\ two \in Nat /\ gpu.cfg.maxGP \in Nat /\ gpu.cfg.maxPP \in Nat
  <2>1. gpu.gpT \in Int /\ gpu.gpQ \in Int /\ gpu.ppT \in Int /\ gpu.ppQ \in Int
    BY <1>0 DEF Gpu
  <2> QED
    BY <1>0, <2>1, WorkersCount, MaxJobs
<1>2. PICK a \in Int, b \in Int, c \in Int, d \in Int :
        /\ gpu' = Counted(gpu, a, b, c, d)
        /\ a >= 0 /\ b >= 0 /\ c >= 0 /\ d >= 0
        /\ a <= gpu.gpT /\ b <= gpu.gpQ /\ c <= gpu.ppT /\ d <= gpu.ppQ
  <2>1. PICK i \in 0 .. gpu.gpT, j \in 0 .. gpu.gpQ, k \in 0 .. gpu.ppT, l \in 0 .. gpu.ppQ :
          gpu' = [gpu EXCEPT !.gpT = @ - i, !.gpQ = @ - j, !.ppT = @ - k, !.ppQ = @ - l]
    BY DEF Abort
  <2> DEFINE a == gpu.gpT - i
             b == gpu.gpQ - j
             c == gpu.ppT - k
             d == gpu.ppQ - l
  <2>2. gpu' = Counted(gpu, a, b, c, d)
    BY <1>0, <2>1 DEF Gpu, Counted
  <2>3. /\ a \in Int /\ b \in Int /\ c \in Int /\ d \in Int
        /\ a >= 0 /\ b >= 0 /\ c >= 0 /\ d >= 0
        /\ a <= gpu.gpT /\ b <= gpu.gpQ /\ c <= gpu.ppT /\ d <= gpu.ppQ
    BY <1>1, <2>1
  <2> HIDE DEF a, b, c, d
  <2> QED
    BY <2>2, <2>3
<1>5. /\ gpu' \in Gpu /\ gpu'.pause = gpu.pause /\ gpu'.work = gpu.work /\ gpu'.gs = gpu.gs
      /\ gpu'.list = gpu.list /\ gpu'.delay = gpu.delay /\ gpu'.gpQ = b /\ gpu'.ppQ = d
  <2>1. gpu' = Counted(gpu, a, b, c, d)
    BY <1>2
  <2>2. gpu' \in Gpu
    BY <1>0, <2>1, UpdateType DEF Counted
  <2>3. /\ gpu'.pause = gpu.pause /\ gpu'.work = gpu.work /\ gpu'.gs = gpu.gs
        /\ gpu'.list = gpu.list /\ gpu'.delay = gpu.delay /\ gpu'.gpQ = b /\ gpu'.ppQ = d
    BY <1>0, <2>1 DEF Counted, Gpu
  <2> QED
    BY <2>2, <2>3
<1>6. JobsBounded(gpu) => JobsBounded(gpu')
  <2> SUFFICES ASSUME JobsBounded(gpu) PROVE JobsBounded(gpu')
    OBVIOUS
  <2>1. gpu.gpT + gpu.gpQ + one <= gpu.cfg.maxGP /\ gpu.ppT + gpu.ppQ + two <= gpu.cfg.maxPP
    BY DEF JobsBounded
  <2> HIDE DEF one, two
  <2>2. a + b + one <= gpu.cfg.maxGP /\ c + d + two <= gpu.cfg.maxPP
    BY <1>1, <1>2, <2>1
  <2> QED
    BY <1>0, <1>2, <2>2, CountsCareful DEF one, two
<1>7. (b > 0 => gpu.gpQ > 0) /\ (d > 0 => gpu.ppQ > 0)
  BY <1>1, <1>2
<1> QED
  BY <1>5, <1>6, <1>7 DEF Bounded, DelaysRight

--------------------------------------------------------------------------------
\* The groups of a step that leaves states and lists alone
LEMMA UntouchedGroups ==
  ASSUME NEW e, NEW f, f.gs = e.gs, f.list = e.list
  PROVE  /\ Asked(e, f) /\ Resting(e, f) /\ In(f, "WORKING") = In(e, "WORKING") /\ Held(f) = Held(e)
         /\ Fed(e) /\ (f.gpQ > 0 => e.gpQ > 0) /\ (f.ppQ > 0 => e.ppQ > 0) => Fed(f)
BY DEF Asked, Resting, In, Held, Fed, FedGP, FedPP

\* What a step of the executor keeps, as far as the number of pausers stays the same
Steady(e, f) ==
  /\ f \in Gpu /\ f.pause = e.pause /\ (e.work => f.work) /\ (Bounded(e) => Bounded(f))
  /\ Asked(e, f)
  /\ e.pause > 0 /\ In(e, "WORKING") = {} =>
       /\ In(f, "WORKING") = {}
       /\ e.cfg.switched = {} => Held(f) \subseteq Held(e)

LEMMA JobStepEffect ==
  ASSUME InOrder(gpu), JobStep, JobsFed
  PROVE  Steady(gpu, gpu') /\ JobsFed' /\ UNCHANGED <<pmu, l2On, pm, active, rpm, pauser>>
<1>0. gpu \in Gpu
  BY DEF InOrder
<1>1. CASE Submit
  <2>1. /\ gpu' \in Gpu /\ gpu'.pause = gpu.pause /\ gpu'.work = gpu.work /\ gpu'.gs = gpu.gs
        /\ gpu'.list = gpu.list /\ gpu'.gpQ = gpu.gpQ /\ gpu'.ppQ = gpu.ppQ
        /\ Bounded(gpu) => Bounded(gpu')
    BY <1>1, SubmitEffect
  <2>2. Steady(gpu, gpu')
    BY <2>1, UntouchedGroups DEF Steady
  <2>3. kick' = kick /\ UNCHANGED <<pmu, l2On, pm, active, rpm, pauser>>
    BY <1>1 DEF Submit, Executes
  <2>4. JobsFed'
    BY <2>1, <2>3, UntouchedGroups DEF JobsFed
  <2> QED
    BY <2>2, <2>3, <2>4
<1>2. CASE Queue
  <2>1. /\ Careful(gpu, gpu') /\ gpu' \in Gpu /\ gpu'.gs = gpu.gs /\ gpu'.list = gpu.list
        /\ gpu'.pause = gpu.pause
    BY <1>0, <1>2, ActivatedCareful DEF Queue
  <2>2. Steady(gpu, gpu')
    BY <2>1, UntouchedGroups DEF Steady, Careful
  <2>3. kick' = TRUE /\ UNCHANGED <<pmu, l2On, pm, active, rpm, pauser>>
    BY <1>2 DEF Queue, Executes
  <2>4. JobsFed'
    BY <2>3 DEF JobsFed
  <2> QED
    BY <2>2, <2>3, <2>4
<1>3. CASE RunSchedule
  <2>1. gpu' \in Schedule(gpu) /\ UNCHANGED <<pmu, l2On, pm, active, rpm, pauser>>
    BY <1>3 DEF RunSchedule, Executes
  <2>2. Careful(gpu, gpu') /\ gpu' \in Gpu
    BY <1>0, <2>1, ScheduleCareful
  <2>3. gpu.pause > 0 => gpu' = gpu
    BY <2>1 DEF Schedule
  <2>4. Steady(gpu, gpu')
    BY <2>2, <2>3 DEF Steady, Careful, Asked
  <2>5. ~(gpu.pause > 0) => Fed(gpu')
    BY <1>0, <2>1, ScheduleFeeds
  <2>6. JobsFed'
    BY <2>2, <2>5 DEF JobsFed, Careful
  <2> QED
    BY <2>1, <2>4, <2>6
<1>4. CASE Abort
  <2>1. /\ gpu' \in Gpu /\ gpu'.pause = gpu.pause /\ gpu'.work = gpu.work /\ gpu'.gs = gpu.gs
        /\ gpu'.list = gpu.list /\ (gpu'.gpQ > 0 => gpu.gpQ > 0) /\ (gpu'.ppQ > 0 => gpu.ppQ > 0)
        /\ Bounded(gpu) => Bounded(gpu')
    BY <1>4, AbortEffect
  <2>2. Steady(gpu, gpu')
    BY <2>1, UntouchedGroups DEF Steady
  <2>3. kick' = kick /\ UNCHANGED <<pmu, l2On, pm, active, rpm, pauser>>
    BY <1>4 DEF Abort, Executes
  <2>4. JobsFed'
    BY <2>1, <2>3, UntouchedGroups DEF JobsFed
  <2> QED
    BY <2>2, <2>3, <2>4
<1>5. ASSUME NEW g \in Groups, Complete(g)
      PROVE  Steady(gpu, gpu') /\ JobsFed' /\ UNCHANGED <<pmu, l2On, pm, active, rpm, pauser>>
  <2>1. /\ g \in In(gpu, "WORKING") /\ gpu' \in CompleteGroup(gpu, g)
        /\ UNCHANGED <<kick, pmu, l2On, pm, active, rpm, pauser>>
    BY <1>5 DEF Complete, Executes
  <2>2. /\ Careful(gpu, gpu') /\ (IF gpu.pause > 0 THEN Resting(gpu, gpu') ELSE Fed(gpu'))
        /\ InOrder(gpu')
    BY <1>0, <2>1, CompleteCareful, CompleteKeeps DEF Kept
  <2>3. Steady(gpu, gpu')
    BY <2>1, <2>2 DEF Steady, Careful, Asked, InOrder
  <2>4. JobsFed'
    BY <2>1, <2>2 DEF JobsFed, Careful
  <2> QED
    BY <2>1, <2>3, <2>4
<1>6. ASSUME NEW f \in Gpu, InOrder(f), Lean(gpu, f), gpu' \in Schedule(f), UNCHANGED kick,
             gpu.cfg.switched # {}, Executes
      PROVE  Steady(gpu, gpu') /\ JobsFed' /\ UNCHANGED <<pmu, l2On, pm, active, rpm, pauser>>
  <2>1. /\ Careful(gpu, gpu')
        /\ gpu.pause > 0 => \A g \in Groups : gpu'.list[g] = "WORKING" => gpu.list[g] = "WORKING"
        /\ ~(gpu.pause > 0) => Fed(gpu')
    BY <1>0, <1>6, SwitchedCareful
  <2>2. gpu' \in Gpu
    BY <1>6, ScheduleCareful
  <2>3. gpu.pause > 0 /\ In(gpu, "WORKING") = {} => In(gpu', "WORKING") = {}
    BY <2>1 DEF In
  <2>4. Steady(gpu, gpu')
    BY <1>6, <2>1, <2>2, <2>3 DEF Steady, Careful, Asked
  <2>5. JobsFed'
    BY <2>1 DEF JobsFed, Careful
  <2> QED
    BY <1>6, <2>4, <2>5 DEF Executes
<1>7. ASSUME NEW g \in Groups, GroupEnable(g)
      PROVE  Steady(gpu, gpu') /\ JobsFed' /\ UNCHANGED <<pmu, l2On, pm, active, rpm, pauser>>
  <2> DEFINE f == IF gpu.list[g] = "DISABLED" THEN EnableAll(gpu, {g}) ELSE gpu
  <2>1. f \in Gpu /\ InOrder(f) /\ Lean(gpu, f)
    BY <1>0, EnableKeeps, LeanEnable, LeanFields DEF Kept
  <2>2. gpu' \in Schedule(f) /\ gpu.cfg.switched # {} /\ UNCHANGED kick /\ Executes
    BY <1>7 DEF GroupEnable
  <2> HIDE DEF f
  <2> QED
    BY <1>6, <2>1, <2>2
<1>8. ASSUME NEW g \in Groups, GroupDisable(g)
      PROVE  Steady(gpu, gpu') /\ JobsFed' /\ UNCHANGED <<pmu, l2On, pm, active, rpm, pauser>>
  <2> DEFINE f == IF gpu.list[g] # "DISABLED" THEN DisableAll(gpu, {g}) ELSE gpu
  <2>1. f \in Gpu /\ InOrder(f) /\ Lean(gpu, f)
    BY <1>0, DisableKeeps, LeanDisable, LeanFields DEF Kept
  <2>2. gpu' \in Schedule(f) /\ gpu.cfg.switched # {} /\ UNCHANGED kick /\ Executes
    BY <1>8 DEF GroupDisable
  <2> HIDE DEF f
  <2> QED
    BY <1>6, <2>1, <2>2
<1>9. ASSUME NEW n \in 1 .. NumPP, SetPerfLevel(n)
      PROVE  Steady(gpu, gpu') /\ JobsFed' /\ UNCHANGED <<pmu, l2On, pm, active, rpm, pauser>>
  <2>1. PICK f \in CoreScale(gpu, n) : gpu' \in Schedule(f)
    BY <1>9 DEF SetPerfLevel
  <2>2. n \in 0 .. NumPP
    BY CoresNumber
  <2>3. f \in Gpu /\ InOrder(f) /\ Lean(gpu, f)
    BY <1>0, <2>2, CoreScaleKeeps, LeanCoreScale DEF Kept, InOrder
  <2>4. gpu.cfg.switched # {} /\ UNCHANGED kick /\ Executes
    BY <1>9 DEF SetPerfLevel
  <2> QED
    BY <1>6, <2>1, <2>3, <2>4
<1> QED
  BY <1>1, <1>2, <1>3, <1>4, <1>5, <1>7, <1>8, <1>9 DEF JobStep

--------------------------------------------------------------------------------
PauserStates == {"running", "draining", "stopping", "paused", "resuming"}

\* What the other variables hold
Known ==
  /\ kick \in BOOLEAN /\ active \in BOOLEAN
  /\ rpm \in {"active", "suspending", "suspended", "resuming"}
  /\ pauser \in [Pausers -> PauserStates]
  /\ pmu \subseteq PmuDomains

\* pause_count is the number of those who have called mali_executor_suspend and not yet
\* mali_executor_resume.
Counting == {p \in Pausers : pauser[p] # "running"}

PausesCounted == gpu.pause = Cardinality(Counting)

Stopped == \E p \in Pausers : pauser[p] \in {"stopping", "paused"}

\* While somebody has the executor stopped no core works, and if no core is enabled
\* meanwhile no group wants power.
StoppedIsIdle ==
  Stopped => /\ In(gpu, "WORKING") = {}
             /\ gpu.cfg.switched = {} => Held(gpu) = {}

LEMMA CountingFinite ==
  /\ IsFiniteSet(Counting) /\ Cardinality(Counting) \in Nat
  /\ Counting # {} => Cardinality(Counting) > 0
  /\ Counting' \subseteq Pausers /\ IsFiniteSet(Counting') /\ Cardinality(Counting') \in Nat
  /\ Counting' # {} => Cardinality(Counting') > 0
<1>1. Counting \subseteq Pausers /\ Counting' \subseteq Pausers
  BY DEF Counting
<1>2. IsFiniteSet(Counting) /\ IsFiniteSet(Counting')
  BY <1>1, HoldersAssumption, FS_Subset
<1>3. /\ Cardinality(Counting) \in Nat /\ (Cardinality(Counting) = 0 <=> Counting = {})
      /\ Cardinality(Counting') \in Nat /\ (Cardinality(Counting') = 0 <=> Counting' = {})
  BY <1>2, FS_CardinalityType, FS_EmptySet
<1> QED
  BY <1>1, <1>2, <1>3

\* The executor stays paused while anybody has it paused.
LEMMA PausedWhileCounting ==
  ASSUME PausesCounted
  PROVE  /\ Stopped => gpu.pause > 0
         /\ gpu.pause \in Nat
         /\ (\E p \in Pausers : pauser[p] # "running") => gpu.pause > 0
<1>1. Stopped => \E p \in Pausers : pauser[p] # "running"
  BY DEF Stopped
<1>2. (\E p \in Pausers : pauser[p] # "running") => Counting # {}
  BY DEF Counting
<1> QED
  BY <1>1, <1>2, CountingFinite DEF PausesCounted

LEMMA PauseEffect ==
  ASSUME InOrder(gpu), Known, PausesCounted, StoppedIsIdle, NEW p \in Pausers, Pause(p)
  PROVE  /\ gpu' \in Gpu /\ gpu'.work = gpu.work /\ (Bounded(gpu) => Bounded(gpu'))
         /\ Asked(gpu, gpu') /\ JobsFed' /\ PausesCounted' /\ StoppedIsIdle' /\ Known'
<1>0. gpu \in Gpu /\ gpu.pause \in Int
  BY DEF InOrder, Gpu
<1>1. /\ gpu' = [gpu EXCEPT !.pause = gpu.pause + 1] /\ pauser[p] = "running"
      /\ pauser' = [pauser EXCEPT ![p] = "draining"]
      /\ UNCHANGED <<kick, pmu, active, rpm>>
  BY DEF Pause, At
<1>2. gpu' \in Gpu
  BY <1>0, <1>1, UpdateType
<1>3. /\ gpu'.work = gpu.work /\ gpu'.gs = gpu.gs /\ gpu'.list = gpu.list /\ gpu'.cfg = gpu.cfg
      /\ gpu'.gpT = gpu.gpT /\ gpu'.gpQ = gpu.gpQ /\ gpu'.ppT = gpu.ppT /\ gpu'.ppQ = gpu.ppQ
      /\ gpu'.delay = gpu.delay /\ gpu'.pause = gpu.pause + 1
  BY <1>0, <1>1 DEF Gpu
<1>4. /\ Asked(gpu, gpu') /\ In(gpu', "WORKING") = In(gpu, "WORKING") /\ Held(gpu') = Held(gpu)
  BY <1>3, UntouchedGroups
<1>5. Bounded(gpu) => Bounded(gpu')
  BY <1>3, <1>4 DEF Bounded, JobsBounded, DelaysRight
<1>6. PausesCounted'
  <2>1. Counting' = Counting \cup {p} /\ p \notin Counting
    BY <1>1 DEF Counting, Known, PauserStates
  <2>2. Cardinality(Counting \cup {p}) = Cardinality(Counting) + 1
    BY <2>1, CountingFinite, FS_AddElement
  <2> QED
    BY <1>3, <2>1, <2>2 DEF PausesCounted
<1>7. JobsFed'
  <2>1. gpu.pause \in Nat
    BY PausedWhileCounting
  <2>2. gpu'.pause > 0
    BY <1>3, <2>1
  <2> QED
    BY <2>2 DEF JobsFed
<1>8. Stopped' => Stopped
  BY <1>1 DEF Stopped, Known
<1>9. StoppedIsIdle'
  BY <1>3, <1>4, <1>8 DEF StoppedIsIdle
<1>10. PmuDomains' = PmuDomains
  BY <1>3 DEF PmuDomains
<1>11. Known'
  BY <1>1, <1>10 DEF Known, PauserStates
<1> QED
  BY <1>2, <1>3, <1>4, <1>5, <1>6, <1>7, <1>9, <1>11

LEMMA DrainedEffect ==
  ASSUME InOrder(gpu), Known, PausesCounted, NEW p \in Pausers, Drained(p)
  PROVE  /\ gpu' \in Gpu /\ (gpu.work => gpu'.work) /\ (Bounded(gpu) => Bounded(gpu'))
         /\ Asked(gpu, gpu') /\ JobsFed' /\ PausesCounted' /\ StoppedIsIdle' /\ Known'
<1>0. gpu \in Gpu
  BY DEF InOrder
<1>1. /\ gpu' = Quiesce(gpu) /\ pauser[p] = "draining" /\ In(gpu, "WORKING") = {}
      /\ pauser' = [pauser EXCEPT ![p] = "stopping"]
      /\ UNCHANGED <<kick, pmu, active, rpm>>
  BY DEF Drained, At, IsWorking
<1>2. Lean(gpu, gpu') /\ Held(gpu') = {}
  BY <1>0, <1>1, LeanQuiesce
<1>3. gpu' \in Gpu
  BY <1>0, <1>1, QuiesceKeeps DEF Kept, InOrder
<1>4. Careful(gpu, gpu')
  BY <1>0, <1>2, <1>3, LeanIsCareful
<1>5. gpu'.pause = gpu.pause /\ In(gpu', "WORKING") = {} /\ gpu'.cfg = gpu.cfg
  BY <1>1, <1>2 DEF Lean, In, Same
<1>6. Counting' = Counting
  BY <1>1 DEF Counting, Known
<1>7. PausesCounted'
  BY <1>5, <1>6 DEF PausesCounted
<1>8. JobsFed'
  <2>1. gpu.pause > 0
    BY <1>1, PausedWhileCounting
  <2> QED
    BY <1>5, <2>1 DEF JobsFed
<1>9. StoppedIsIdle'
  BY <1>2, <1>5 DEF StoppedIsIdle
<1>10. PmuDomains' = PmuDomains
  BY <1>5 DEF PmuDomains
<1>11. Known'
  BY <1>1, <1>10 DEF Known, PauserStates
<1> QED
  BY <1>3, <1>4, <1>7, <1>8, <1>9, <1>11 DEF Careful, Asked

LEMMA ResumeEffect ==
  ASSUME InOrder(gpu), Known, PausesCounted, StoppedIsIdle, NEW p \in Pausers, Resume(p)
  PROVE  /\ gpu' \in Gpu /\ (gpu.work => gpu'.work) /\ (Bounded(gpu) => Bounded(gpu'))
         /\ Asked(gpu, gpu') /\ JobsFed' /\ PausesCounted' /\ StoppedIsIdle' /\ Known'
<1> DEFINE f == [gpu EXCEPT !.pause = gpu.pause - 1]
<1>0. gpu \in Gpu /\ gpu.pause \in Int
  BY DEF InOrder, Gpu
<1>1. /\ gpu' \in Schedule(f) /\ pauser[p] = "resuming"
      /\ pauser' = [pauser EXCEPT ![p] = "running"]
      /\ UNCHANGED <<kick, pmu, active, rpm>>
  BY DEF Resume, At
<1>2. f \in Gpu /\ Kept(gpu, f)
  <2>1. gpu.pause - 1 \in Int
    BY <1>0
  <2> QED
    BY <1>0, <2>1, UpdateType, QueuesKeep
<1>3. /\ f.work = gpu.work /\ f.gs = gpu.gs /\ f.list = gpu.list /\ f.cfg = gpu.cfg
      /\ f.gpT = gpu.gpT /\ f.gpQ = gpu.gpQ /\ f.ppT = gpu.ppT /\ f.ppQ = gpu.ppQ
      /\ f.delay = gpu.delay /\ f.pause = gpu.pause - 1
  BY <1>0 DEF Gpu
<1> HIDE DEF f
<1>4. /\ In(f, "WORKING") = In(gpu, "WORKING") /\ Held(f) = Held(gpu)
  BY <1>3, UntouchedGroups
<1>5. Bounded(gpu) => Bounded(f)
  BY <1>3, <1>4 DEF Bounded, JobsBounded, DelaysRight
<1>6. Careful(f, gpu') /\ gpu' \in Gpu
  BY <1>1, <1>2, ScheduleCareful
<1>7. f.pause > 0 => gpu' = f
  BY <1>1 DEF Schedule
<1>8. Asked(gpu, gpu')
  BY <1>3, <1>6 DEF Careful, Asked
<1>9. JobsFed'
  <2>1. InOrder(f)
    BY <1>2 DEF Kept
  <2>2. ~(f.pause > 0) => Fed(gpu')
    BY <1>1, <1>2, <2>1, ScheduleFeeds
  <2> QED
    BY <1>6, <2>2 DEF JobsFed, Careful
<1>10. PausesCounted'
  <2>1. Counting' = Counting \ {p} /\ p \in Counting
    BY <1>1 DEF Counting, Known, PauserStates
  <2>2. Cardinality(Counting \ {p}) = Cardinality(Counting) - 1
    BY <2>1, CountingFinite, FS_RemoveElement
  <2> QED
    BY <1>3, <1>6, <2>1, <2>2 DEF PausesCounted, Careful
<1>11. StoppedIsIdle'
  <2> SUFFICES ASSUME Stopped'
               PROVE  /\ In(gpu', "WORKING") = {}
                      /\ gpu'.cfg.switched = {} => Held(gpu') = {}
    BY DEF StoppedIsIdle
  <2>1. Stopped
    BY <1>1 DEF Stopped, Known
  <2>2. Counting' # {}
    BY DEF Stopped, Counting
  <2>3. gpu'.pause > 0
    BY <1>10, <2>2, CountingFinite DEF PausesCounted
  <2>4. gpu' = f
    BY <1>6, <1>7, <2>3 DEF Careful
  <2> QED
    BY <1>3, <1>4, <2>1, <2>4 DEF StoppedIsIdle
<1>12. PmuDomains' = PmuDomains
  BY <1>3, <1>6 DEF PmuDomains, Careful, Same
<1>13. Known'
  BY <1>1, <1>12 DEF Known, PauserStates
<1> QED
  BY <1>3, <1>5, <1>6, <1>8, <1>9, <1>10, <1>11, <1>13 DEF Careful

--------------------------------------------------------------------------------
\* Nobody waits for power that is there.
WaitingIsOff == \A g \in Groups : gpu.gs[g] = "PENDING" => ~Ready(gpu, g)

\* A pauser that holds pm_lock_exec suspends, or resumes; runtime PM holds it only while
\* the device changes its state, and is not off.
HoldersPlaced ==
  /\ pm.who \in Pausers =>
       \/ pauser[pm.who] = "stopping" /\ (pm.pc = "suspend" \/ pm.off)
       \/ pauser[pm.who] = "paused" /\ pm.pc # "suspend" /\ ~pm.off
  /\ pm.who = Runtime => active /\ rpm \in {"suspending", "resuming"}

\* mali_pm_runtime_active agrees with the device's state.
ActiveKnown == active <=> ~(rpm = "suspended" \/ (rpm = "resuming" /\ pm.who # Runtime))

\* While the GPU is not active everything is off, and no update does anything.
InactiveIsOff ==
  ~active => /\ gpu.current = {} /\ pmu = {} /\ gpu.on = {} /\ ~l2On
             /\ pm.pc \in {"none", "suspend"} \/ (pm.pc = "cut" /\ pm.mask = {})

\* What a pauser found off stays off if no core is enabled meanwhile.
PausedIsOff ==
  gpu.cfg.switched = {} /\ (\E p \in Pausers : pauser[p] = "paused") => gpu.current = {}

\* Between updates nothing has power that is not marked on.
PowerFollows ==
  /\ l2On => \/ gpu.cfg.l2 \in gpu.current
             \/ pm.pc \in {"groupsdown", "cut"} /\ gpu.cfg.l2 \in pm.mask
  /\ pm.pc \in {"none", "suspend"} => pmu \subseteq gpu.current
  /\ pm.off /\ pm.mask = {} => pmu = {}

\* A group that waits for power gets it from the update that is queued or under way, or
\* from the next resume.
Served(g) ==
  \/ gpu.work \/ pm.pc = "up"
  \/ pm.pc \in {"l2up", "groupsup"} /\ gpu.cfg.dom[g] \in pm.mask
  \/ ~active
  \/ rpm = "suspending" /\ (pm.who # Runtime \/ pm.pc = "suspend" \/ pm.off)

WaitingIsServed == \A g \in Groups : gpu.gs[g] = "PENDING" => Served(g)

\* What the executor lock guards, and who pauses the executor
ExecutorWell ==
  Known /\ Bounded(gpu) /\ JobsFed /\ PausesCounted /\ StoppedIsIdle /\ WaitingIsOff

\* What is on, who switches it, and for whom
PowerWell ==
  /\ HoldersPlaced /\ ActiveKnown /\ InactiveIsOff /\ PausedIsOff /\ PowerFollows
  /\ WaitingIsServed

SInv == IInv /\ ExecutorWell /\ PowerWell

\* Groups that start to wait for power are not ready, and somebody is asked.
LEMMA AskedHolds ==
  ASSUME Same(gpu, gpu'), Asked(gpu, gpu'), gpu.work => gpu'.work, WaitingIsOff
  PROVE  /\ WaitingIsOff'
         /\ UNCHANGED <<pm, active, rpm>> /\ WaitingIsServed => WaitingIsServed'
<1>1. \A g \in Groups : Ready(gpu', g) <=> Ready(gpu, g)
  BY ReadySame
<1>2. WaitingIsOff'
  BY <1>1 DEF WaitingIsOff, Asked
<1>3. gpu'.cfg = gpu.cfg
  BY DEF Same
<1>4. ASSUME UNCHANGED <<pm, active, rpm>>, WaitingIsServed, NEW g \in Groups, gpu'.gs[g] = "PENDING"
      PROVE  Served(g)'
  <2>1. gpu'.work \/ gpu.gs[g] = "PENDING"
    BY <1>4 DEF Asked
  <2> QED
    BY <1>3, <1>4, <2>1 DEF WaitingIsServed, Served
<1> QED
  BY <1>2, <1>4 DEF WaitingIsServed

LEMMA ExecutorHolds ==
  ASSUME IInv, ExecutorWell, PowerWell, ExecutorStep
  PROVE  ExecutorWell' /\ PowerWell'
<1>0. InOrder(gpu) /\ gpu \in Gpu
  BY DEF IInv, InOrder
<1>1. Same(gpu, gpu') /\ UNCHANGED <<pmu, l2On, pm>>
  BY <1>0, ExecutorKeeps DEF Kept
<1>2. \/ JobStep
      \/ \E p \in Pausers : Pause(p) \/ Drained(p) \/ Resume(p)
  BY DEF ExecutorStep, JobStep
<1>3. /\ gpu' \in Gpu /\ (gpu.work => gpu'.work) /\ (Bounded(gpu) => Bounded(gpu'))
      /\ Asked(gpu, gpu') /\ JobsFed' /\ PausesCounted' /\ StoppedIsIdle' /\ Known'
  <2>1. CASE JobStep
    <3>1. Steady(gpu, gpu') /\ JobsFed' /\ UNCHANGED <<pmu, l2On, pm, active, rpm, pauser>>
      BY <1>0, <2>1, JobStepEffect DEF ExecutorWell
    <3>2. Counting' = Counting /\ (Stopped' <=> Stopped)
      BY <3>1 DEF Counting, Stopped
    <3>3. PausesCounted'
      BY <3>1, <3>2 DEF PausesCounted, ExecutorWell, Steady
    <3>4. StoppedIsIdle'
      <4>1. Stopped => gpu.pause > 0
        BY PausedWhileCounting DEF ExecutorWell
      <4> QED
        BY <1>1, <3>1, <3>2, <4>1 DEF StoppedIsIdle, ExecutorWell, Steady, Same
    <3>5. PmuDomains' = PmuDomains
      BY <1>1 DEF PmuDomains, Same
    <3>6. kick' \in BOOLEAN
      BY <2>1 DEF JobStep, Submit, Queue, RunSchedule, Abort, Complete, GroupEnable, GroupDisable,
                  SetPerfLevel, ExecutorWell, Known
    <3>7. Known'
      BY <3>1, <3>5, <3>6 DEF Known, ExecutorWell
    <3> QED
      BY <3>1, <3>3, <3>4, <3>7 DEF Steady
  <2>2. ASSUME NEW p \in Pausers, Pause(p) \/ Drained(p) \/ Resume(p)
        PROVE  /\ gpu' \in Gpu /\ (gpu.work => gpu'.work) /\ (Bounded(gpu) => Bounded(gpu'))
               /\ Asked(gpu, gpu') /\ JobsFed' /\ PausesCounted' /\ StoppedIsIdle' /\ Known'
    BY <1>0, <2>2, PauseEffect, DrainedEffect, ResumeEffect DEF ExecutorWell
  <2> QED
    BY <1>2, <2>1, <2>2
<1>4. /\ UNCHANGED <<active, rpm>>
      /\ UNCHANGED pauser \/ \E p \in Pausers :
           /\ pauser[p] \in {"running", "draining", "resuming"}
           /\ \E q \in {"running", "draining", "stopping"} : pauser' = [pauser EXCEPT ![p] = q]
  <2>1. CASE JobStep
    BY <1>0, <2>1, JobStepEffect DEF ExecutorWell
  <2>2. ASSUME NEW p \in Pausers, Pause(p) \/ Drained(p) \/ Resume(p)
        PROVE  /\ UNCHANGED <<active, rpm>>
               /\ pauser[p] \in {"running", "draining", "resuming"}
               /\ \E q \in {"running", "draining", "stopping"} : pauser' = [pauser EXCEPT ![p] = q]
    BY <2>2 DEF Pause, Drained, Resume, At
  <2> QED
    BY <1>2, <2>1, <2>2
<1>5. WaitingIsOff' /\ WaitingIsServed'
  BY <1>1, <1>3, <1>4, AskedHolds DEF ExecutorWell, PowerWell
<1>6. gpu'.cfg = gpu.cfg /\ gpu'.current = gpu.current /\ gpu'.on = gpu.on
  BY <1>1 DEF Same
<1>7. HoldersPlaced'
  <2>1. pauser \in [Pausers -> PauserStates] /\ HoldersPlaced
    BY DEF ExecutorWell, PowerWell, Known
  <2>2. \A p \in Pausers : pauser[p] \in {"stopping", "paused"} => pauser'[p] = pauser[p]
    BY <1>4, <2>1
  <2> QED
    BY <1>1, <1>4, <2>1, <2>2 DEF HoldersPlaced
<1>8. PausedIsOff'
  <2>1. pauser \in [Pausers -> PauserStates] /\ PausedIsOff
    BY DEF ExecutorWell, PowerWell, Known
  <2>2. \A p \in Pausers : pauser'[p] = "paused" => pauser[p] = "paused"
    BY <1>4, <2>1
  <2> QED
    BY <1>6, <2>1, <2>2 DEF PausedIsOff
<1>9. ActiveKnown' /\ InactiveIsOff' /\ PowerFollows'
  BY <1>1, <1>4, <1>6 DEF PowerWell, ActiveKnown, InactiveIsOff, PowerFollows
<1> QED
  BY <1>3, <1>5, <1>7, <1>8, <1>9 DEF ExecutorWell, PowerWell
--------------------------------------------------------------------------------
\* What a step that touches neither groups nor jobs keeps, whatever it marks on or off
Untouched ==
  /\ gpu'.cfg = gpu.cfg /\ gpu'.gs = gpu.gs /\ gpu'.list = gpu.list /\ gpu'.pause = gpu.pause
  /\ gpu'.gpT = gpu.gpT /\ gpu'.gpQ = gpu.gpQ /\ gpu'.ppT = gpu.ppT /\ gpu'.ppQ = gpu.ppQ
  /\ gpu'.delay = gpu.delay /\ UNCHANGED kick

\* Pausers move on, but none starts or ends its pause.
PausersMove ==
  /\ pauser' \in [Pausers -> PauserStates]
  /\ \A p \in Pausers : /\ pauser'[p] = "running" <=> pauser[p] = "running"
                        /\ pauser'[p] \in {"stopping", "paused"} => pauser[p] \in {"stopping", "paused"}

LEMMA UntouchedHolds ==
  ASSUME ExecutorWell, Untouched, PausersMove, Known', WaitingIsOff'
  PROVE  ExecutorWell'
<1>1. Counting' = Counting /\ (Stopped' => Stopped)
  BY DEF PausersMove, Counting, Stopped
<1>2. In(gpu', "WORKING") = In(gpu, "WORKING") /\ Held(gpu') = Held(gpu)
  BY DEF Untouched, In, Held
<1>3. Bounded(gpu')
  BY <1>2 DEF ExecutorWell, Untouched, Bounded, JobsBounded, DelaysRight
<1>4. JobsFed'
  <2>1. Fed(gpu) => Fed(gpu')
    BY DEF Untouched, Fed, FedGP, FedPP
  <2> QED
    BY <2>1 DEF ExecutorWell, Untouched, JobsFed
<1>5. PausesCounted' /\ StoppedIsIdle'
  BY <1>1, <1>2 DEF ExecutorWell, Untouched, PausesCounted, StoppedIsIdle
<1> QED
  BY <1>3, <1>4, <1>5 DEF ExecutorWell

\* Where the holder of the lock may be
LEMMA HoldersAre ==
  /\ \A p \in Pausers : p # Worker /\ p # Runtime /\ p # Nobody
  /\ Worker # Runtime /\ Worker # Nobody /\ Runtime # Nobody
BY HoldersAssumption

LEMMA LockHolds ==
  ASSUME IInv, ExecutorWell, PowerWell,
         \/ WorkerEnter \/ RuntimeDecide \/ RuntimeSuspend \/ RuntimeResume
         \/ \E p \in Pausers : SuspendEnter(p) \/ ResumeEnter(p)
  PROVE  ExecutorWell' /\ PowerWell'
<1>0. /\ gpu \in Gpu /\ pm \in Holders /\ Known
  BY DEF IInv, InOrder, InStep, PmType, ExecutorWell
<1>1. /\ Untouched /\ gpu'.on = gpu.on /\ gpu'.current = gpu.current
      /\ gpu'.work = gpu.work \/ (WorkerEnter /\ ~gpu'.work)
  <2>1. CASE WorkerEnter
    BY <1>0, <2>1 DEF WorkerEnter, Untouched, Gpu
  <2>2. CASE ~WorkerEnter
    BY <2>2 DEF Untouched, RuntimeDecide, RuntimeSuspend, RuntimeResume, SuspendEnter, ResumeEnter
  <2> QED
    BY <2>1, <2>2
<1>2. PmuDomains' = PmuDomains
  BY <1>1 DEF PmuDomains, Untouched
<1>3. /\ PausersMove /\ l2On' = l2On
      /\ \A p \in Pausers :
           \/ pauser'[p] = pauser[p]
           \/ pauser[p] = "paused" /\ pauser'[p] = "resuming" /\ pm = Free /\ pm' = Free
  <2>1. CASE UNCHANGED pauser
    BY <1>0, <2>1 DEF PausersMove, Known, WorkerEnter, RuntimeDecide, RuntimeSuspend, RuntimeResume,
                  SuspendEnter, ResumeEnter
  <2>2. ASSUME NEW p \in Pausers, ResumeEnter(p)
        PROVE  /\ PausersMove /\ l2On' = l2On
               /\ \/ UNCHANGED pauser
                  \/ /\ pauser[p] = "paused" /\ pauser' = [pauser EXCEPT ![p] = "resuming"]
                     /\ pm = Free /\ pm' = Free
    BY <1>0, <2>2 DEF ResumeEnter, At, PausersMove, Known, PauserStates
  <2>3. (\E p \in Pausers : ResumeEnter(p)) \/ UNCHANGED pauser
    BY DEF WorkerEnter, RuntimeDecide, RuntimeSuspend, RuntimeResume, SuspendEnter
  <2>4. pauser \in [Pausers -> PauserStates]
    BY <1>0 DEF Known
  <2>5. CASE UNCHANGED pauser
    BY <2>1, <2>5
  <2>6. CASE \E p \in Pausers : ResumeEnter(p)
    BY <2>2, <2>4, <2>6
  <2> QED
    BY <2>3, <2>5, <2>6
<1>4. Known'
  BY <1>0, <1>1, <1>2, <1>3 DEF Known, Untouched, PausersMove, WorkerEnter, RuntimeDecide, RuntimeSuspend,
         RuntimeResume, SuspendEnter, ResumeEnter
<1>5. WaitingIsOff'
  <2>1. \A g \in Groups : Ready(gpu', g) <=> Ready(gpu, g)
    BY <1>1, ReadySame DEF Same, Untouched
  <2> QED
    BY <1>1, <2>1 DEF ExecutorWell, WaitingIsOff, Untouched
<1>6. ExecutorWell'
  BY <1>1, <1>3, <1>4, <1>5, UntouchedHolds
<1>7. PausedIsOff'
  <2>1. \A p \in Pausers : pauser'[p] = "paused" => pauser[p] = "paused"
    BY <1>3
  <2> QED
    BY <1>1, <2>1 DEF PowerWell, PausedIsOff, Untouched
<1>8. gpu'.cfg = gpu.cfg /\ gpu'.gs = gpu.gs
  BY <1>1 DEF Untouched
<1>9. Free.who = Nobody /\ Free.pc = "none" /\ Free.mask = {} /\ ~Free.off
  BY DEF Free
<1>10. \A who, pc : Enter(who, pc) => pm'.who = who /\ pm'.pc = pc /\ pm'.mask = {} /\ ~pm'.off
  BY DEF Enter, Free
<1>11. CASE WorkerEnter
  <2>1. /\ pm = Free /\ UNCHANGED <<pmu, active, rpm, pauser>>
        /\ IF active THEN Enter(Worker, "up") ELSE UNCHANGED pm
    BY <1>11 DEF WorkerEnter
  <2>2. HoldersPlaced' /\ ActiveKnown' /\ InactiveIsOff' /\ PowerFollows'
    BY <1>1, <1>3, <1>8, <1>9, <1>10, <2>1, HoldersAre
       DEF PowerWell, HoldersPlaced, ActiveKnown, InactiveIsOff, PowerFollows
  <2>3. WaitingIsServed'
    BY <1>10, <2>1 DEF WaitingIsServed, Served
  <2> QED
    BY <1>6, <1>7, <2>2, <2>3 DEF PowerWell
<1>12. CASE RuntimeDecide
  <2>1. /\ rpm' = IF rpm = "active" THEN "suspending" ELSE "resuming"
        /\ rpm \in {"active", "suspended"} /\ UNCHANGED <<gpu, pmu, pm, active, pauser>>
    BY <1>12 DEF RuntimeDecide
  <2>2. HoldersPlaced' /\ ActiveKnown' /\ InactiveIsOff' /\ PowerFollows'
    BY <1>3, <2>1 DEF PowerWell, HoldersPlaced, ActiveKnown, InactiveIsOff, PowerFollows
  <2>3. WaitingIsServed'
    BY <2>1 DEF PowerWell, HoldersPlaced, ActiveKnown, WaitingIsServed, Served
  <2> QED
    BY <1>6, <1>7, <2>2, <2>3 DEF PowerWell
<1>13. CASE RuntimeSuspend
  <2>1. /\ rpm = "suspending" /\ pm = Free /\ Enter(Runtime, "suspend")
        /\ UNCHANGED <<gpu, pmu, active, rpm, pauser>>
    BY <1>13 DEF RuntimeSuspend
  <2>2. HoldersPlaced' /\ ActiveKnown' /\ InactiveIsOff' /\ PowerFollows'
    BY <1>3, <1>9, <1>10, <2>1, HoldersAre
       DEF PowerWell, HoldersPlaced, ActiveKnown, InactiveIsOff, PowerFollows
  <2>3. WaitingIsServed'
    BY <1>10, <2>1 DEF WaitingIsServed, Served
  <2> QED
    BY <1>6, <1>7, <2>2, <2>3 DEF PowerWell
<1>14. CASE RuntimeResume
  <2>1. /\ rpm = "resuming" /\ pm = Free /\ active' = TRUE /\ Enter(Runtime, "up")
        /\ UNCHANGED <<gpu, rpm, pauser>>
    BY <1>14 DEF RuntimeResume
  <2>2. HoldersPlaced' /\ ActiveKnown' /\ InactiveIsOff' /\ PowerFollows'
    BY <1>3, <1>9, <1>10, <2>1, HoldersAre
       DEF PowerWell, HoldersPlaced, ActiveKnown, InactiveIsOff, PowerFollows
  <2>3. WaitingIsServed'
    BY <1>10, <2>1 DEF WaitingIsServed, Served
  <2> QED
    BY <1>6, <1>7, <2>2, <2>3 DEF PowerWell
<1>15. ASSUME NEW p \in Pausers, SuspendEnter(p)
       PROVE  PowerWell'
  <2>1. /\ pauser[p] = "stopping" /\ pm = Free /\ Enter(p, "suspend")
        /\ UNCHANGED <<gpu, pmu, active, rpm, pauser>>
    BY <1>15 DEF SuspendEnter
  <2>2. HoldersPlaced' /\ ActiveKnown' /\ InactiveIsOff' /\ PowerFollows'
    BY <1>3, <1>9, <1>10, <2>1, HoldersAre
       DEF PowerWell, HoldersPlaced, ActiveKnown, InactiveIsOff, PowerFollows
  <2>3. WaitingIsServed'
    BY <1>9, <1>10, <2>1, HoldersAre DEF PowerWell, WaitingIsServed, Served
  <2> QED
    BY <1>7, <2>2, <2>3 DEF PowerWell
<1>16. ASSUME NEW p \in Pausers, ResumeEnter(p)
       PROVE  PowerWell'
  <2>1. /\ pauser[p] = "paused" /\ pm = Free
        /\ IF active THEN pmu' = PmuDomains /\ Enter(p, "up") /\ UNCHANGED pauser
           ELSE UNCHANGED <<pm, pmu>>
        /\ UNCHANGED <<gpu, active, rpm>>
    BY <1>16 DEF ResumeEnter
  <2>2. HoldersPlaced' /\ ActiveKnown' /\ InactiveIsOff' /\ PowerFollows'
    BY <1>3, <1>9, <1>10, <2>1, HoldersAre
       DEF PowerWell, HoldersPlaced, ActiveKnown, InactiveIsOff, PowerFollows
  <2>3. WaitingIsServed'
    BY <1>9, <1>10, <2>1, HoldersAre DEF PowerWell, WaitingIsServed, Served
  <2> QED
    BY <1>7, <2>2, <2>3 DEF PowerWell
<1> QED
  BY <1>6, <1>11, <1>12, <1>13, <1>14, <1>15, <1>16

--------------------------------------------------------------------------------
\* Something is wanted exactly if some group holds it.
LEMMA WantedIsHeld ==
  ASSUME NEW e \in Gpu, InOrder(e)
  PROVE  /\ e.wanted = {} <=> Held(e) = {}
         /\ \A g \in Groups : e.gs[g] = "PENDING" =>
              g \in Held(e) /\ e.cfg.dom[g] \in e.wanted /\ e.cfg.l2 \in e.wanted
<1>1. \A g \in Held(e) : g \in Groups /\ e.cfg.dom[g] \in e.wanted /\ e.cfg.l2 \in e.wanted
  <2> SUFFICES ASSUME NEW g \in Held(e)
               PROVE  g \in Groups /\ e.cfg.dom[g] \in e.wanted /\ e.cfg.l2 \in e.wanted
    OBVIOUS
  <2>1. g \in Groups
    BY DEF Held
  <2>2. DomainsOf(e, {g}) = {e.cfg.dom[g], e.cfg.l2}
    BY <2>1, Needed
  <2>3. DomainsOf(e, {g}) \subseteq e.wanted
    BY WantedAre
  <2> QED
    BY <2>1, <2>2, <2>3
<1>2. \A d \in e.wanted : \E g \in Held(e) : TRUE
  BY WantedAre
<1>3. \A g \in Groups : e.gs[g] = "PENDING" => g \in Held(e)
  BY DEF Held
<1> QED
  BY <1>1, <1>2, <1>3

\* A group is told that it has power exactly if it has, between two updates.
LEMMA ReadyIfOn ==
  ASSUME IInv, pm.pc \in {"none", "suspend", "up", "down"}, NEW g \in Groups
  PROVE  Ready(gpu, g) <=> Has(g)
<1>1. /\ g \in gpu.on => Has(g)
      /\ Has(g) => g \in gpu.on /\ gpu.cfg.l2 \in gpu.current
  BY DEF IInv, InStep, GroupsInStep, Going, Coming
<1>2. DomainsOf(gpu, {g}) = {gpu.cfg.dom[g], gpu.cfg.l2}
  BY Needed DEF IInv, InOrder
<1> QED
  BY <1>1, <1>2 DEF Ready, Has

\* Giving back the lock
LEMMA LeaveEffect ==
  ASSUME Known, HoldersPlaced, pm \in Holders, Leave
  PROVE  /\ pm'.who = Nobody /\ pm'.pc = "none" /\ pm'.mask = {} /\ ~pm'.off
         /\ PausersMove
         /\ active' \in BOOLEAN /\ rpm' \in {"active", "suspending", "suspended", "resuming"}
         /\ \A p \in Pausers : pauser'[p] = "paused" =>
              pauser[p] = "paused" \/ (pm.who = p /\ pauser[p] = "stopping")
<1>1. pm'.who = Nobody /\ pm'.pc = "none" /\ pm'.mask = {} /\ ~pm'.off
  BY DEF Leave, Free
<1>2. active' \in BOOLEAN /\ rpm' \in {"active", "suspending", "suspended", "resuming"}
  BY DEF Known, Leave
<1>3. CASE pm.who \notin Pausers
  <2>1. UNCHANGED pauser
    BY <1>3 DEF Leave
  <2> QED
    BY <1>1, <1>2, <2>1 DEF Known, PausersMove
<1>4. CASE pm.who \in Pausers
  <2>1. pauser' = [pauser EXCEPT ![pm.who] = IF pauser[pm.who] = "stopping" THEN "paused" ELSE "resuming"]
    BY <1>4 DEF Leave
  <2>2. pauser \in [Pausers -> PauserStates]
    BY DEF Known
  <2>3. pauser[pm.who] \in {"stopping", "paused"}
    BY <1>4 DEF HoldersPlaced
  <2>4. PausersMove
    BY <1>4, <2>1, <2>2, <2>3 DEF PausersMove, PauserStates
  <2> QED
    BY <1>1, <1>2, <2>1, <2>2, <2>4
<1> QED
  BY <1>3, <1>4

\* Steps of an update that leave the lock and all its users alone
LEMMA StillKnown ==
  ASSUME Known, UNCHANGED <<kick, active, rpm, pauser>>, gpu'.cfg = gpu.cfg, pmu' \subseteq PmuDomains
  PROVE  Known' /\ PausersMove
<1>1. PmuDomains' = PmuDomains
  BY DEF PmuDomains
<1> QED
  BY <1>1 DEF Known, PausersMove

\* What a step that marks domains on or off leaves alone
LEMMA MarkedEffect ==
  ASSUME gpu \in Gpu, NEW S, gpu' = [gpu EXCEPT !.current = S], UNCHANGED kick
  PROVE  /\ Untouched /\ gpu'.on = gpu.on /\ gpu'.current = S /\ gpu'.work = gpu.work
         /\ gpu'.wanted = gpu.wanted /\ gpu'.cfg = gpu.cfg /\ gpu'.gs = gpu.gs
BY DEF Gpu, Untouched

\* An update under way switches an active GPU.
LEMMA OnlyActive ==
  ASSUME PowerWell, pm.pc \in {"up", "l2up", "groupsup", "down", "groupsdown"}
  PROVE  active
BY DEF PowerWell, InactiveIsOff

\* While somebody is paused nothing is wanted, if no core is enabled meanwhile.
LEMMA PausedWantsNothing ==
  ASSUME InOrder(gpu), ExecutorWell, gpu.cfg.switched = {}, NEW p \in Pausers, pauser[p] = "paused"
  PROVE  gpu.wanted = {}
<1>1. Stopped
  BY DEF Stopped
<1>2. Held(gpu) = {}
  BY <1>1 DEF ExecutorWell, StoppedIsIdle
<1> QED
  BY <1>2, WantedIsHeld DEF InOrder

LEMMA PowerUpHolds ==
  ASSUME IInv, ExecutorWell, PowerWell, PowerUp
  PROVE  ExecutorWell' /\ PowerWell'
<1> DEFINE up == gpu.wanted \ gpu.current
           S == gpu.current \cup up \cup {Dummy}
<1>0. /\ gpu \in Gpu /\ InOrder(gpu) /\ pm \in Holders /\ pm.pc = "up" /\ ~pm.off /\ Known
  BY DEF IInv, InOrder, InStep, PmType, DomainsInStep, PowerUp, ExecutorWell
<1>1. /\ gpu' = [gpu EXCEPT !.current = S] /\ up # {} /\ pmu' = pmu \cup (up \ {Dummy})
      /\ pm' = [pm EXCEPT !.pc = "l2up", !.mask = up \cup {Dummy}]
      /\ UNCHANGED <<kick, l2On, active, rpm, pauser>>
  BY <1>0 DEF PowerUp, Gpu
<1>2. pm'.who = pm.who /\ pm'.off = pm.off /\ pm'.pc = "l2up" /\ pm'.mask = up \cup {Dummy}
  BY <1>0, <1>1 DEF Holders
<1>3. /\ Untouched /\ gpu'.on = gpu.on /\ gpu'.current = S /\ gpu'.work = gpu.work
      /\ gpu'.cfg = gpu.cfg /\ gpu'.gs = gpu.gs
  BY <1>0, <1>1, MarkedEffect
<1>4. active
  BY <1>0, OnlyActive
<1>5. up \subseteq PmuDomains \cup {Dummy}
  BY <1>0, WantedAre DEF PmuDomains
<1>6. Known' /\ PausersMove
  <2>1. pmu' \subseteq PmuDomains
    BY <1>0, <1>1, <1>5 DEF Known
  <2> QED
    BY <1>0, <1>1, <1>3, <2>1, StillKnown
<1>7. \A g \in Groups : gpu.gs[g] = "PENDING" => g \notin gpu.on /\ gpu.cfg.dom[g] \in up
  <2> SUFFICES ASSUME NEW g \in Groups, gpu.gs[g] = "PENDING"
               PROVE  g \notin gpu.on /\ gpu.cfg.dom[g] \in up
    OBVIOUS
  <2>1. ~Has(g)
    BY <1>0, ReadyIfOn DEF ExecutorWell, WaitingIsOff
  <2>2. g \notin gpu.on
    BY <1>0, <2>1 DEF IInv, InStep, GroupsInStep, Going
  <2>3. gpu.cfg.dom[g] \in gpu.wanted
    BY <1>0, WantedIsHeld
  <2> QED
    BY <2>1, <2>2, <2>3 DEF Has
<1>8. WaitingIsOff'
  BY <1>3, <1>7 DEF WaitingIsOff, Ready
<1>9. ExecutorWell'
  BY <1>3, <1>6, <1>8, UntouchedHolds
<1>10. HoldersPlaced' /\ ActiveKnown' /\ InactiveIsOff'
  BY <1>0, <1>1, <1>2, <1>4 DEF PowerWell, HoldersPlaced, ActiveKnown, InactiveIsOff
<1>11. PausedIsOff'
  BY <1>0, <1>1, <1>3, PausedWantsNothing DEF PausedIsOff
<1>12. PowerFollows'
  BY <1>0, <1>1, <1>2, <1>3 DEF PowerWell, PowerFollows
<1>13. WaitingIsServed'
  BY <1>2, <1>3, <1>7 DEF WaitingIsServed, Served
<1> QED
  BY <1>9, <1>10, <1>11, <1>12, <1>13 DEF PowerWell

LEMMA L2UpHolds ==
  ASSUME IInv, ExecutorWell, PowerWell, L2Up
  PROVE  ExecutorWell' /\ PowerWell'
<1>0. /\ gpu \in Gpu /\ InOrder(gpu) /\ pm \in Holders /\ pm.pc = "l2up" /\ ~pm.off /\ Known
      /\ gpu.cfg.l2 \in gpu.current
  BY DEF IInv, InOrder, InStep, PmType, DomainsInStep, L2Up, ExecutorWell
<1>1. /\ pm' = [pm EXCEPT !.pc = "groupsup"]
      /\ UNCHANGED <<gpu, kick, pmu, active, rpm, pauser>>
  BY DEF L2Up, Goto
<1>2. pm'.who = pm.who /\ pm'.off = pm.off /\ pm'.pc = "groupsup" /\ pm'.mask = pm.mask
  BY <1>0, <1>1 DEF Holders
<1>3. active
  BY <1>0, OnlyActive
<1>4. Known' /\ PausersMove
  <2>1. pmu' \subseteq PmuDomains
    BY <1>0, <1>1 DEF Known
  <2> QED
    BY <1>0, <1>1, <2>1, StillKnown
<1>5. ExecutorWell'
  <2>1. Untouched /\ WaitingIsOff'
    BY <1>1 DEF Untouched, ExecutorWell, WaitingIsOff, Ready, DomainsOf
  <2> QED
    BY <1>4, <2>1, UntouchedHolds
<1>6. HoldersPlaced' /\ ActiveKnown' /\ InactiveIsOff' /\ PausedIsOff'
  BY <1>0, <1>1, <1>2, <1>3 DEF PowerWell, HoldersPlaced, ActiveKnown, InactiveIsOff, PausedIsOff
<1>7. PowerFollows'
  BY <1>0, <1>1, <1>2 DEF PowerFollows
<1>8. WaitingIsServed'
  BY <1>0, <1>1, <1>2 DEF PowerWell, WaitingIsServed, Served
<1> QED
  BY <1>5, <1>6, <1>7, <1>8 DEF PowerWell

LEMMA GroupsUpHolds ==
  ASSUME IInv, ExecutorWell, PowerWell, GroupsUp
  PROVE  ExecutorWell' /\ PowerWell'
<1> DEFINE G == InDomains(pm.mask)
<1>0. /\ gpu \in Gpu /\ InOrder(gpu) /\ pm \in Holders /\ pm.pc = "groupsup" /\ ~pm.off /\ Known
      /\ pm.mask \subseteq gpu.current /\ gpu.cfg.l2 \in gpu.current
  BY DEF IInv, InOrder, InStep, PmType, DomainsInStep, GroupsUp, ExecutorWell
<1>1. /\ gpu' \in PowerUpGroups(gpu, G) /\ pm' = [pm EXCEPT !.pc = "down"]
      /\ UNCHANGED <<kick, pmu, l2On, active, rpm, pauser>>
  BY DEF GroupsUp, Goto
<1>2. pm'.who = pm.who /\ pm'.off = pm.off /\ pm'.pc = "down"
  BY <1>0, <1>1 DEF Holders
<1>3. G \in SUBSET Groups /\ \A g \in Groups : g \in G <=> gpu.cfg.dom[g] \in pm.mask
  BY DEF InDomains
<1> HIDE DEF G
<1>4. \A g \in G : DomainsOf(gpu, {g}) \subseteq gpu.current
  BY <1>0, <1>3, Needed
<1>5. InOrder(gpu') /\ gpu'.cfg = gpu.cfg /\ gpu'.current = gpu.current /\ gpu'.on = gpu.on \cup G
  BY <1>0, <1>1, <1>3, <1>4, PowerUpKeeps
<1>6. /\ Bounded(gpu) => Bounded(gpu')
      /\ gpu'.pause = gpu.pause /\ (gpu.work => gpu'.work)
      /\ \A g \in Groups : gpu'.gs[g] = "PENDING" =>
           (gpu.gs[g] = "PENDING" /\ g \notin G) \/ (gpu'.work /\ ~Ready(gpu', g))
      /\ gpu.pause > 0 => Resting(gpu, gpu')
      /\ ~(gpu.pause > 0) /\ Fed(gpu) => Fed(gpu')
  BY <1>0, <1>1, <1>3, <1>4, PowerUpCareful
<1>7. active
  BY <1>0, OnlyActive
<1>8. Known' /\ PausersMove
  <2>1. pmu' \subseteq PmuDomains
    BY <1>0, <1>1 DEF Known
  <2> QED
    BY <1>0, <1>1, <1>5, <2>1, StillKnown
<1>9. Counting' = Counting /\ (Stopped' <=> Stopped)
  BY <1>1 DEF Counting, Stopped
<1>10. PausesCounted'
  BY <1>6, <1>9 DEF ExecutorWell, PausesCounted
<1>11. StoppedIsIdle'
  <2> SUFFICES ASSUME Stopped'
               PROVE  /\ In(gpu', "WORKING") = {}
                      /\ gpu'.cfg.switched = {} => Held(gpu') = {}
    BY DEF StoppedIsIdle
  <2>1. /\ In(gpu, "WORKING") = {}
        /\ gpu.cfg.switched = {} => Held(gpu) = {}
    BY <1>9 DEF ExecutorWell, StoppedIsIdle
  <2>2. gpu.pause > 0
    BY <1>9, PausedWhileCounting DEF ExecutorWell
  <2>3. Resting(gpu, gpu')
    BY <1>6, <2>2
  <2> QED
    BY <1>5, <2>1, <2>3 DEF Resting, In
<1>12. JobsFed'
  BY <1>1, <1>6 DEF ExecutorWell, JobsFed
<1>13. WaitingIsOff'
  <2> SUFFICES ASSUME NEW g \in Groups, gpu.gs[g] = "PENDING", g \notin G
               PROVE  ~Ready(gpu', g)
    BY <1>6 DEF WaitingIsOff
  <2>1. ~Ready(gpu, g)
    BY DEF ExecutorWell, WaitingIsOff
  <2>2. g \in gpu'.on <=> g \in gpu.on
    BY <1>5
  <2>3. DomainsOf(gpu', {g}) = DomainsOf(gpu, {g})
    BY <1>5, SameBoard
  <2> QED
    BY <1>5, <2>1, <2>2, <2>3 DEF Ready
<1>14. ExecutorWell'
  BY <1>6, <1>8, <1>10, <1>11, <1>12, <1>13 DEF ExecutorWell
<1>15. HoldersPlaced' /\ ActiveKnown' /\ InactiveIsOff' /\ PausedIsOff'
  BY <1>0, <1>1, <1>2, <1>5, <1>7 DEF PowerWell, HoldersPlaced, ActiveKnown, InactiveIsOff, PausedIsOff
<1>16. PowerFollows'
  BY <1>0, <1>1, <1>2, <1>5 DEF PowerFollows
<1>17. WaitingIsServed'
  <2> SUFFICES ASSUME NEW g \in Groups, gpu.gs[g] = "PENDING", g \notin G
               PROVE  Served(g)'
    BY <1>6 DEF WaitingIsServed, Served
  <2>1. Served(g)
    BY DEF PowerWell, WaitingIsServed
  <2> QED
    BY <1>0, <1>1, <1>2, <1>3, <1>6, <2>1 DEF Served
<1> QED
  BY <1>14, <1>15, <1>16, <1>17 DEF PowerWell

LEMMA PowerDownHolds ==
  ASSUME IInv, ExecutorWell, PowerWell, PowerDown
  PROVE  ExecutorWell' /\ PowerWell'
<1> DEFINE down == gpu.current \ (gpu.wanted \cup {Dummy})
           S == gpu.current \ down
<1>0. /\ gpu \in Gpu /\ InOrder(gpu) /\ pm \in Holders /\ pm.pc \in {"up", "down"} /\ ~pm.off /\ Known
      /\ pm.pc = "up" => gpu.wanted \subseteq gpu.current
  BY DEF IInv, InOrder, InStep, PmType, DomainsInStep, PowerDown, ExecutorWell
<1>1. /\ gpu' = [gpu EXCEPT !.current = S]
      /\ pm' = [pm EXCEPT !.pc = IF down = {} THEN "cut" ELSE "groupsdown", !.mask = down]
      /\ UNCHANGED <<kick, pmu, l2On, active, rpm, pauser>>
  BY <1>0 DEF PowerDown, Gpu
<1>2. /\ pm'.who = pm.who /\ pm'.off = pm.off /\ pm'.mask = down
      /\ pm'.pc = IF down = {} THEN "cut" ELSE "groupsdown"
  BY <1>0, <1>1 DEF Holders
<1>3. /\ Untouched /\ gpu'.on = gpu.on /\ gpu'.current = S /\ gpu'.work = gpu.work
      /\ gpu'.cfg = gpu.cfg /\ gpu'.gs = gpu.gs
  BY <1>0, <1>1, MarkedEffect
<1>4. active
  BY <1>0, OnlyActive
<1>5. S \subseteq gpu.current /\ (down = {} => S = gpu.current)
      /\ \A d \in gpu.current : d \in S \/ d \in down
  OBVIOUS
<1> HIDE DEF S, down
<1>6. Known' /\ PausersMove
  <2>1. pmu' \subseteq PmuDomains
    BY <1>0, <1>1 DEF Known
  <2> QED
    BY <1>0, <1>1, <1>3, <2>1, StillKnown
<1>7. WaitingIsOff'
  <2>1. \A g \in Groups : Ready(gpu', g) => Ready(gpu, g)
    BY <1>3, <1>5, SameBoard DEF Ready
  <2> QED
    BY <1>3, <2>1 DEF ExecutorWell, WaitingIsOff
<1>8. ExecutorWell'
  BY <1>3, <1>6, <1>7, UntouchedHolds
<1>9. HoldersPlaced' /\ ActiveKnown' /\ InactiveIsOff'
  BY <1>0, <1>1, <1>2, <1>4 DEF PowerWell, HoldersPlaced, ActiveKnown, InactiveIsOff
<1>10. PausedIsOff'
  BY <1>1, <1>3, <1>5 DEF PowerWell, PausedIsOff
<1>11. PowerFollows'
  <2>1. l2On => gpu.cfg.l2 \in gpu.current
    BY <1>0 DEF PowerWell, PowerFollows
  <2>2. l2On => gpu.cfg.l2 \in S \/ (down # {} /\ gpu.cfg.l2 \in down)
    BY <1>5, <2>1
  <2> QED
    BY <1>0, <1>1, <1>2, <1>3, <2>2 DEF PowerFollows
<1>12. WaitingIsServed'
  <2> SUFFICES ASSUME NEW g \in Groups, gpu.gs[g] = "PENDING"
               PROVE  Served(g)'
    BY <1>3 DEF WaitingIsServed
  <2>1. Served(g)
    BY DEF PowerWell, WaitingIsServed
  <2>2. pm.pc = "down"
    <3> SUFFICES ASSUME pm.pc = "up" PROVE FALSE
      BY <1>0
    <3>1. ~Has(g)
      BY ReadyIfOn DEF ExecutorWell, WaitingIsOff
    <3>2. gpu.cfg.dom[g] \in gpu.wanted
      BY <1>0, WantedIsHeld
    <3> QED
      BY <1>0, <3>1, <3>2 DEF Has
  <2> QED
    BY <1>1, <1>2, <1>3, <2>1, <2>2 DEF Served
<1> QED
  BY <1>8, <1>9, <1>10, <1>11, <1>12 DEF PowerWell

LEMMA GroupsDownHolds ==
  ASSUME IInv, ExecutorWell, PowerWell, GroupsDown
  PROVE  ExecutorWell' /\ PowerWell'
<1> DEFINE G == InDomains(pm.mask)
<1>0. /\ gpu \in Gpu /\ InOrder(gpu) /\ pm \in Holders /\ pm.pc = "groupsdown" /\ Known
  BY DEF IInv, InOrder, InStep, PmType, GroupsDown, ExecutorWell
<1>1. /\ gpu' = [gpu EXCEPT !.on = gpu.on \ G] /\ pm' = [pm EXCEPT !.pc = "cut"]
      /\ UNCHANGED <<kick, pmu, l2On, active, rpm, pauser>>
  BY <1>0 DEF GroupsDown, Goto, PowerDownGroups, Gpu
<1> HIDE DEF G
<1>2. pm'.who = pm.who /\ pm'.off = pm.off /\ pm'.mask = pm.mask /\ pm'.pc = "cut"
  BY <1>0, <1>1 DEF Holders
<1>3. /\ Untouched /\ gpu'.on \subseteq gpu.on /\ gpu'.current = gpu.current /\ gpu'.work = gpu.work
      /\ gpu'.cfg = gpu.cfg /\ gpu'.gs = gpu.gs
  BY <1>0, <1>1 DEF Gpu, Untouched
<1>4. active
  BY <1>0, OnlyActive
<1>5. Known' /\ PausersMove
  <2>1. pmu' \subseteq PmuDomains
    BY <1>0, <1>1 DEF Known
  <2> QED
    BY <1>0, <1>1, <1>3, <2>1, StillKnown
<1>6. WaitingIsOff'
  <2>1. \A g \in Groups : Ready(gpu', g) => Ready(gpu, g)
    BY <1>3, SameBoard DEF Ready
  <2> QED
    BY <1>3, <2>1 DEF ExecutorWell, WaitingIsOff
<1>7. ExecutorWell'
  BY <1>3, <1>5, <1>6, UntouchedHolds
<1>8. HoldersPlaced' /\ ActiveKnown' /\ InactiveIsOff' /\ PausedIsOff'
  BY <1>0, <1>1, <1>2, <1>3, <1>4 DEF PowerWell, HoldersPlaced, ActiveKnown, InactiveIsOff, PausedIsOff
<1>9. PowerFollows'
  BY <1>0, <1>1, <1>2, <1>3 DEF PowerWell, PowerFollows
<1>10. WaitingIsServed'
  BY <1>0, <1>1, <1>2, <1>3 DEF PowerWell, WaitingIsServed, Served
<1> QED
  BY <1>7, <1>8, <1>9, <1>10 DEF PowerWell

LEMMA SuspendMarkHolds ==
  ASSUME IInv, ExecutorWell, PowerWell, SuspendMark
  PROVE  ExecutorWell' /\ PowerWell'
<1>0. /\ gpu \in Gpu /\ InOrder(gpu) /\ pm \in Holders /\ pm.pc = "suspend" /\ Known /\ gpu.wanted = {}
  BY DEF IInv, InOrder, InStep, PmType, SuspendMark, ExecutorWell
<1>1. /\ gpu' = [gpu EXCEPT !.current = {}]
      /\ pm' = [pm EXCEPT !.pc = IF gpu.current = {} THEN "cut" ELSE "groupsdown",
                          !.mask = gpu.current, !.off = TRUE]
      /\ UNCHANGED <<kick, pmu, l2On, active, rpm, pauser>>
  BY DEF SuspendMark
<1>2. /\ pm'.who = pm.who /\ pm'.off /\ pm'.mask = gpu.current
      /\ pm'.pc = IF gpu.current = {} THEN "cut" ELSE "groupsdown"
  BY <1>0, <1>1 DEF Holders
<1>3. /\ Untouched /\ gpu'.on = gpu.on /\ gpu'.current = {} /\ gpu'.work = gpu.work
      /\ gpu'.cfg = gpu.cfg /\ gpu'.gs = gpu.gs
  BY <1>0, <1>1, MarkedEffect
<1>4. Known' /\ PausersMove
  <2>1. pmu' \subseteq PmuDomains
    BY <1>0, <1>1 DEF Known
  <2> QED
    BY <1>0, <1>1, <1>3, <2>1, StillKnown
<1>5. \A g \in Groups : gpu'.gs[g] # "PENDING"
  BY <1>0, <1>3, WantedIsHeld
<1>6. ExecutorWell' /\ WaitingIsServed'
  BY <1>3, <1>4, <1>5, UntouchedHolds DEF WaitingIsOff, WaitingIsServed
<1>7. HoldersPlaced' /\ ActiveKnown' /\ PausedIsOff'
  BY <1>0, <1>1, <1>2, <1>3 DEF PowerWell, HoldersPlaced, ActiveKnown, PausedIsOff
<1>8. InactiveIsOff'
  BY <1>0, <1>1, <1>2, <1>3 DEF PowerWell, InactiveIsOff
<1>9. PowerFollows'
  BY <1>0, <1>1, <1>2, <1>3 DEF PowerWell, PowerFollows
<1> QED
  BY <1>6, <1>7, <1>8, <1>9 DEF PowerWell

LEMMA SuspendRefusedHolds ==
  ASSUME IInv, ExecutorWell, PowerWell, SuspendRefused
  PROVE  ExecutorWell' /\ PowerWell'
<1>0. /\ gpu \in Gpu /\ InOrder(gpu) /\ pm \in Holders /\ pm.pc = "suspend" /\ ~pm.off
      /\ Known /\ HoldersPlaced /\ gpu.wanted # {}
  BY DEF IInv, InOrder, InStep, PmType, DomainsInStep, SuspendRefused, ExecutorWell, PowerWell
<1>1. UNCHANGED <<gpu, kick, pmu, l2On>>
  BY DEF SuspendRefused
<1>2. Untouched /\ WaitingIsOff' /\ PmuDomains' = PmuDomains
  BY <1>1 DEF Untouched, ExecutorWell, WaitingIsOff, Ready, DomainsOf, PmuDomains
<1>3. CASE pm.who = Runtime
  <2>1. pm' = [pm EXCEPT !.pc = "up"] /\ UNCHANGED <<active, rpm, pauser>>
    BY <1>3 DEF SuspendRefused, Goto
  <2>2. pm'.who = pm.who /\ pm'.off = pm.off /\ pm'.pc = "up" /\ pm'.mask = pm.mask
    BY <1>0, <2>1 DEF Holders
  <2>3. pmu' \subseteq PmuDomains /\ gpu'.cfg = gpu.cfg
    BY <1>0, <1>1 DEF Known
  <2>4. Known' /\ PausersMove
    BY <1>0, <1>1, <2>1, <2>3, StillKnown
  <2>5. ExecutorWell'
    BY <1>2, <2>4, UntouchedHolds
  <2>6. pm.who \notin Pausers
    BY <1>3, HoldersAssumption
  <2>7. HoldersPlaced' /\ ActiveKnown' /\ InactiveIsOff' /\ PausedIsOff'
    BY <1>0, <1>1, <1>3, <2>1, <2>2, <2>6
       DEF PowerWell, HoldersPlaced, ActiveKnown, InactiveIsOff, PausedIsOff
  <2>8. PowerFollows' /\ WaitingIsServed'
    BY <1>0, <1>1, <2>1, <2>2 DEF PowerWell, PowerFollows, WaitingIsServed, Served
  <2> QED
    BY <2>5, <2>7, <2>8 DEF PowerWell
<1>4. CASE pm.who # Runtime
  <2>1. Leave
    BY <1>4 DEF SuspendRefused
  <2>2. /\ pm'.who = Nobody /\ pm'.pc = "none" /\ pm'.mask = {} /\ ~pm'.off
        /\ PausersMove
        /\ active' \in BOOLEAN /\ rpm' \in {"active", "suspending", "suspended", "resuming"}
        /\ \A p \in Pausers : pauser'[p] = "paused" =>
             pauser[p] = "paused" \/ (pm.who = p /\ pauser[p] = "stopping")
    BY <1>0, <2>1, LeaveEffect
  <2>3. active' = active /\ rpm' = rpm
    BY <1>0, <1>4, <2>1 DEF Leave, Known
  <2>4. Known'
    BY <1>0, <1>1, <1>2, <2>2 DEF Known, PausersMove
  <2>5. ExecutorWell'
    BY <1>2, <2>2, <2>4, UntouchedHolds
  <2>6. HoldersPlaced' /\ ActiveKnown'
    BY <1>4, <2>2, <2>3, HoldersAre DEF PowerWell, HoldersPlaced, ActiveKnown
  <2>7. InactiveIsOff'
    BY <1>1, <2>2, <2>3 DEF PowerWell, InactiveIsOff
  <2>8. PausedIsOff'
    <3> SUFFICES ASSUME gpu.cfg.switched = {}, NEW p \in Pausers, pauser'[p] = "paused"
                 PROVE  FALSE
      BY <1>1 DEF PausedIsOff
    <3>1. Stopped
      BY <2>2 DEF Stopped
    <3>2. Held(gpu) = {}
      BY <3>1 DEF ExecutorWell, StoppedIsIdle
    <3> QED
      BY <1>0, <3>2, WantedIsHeld
  <2>9. PowerFollows'
    BY <1>0, <1>1, <2>2 DEF PowerWell, PowerFollows
  <2>10. WaitingIsServed'
    BY <1>0, <1>1, <1>4, <2>2, <2>3, HoldersAre DEF PowerWell, WaitingIsServed, Served
  <2> QED
    BY <2>5, <2>6, <2>7, <2>8, <2>9, <2>10 DEF PowerWell
<1> QED
  BY <1>3, <1>4

LEMMA CutPowerHolds ==
  ASSUME IInv, ExecutorWell, PowerWell, CutPower
  PROVE  ExecutorWell' /\ PowerWell'
<1>0. /\ gpu \in Gpu /\ InOrder(gpu) /\ pm \in Holders /\ pm.pc = "cut" /\ Known /\ HoldersPlaced
      /\ l2On \in BOOLEAN /\ (pm.off => gpu.current = {})
  BY DEF IInv, InOrder, InStep, PmType, DomainsInStep, CutPower, ExecutorWell, PowerWell
<1>1. /\ UNCHANGED <<gpu, kick>> /\ Leave
      /\ l2On' = (l2On /\ gpu.cfg.l2 \notin pm.mask)
      /\ pmu' = IF pm.off THEN IF pm.mask = {} THEN pmu ELSE {} ELSE pmu \cap gpu.current
  BY DEF CutPower
<1>2. Untouched /\ WaitingIsOff' /\ PmuDomains' = PmuDomains
  BY <1>1 DEF Untouched, ExecutorWell, WaitingIsOff, Ready, DomainsOf, PmuDomains
<1>3. /\ pm'.who = Nobody /\ pm'.pc = "none" /\ pm'.mask = {} /\ ~pm'.off
      /\ PausersMove
      /\ active' \in BOOLEAN /\ rpm' \in {"active", "suspending", "suspended", "resuming"}
      /\ \A p \in Pausers : pauser'[p] = "paused" =>
           pauser[p] = "paused" \/ (pm.who = p /\ pauser[p] = "stopping")
  BY <1>0, <1>1, LeaveEffect
<1>4. pmu' \subseteq gpu.current /\ pmu' \subseteq PmuDomains
  BY <1>0, <1>1 DEF Known, PowerWell, PowerFollows
<1>5. Known'
  BY <1>0, <1>1, <1>2, <1>3, <1>4 DEF Known, PausersMove
<1>6. ExecutorWell'
  BY <1>2, <1>3, <1>5, UntouchedHolds
<1>7. active' = (active /\ ~(pm.who = Runtime /\ pm.off))
  BY <1>1 DEF Leave
<1>8. rpm' = IF pm.who # Runtime THEN rpm ELSE IF pm.off THEN "suspended" ELSE "active"
  BY <1>1 DEF Leave
<1>9. HoldersPlaced' /\ ActiveKnown'
  BY <1>0, <1>3, <1>7, <1>8, HoldersAre DEF PowerWell, HoldersPlaced, ActiveKnown
<1>10. l2On' => gpu.cfg.l2 \in gpu.current
  BY <1>0, <1>1 DEF PowerWell, PowerFollows
<1>11. gpu.current = {} => gpu.on = {}
  <2> SUFFICES ASSUME gpu.current = {}, NEW g \in gpu.on PROVE FALSE
    OBVIOUS
  <2>1. g \in Groups
    BY <1>0 DEF Gpu
  <2> QED
    BY <1>0, <2>1 DEF IInv, InStep, GroupsInStep, Has, Going
<1>12. InactiveIsOff'
  <2> SUFFICES ASSUME ~active'
               PROVE  gpu.current = {}
    BY <1>0, <1>1, <1>3, <1>4, <1>10, <1>11 DEF InactiveIsOff
  <2> QED
    BY <1>0, <1>7 DEF PowerWell, InactiveIsOff
<1>13. PausedIsOff'
  <2> SUFFICES ASSUME gpu.cfg.switched = {}, NEW p \in Pausers, pauser'[p] = "paused"
               PROVE  gpu.current = {}
    BY <1>1 DEF PausedIsOff
  <2> QED
    BY <1>0, <1>3 DEF PowerWell, PausedIsOff, HoldersPlaced
<1>14. PowerFollows'
  BY <1>1, <1>3, <1>4, <1>10 DEF PowerFollows
<1>15. WaitingIsServed'
  BY <1>0, <1>1, <1>3, <1>7, <1>8, HoldersAre DEF PowerWell, WaitingIsServed, Served, HoldersPlaced
<1> QED
  BY <1>6, <1>9, <1>12, <1>13, <1>14, <1>15 DEF PowerWell
--------------------------------------------------------------------------------
LEMMA InitWell == Init => ExecutorWell /\ PowerWell
<1> SUFFICES ASSUME Init PROVE ExecutorWell /\ PowerWell
  OBVIOUS
<1>1. PICK c \in Configs :
        gpu = [cfg     |-> c,
               gs      |-> [g \in Groups |-> "INACTIVE"],
               on      |-> {},
               list    |-> [g \in Groups |-> "INACTIVE"],
               req     |-> {},
               delay   |-> [d \in Domains |-> 0],
               enabled |-> NumPP,
               pause   |-> 0,
               use     |-> [d \in Domains |-> 0],
               wanted  |-> {},
               current |-> {},
               work    |-> FALSE,
               gpQ |-> 0, ppQ |-> 0, gpT |-> 0, ppT |-> 0]
  BY DEF Init
<1>2. /\ \A g \in Groups : gpu.gs[g] = "INACTIVE" /\ gpu.list[g] = "INACTIVE"
      /\ gpu.on = {} /\ gpu.current = {} /\ gpu.pause = 0
      /\ gpu.gpQ = 0 /\ gpu.ppQ = 0 /\ gpu.gpT = 0 /\ gpu.ppT = 0
      /\ \A d \in Domains : gpu.delay[d] = 0
  BY <1>1
<1>3. /\ pm = Free /\ l2On = FALSE /\ pmu = {} /\ active = FALSE /\ rpm = "suspended" /\ kick = FALSE
      /\ pauser = [p \in Pausers |-> "running"]
  BY DEF Init
<1>4. gpu \in Gpu
  BY InitInv DEF IInv, InOrder
<1>5. In(gpu, "WORKING") = {} /\ Held(gpu) = {}
  BY <1>2 DEF In, Held
<1>6. JobsBounded(gpu)
  <2>1. Cardinality({GP} \cap In(gpu, "WORKING")) = 0 /\ Cardinality(PPs \cap In(gpu, "WORKING")) = 0
    BY <1>5, FS_EmptySet
  <2>2. gpu.cfg.maxGP \in Nat /\ gpu.cfg.maxPP \in Nat
    BY <1>4, MaxJobs
  <2> QED
    BY <1>2, <2>1, <2>2 DEF JobsBounded
<1>7. DelaysRight(gpu)
  BY <1>2, CoresNumber DEF DelaysRight
<1>8. JobsFed
  BY <1>2 DEF JobsFed, Fed, FedGP, FedPP
<1>9. PausesCounted
  <2>1. Counting = {}
    BY <1>3 DEF Counting
  <2> QED
    BY <1>2, <2>1, FS_EmptySet DEF PausesCounted
<1>10. StoppedIsIdle /\ WaitingIsOff
  BY <1>2, <1>5 DEF StoppedIsIdle, WaitingIsOff
<1>11. Known
  BY <1>3 DEF Known, PauserStates
<1>12. Free.who = Nobody /\ Free.pc = "none" /\ Free.mask = {} /\ ~Free.off
  BY DEF Free
<1>13. HoldersPlaced /\ ActiveKnown /\ InactiveIsOff /\ PausedIsOff /\ PowerFollows
  BY <1>2, <1>3, <1>12, HoldersAre
     DEF HoldersPlaced, ActiveKnown, InactiveIsOff, PausedIsOff, PowerFollows
<1>14. WaitingIsServed
  BY <1>2 DEF WaitingIsServed
<1> QED
  BY <1>6, <1>7, <1>8, <1>9, <1>10, <1>11, <1>13, <1>14 DEF ExecutorWell, PowerWell, Bounded

LEMMA NothingHappens ==
  ASSUME IInv, ExecutorWell, PowerWell, UNCHANGED vars
  PROVE  ExecutorWell' /\ PowerWell'
<1>1. UNCHANGED <<gpu, kick, pmu, l2On, pm, active, rpm, pauser>>
  BY DEF vars
<1>2. /\ Untouched /\ WaitingIsOff' /\ gpu'.cfg = gpu.cfg
  BY <1>1 DEF Untouched, ExecutorWell, WaitingIsOff, Ready, DomainsOf, Refs
<1>3. Known' /\ PausersMove
  BY <1>1, <1>2, StillKnown DEF ExecutorWell, Known
<1>4. ExecutorWell'
  BY <1>2, <1>3, UntouchedHolds
<1>5. HoldersPlaced' /\ ActiveKnown' /\ InactiveIsOff' /\ PausedIsOff' /\ PowerFollows' /\ WaitingIsServed'
  BY <1>1 DEF PowerWell, HoldersPlaced, ActiveKnown, InactiveIsOff, PausedIsOff, PowerFollows,
              WaitingIsServed, Served
<1> QED
  BY <1>4, <1>5 DEF PowerWell

LEMMA StrongInductive ==
  ASSUME \A c \in Configs : Whole(c), SInv, [Next]_vars
  PROVE  SInv'
<1>0. IInv /\ ExecutorWell /\ PowerWell
  BY DEF SInv
<1>1. IInv'
  BY <1>0, Inductive
<1>2. CASE ExecutorStep
  BY <1>0, <1>1, <1>2, ExecutorHolds DEF SInv
<1>3. CASE UNCHANGED vars
  BY <1>0, <1>1, <1>3, NothingHappens DEF SInv
<1>4. CASE \/ WorkerEnter \/ RuntimeDecide \/ RuntimeSuspend \/ RuntimeResume
           \/ \E p \in Pausers : SuspendEnter(p) \/ ResumeEnter(p)
  BY <1>0, <1>1, <1>4, LockHolds DEF SInv
<1>5. CASE PowerUp \/ L2Up \/ GroupsUp
  BY <1>0, <1>1, <1>5, PowerUpHolds, L2UpHolds, GroupsUpHolds DEF SInv
<1>6. CASE PowerDown \/ GroupsDown \/ CutPower
  BY <1>0, <1>1, <1>6, PowerDownHolds, GroupsDownHolds, CutPowerHolds DEF SInv
<1>7. CASE SuspendRefused \/ SuspendMark
  BY <1>0, <1>1, <1>7, SuspendRefusedHolds, SuspendMarkHolds DEF SInv
<1> QED
  BY <1>2, <1>3, <1>4, <1>5, <1>6, <1>7 DEF Next, ExecutorStep, Update, Suspend

LEMMA StrongInvariant ==
  ASSUME \A c \in Configs : Whole(c)
  PROVE  Spec => []SInv
<1>1. Init => SInv
  BY InitInv, InitWell DEF SInv
<1> QED
  BY <1>1, StrongInductive, PTL DEF Spec

LEMMA PauseFollows ==
  ASSUME SInv
  PROVE  PauseSafe
<1>0. InOrder(gpu) /\ ExecutorWell /\ PowerWell
  BY DEF SInv, IInv
<1>1. PausedIsIdle
  BY <1>0 DEF ExecutorWell, StoppedIsIdle, Stopped, PausedIsIdle, IsWorking
<1>2. SuspendedIsOff
  BY <1>0 DEF PowerWell, ActiveKnown, InactiveIsOff, SuspendedIsOff
<1>3. ResumeAsLeft
  <2> SUFFICES ASSUME gpu.cfg.switched = {}, NEW p \in Pausers, pauser[p] = "paused", pm = Free
               PROVE  gpu.wanted = {} /\ gpu.current = {} /\ pmu = {}
    BY DEF ResumeAsLeft, AsLeft
  <2>1. gpu.wanted = {}
    BY <1>0, PausedWantsNothing
  <2>2. gpu.current = {}
    BY <1>0 DEF PowerWell, PausedIsOff
  <2>3. pmu = {}
    BY <1>0, <2>2 DEF PowerWell, PowerFollows, Free
  <2> QED
    BY <2>1, <2>2, <2>3
<1> QED
  BY <1>1, <1>2, <1>3 DEF PauseSafe

LEMMA ServedFollows ==
  ASSUME SInv
  PROVE  NothingForgotten
<1>0. IInv /\ InOrder(gpu) /\ gpu \in Gpu /\ ExecutorWell /\ PowerWell
  BY DEF SInv, IInv, InOrder
<1>1. PendingIsServed
  BY <1>0 DEF PowerWell, WaitingIsServed, Served, PendingIsServed
<1>2. JobsNotForgotten
  <2> SUFFICES ASSUME ~kick, gpu.pause = 0
               PROVE  /\ gpu.gpQ > 0 => gpu.list[GP] \in {"WORKING", "DISABLED"} \/ gpu.gs[GP] = "PENDING"
                      /\ gpu.ppQ > 0 => \/ \E p \in PPs : gpu.list[p] = "WORKING" \/ gpu.gs[p] = "PENDING"
                                        \/ PPs \subseteq In(gpu, "DISABLED")
    BY DEF JobsNotForgotten
  <2>1. Fed(gpu)
    BY <1>0 DEF ExecutorWell, JobsFed
  <2>2. PPs \subseteq Groups
    BY DEF Groups
  <2> QED
    BY <2>1, <2>2 DEF Fed, FedGP, FedPP, In
<1> QED
  BY <1>1, <1>2 DEF NothingForgotten

LEMMA ConsistentFollows ==
  ASSUME SInv
  PROVE  GroupsConsistent
<1>0. /\ InOrder(gpu) /\ gpu \in Gpu /\ pm \in Holders /\ l2On \in BOOLEAN
      /\ Known /\ Bounded(gpu) /\ PausesCounted
  BY DEF SInv, IInv, InOrder, InStep, PmType, ExecutorWell
<1>1. /\ gpu.cfg \in Configs /\ gpu.gs \in [Groups -> GroupState] /\ gpu.list \in [Groups -> ExecState]
      /\ gpu.on \subseteq Groups /\ gpu.req \subseteq Groups
      /\ gpu.wanted \subseteq Domains /\ gpu.current \subseteq Domains /\ gpu.work \in BOOLEAN
      /\ gpu.use \in [Domains -> Int] /\ gpu.delay \in [Domains -> Int]
  BY <1>0 DEF Gpu
<1>2. gpu.delay \in [Domains -> 0 .. NumPP]
  BY <1>0, <1>1 DEF Bounded, DelaysRight
<1>3. gpu.use \in [Domains -> 0 .. 2 * Cardinality(Groups)]
  <2>1. ASSUME NEW d \in Domains
        PROVE  gpu.use[d] \in 0 .. 2 * Cardinality(Groups)
    <3> DEFINE at == {g \in Held(gpu) : gpu.cfg.dom[g] = d}
    <3>1. Held(gpu) \in SUBSET Groups /\ at \in SUBSET Groups
      BY DEF Held
    <3>2. /\ Cardinality(at) \in Nat /\ Cardinality(Held(gpu)) \in Nat /\ Cardinality(Groups) \in Nat
          /\ Cardinality(at) <= Cardinality(Groups) /\ Cardinality(Held(gpu)) <= Cardinality(Groups)
      BY <3>1, GroupsFinite, FS_Subset, FS_CardinalityType
    <3>3. gpu.use[d] = Cardinality(at) + (IF gpu.cfg.l2 = d THEN Cardinality(Held(gpu)) ELSE 0)
      BY <1>0 DEF InOrder, UsesCounted, Refs
    <3> HIDE DEF at
    <3> QED
      BY <3>2, <3>3
  <2> QED
    BY <1>1, <2>1
<1>4. gpu.pause \in 0 .. Cardinality(Pausers)
  <2>1. Counting \subseteq Pausers /\ IsFiniteSet(Pausers)
    BY HoldersAssumption DEF Counting
  <2>2. Cardinality(Counting) <= Cardinality(Pausers) /\ Cardinality(Pausers) \in Nat
    BY <2>1, FS_Subset, FS_CardinalityType
  <2>3. Cardinality(Counting) \in Nat
    BY CountingFinite
  <2> QED
    BY <1>0, <2>2, <2>3 DEF PausesCounted
<1>5. /\ gpu.gpQ \in 0 .. gpu.cfg.maxGP /\ gpu.gpT \in 0 .. gpu.cfg.maxGP
      /\ gpu.ppQ \in 0 .. gpu.cfg.maxPP /\ gpu.ppT \in 0 .. gpu.cfg.maxPP
  <2>1. /\ Cardinality({GP} \cap In(gpu, "WORKING")) \in Nat
        /\ Cardinality(PPs \cap In(gpu, "WORKING")) \in Nat
        /\ gpu.cfg.maxGP \in Nat /\ gpu.cfg.maxPP \in Nat
    BY <1>0, WorkersCount, MaxJobs
  <2>2. gpu.gpT \in Int /\ gpu.gpQ \in Int /\ gpu.ppT \in Int /\ gpu.ppQ \in Int
    BY <1>0 DEF Gpu
  <2> QED
    BY <1>0, <2>1, <2>2 DEF Bounded, JobsBounded
<1>6. pm.who \in Pausers \cup {Worker, Runtime, Nobody} /\ pm.mask \subseteq Domains
  BY <1>0 DEF Holders
<1>7. TypeOK
  BY <1>0, <1>1, <1>2, <1>3, <1>4, <1>5, <1>6 DEF TypeOK, Known, PauserStates
<1>8. EnabledExact /\ UseExact
  BY <1>0 DEF InOrder, CoresCounted, UsesCounted, EnabledExact, UseExact, Held
<1> QED
  BY <1>7, <1>8 DEF GroupsConsistent

\* mali_executor_suspend, mali_pm_os_suspend and _resume, mali_pm_runtime_suspend: a paused
\* GPU runs no job, a suspended one is off in every register, and a resume finds what the
\* suspend left if no core is enabled meanwhile.
THEOREM PausedWell ==
  ASSUME \A c \in Configs : Whole(c)
  PROVE  Spec => []PauseSafe
BY StrongInvariant, PauseFollows, PTL

\* mali_pm_update_sync, mali_executor_schedule: a group that waits for power has an update
\* or a resume ahead of it, and a queued job a core that works or waits for power.
THEOREM NobodyForgotten ==
  ASSUME \A c \in Configs : Whole(c)
  PROVE  Spec => []NothingForgotten
BY StrongInvariant, ServedFollows, PTL

\* mali_executor.c, mali_pm_domain.c: all counters and lists are in range and agree, so
\* no use count, pause count or queue ever wraps.
THEOREM Consistent ==
  ASSUME \A c \in Configs : Whole(c)
  PROVE  Spec => []GroupsConsistent
BY StrongInvariant, ConsistentFollows, PTL
================================================================================
