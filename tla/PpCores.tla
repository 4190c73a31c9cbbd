--------------------------------- MODULE PpCores ---------------------------------
(***************************************************************************)
(* The PP cores of a Mali-450 as the driver finds and leaves them: a job   *)
(* writes only the registers whose values differ from the reset values     *)
(* (mali_pp.c), so a core must have been reset since its last job, with    *)
(* its MMU enabled and its interrupts unmasked.  Cores join and leave a    *)
(* virtual group, to which the broadcast unit and the load balancing unit  *)
(* (DLBU) belong; they share power domains and L2 caches; they are         *)
(* disabled and enabled while they wait for power.                         *)
(*                                                                         *)
(* Every action is a step under the executor lock.                         *)
(***************************************************************************)
EXTENDS Integers, SequencesExt

CONSTANTS
  Cores, None,
  DomainOf,       \* core -> its power domain
  CacheOf,        \* core -> its L2 cache
  Jobs,           \* records: id, virtual, sets (registers not at their reset values)
  Scales,         \* whether cores are disabled and enabled
  ScalesPending   \* also while the virtual group waits for power

Reset == <<>>
Off == [regs |-> [r \in {"frame", "stack", "state"} |-> Reset], mmu |-> FALSE, irq |-> FALSE]
Fresh == [Off EXCEPT !.mmu = TRUE, !.irq = TRUE]

VARIABLES
  members,   \* group_list of the virtual group
  state,     \* core -> "inactive", "pending" or "active"
  vstate,    \* the same of the virtual group
  core,      \* core -> its registers, whether its MMU translates and its interrupts come
  on,        \* power_is_on of the cores
  vOn,       \* power_is_on of the virtual group, whose domain goes down with the GPU only
  run,       \* core outside the virtual group -> its job, or None
  vrun,      \* the job of the virtual group, or None
  disabled,  \* disabled cores
  bcast,     \* cores that the broadcast unit writes to and whose interrupts it takes
  dlbu,      \* cores that the DLBU gives work to
  caches     \* l2_cache_core and l2_cache_core_ref_count of the virtual group

power == <<on, vOn>>
units == <<bcast, dlbu>>
vars == <<members, state, vstate, core, power, run, vrun, disabled, units, caches>>

InVirtual == ToSet(members)

Init ==
  /\ members = SetToSeq(Cores) /\ state = [c \in Cores |-> "inactive"] /\ vstate = "inactive"
  /\ core = [c \in Cores |-> Off] /\ on = {} /\ vOn = FALSE
  /\ run = [c \in Cores |-> None] /\ vrun = None /\ disabled = {}
  /\ bcast = {} /\ dlbu = {}
  /\ caches = FoldLeft(LAMBDA t, c : [t EXCEPT ![CacheOf[c]] = @ + 1],
                       [l \in {CacheOf[c] : c \in Cores} |-> 0], members)

-----------------------------------------------------------------------------
(* mali_pp_job_get_addr_frame(), mali_pp_job_get_addr_stack(): all cores   *)
(* of a virtual job get their work from the DLBU, each has its own stack.  *)
Value(j, c, r) ==
  CASE r \notin j.sets -> Reset
    [] r = "frame" /\ j.virtual -> <<"dlbu">>
    [] r = "stack" /\ j.virtual -> <<j.id, c>>
    [] OTHER -> <<j.id>>

(* mali_pp_job_start(): the registers rs but those with the reset value.   *)
JobStart(k, j, c, rs) ==
  [k EXCEPT !.regs = [r \in DOMAIN k.regs |->
     IF r \in rs /\ Value(j, c, r) # Reset THEN Value(j, c, r) ELSE k.regs[r]]]

AllRegs == {"frame", "stack", "state"}

(* mali_pp_reset_async(), mali_pp_reset_wait(), mali_pp_hard_reset().      *)
PpReset(k) == [k EXCEPT !.regs = [r \in AllRegs |-> Reset], !.irq = TRUE]

(* mali_group_reset(): the MMU and the core.                               *)
GroupReset(k) == [PpReset(k) EXCEPT !.mmu = TRUE]

Each(cs, Op(_)) == core' = [c \in Cores |-> IF c \in cs THEN Op(core[c]) ELSE core[c]]

-----------------------------------------------------------------------------
(* mali_group_set_active() of the virtual group with cores ms: the         *)
(* children up to the first without power become active; if all have       *)
(* power, all are reset through the broadcast unit.                        *)
SetActive(cs, st) ==
  LET off == {i \in 1..Len(members) : members[i] \notin cs}
      upto == IF off = {} THEN Len(members) ELSE (CHOOSE i \in off : \A j \in off : i <= j) - 1
  IN /\ state' = [c \in Cores |-> IF \E i \in 1..upto : members[i] = c THEN "active" ELSE st[c]]
     /\ vstate' = IF off = {} THEN "active" ELSE "pending"

(* mali_group_activate(virtual_group).                                     *)
ActivateVirtual ==
  /\ vstate = "inactive" /\ members # <<>>
  /\ LET st == [c \in Cores |-> IF c \in InVirtual THEN "pending" ELSE state[c]]
     IN IF InVirtual \subseteq on /\ vOn
          THEN SetActive(on, st) /\ Each(InVirtual, GroupReset) /\ bcast' = InVirtual /\ dlbu' = InVirtual
          ELSE state' = st /\ vstate' = "pending" /\ UNCHANGED <<core, units>>
  /\ UNCHANGED <<members, power, run, vrun, disabled, caches>>

(* mali_group_start_pp_job(): the stack addresses go to each core, the     *)
(* rest to those the broadcast unit writes to.                             *)
StartVirtual(j) ==
  /\ j.virtual /\ vstate = "active" /\ members # <<>> /\ vrun = None
  /\ vrun' = j
  /\ core' = [c \in Cores |->
       LET k == IF c \in InVirtual
                  THEN [core[c] EXCEPT !.regs["stack"] = Value(j, c, "stack")] ELSE core[c]
       IN IF c \in bcast THEN JobStart(k, j, c, AllRegs \ {"stack"}) ELSE k]
  /\ UNCHANGED <<members, state, vstate, power, run, disabled, units, caches>>

StartPhysical(c, j) ==
  /\ ~j.virtual /\ c \notin InVirtual /\ state[c] = "active" /\ run[c] = None
  /\ run' = [run EXCEPT ![c] = j]
  /\ core' = [core EXCEPT ![c] = JobStart(@, j, c, AllRegs)]
  /\ UNCHANGED <<members, state, vstate, power, vrun, disabled, units, caches>>

(* mali_group_complete_pp(): a soft reset after success; else              *)
(* mali_group_recovery_reset(), which resets each core by itself.          *)
VirtualDone(success) ==
  /\ vrun # None /\ vrun' = None
  /\ IF success THEN Each(bcast, PpReset) /\ UNCHANGED units
     ELSE Each(InVirtual, GroupReset) /\ bcast' = InVirtual /\ UNCHANGED dlbu
  /\ UNCHANGED <<members, state, vstate, power, run, disabled, caches>>

PhysicalDone(c, success) ==
  /\ run[c] # None /\ run' = [run EXCEPT ![c] = None]
  /\ IF success THEN Each({c}, PpReset) ELSE Each({c}, GroupReset)
  /\ UNCHANGED <<members, state, vstate, power, vrun, disabled, units, caches>>

(* mali_group_deactivate() of the idle virtual group.                      *)
DeactivateVirtual ==
  /\ vstate = "active" /\ members # <<>> /\ vrun = None
  /\ vstate' = "inactive"
  /\ state' = [c \in Cores |-> IF c \in InVirtual THEN "inactive" ELSE state[c]]
  /\ bcast' = {}
  /\ UNCHANGED <<members, core, power, run, vrun, disabled, dlbu, caches>>

-----------------------------------------------------------------------------
(* What a change of the members does to the units if the virtual group has *)
(* power: mali_bcast_add_group(), mali_bcast_remove_group() and            *)
(* mali_bcast_reset(); mali_dlbu_add_group(), mali_dlbu_remove_group() and *)
(* mali_dlbu_update_mask().                                                *)
BcastReset(ms) == bcast' = IF vOn THEN ms ELSE bcast

\* Mutant: the mask is written if the virtual group is active, not if it has power.
DlbuUpdateMask_IfActive(ms) == dlbu' = IF vstate = "active" THEN ms ELSE dlbu

DlbuUpdateMask(ms) == dlbu' = IF vOn THEN ms ELSE dlbu

Leave(c) ==
  /\ members' = SelectSeq(members, LAMBDA d : d # c)
  /\ caches' = [caches EXCEPT ![CacheOf[c]] = @ - 1]
  /\ BcastReset(InVirtual \ {c}) /\ DlbuUpdateMask(InVirtual \ {c})

(* mali_group_acquire_group() takes the last core; a core of a group that  *)
(* is not active is reset if it has power, and activated.                  *)
Acquire ==
  /\ members # <<>> /\ vstate # "pending" /\ vrun = None
  /\ LET c == Last(members)
     IN /\ Leave(c)
        /\ IF vstate # "active" /\ c \in on THEN Each({c}, GroupReset) ELSE UNCHANGED core
        /\ state' = [state EXCEPT ![c] = IF @ = "active" \/ c \in on THEN "active" ELSE "pending"]
  /\ UNCHANGED <<vstate, power, run, vrun, disabled>>

(* mali_executor_physical_rejoin_virtual(): a core joins the job of the    *)
(* virtual group (mali_group_add_group).                                   *)
Join(c, st) ==
  /\ members' = Append(members, c)
  /\ caches' = [caches EXCEPT ![CacheOf[c]] = @ + 1]
  /\ BcastReset(InVirtual \cup {c}) /\ DlbuUpdateMask(InVirtual \cup {c})
  /\ state' = [st EXCEPT ![c] = IF vstate = "inactive" THEN "inactive" ELSE @]
  /\ core' = IF vrun = None THEN core ELSE [core EXCEPT ![c] = JobStart(@, vrun, c, AllRegs)]

Rejoin(c) ==
  /\ c \notin InVirtual /\ state[c] = "active" /\ run[c] = None
  /\ Join(c, state)
  /\ UNCHANGED <<vstate, power, run, vrun, disabled>>

(* mali_executor_group_disable_internal(): a core that works is disabled   *)
(* once it is done.                                                        *)
Disable(c) ==
  /\ Scales /\ c \notin disabled /\ disabled' = disabled \cup {c}
  /\ IF c \in InVirtual
       THEN vrun = None /\ (vstate = "pending" => ScalesPending) /\ Leave(c)
       ELSE run[c] = None /\ UNCHANGED <<members, caches, units>>
  /\ state' = [state EXCEPT ![c] = "inactive"]
  /\ UNCHANGED <<vstate, core, power, run, vrun>>

(* mali_executor_group_enable_internal(): a core with power joins at once. *)
Enable(c) ==
  /\ c \in disabled /\ disabled' = disabled \ {c}
  /\ IF c \in on
       THEN Join(c, [state EXCEPT ![c] = "active"])
       ELSE state' = [state EXCEPT ![c] = "pending"] /\ UNCHANGED <<members, core, units, caches>>
  /\ UNCHANGED <<vstate, power, run, vrun>>

-----------------------------------------------------------------------------
Wanted == {DomainOf[c] : c \in {d \in Cores : state[d] # "inactive"}}

(* A PM update: all domains that are wanted get power, and then            *)
(* mali_executor_group_power_up() is called with their groups and, each    *)
(* time, the virtual group.  Only cores outside it are reset.              *)
PowerUp ==
  LET up == {c \in Cores \ on : DomainOf[c] \in Wanted}
      try == vstate = "pending" /\ \E c \in up \cap InVirtual : state[c] = "pending"
      st == [c \in Cores |-> IF c \in up \ InVirtual /\ state[c] = "pending" THEN "active" ELSE state[c]]
      all == try /\ InVirtual \subseteq on \cup up
  IN /\ up # {}
     /\ on' = on \cup up /\ vOn' = TRUE
     /\ core' = [c \in Cores |->
          IF (c \in up /\ c \notin InVirtual) \/ (all /\ c \in InVirtual) THEN Fresh
          ELSE IF c \in up THEN Off ELSE core[c]]
     /\ IF try THEN SetActive(on \cup up, st) ELSE state' = st /\ UNCHANGED vstate
     /\ bcast' = InVirtual /\ dlbu' = InVirtual
     /\ UNCHANGED <<members, run, vrun, disabled, caches>>

(* Domains nobody wants lose power; all of the GPU if whole.               *)
PowerDown(whole) ==
  LET down == {c \in on : DomainOf[c] \notin Wanted}
  IN /\ down # {} \/ (whole /\ vOn)
     /\ whole => Wanted = {} /\ vstate = "inactive"
     /\ on' = on \ down /\ core' = [c \in Cores |-> IF c \in down THEN Off ELSE core[c]]
     /\ vOn' = (vOn /\ ~whole)
     /\ IF whole THEN bcast' = {} /\ dlbu' = {} ELSE UNCHANGED units
     /\ UNCHANGED <<members, state, vstate, run, vrun, disabled, caches>>

-----------------------------------------------------------------------------
Next ==
  \/ ActivateVirtual \/ DeactivateVirtual \/ Acquire \/ PowerUp
  \/ \E b \in BOOLEAN : PowerDown(b) \/ VirtualDone(b)
  \/ \E j \in Jobs : StartVirtual(j) \/ \E c \in Cores : StartPhysical(c, j)
  \/ \E c \in Cores : Rejoin(c) \/ Disable(c) \/ Enable(c) \/ \E b \in BOOLEAN : PhysicalDone(c, b)

(* PM updates are done and interrupts come.                                *)
Fairness == WF_vars(PowerUp)

Spec == Init /\ [][Next]_vars /\ Fairness

-----------------------------------------------------------------------------
Holds(c, j) ==
  /\ core[c].regs = [r \in AllRegs |-> Value(j, c, r)]
  /\ core[c].mmu /\ core[c].irq

(* A core that works has power, the registers of its job and no other's,   *)
(* addresses that are translated and interrupts that come                  *)
(* (mali_pp.c 293-372); the interrupts of a core outside the virtual group *)
(* are not taken by the broadcast unit (mali_group.c 430-437), and every   *)
(* core in it gets its share of the job; the caches of the virtual group   *)
(* are counted exactly (mali_group.c 615-636, 748-754).                    *)
CoresRight ==
  /\ \A c \in Cores : run[c] # None => c \in on /\ Holds(c, run[c]) /\ c \notin bcast \cup dlbu
  /\ vrun # None =>
       /\ bcast = InVirtual /\ dlbu = InVirtual
       /\ \A c \in InVirtual : c \in on /\ Holds(c, vrun)
  /\ \A l \in DOMAIN caches :
       caches[l] = Len(SelectSeq(members, LAMBDA c : CacheOf[c] = l))

(* A virtual group that waits for power gets it.                           *)
VirtualActivated == (vstate = "pending") ~> (vstate = "active")
=============================================================================
