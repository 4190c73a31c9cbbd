--------------------------------- MODULE Startup ---------------------------------
(***************************************************************************)
(* Binding the driver to the device and taking it away again: mali_probe   *)
(* and mali_remove (mali_kernel_linux.c), mali_initialize_subsystems and   *)
(* mali_terminate_subsystems (mali_kernel_core.c), and the functions of    *)
(* the subsystems that they call, for a Mali-400 with a GP, a PP and a     *)
(* PMU.                                                                    *)
(*                                                                         *)
(* A thing is <<owner, what>>.  It is held while it is allocated, and it   *)
(* is known while the global or the field that leads to it is set.  Most   *)
(* functions release what is known, some release without asking, and some  *)
(* leave the pointer behind.                                               *)
(***************************************************************************)
EXTENDS Naturals, Sequences, FiniteSets

CONSTANTS
  MayFail,     \* what an allocation or a check may fail for
  MayRebind,   \* whether the driver is bound again although pointers were left behind
  LateTick     \* whether the control timer may expire while subsystems are terminated

VARIABLES
  phase,   \* "out", "starting", "bound" or "leaving"
  at,      \* position in StartSequence while starting
  todo,    \* functions still to be called while leaving
  held,    \* what is allocated
  known,   \* what some pointer leads to
  wrong    \* whether something was released or used that is not held

vars == <<phase, at, todo, held, known, wrong>>

Of(owner, what) == [i \in 1..Len(what) |-> <<owner, what[i]>>]

----------------------------------------------------------------------------
(* What the functions allocate, in their order. *)

SessionInit == Of("session", <<"lock">>)
SwapInit == Of("swap", <<"bitmap", "file", "work">>)
OsInit == Of("os", <<"queue", "shrinker">>)
DeferInit == Of("defer", <<"manager">>)
MemoryInit == SwapInit \o OsInit \o DeferInit
ExecutorInit == Of("executor", <<"lock", "work", "working", "notify work", "notify">>)
SchedulerInit == Of("scheduler", <<"lock", "delete work", "delete lock">>)
BlockAllocatorCreate == Of("memory", <<"blocks">>)
ConfigMemory == BlockAllocatorCreate
PmuCreate == Of("pmu", <<"core">>)
ConfigPmu == PmuCreate
PmDomains == Of("pm", <<"domains">>)
PmInit == Of("pm", <<"state lock", "exec lock", "work">>) \o PmDomains
EmptyPage == Of("pages", <<"empty">>)
FaultFlushPages == Of("pages", <<"fault">>)
MmuInit == EmptyPage \o FaultFlushPages
L2Create == Of("l2", <<"core">>)
GroupCreate(g) == Of(g, <<"group">>)
MmuCreate(g) == Of(g, <<"mmu", "mmu work", "mmu irq">>)
GpCreate == Of("gp", <<"core", "core work", "core irq">>)
PpCreate == Of("pp", <<"core", "core work", "core irq">>)
Populate == Of("listed", <<"gp", "pp">>)
ControlTimerInit == Of("control", <<"timer">>)
UtilizationInit == Of("utilization", <<"lock">>)
MiscRegister == Of("user", <<"misc">>)

CreateGroup(g) == GroupCreate(g) \o MmuCreate(g) \o (IF g = "gp" THEN GpCreate ELSE PpCreate)

\* What is looked for and must be there: the base address and private interrupts; a core
\* that answers; a version that is known; the L2 cache; the GP and the first PP with MMUs.
FindDevice == Of("check", <<"address", "interrupts">>)
HwReset == Of("check", <<"reset">>)
ProductInfo == Of("check", <<"product">>)
ConfigL2 == Of("check", <<"l2">>) \o L2Create
ConfigGroups == Of("check", <<"cores">>) \o CreateGroup("gp") \o CreateGroup("pp")

\* <<"power", "on">> is the reference that keeps the GPU powered, <<"power", "off">> the
\* call that gives it back.  A check holds nothing.
InitializeSubsystems ==
  SessionInit \o MemoryInit \o ExecutorInit \o SchedulerInit \o ConfigMemory \o FindDevice
  \o ConfigPmu \o PmInit \o Of("power", <<"on">>) \o HwReset \o ProductInfo \o MmuInit
  \o ConfigL2 \o ConfigGroups \o Populate \o ControlTimerInit \o UtilizationInit
  \o Of("power", <<"off">>)

ProbeSequence ==
  Of("device", <<"platform">>) \o Of("wq", <<"queues">>) \o InitializeSubsystems
  \o MiscRegister \o Of("user", <<"sysfs">>)

Checks ==
  {<<"check", c>> : c \in {"address", "interrupts", "reset", "product", "l2", "cores"}}
  \cup {<<"power", "off">>}

\* Everything that a bound driver works with.
Needed == {ProbeSequence[i] : i \in DOMAIN ProbeSequence} \ (Checks \cup {<<"power", "on">>})

----------------------------------------------------------------------------
(* What the functions release. *)

\* A function releases what is known of the guarded things, and the unseen ones without
\* asking.  The pointers to the things it keeps are left as they are.
Releases(guarded, unseen, kept) == [guarded |-> guarded, unseen |-> unseen, kept |-> kept]
IfKnown(things) == Releases(things, {}, {})
Blindly(things) == Releases({}, things, {})

Together(releases) ==
  Releases(UNION {r.guarded : r \in releases}, UNION {r.unseen : r \in releases},
           UNION {r.kept : r \in releases})

All(sequence) == {sequence[i] : i \in DOMAIN sequence}

UtilizationTerm == Releases(All(UtilizationInit), {}, All(UtilizationInit))
ControlTimerTerm == IfKnown(All(ControlTimerInit))
ExecutorTerm == IfKnown(All(ExecutorInit))
SchedulerTerm == IfKnown(All(SchedulerInit))
L2Delete == IfKnown(All(L2Create))
DeleteL2Caches == L2Delete
FreeEmptyPage == IfKnown(All(EmptyPage))
DestroyFaultFlushPages == IfKnown(All(FaultFlushPages))
MmuTerm == Together({FreeEmptyPage, DestroyFaultFlushPages})
PmDomainTerm == IfKnown(All(PmDomains))
PmTerm == Together({PmDomainTerm, IfKnown(All(PmInit))})
PmuDelete == IfKnown(All(PmuCreate))
SessionTerm == IfKnown(All(SessionInit))
SysfsUnregister == Releases({<<"user", "sysfs">>}, {}, {<<"user", "sysfs">>})

MiscUnregister == Blindly(All(MiscRegister))

\* The functions that mali_memory_terminate calls: most of the memory goes without asking,
\* and the pointer to the dedicated memory stays.
SwapTerm == Blindly(All(SwapInit))
OsTerm == Releases({<<"os", "queue">>}, {<<"os", "shrinker">>}, {})
DeferDestroy == IfKnown(All(DeferInit))
BlockAllocatorDestroy == Releases(All(BlockAllocatorCreate), {}, All(BlockAllocatorCreate))

MemoryTerm == Together({SwapTerm, OsTerm, DeferDestroy, BlockAllocatorDestroy})

\* A group goes with the core, the MMU and the work items that its fields lead to.
GpDelete == All(GpCreate)
PpDelete == All(PpCreate)
Parts(groups) ==
  UNION {All(MmuCreate(g)) \cup (IF g = "gp" THEN GpDelete ELSE PpDelete) : g \in groups}
GroupDelete(groups) == Releases(Parts(groups), {<<g, "group">> : g \in groups}, {})

\* The executor deletes the groups it has listed.  It forgets the GP's, not the list.
Depopulate ==
  LET groups == {g \in {"gp", "pp"} : <<"listed", g>> \in known}
      listed == {<<"listed", g>> : g \in groups}
  IN Releases(Parts(groups) \cup listed, {<<g, "group">> : g \in groups}, {<<"listed", "pp">>})

\* The groups that are left in the array of all groups.
DeleteGroups == GroupDelete({g \in {"gp", "pp"} : <<g, "group">> \in known})

TerminateSubsystems ==
  Of("end", <<"utilization", "control", "depopulate", "groups", "executor", "scheduler",
              "l2", "mmu", "pm", "pmu", "memory", "session">>)

ProbeUndo == Of("end", <<"wq", "device">>)

\* What a function releases that is called on the way out.
Released(function) ==
  LET step == function[1] arg == function[2] IN
  CASE function = <<"end", "utilization">> -> UtilizationTerm
    [] function = <<"end", "control">> -> ControlTimerTerm
    [] function = <<"end", "depopulate">> -> Depopulate
    [] function = <<"end", "groups">> -> DeleteGroups
    [] function = <<"end", "executor">> -> ExecutorTerm
    [] function = <<"end", "scheduler">> -> SchedulerTerm
    [] function = <<"end", "l2">> -> DeleteL2Caches
    [] function = <<"end", "mmu">> -> MmuTerm
    [] function = <<"end", "pm">> -> PmTerm
    [] function = <<"end", "pmu">> -> PmuDelete
    [] function = <<"end", "memory">> -> MemoryTerm
    [] function = <<"end", "session">> -> SessionTerm
    [] function = <<"end", "sysfs">> -> SysfsUnregister
    [] function = <<"end", "misc">> -> MiscUnregister
    [] function = <<"end", "power">> -> Blindly({<<"power", "on">>})
    [] function = <<"end", "wq">> -> Blindly(All(Of("wq", <<"queues">>)))
    [] function = <<"end", "device">> -> Blindly({<<"device", "platform">>})
    [] step = "delete" -> GroupDelete({arg})
    [] step = "remove mmu" -> Releases({<<arg, "mmu">>, <<arg, "mmu work">>}, {}, {<<arg, "mmu work">>})
    [] step = "remove core" -> Releases({<<arg, "core">>, <<arg, "core work">>}, {}, {<<arg, "core work">>})
    [] step = "free" -> Releases({}, {arg}, {arg})
    [] step = "undo" -> Blindly({arg})

----------------------------------------------------------------------------
(* Failing. *)

\* What the function that fails undoes itself.  An MMU or a core whose work item cannot be
\* had is freed and left in its group; one whose interrupt cannot be set up is taken out,
\* and its work item freed and left.
Unwind(thing) ==
  LET owner == thing[1] what == thing[2] delete == <<<<"delete", owner>>>> IN
  CASE owner \in {"executor", "scheduler", "pm", "memory"} -> Of("end", <<owner>>)
    [] thing = <<"swap", "file">> -> Of("undo", <<<<"swap", "bitmap">>>>)
    [] thing = <<"swap", "work">> -> Of("undo", <<<<"swap", "bitmap">>, <<"swap", "file">>>>)
    [] thing = <<"pages", "fault">> -> Of("undo", <<<<"pages", "empty">>>>)
    [] what \in {"mmu", "core"} /\ owner \in {"gp", "pp"} -> delete
    [] what = "mmu work" -> Of("free", <<<<owner, "mmu">>>>) \o delete
    [] what = "core work" -> Of("free", <<<<owner, "core">>>>) \o delete
    [] what = "mmu irq" -> Of("remove mmu", <<owner>>) \o delete
    [] what = "core irq" -> Of("remove core", <<owner>>) \o delete
    [] OTHER -> <<>>

\* The power is given back next, unless it is the reset that failed.
GiveBack(thing) ==
  IF <<"power", "on">> \in held /\ thing # <<"check", "reset">>
    THEN Of("end", <<"power">>) ELSE <<>>

\* What is called when the probe fails at a thing.
AfterFailure(thing) ==
  CASE thing = <<"device", "platform">> -> <<>>
    [] thing = <<"wq", "queues">> -> Of("end", <<"device">>)
    [] OTHER -> Unwind(thing) \o GiveBack(thing) \o TerminateSubsystems \o ProbeUndo

----------------------------------------------------------------------------
Init ==
  /\ phase = "out" /\ at = 1 /\ todo = <<>>
  /\ held = {} /\ known = {} /\ wrong = FALSE

Probe ==
  /\ phase = "out" /\ (MayRebind \/ known = {})
  /\ phase' = "starting" /\ at' = 1
  /\ UNCHANGED <<todo, held, known, wrong>>

\* The next allocation or check succeeds.
Acquire ==
  LET thing == ProbeSequence[at]
      got == {thing} \ Checks
      gone == IF thing = <<"power", "off">> THEN {<<"power", "on">>} ELSE {}
  IN
  /\ phase = "starting"
  /\ wrong' = (wrong \/ thing \in held)
  /\ held' = (held \cup got) \ gone
  /\ known' = (known \cup got) \ gone
  /\ at' = at + 1
  /\ phase' = IF at = Len(ProbeSequence) THEN "bound" ELSE "starting"
  /\ UNCHANGED todo

\* It fails.  mali_scheduler_initialize goes on when it has no lock.
Fail ==
  LET thing == ProbeSequence[at] goesOn == thing = <<"scheduler", "lock">> IN
  /\ phase = "starting" /\ thing \in MayFail
  /\ phase' = IF goesOn THEN "starting" ELSE "leaving"
  /\ at' = IF goesOn THEN at + 1 ELSE at
  /\ todo' = IF goesOn THEN <<>> ELSE AfterFailure(thing)
  /\ UNCHANGED <<held, known, wrong>>

Remove ==
  /\ phase = "bound"
  /\ phase' = "leaving"
  /\ todo' = Of("end", <<"sysfs", "misc">>) \o TerminateSubsystems \o ProbeUndo
  /\ UNCHANGED <<at, held, known, wrong>>

\* The next function on the way out.
Leave ==
  /\ phase = "leaving" /\ todo # <<>>
  /\ LET f == Released(Head(todo))
         gone == (f.guarded \cap known) \cup f.unseen
     IN /\ wrong' = (wrong \/ ~(gone \subseteq held))
        /\ held' = held \ gone
        /\ known' = known \ (gone \ f.kept)
  /\ todo' = Tail(todo)
  /\ UNCHANGED <<phase, at>>

Left ==
  /\ phase = "leaving" /\ todo = <<>>
  /\ phase' = "out"
  /\ UNCHANGED <<at, todo, held, known, wrong>>

\* The module is unloaded and loaded again.
Reload ==
  /\ phase = "out" /\ known # {}
  /\ known' = {}
  /\ UNCHANGED <<phase, at, todo, held, wrong>>

\* The control timer was left running by the last job, and its callback takes the lock of
\* the utilisation data: mali_control_timer_callback.
Tick ==
  /\ phase = "bound" \/ (LateTick /\ phase = "leaving")
  /\ <<"control", "timer">> \in held
  /\ wrong' = (wrong \/ <<"utilization", "lock">> \notin held)
  /\ UNCHANGED <<phase, at, todo, held, known>>

Next == Probe \/ Acquire \/ Fail \/ Remove \/ Leave \/ Left \/ Reload \/ Tick

Spec == Init /\ [][Next]_vars
----------------------------------------------------------------------------
\* Nothing is released twice or used after it was released, a driver that is bound has
\* all it needs, and one that is not bound holds nothing: mali_probe and mali_remove.
StartupSound ==
  /\ ~wrong
  /\ phase = "bound" => Needed \subseteq held
  /\ phase = "out" => held = {}
================================================================================
