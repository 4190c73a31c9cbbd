---------------------------- MODULE ReentrantSpinlock ----------------------------
(***************************************************************************)
(* The reentrant spinlock of mali_spinlock_reentrant.c, which guards every *)
(* timeline system.  It is built from an interrupt-disabling spinlock and  *)
(* two plain fields, owner and counter, that are read before the spinlock  *)
(* is taken.  Ownership is by thread id: an interrupt handler runs with    *)
(* the id of the thread it interrupted, so the id alone does not tell the  *)
(* two apart.                                                              *)
(***************************************************************************)
EXTENDS Naturals, TLAPS

CONSTANTS
  Threads,    \* thread ids, as _mali_osk_get_tid returns them; never 0
  NoTid,      \* the value 0 of the owner field
  NoCtx,      \* the raw spinlock is free
  MaxDepth    \* bound: how deep a context nests its waits

ASSUME ThreadsAssumption == NoTid \notin Threads
ASSUME DepthAssumption   == MaxDepth \in Nat \ {0}

\* A context is a thread or the interrupt handler running on top of it.
Contexts == Threads \X {"task", "irq"}

ASSUME NoCtxAssumption == NoCtx \notin Contexts

Tid(c) == c[1]

VARIABLES
  lock,       \* the context that holds the raw spinlock, or NoCtx
  owner,      \* spinlock->owner
  counter,    \* spinlock->counter
  pc,         \* the step of wait or signal each context is about to take
  depth       \* how many waits of a context are not signalled yet

vars == <<lock, owner, counter, pc, depth>>

Steps == {"idle", "spin", "own", "inc", "clear", "unlock"}

Active(c) == pc[c] # "idle" \/ depth[c] > 0

\* Who may execute: a thread is suspended while its interrupt handler runs, and
\* no handler starts on a thread that holds the raw spinlock, because
\* _mali_osk_spinlock_irq_lock keeps local interrupts off until the unlock.
CanRun(c) ==
  IF c[2] = "task" THEN ~Active(<<Tid(c), "irq">>)
                   ELSE Active(c) \/ lock # <<Tid(c), "task">>

Init ==
  /\ lock = NoCtx
  /\ owner = NoTid
  /\ counter = 0
  /\ pc = [c \in Contexts |-> "idle"]
  /\ depth = [c \in Contexts |-> 0]

Goto(c, step) == pc' = [pc EXCEPT ![c] = step]

(***************************************************************************)
(* mali_spinlock_reentrant_wait                                            *)
(***************************************************************************)

\* Mutant: the owner is compared with "nobody" instead of the caller's id.
Check_AnyOwner(c) ==
  /\ CanRun(c) /\ pc[c] = "idle" /\ depth[c] < MaxDepth
  /\ Goto(c, IF owner = NoTid THEN "spin" ELSE "inc")
  /\ UNCHANGED <<lock, owner, counter, depth>>

\* The comparison of tid with spinlock->owner, made without any lock.
Check(c) ==
  /\ CanRun(c) /\ pc[c] = "idle" /\ depth[c] < MaxDepth
  /\ Goto(c, IF Tid(c) # owner THEN "spin" ELSE "inc")
  /\ UNCHANGED <<lock, owner, counter, depth>>

Acquire(c) ==
  /\ CanRun(c) /\ pc[c] = "spin" /\ lock = NoCtx
  /\ lock' = c
  /\ Goto(c, "own")
  /\ UNCHANGED <<owner, counter, depth>>

SetOwner(c) ==
  /\ CanRun(c) /\ pc[c] = "own"
  /\ owner' = Tid(c)
  /\ Goto(c, "inc")
  /\ UNCHANGED <<lock, counter, depth>>

Increment(c) ==
  /\ CanRun(c) /\ pc[c] = "inc"
  /\ counter' = counter + 1
  /\ depth' = [depth EXCEPT ![c] = @ + 1]
  /\ Goto(c, "idle")
  /\ UNCHANGED <<lock, owner>>

(***************************************************************************)
(* mali_spinlock_reentrant_signal                                          *)
(***************************************************************************)

\* Mutant: the last signal is recognised one too early.
Decrement_TooEarly(c) ==
  /\ CanRun(c) /\ pc[c] = "idle" /\ depth[c] > 0
  /\ counter' = counter - 1
  /\ depth' = [depth EXCEPT ![c] = @ - 1]
  /\ Goto(c, IF counter <= 2 THEN "clear" ELSE "idle")
  /\ UNCHANGED <<lock, owner>>

Decrement(c) ==
  /\ CanRun(c) /\ pc[c] = "idle" /\ depth[c] > 0
  /\ counter' = counter - 1
  /\ depth' = [depth EXCEPT ![c] = @ - 1]
  /\ Goto(c, IF counter = 1 THEN "clear" ELSE "idle")
  /\ UNCHANGED <<lock, owner>>

\* Mutant: the owner field survives the unlock.
ClearOwner_Forgotten(c) ==
  /\ CanRun(c) /\ pc[c] = "clear"
  /\ Goto(c, "unlock")
  /\ UNCHANGED <<lock, owner, counter, depth>>

ClearOwner(c) ==
  /\ CanRun(c) /\ pc[c] = "clear"
  /\ owner' = NoTid
  /\ Goto(c, "unlock")
  /\ UNCHANGED <<lock, counter, depth>>

Unlock(c) ==
  /\ CanRun(c) /\ pc[c] = "unlock"
  /\ lock' = NoCtx
  /\ Goto(c, "idle")
  /\ UNCHANGED <<owner, counter, depth>>

Wait(c)   == Check(c) \/ Acquire(c) \/ SetOwner(c) \/ Increment(c)
Signal(c) == Decrement(c) \/ ClearOwner(c) \/ Unlock(c)

Next == \E c \in Contexts : Wait(c) \/ Signal(c)

Spec == Init /\ [][Next]_vars

\* The kernel's spinlocks hand the lock over in order (ticket or queued locks),
\* so a waiter that finds the lock free again and again gets it.  A critical
\* section makes finitely many nested waits: strong fairness of the outermost
\* signal.
Fairness ==
  \A c \in Contexts :
    /\ SF_vars(Acquire(c))
    /\ SF_vars(Decrement(c) /\ depth[c] = 1)
    /\ WF_vars(SetOwner(c) \/ Increment(c) \/ Signal(c))

FairSpec == Spec /\ Fairness

(***************************************************************************)
(* mali_spinlock_reentrant_is_held, which every MALI_TIMELINE_SYSTEM_LOCKED*)
(* assertion of the driver evaluates.                                      *)
(***************************************************************************)
IsHeld(tid) == tid = owner /\ counter > 0
-----------------------------------------------------------------------------
\* Owner and counter hold a thread id and a count, and every context is at one
\* of the steps of mali_spinlock_reentrant_wait or _signal.
TypeOK ==
  /\ lock \in Contexts \cup {NoCtx}
  /\ owner \in Threads \cup {NoTid}
  /\ counter \in Nat
  /\ pc \in [Contexts -> Steps]
  /\ depth \in [Contexts -> 0..MaxDepth]

\* At most one context is between a completed wait and its signal, also when
\* the two contexts have the same thread id (mali_spinlock_reentrant_wait skips
\* the spinlock when the id matches).
MutualExclusion ==
  \A c, d \in Contexts : depth[c] > 0 /\ depth[d] > 0 => c = d

\* A context that takes the reentrant short cut (owner already its own id)
\* holds the raw spinlock: the unlocked read of owner never misleads it.
ShortCutIsSafe ==
  \A c \in Contexts : pc[c] = "inc" => lock = c

\* What the assertions rely on: evaluated by a context that may run,
\* is_held(tid) says exactly whether that context is inside the lock.
IsHeldExact ==
  \A c \in Contexts :
    CanRun(c) /\ pc[c] = "idle" => (IsHeld(Tid(c)) <=> depth[c] > 0)

\* The lock is given back with both fields cleared, as the assertion in wait
\* (0 == owner && 0 == counter after the spinlock is taken) expects.
CleanHandover ==
  \A c \in Contexts : pc[c] = "own" => owner = NoTid /\ counter = 0

\* Every context that spins in wait eventually returns from it.
Returns(c) == pc[c] = "spin" ~> depth[c] > 0
WaitReturns == \A c \in Contexts : Returns(c)
-----------------------------------------------------------------------------
\* The strengthening that makes the properties inductive: the raw spinlock is
\* held exactly by the context inside wait, the critical section or signal, and
\* the two plain fields mirror that context.
HoldsRaw(c) == pc[c] \in {"own", "inc", "clear", "unlock"} \/ depth[c] > 0

RawLockInv == \A c \in Contexts : HoldsRaw(c) <=> lock = c

FieldsInv ==
  /\ lock = NoCtx => owner = NoTid /\ counter = 0
  /\ \A c \in Contexts : lock = c =>
       /\ counter = depth[c]
       /\ owner = IF pc[c] \in {"own", "unlock"} THEN NoTid ELSE Tid(c)
       /\ pc[c] \in {"own", "clear", "unlock"} => depth[c] = 0
       /\ pc[c] = "inc" => depth[c] < MaxDepth

\* No interrupt handler has started on top of a thread that holds the spinlock.
MaskInv ==
  \A t \in Threads : lock = <<t, "task">> => ~Active(<<t, "irq">>)

IInv == TypeOK /\ RawLockInv /\ FieldsInv /\ MaskInv
--------------------------------------------------------------------------------
(***************************************************************************)
(* Safety of the spinlock for any number of threads and any nesting depth. *)
(* The inductive invariant IInv ties the two plain fields to the raw       *)
(* spinlock; each property then follows in one step.                       *)
(***************************************************************************)

\* Whoever is inside wait, the critical section or signal is the one context
\* that holds the raw spinlock.
LEMMA OneHolder ==
  ASSUME RawLockInv, NEW c \in Contexts, NEW d \in Contexts,
         HoldsRaw(c), HoldsRaw(d)
  PROVE  c = d
BY DEF RawLockInv

\* A context that may run, and finds its own thread id in owner, holds the raw
\* spinlock: the other context of the same thread is excluded, because an
\* interrupt handler never runs on top of a holder and a thread never runs
\* below an active handler.
LEMMA OwnerIsCaller ==
  ASSUME IInv, NEW c \in Contexts, CanRun(c), Tid(c) = owner
  PROVE  lock = c
<1>1. Tid(c) \in Threads
  BY DEF Contexts, Tid
<1>2. lock # NoCtx
  BY <1>1, ThreadsAssumption DEF IInv, FieldsInv
<1>3. lock \in Contexts
  BY <1>2 DEF IInv, TypeOK
<1>4. Tid(lock) = Tid(c)
  BY <1>1, <1>3, ThreadsAssumption DEF IInv, FieldsInv
<1>5. HoldsRaw(lock)
  BY <1>3 DEF IInv, RawLockInv
<1>6. Active(lock)
  BY <1>5 DEF HoldsRaw, Active
<1>7. CASE c[2] = "task"
  <2>1. lock # <<Tid(c), "irq">>
    BY <1>6, <1>7 DEF CanRun
  <2> QED
    BY <1>3, <1>4, <1>7, <2>1 DEF Contexts, Tid
<1>8. CASE c[2] = "irq"
  <2>1. Active(c) => lock # <<Tid(c), "task">>
    BY <1>1, <1>8 DEF IInv, MaskInv, Contexts, Tid
  <2>2. lock # <<Tid(c), "task">>
    BY <1>8, <2>1 DEF CanRun
  <2> QED
    BY <1>3, <1>4, <1>8, <2>2 DEF Contexts, Tid
<1> QED
  BY <1>7, <1>8 DEF Contexts
-----------------------------------------------------------------------------
LEMMA InitIInv == Init => IInv
<1> SUFFICES ASSUME Init PROVE IInv
  OBVIOUS
<1> USE DEF Init
<1>1. TypeOK
  BY DepthAssumption DEF TypeOK, Steps
<1>2. RawLockInv
  BY NoCtxAssumption DEF RawLockInv, HoldsRaw
<1>3. FieldsInv
  BY NoCtxAssumption DEF FieldsInv
<1>4. MaskInv
  BY NoCtxAssumption DEF MaskInv, Contexts
<1> QED
  BY <1>1, <1>2, <1>3, <1>4 DEF IInv

LEMMA NextIInv == IInv /\ [Next]_vars => IInv'
<1> SUFFICES ASSUME IInv, [Next]_vars PROVE IInv'
  OBVIOUS
<1> USE DEF IInv
<1>1. ASSUME NEW c \in Contexts, Check(c) PROVE IInv'
  <2> USE <1>1 DEF Check, Goto
  <2>1. TypeOK'
    BY DEF TypeOK, Steps
  <2>2. Tid(c) = owner => lock = c
    BY OwnerIsCaller
  <2>3. RawLockInv'
    BY <2>2 DEF RawLockInv, HoldsRaw, TypeOK
  <2>4. FieldsInv'
    BY <2>2 DEF FieldsInv, TypeOK
  <2>5. MaskInv'
    BY DEF MaskInv, Active, CanRun, TypeOK, Contexts, Tid
  <2> QED
    BY <2>1, <2>3, <2>4, <2>5
<1>2. ASSUME NEW c \in Contexts, Acquire(c) PROVE IInv'
  <2> USE <1>2 DEF Acquire, Goto
  <2>1. TypeOK'
    BY DEF TypeOK, Steps
  <2>2. RawLockInv'
    BY NoCtxAssumption DEF RawLockInv, HoldsRaw, TypeOK
  <2>3. lock' = c /\ pc'[c] = "own" /\ lock' # NoCtx
    BY NoCtxAssumption DEF TypeOK
  <2>4. counter = 0 /\ owner = NoTid
    BY DEF FieldsInv
  <2>5. depth[c] = 0
    BY NoCtxAssumption DEF RawLockInv, HoldsRaw, TypeOK
  <2>6. FieldsInv'
    BY <2>3, <2>4, <2>5 DEF FieldsInv
  <2>7. MaskInv'
    BY DEF MaskInv, Active, CanRun, TypeOK, Contexts, Tid
  <2> QED
    BY <2>1, <2>2, <2>6, <2>7
<1>3. ASSUME NEW c \in Contexts, SetOwner(c) PROVE IInv'
  <2> USE <1>3 DEF SetOwner, Goto
  <2>1. TypeOK'
    BY DEF TypeOK, Steps, Contexts, Tid
  <2>2. RawLockInv'
    BY DEF RawLockInv, HoldsRaw, TypeOK
  <2>3. lock = c /\ pc'[c] = "inc" /\ lock # NoCtx
    BY NoCtxAssumption DEF TypeOK, RawLockInv, HoldsRaw
  <2>4. counter = depth[c] /\ depth[c] = 0
    BY <2>3 DEF FieldsInv
  <2>5. FieldsInv'
    BY <2>3, <2>4, DepthAssumption DEF FieldsInv
  <2>6. MaskInv'
    BY DEF MaskInv, Active, TypeOK
  <2> QED
    BY <2>1, <2>2, <2>5, <2>6
<1>4. ASSUME NEW c \in Contexts, Increment(c) PROVE IInv'
  <2> USE <1>4 DEF Increment, Goto
  <2>1. TypeOK'
    BY DepthAssumption DEF TypeOK, Steps, FieldsInv, RawLockInv, HoldsRaw
  <2>2. RawLockInv'
    BY DEF RawLockInv, HoldsRaw, TypeOK
  <2>3. lock = c /\ pc'[c] = "idle" /\ lock # NoCtx
    BY NoCtxAssumption DEF TypeOK, RawLockInv, HoldsRaw
  <2>4. counter' = depth'[c] /\ owner = Tid(c)
    BY <2>3 DEF FieldsInv, TypeOK
  <2>5. FieldsInv'
    BY <2>3, <2>4 DEF FieldsInv
  <2>6. MaskInv'
    BY DEF MaskInv, Active, TypeOK
  <2> QED
    BY <2>1, <2>2, <2>5, <2>6
<1>5. ASSUME NEW c \in Contexts, Decrement(c) PROVE IInv'
  <2> USE <1>5 DEF Decrement, Goto
  <2>1. lock = c /\ counter = depth[c]
    BY DEF RawLockInv, HoldsRaw, FieldsInv
  <2>2. TypeOK'
    BY <2>1, DepthAssumption DEF TypeOK, Steps
  <2>3. RawLockInv'
    BY <2>1 DEF RawLockInv, HoldsRaw, TypeOK
  <2>4. FieldsInv'
    BY <2>1, NoCtxAssumption DEF FieldsInv, TypeOK
  <2>5. MaskInv'
    BY DEF MaskInv, Active, TypeOK
  <2> QED
    BY <2>2, <2>3, <2>4, <2>5
<1>6. ASSUME NEW c \in Contexts, ClearOwner(c) PROVE IInv'
  <2> USE <1>6 DEF ClearOwner, Goto
  <2>1. TypeOK'
    BY DEF TypeOK, Steps
  <2>2. RawLockInv'
    BY DEF RawLockInv, HoldsRaw, TypeOK
  <2>3. FieldsInv'
    BY DEF FieldsInv, RawLockInv, HoldsRaw, TypeOK
  <2>4. MaskInv'
    BY DEF MaskInv, Active, TypeOK
  <2> QED
    BY <2>1, <2>2, <2>3, <2>4
<1>7. ASSUME NEW c \in Contexts, Unlock(c) PROVE IInv'
  <2> USE <1>7 DEF Unlock, Goto
  <2>1. lock = c /\ depth[c] = 0 /\ counter = 0 /\ owner = NoTid
    BY DEF RawLockInv, HoldsRaw, FieldsInv
  <2>2. TypeOK'
    BY DEF TypeOK, Steps
  <2>3. RawLockInv'
    BY <2>1, NoCtxAssumption DEF RawLockInv, HoldsRaw, TypeOK
  <2>4. FieldsInv'
    BY <2>1, NoCtxAssumption DEF FieldsInv
  <2>5. MaskInv'
    BY NoCtxAssumption DEF MaskInv, Contexts
  <2> QED
    BY <2>2, <2>3, <2>4, <2>5
<1>8. CASE UNCHANGED vars
  BY <1>8 DEF vars, TypeOK, RawLockInv, HoldsRaw, FieldsInv, MaskInv, Active
<1> QED
  BY <1>1, <1>2, <1>3, <1>4, <1>5, <1>6, <1>7, <1>8 DEF Next, Wait, Signal

\* The raw spinlock, the two plain fields and the interrupt mask agree in every
\* reachable state of mali_spinlock_reentrant_wait and _signal.
THEOREM Inductive == Spec => []IInv
<1> QED
  BY InitIInv, NextIInv, PTL DEF Spec

\* Every field keeps its type; in particular signal never takes the counter
\* below zero.
THEOREM TypeCorrect == Spec => []TypeOK
<1>1. IInv => TypeOK
  BY DEF IInv
<1> QED
  BY <1>1, Inductive, PTL

\* No two contexts are inside the lock at once, not even a thread and the
\* interrupt handler that runs with the thread's id.
THEOREM Exclusion == Spec => []MutualExclusion
<1>1. IInv => MutualExclusion
  BY OneHolder DEF IInv, MutualExclusion, HoldsRaw
<1> QED
  BY <1>1, Inductive, PTL

\* A wait that skips the spinlock because owner is the caller's id is right to.
THEOREM ShortCut == Spec => []ShortCutIsSafe
<1>1. IInv => ShortCutIsSafe
  BY DEF IInv, ShortCutIsSafe, RawLockInv, HoldsRaw
<1> QED
  BY <1>1, Inductive, PTL

\* mali_spinlock_reentrant_is_held, evaluated by a context that may run, tells
\* whether that very context is inside the lock.
THEOREM HeldExact == Spec => []IsHeldExact
<1>1. ASSUME IInv, NEW c \in Contexts, CanRun(c), pc[c] = "idle"
      PROVE  IsHeld(Tid(c)) <=> depth[c] > 0
  <2>1. ASSUME IsHeld(Tid(c)) PROVE depth[c] > 0
    <3>1. lock = c
      BY <1>1, <2>1, OwnerIsCaller DEF IsHeld
    <3> QED
      BY <1>1, <2>1, <3>1 DEF IInv, FieldsInv, IsHeld
  <2>2. ASSUME depth[c] > 0 PROVE IsHeld(Tid(c))
    <3>1. lock = c
      BY <1>1, <2>2 DEF IInv, RawLockInv, HoldsRaw
    <3> QED
      BY <1>1, <2>2, <3>1 DEF IInv, FieldsInv, IsHeld
  <2> QED
    BY <2>1, <2>2
<1>2. IInv => IsHeldExact
  BY <1>1 DEF IsHeldExact
<1> QED
  BY <1>2, Inductive, PTL

\* The assertion of wait, 0 == owner && 0 == counter once the spinlock is taken,
\* never fails.
THEOREM Handover == Spec => []CleanHandover
<1>1. IInv => CleanHandover
  BY DEF IInv, CleanHandover, RawLockInv, HoldsRaw, FieldsInv
<1> QED
  BY <1>1, Inductive, PTL
================================================================================
