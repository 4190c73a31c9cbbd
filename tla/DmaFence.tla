-------------------------------- MODULE DmaFence --------------------------------
(***************************************************************************)
(* Implicit synchronisation of PP jobs (linux/mali_dma_fence.c): a job     *)
(* waits for the fences of the dma-bufs it names, and leaves its own fence *)
(* there.  The reservation objects of the dma-bufs are locked with         *)
(* wait/wound mutexes, of which the kernel's is LockNext's condition; the  *)
(* fences of other drivers are Foreign.                                    *)
(***************************************************************************)
EXTENDS Integers, Sequences, FiniteSets

CONSTANTS
  Jobs, Bufs, Foreign, None,
  Happens    \* of what the passing run leaves out, what may happen: see the uses

VARIABLES
  sub,       \* job -> how far its submission is, its buffers, the mutex taken the slow way
  order,     \* the submissions, oldest first: the tickets of the wait/wound mutexes
  lock,      \* buffer -> None, or the submission that holds its mutex
  fences,    \* buffer -> the fences of its reservation object
  signaled,  \* the signalled fences; a job stands for the fence of its rendering
  callbacks, \* <<fence, job, buffer>>: the callbacks that are registered
  refs,      \* fence -> references this driver and the reservation objects have
  context,   \* job -> its mali_dma_fence_context
  life,      \* job -> what became of it
  session    \* whether the session is open, ends, sleeps in its end, has ended

vars == <<sub, order, lock, fences, signaled, callbacks, refs, context, life, session>>

Fences == Jobs \cup Foreign

Init ==
  /\ sub = [j \in Jobs |-> [pc |-> "none", list |-> <<>>, i |-> 1, slow |-> None, waits |-> 0]]
  /\ order = <<>>
  /\ lock = [b \in Bufs |-> None]
  /\ fences \in [Bufs -> SUBSET Foreign]
  /\ signaled = {} /\ callbacks = {}
  /\ refs = [f \in Fences |-> Cardinality({b \in Bufs : f \in fences[b]})]
  /\ context = [j \in Jobs |-> [count |-> 0, waiters |-> {}, work |-> "idle"]]
  /\ life = [j \in Jobs |-> "none"]
  /\ session = "open"

May(h) == h \in Happens
At(j, pc) == sub[j].pc = pc
Taken(j) == {b \in Bufs : lock[b] = j}
Older(j, k) == \E m, n \in DOMAIN order : m < n /\ order[m] = j /\ order[n] = k
Lists == {s \in UNION {[1..n -> Bufs] : n \in 1..Cardinality(Bufs)} :
            \A m, n \in DOMAIN s : m # n => s[m] # s[n]}

-----------------------------------------------------------------------------
(* mali_scheduler_submit_pp_job(): the reservation objects of the job's    *)
(* memory, each once, and the fence of its rendering.                      *)
Submit(j) ==
  /\ session = "open" /\ At(j, "none")
  /\ \E list \in Lists : sub' = [sub EXCEPT ![j].pc = "lock", ![j].list = list]
  /\ order' = Append(order, j)
  /\ refs' = [refs EXCEPT ![j] = 1]
  /\ UNCHANGED <<lock, fences, signaled, callbacks, context, life, session>>

(* mali_dma_fence_lock_reservation_object_list().  A submission that holds *)
(* a mutex and meets an older one gives way.                               *)
LockNext(j) ==
  LET s == sub[j]  b == s.list[s.i]
  IN /\ At(j, "lock") /\ s.i \in DOMAIN s.list
     /\ b = s.slow \/ lock[b] = None
     /\ sub' = [sub EXCEPT ![j].i = @ + 1, ![j].slow = IF b = @ THEN None ELSE @]
     /\ lock' = [lock EXCEPT ![b] = j]
     /\ UNCHANGED <<order, fences, signaled, callbacks, refs, context, life, session>>

GiveWay(j) ==
  LET s == sub[j]  b == s.list[s.i]
  IN /\ At(j, "lock") /\ s.i \in DOMAIN s.list
     /\ lock[b] \notin {None, j} /\ Taken(j) # {} /\ Older(lock[b], j)
     /\ lock' = [c \in Bufs |-> IF lock[c] = j THEN None ELSE lock[c]]
     /\ sub' = [sub EXCEPT ![j].pc = "slow", ![j].slow = b]
     /\ UNCHANGED <<order, fences, signaled, callbacks, refs, context, life, session>>

LockSlow(j) ==
  /\ At(j, "slow") /\ lock[sub[j].slow] = None
  /\ lock' = [lock EXCEPT ![sub[j].slow] = j]
  /\ sub' = [sub EXCEPT ![j].pc = "lock", ![j].i = 1]
  /\ UNCHANGED <<order, fences, signaled, callbacks, refs, context, life, session>>

(* mali_dma_fence_context_init(), which counts the submission too.         *)
Locked(j) ==
  /\ At(j, "lock") /\ sub[j].i \notin DOMAIN sub[j].list
  /\ sub' = [sub EXCEPT ![j].pc = "add", ![j].i = 1]
  /\ context' = [context EXCEPT ![j].count = 1]
  /\ UNCHANGED <<order, lock, fences, signaled, callbacks, refs, life, session>>

-----------------------------------------------------------------------------
(* mali_dma_fence_context_cleanup(): the callbacks are removed and their   *)
(* references given back.                                                  *)
Cleanup(j) ==
  /\ callbacks' = {c \in callbacks : c[2] # j}
  /\ refs' = [f \in Fences |-> refs[f] - Cardinality({w \in context[j].waiters : w[1] = f})]

(* mali_dma_fence_context_add_waiters(), a reservation object each time:   *)
(* signalled fences are passed over; without memory everything is undone,  *)
(* the rendering's fence signalled, and the submission fails.              *)
AddWaiters(j) ==
  LET s == sub[j]  b == s.list[s.i]
      new == {<<f, b>> : f \in fences[b] \ signaled}
  IN /\ At(j, "add") /\ s.i \in DOMAIN s.list
     /\ context' = [context EXCEPT ![j].count = @ + Cardinality(new), ![j].waiters = @ \cup new]
     /\ callbacks' = callbacks \cup {<<w[1], j, b>> : w \in new}
     /\ refs' = [f \in Fences |-> refs[f] + Cardinality({w \in new : w[1] = f})]
     /\ sub' = [sub EXCEPT ![j].i = @ + 1]
     /\ UNCHANGED <<order, lock, fences, signaled, life, session>>

AddFails(j) ==
  /\ At(j, "add") /\ sub[j].i \in DOMAIN sub[j].list /\ fences[sub[j].list[sub[j].i]] # {}
  /\ callbacks' = {c \in callbacks : c[2] # j}
  /\ refs' = [f \in Fences |-> refs[f] - Cardinality({w \in context[j].waiters : w[1] = f})
                               - (IF f = j THEN 1 ELSE 0)]
  /\ context' = [context EXCEPT ![j].count = 0, ![j].waiters = {}, ![j].work = "idle"]
  /\ lock' = [c \in Bufs |-> IF lock[c] = j THEN None ELSE lock[c]]
  /\ signaled' = signaled \cup {j}
  /\ sub' = [sub EXCEPT ![j].pc = "failed"]
  /\ UNCHANGED <<order, fences, life, session>>

(* reservation_object_add_excl_fence() for each object: the job's fence    *)
(* takes the place of all others.                                          *)
Install(j) ==
  /\ At(j, "add") /\ sub[j].i \notin DOMAIN sub[j].list
  /\ fences' = [b \in Bufs |-> IF lock[b] = j THEN {j} ELSE fences[b]]
  /\ refs' = [f \in Fences |-> refs[f] + Cardinality({b \in Taken(j) : f = j})
                               - Cardinality({b \in Taken(j) : f \in fences[b]})]
  /\ sub' = [sub EXCEPT ![j].pc = "track", ![j].waits = Cardinality(context[j].waiters)]
  /\ UNCHANGED <<order, lock, signaled, callbacks, context, life, session>>

(* mali_timeline_system_add_tracker(): the tracker has a waiter for the    *)
(* dma fences if there are any, and memory for it.                         *)
AddTracker(j) ==
  /\ At(j, "track")
  /\ \E memory \in {TRUE, ~May("no waiter")} :
       life' = [life EXCEPT ![j] = IF sub[j].waits # 0 /\ memory THEN "waiting" ELSE "active"]
  /\ sub' = [sub EXCEPT ![j].pc = "dec"]
  /\ UNCHANGED <<order, lock, fences, signaled, callbacks, refs, context, session>>

(* One less to wait for: the last schedules the work.                      *)
Less(ctx, n) == [ctx EXCEPT !.count = @ - n, !.work = IF ctx.count = n /\ n > 0 THEN "queued" ELSE @]

DecCount_Always(j) ==   \* mutant: also when there is nothing to wait for
  /\ At(j, "dec")
  /\ context' = [context EXCEPT ![j] = Less(@, 1)]
  /\ sub' = [sub EXCEPT ![j].pc = "unlock"]
  /\ UNCHANGED <<order, lock, fences, signaled, callbacks, refs, life, session>>

DecCount(j) ==
  /\ At(j, "dec")
  /\ context' = IF sub[j].waits = 0 THEN context ELSE [context EXCEPT ![j] = Less(@, 1)]
  /\ sub' = [sub EXCEPT ![j].pc = "unlock"]
  /\ UNCHANGED <<order, lock, fences, signaled, callbacks, refs, life, session>>

Unlock(j) ==
  /\ At(j, "unlock")
  /\ lock' = [c \in Bufs |-> IF lock[c] = j THEN None ELSE lock[c]]
  /\ sub' = [sub EXCEPT ![j].pc = "given"]
  /\ UNCHANGED <<order, fences, signaled, callbacks, refs, context, life, session>>

-----------------------------------------------------------------------------
(* fence_signal(): each callback, once, mali_dma_fence_callback().         *)
AfterSignal(f) ==
  /\ signaled' = signaled \cup {f}
  /\ context' = [j \in Jobs |-> Less(context[j], Cardinality({c \in callbacks : c[1] = f /\ c[2] = j}))]
  /\ callbacks' = {c \in callbacks : c[1] # f}

ForeignSignals(f) ==
  /\ f \in Foreign \ signaled
  /\ AfterSignal(f)
  /\ UNCHANGED <<sub, order, lock, fences, refs, life, session>>

(* mali_dma_fence_context_work_func(), then mali_timeline_dma_fence_       *)
(* callback(), which activates the job.                                    *)
Work(j) ==
  /\ context[j].work = "queued"
  /\ Cleanup(j)
  /\ context' = [context EXCEPT ![j].waiters = {}, ![j].work = "cleaned"]
  /\ UNCHANGED <<sub, order, lock, fences, signaled, life, session>>

TimelineCallback(j) ==
  /\ context[j].work = "cleaned"
  /\ life' = [life EXCEPT ![j] = CASE life[j] = "waiting" /\ session # "ended" -> "active"
                                   [] OTHER -> "wrong"]
  /\ context' = [context EXCEPT ![j].work = "returns"]
  /\ UNCHANGED <<sub, order, lock, fences, signaled, callbacks, refs, session>>

WorkReturns(j) ==
  /\ context[j].work = "returns"
  /\ context' = [context EXCEPT ![j].work = "idle"]
  /\ UNCHANGED <<sub, order, lock, fences, signaled, callbacks, refs, life, session>>

(* mali_scheduler_complete_pp_job(), of a job that ran or was aborted: its *)
(* fence is signalled.                                                     *)
Complete(j) ==
  /\ life[j] = "active" /\ j \notin signaled
  /\ AfterSignal(j)
  /\ refs' = [refs EXCEPT ![j] = @ - 1]
  /\ life' = [life EXCEPT ![j] = "done"]
  /\ UNCHANGED <<sub, order, lock, fences, session>>

(* mali_scheduler_do_pp_job_delete() with mali_dma_fence_context_term():   *)
(* work that runs is waited for.                                           *)
Delete(j) ==
  /\ life[j] = "done" /\ context[j].work \notin {"cleaned", "returns"}
  /\ Cleanup(j)
  /\ context' = [context EXCEPT ![j] = [count |-> 0, waiters |-> {}, work |-> "idle"]]
  /\ life' = [life EXCEPT ![j] = "deleted"]
  /\ UNCHANGED <<sub, order, lock, fences, signaled, session>>

-----------------------------------------------------------------------------
(* _mali_ukk_close(): jobs that are active are aborted and completed; the  *)
(* timeline system then cancels the waits for sync fences, of which there  *)
(* are none, and with sync fences sleeps until its timelines are empty.    *)
(* What a dma fence activates then does not wake it.                       *)
Close ==
  /\ session = "open"
  /\ \A j \in Jobs : sub[j].pc \in {"none", "given", "failed"}
  /\ May("closes while waiting") \/ \A j \in Jobs : life[j] # "waiting"
  /\ session' = "ends"
  /\ UNCHANGED <<sub, order, lock, fences, signaled, callbacks, refs, context, life>>

TimelineAbort ==
  /\ session = "ends" /\ \A j \in Jobs : life[j] \notin {"active", "done"}
  /\ session' \in (IF \E j \in Jobs : life[j] = "waiting" THEN {"sleeps", "ended"} ELSE {"ended"})
  /\ UNCHANGED <<sub, order, lock, fences, signaled, callbacks, refs, context, life>>

-----------------------------------------------------------------------------
SubmitStep(j) ==
  \/ LockNext(j) \/ GiveWay(j) \/ LockSlow(j) \/ Locked(j)
  \/ AddWaiters(j) \/ AddFails(j) \/ Install(j) \/ AddTracker(j) \/ DecCount(j) \/ Unlock(j)

JobStep(j) == Work(j) \/ TimelineCallback(j) \/ WorkReturns(j) \/ Complete(j) \/ Delete(j)

Next ==
  \/ \E j \in Jobs : Submit(j) \/ SubmitStep(j) \/ JobStep(j)
  \/ \E f \in Foreign : ForeignSignals(f)
  \/ Close \/ TimelineAbort

(* Submissions and work go on, jobs end, and so do those of other drivers. *)
Fairness ==
  /\ \A j \in Jobs : WF_vars(SubmitStep(j)) /\ WF_vars(JobStep(j))
  /\ WF_vars(TimelineAbort)
  /\ \A f \in Foreign : WF_vars(ForeignSignals(f))

Spec == Init /\ [][Next]_vars /\ Fairness

-----------------------------------------------------------------------------
(* Whatever the fences of a buffer and of its jobs: a job runs when those  *)
(* of its buffers that were there before it are signalled, so no two jobs  *)
(* use a buffer at once (mali_scheduler.c 1039-1043); a callback reaches   *)
(* only the context of a job that waits; each wait/wound mutex is held by  *)
(* whoever took it last; and every reference is given back.                *)
Ran(j) == life[j] \in {"active", "done", "deleted"}
Users(b) == {j \in Jobs : life[j] = "active" /\ \E i \in DOMAIN sub[j].list : sub[j].list[i] = b}
Slots(f) == Cardinality({b \in Bufs : f \in fences[b]})
WaitersOf(f) == Cardinality({w \in Jobs \X Bufs : <<f, w[2]>> \in context[w[1]].waiters})
Own(f) == IF f \in Jobs /\ f \notin signaled /\ ~At(f, "none") THEN 1 ELSE 0

DmaFencesSound ==
  /\ \A b \in Bufs : Cardinality(Users(b)) <= 1
  /\ \A j \in Jobs :
       /\ life[j] # "wrong"
       /\ Ran(j) => context[j].waiters = {} /\ context[j].work # "queued"
       /\ context[j].count >= 0
       /\ sub[j].pc \in {"none", "given", "failed"} => Taken(j) = {}
       /\ sub[j].pc \in {"add", "track", "dec", "unlock"} =>
            Taken(j) = {sub[j].list[i] : i \in DOMAIN sub[j].list}
  /\ \A c \in callbacks : life[c[2]] \in {"none", "waiting"} /\ <<c[1], c[3]>> \in context[c[2]].waiters
  /\ \A f \in Fences : refs[f] = Slots(f) + WaitersOf(f) + Own(f)

(* Every submission fails or its job runs and is deleted, so no two wait   *)
(* for each other's mutexes or fences ("in order to avoid deadlock", 1056) *)
(* and its fence is signalled; the end of a session ends.                  *)
DmaJobsEnd ==
  /\ \A j \in Jobs : ~At(j, "none") ~> (At(j, "failed") \/ life[j] = "deleted") /\ j \in signaled
  /\ session = "ends" ~> session = "ended"
=============================================================================
