--------------------------------- MODULE MCWaits ---------------------------------
(***************************************************************************)
(* Components whose progress is checked in one run: waits for fences, soft *)
(* jobs of one thread, the reentrant spinlock, dma-buf fences, umplock and *)
(* a group.  They do not interact here; each behaviour is one of the       *)
(* component named by part.                                                *)
(***************************************************************************)
EXTENDS FenceWait, Sequences

VARIABLES
  part,
  job, queue, armed, enabled, work, systemLock, stack, phase,
  lock, owner, counter, pc, depth,
  sub, order, mutex, fences, signaled, callbacks, refs, context, life, session,
  items, clients, files, thread, holds,
  kind, run, working, units, raw, mask, mmu, late, hang, posting, queued, heap,
  notice, events, verdict

\* Two jobs of a thread.
SJ == INSTANCE SoftJob WITH
        Jobs <- {"a", "b"}, Threads <- {"x"}, NoJob <- "none", Types <- {"user"},
        Needs <- {"none", "external"}, Timeout <- 1, lock <- systemLock

\* Two threads, each with its interrupt handler.
RS == INSTANCE ReentrantSpinlock WITH
        Threads <- {1, 2}, NoTid <- 0, NoCtx <- <<0, "none">>, MaxDepth <- 2

\* Two jobs that render into two buffers, which are alike, and where another driver may
\* have left a fence.
DF == INSTANCE DmaFence WITH
        Jobs <- {"j1", "j2"}, Bufs <- {"b1", "b2"}, Foreign <- {"f1"}, None <- "none",
        Happens <- {}, lock <- mutex

\* Two processes of a thread each, two buffers and room for one of them.
UL == INSTANCE UmpLock WITH
        Threads <- {"t1", "t2"}, Processes <- {"p1", "p2"},
        Process <- [t1 |-> "p1", t2 |-> "p2"], SecureIds <- {"b1", "b2"}, None <- "none",
        MaxItems <- 1, MaxPids <- 2, MaxNest <- 2

\* Two jobs, one after the other.
GR == INSTANCE Group WITH MaxRuns <- 2, timer <- hang

softJob == <<job, queue, armed, enabled, work, systemLock, stack, phase>>
spinlock == <<lock, owner, counter, pc, depth>>
dmaFence == <<sub, order, mutex, fences, signaled, callbacks, refs, context, life, session>>
umplock == <<items, clients, files, thread, holds>>
group == <<kind, run, working, units, raw, mask, mmu, late, hang, posting, queued, heap,
           notice, events, verdict>>

PartInit ==
  /\ part \in {"fence", "soft job", "spinlock", "dma fence", "umplock", "group"}
  /\ Init /\ SJ!Init /\ RS!Init /\ DF!Init /\ UL!Init /\ GR!Init
  /\ part # "group" => kind = "pp"
  /\ part # "dma fence" => fences.b1 = {}
  /\ fences.b2 \subseteq fences.b1

PartNext ==
  /\ \/ part = "fence" /\ Next /\ UNCHANGED <<softJob, spinlock, dmaFence, umplock, group>>
     \/ part = "soft job" /\ SJ!Next /\ UNCHANGED <<vars, spinlock, dmaFence, umplock, group>>
     \/ part = "spinlock" /\ RS!Next /\ UNCHANGED <<vars, softJob, dmaFence, umplock, group>>
     \/ part = "dma fence" /\ DF!Next /\ UNCHANGED <<vars, softJob, spinlock, umplock, group>>
     \/ part = "umplock" /\ UL!Next /\ UNCHANGED <<vars, softJob, spinlock, dmaFence, group>>
     \/ part = "group" /\ GR!Next /\ UNCHANGED <<vars, softJob, spinlock, dmaFence, umplock>>
  /\ UNCHANGED part

\* The fairness of each component, in its own part.
SoftJobFairness ==
  /\ \A c \in {"x", "timer", "deps", "closer"} :
       WF_softJob(part = "soft job" /\ (SJ!Step(c) \/ SJ!Lock(c)))
  /\ WF_softJob(part = "soft job" /\ SJ!Tick)
  /\ WF_softJob(part = "soft job" /\ SJ!Fire)
  /\ WF_softJob(part = "soft job" /\ SJ!DependencyDone)

Spinners == {1, 2} \X {"task", "irq"}
Lucky == {1} \X {"task", "irq"}

SpinlockFairness ==
  /\ \A c \in Lucky : SF_spinlock(part = "spinlock" /\ RS!Acquire(c))
  /\ \A c \in Spinners :
       WF_spinlock(part = "spinlock" /\ (RS!SetOwner(c) \/ RS!Increment(c) \/ RS!Signal(c)))
  /\ SF_spinlock(part = "spinlock" /\ \E c \in Spinners : RS!Decrement(c) /\ depth[c] = 1)

DmaFenceFairness ==
  /\ \A j \in {"j1", "j2"} :
       /\ WF_dmaFence(part = "dma fence" /\ DF!SubmitStep(j))
       /\ WF_dmaFence(part = "dma fence" /\ DF!JobStep(j))
  /\ WF_dmaFence(part = "dma fence" /\ DF!TimelineAbort)
  /\ WF_dmaFence(part = "dma fence" /\ DF!ForeignSignals("f1"))

GroupFairness ==
  /\ WF_group(part = "group" /\ GR!TimePasses) /\ WF_group(part = "group" /\ GR!Expire)
  /\ WF_group(part = "group" /\ GR!HangTimeout)
  /\ WF_group(part = "group" /\ (GR!BottomGp \/ GR!BottomPp))

PartSpec ==
  /\ PartInit /\ [][PartNext]_<<part, vars, softJob, spinlock, dmaFence, umplock, group>>
  /\ Fairness /\ SoftJobFairness /\ SpinlockFairness /\ DmaFenceFairness /\ GroupFairness

\* Fences of dma-bufs order the jobs that use a buffer, each is signalled to whoever
\* waits for it only, and references and wait/wound mutexes are exact; no two processes
\* have a buffer of UMP locked at a time, and the tables of umplock_driver.c agree with
\* what the threads hold and wait for.
BuffersShared == DF!DmaFencesSound /\ UL!Exclusion /\ UL!TablesExact

\* A job of a group succeeds or fails for what happened to it, never for an interrupt, a
\* timeout or an answer of user space that was meant for the job before; a page fault, an
\* error of a PP core or a want of heap memory is being dealt with, and a group without a
\* job has no interrupt raised.
JobsJudged == GR!JudgedOnItsOwn /\ GR!Pursued

\* What is waited for comes: a fence that is released ends the waits for it; each ioctl on
\* soft jobs and the end of their session; the spinlock; the turn of a job at its dma-bufs;
\* the end of a job whose core hangs or whose user never answers.
AllEnd ==
  /\ WaitsEnd /\ SJ!IoctlsReturn /\ SJ!CloseEnds /\ DF!DmaJobsEnd /\ GR!JobsEnd
  /\ \A c \in Lucky : RS!Returns(c)
================================================================================
