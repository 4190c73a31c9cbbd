------------------------------- MODULE MCHardware -------------------------------
(***************************************************************************)
(* What the driver does to the hardware, in one run: the L2 caches         *)
(* (L2Cache) with their counters (L2Counters), the PP cores of a Mali-450  *)
(* (PpCores), the MMU of a group (Mmu) and memory that others own          *)
(* (ImportedMemory).  Each behaviour is one of the component named by part. *)
(***************************************************************************)
EXTENDS L2Cache, FiniteSets, TLC

VARIABLES
  part,
  src, base, counts, hwSrc, value, events, stale,
  members, state, vstate, core, cores, vOn, run, vrun, disabled, bcast, dlbu, caches,
  hw, session, job, power, prog, stalled, zapping, half, version, freed,
  onAttach, alloc, table, refs, attached, sgts, ppJob, wrong

\* A cache counts either of two things, up to three of each.
CO == INSTANCE L2Counters WITH
        Sources <- {"a", "b"}, MaxCount <- 3, on <- counts

\* Three PP cores with a power domain each, two of which share an L2 cache.
PC == INSTANCE PpCores WITH
        Cores <- {"c1", "c2", "c3"},
        DomainOf <- [c1 |-> "d1", c2 |-> "d2", c3 |-> "d3"],
        CacheOf <- [c1 |-> "l1", c2 |-> "l1", c3 |-> "l2"],
        Jobs <- {[id |-> "v", virtual |-> TRUE, sets |-> {"frame", "stack"}],
                 [id |-> "p", virtual |-> FALSE, sets |-> {"frame", "state"}]},
        Scales <- TRUE, ScalesPending <- FALSE, on <- cores

\* Two sessions whose page tables change twice.
MM == INSTANCE Mmu WITH Sessions <- {"s1", "s2"}, MaxUnmaps <- 2, StallTimesOut <- FALSE

\* Two buffers of a page, two addresses that are not neighbours, and two jobs that may
\* share them; the buffers are dma-bufs, or UMP memory and physical ranges.
IM == INSTANCE ImportedMemory WITH
        Addrs <- {0, 2}, Bufs <- {"b1", "b2"}, Big <- {}, Jobs <- {"j1", "j2"},
        Kinds <- {"dmabuf", "secure"}, Happens <- {}, job <- ppJob
IR == INSTANCE ImportedMemory WITH
        Addrs <- {0, 2}, Bufs <- {"b1", "b2"}, Big <- {}, Jobs <- {"j1", "j2"},
        Kinds <- {"ump", "external"}, Happens <- {}, job <- ppJob

counters == <<src, base, counts, hwSrc, value, events, stale>>
ppCores == <<members, state, vstate, core, cores, vOn, run, vrun, disabled, bcast, dlbu, caches>>
mmu == <<hw, session, job, power, prog, stalled, zapping, half, version, freed>>
imports == <<onAttach, alloc, table, refs, attached, sgts, ppJob, wrong>>

PartInit ==
  /\ part \in {"caches", "counters", "cores", "mmu", "dma-bufs", "ranges"}
  /\ Init /\ CO!Init /\ PC!Init /\ MM!Init /\ IM!Init
  /\ part # "dma-bufs" => onAttach

PartNext ==
  /\ \/ part = "caches" /\ Next /\ UNCHANGED <<counters, ppCores, mmu, imports>>
     \/ part = "counters" /\ CO!Next /\ UNCHANGED <<vars, ppCores, mmu, imports>>
     \/ part = "cores" /\ PC!Next /\ UNCHANGED <<vars, counters, mmu, imports>>
     \/ part = "mmu" /\ MM!Next /\ UNCHANGED <<vars, counters, ppCores, imports>>
     \/ part = "dma-bufs" /\ IM!Next /\ UNCHANGED <<vars, counters, ppCores, mmu>>
     \/ part = "ranges" /\ IR!Next /\ UNCHANGED <<vars, counters, ppCores, mmu>>
  /\ UNCHANGED part

\* The fairness of each component, in its own part.
Imports == part \in {"dma-bufs", "ranges"}

PartFairness ==
  /\ WF_ppCores(part = "cores" /\ PC!PowerUp)
  /\ WF_mmu(part = "mmu" /\ MM!Command)
  /\ SF_mmu(part = "mmu" /\ MM!FaultInterrupt) /\ SF_mmu(part = "mmu" /\ MM!BottomHalf)
  /\ \A j \in {"j1", "j2"} : WF_imports(Imports /\ IM!JobStep(j))
  /\ \A a \in {0, 2} : WF_imports(Imports /\ (IM!UnbindWaited(a) \/ IM!UnbindDmaBuf(a)))

PartSpec ==
  /\ PartInit /\ [][PartNext]_<<part, vars, counters, ppCores, mmu, imports>>
  /\ PartFairness

\* A GP job that may grow uses one cache, a PP job both.
MCCachesOf == ("gp" :> <<"l0">>) @@ ("pp" :> <<"l0", "l1">>)

\* A core that works has power and its own job's registers, MMU and interrupts, and each
\* core of the virtual group its share of the virtual job.
CoresRight == PC!CoresRight

\* A core that works translates with its session's page tables, none of them given back,
\* and a counter of an L2 cache reports what was counted although the cache was off, but
\* for one that was stopped while it was off.
TranslationsAndCounters == MM!TranslationsSound /\ CO!CountersExact

\* A job reads the foreign memory it named, whoever else maps it, and references, attachments
\* and tables of the memory's owners are those of what is bound.
ImportsSound == IM!ImportsSound

\* A virtual group that waits for power gets it, a page fault is dealt with, and
\* unbinding memory that a job uses ends.
HardwareEnds == MM!FaultsEnd /\ PC!VirtualActivated /\ IM!UnbindsEnd
================================================================================
