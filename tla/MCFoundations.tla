------------------------------ MODULE MCFoundations ------------------------------
(***************************************************************************)
(* What the driver stands on, in one run: its reentrant spinlock, its      *)
(* start and end (Startup), the table of power domains it sets up then     *)
(* (PowerCost), the control timer (Utilization), the UMP driver (Ump, in   *)
(* two instances), the trace buffer (ProfilingRing) and the streams of     *)
(* samples (ProfilingStreams); and the objects in memory of the two        *)
(* display drivers (DisplayBuffers, H3Display).  They do not interact      *)
(* here; each behaviour is one of the component named by part.             *)
(***************************************************************************)
EXTENDS ReentrantSpinlock, Sequences, FiniteSets

CONSTANT None

VARIABLES
  part,
  phase, at, todo, held, known, misled,
  board, config, groups, best,
  now, gp, pp, start, work, running, period, last, due, callback, queuing, suspending,
  windows, step, busy, elapses, bad,
  mem, tree, list, maps, call, handles, used, ongoing, l1, l2, buf, open, misused,
  state, entries, mask, index, hooked, probe, user, reader, total, crossed, spoilt,
  loaded, free, queue, records, counterStream, activityStream, timer, rate, enabled, pid,
  stopping, counted, working, streamReader, fdUsed, fds, fdAsked, streamFault,
  gem, gemHandles, fbs, vmas, gemBuf, att, foreign, looked, gemFault,
  drv, h3gem, h3fb, crtc, conn, engine, off, h3buf, slips, h3Fault

\* A Mali-400 whose start may fail at every step at which the source undoes what it did.
SQ == INSTANCE Startup WITH MayFail <- {}, MayRebind <- FALSE, LateTick <- FALSE, wrong <- misled

Ignored ==
  {<<"scheduler", "lock">>, <<"check", "reset">>, <<"power", "on">>, <<"power", "off">>, <<"user", "sysfs">>}
  \cup {<<g, w>> : g \in {"gp", "pp"}, w \in {"mmu work", "mmu irq", "core work", "core irq"}}

Among(s) == {s[i] : i \in DOMAIN s}

ST == INSTANCE Startup WITH
        MayFail <- Among(SQ!ProbeSequence) \ (Ignored \cup Among(SQ!SessionInit)
                     \cup Among(SQ!SwapInit) \cup Among(SQ!OsInit)
                     \cup Among(SQ!ConfigMemory) \cup Among(SQ!Populate)),
        MayRebind <- FALSE, LateTick <- FALSE, wrong <- misled

\* Each chip with any number of PP cores, with a PMU and without, and the device tree of
\* the documentation's example.
NoTree == [u \in 0..11 |-> None]
Board(chip, pps, pmu) == [chip |-> chip, pps |-> pps, pmu |-> pmu, tree |-> NoTree, limit |-> 8]
Detected ==
  {Board(chip, 1..n, pmu) : chip \in {400, 470}, n \in 1..4, pmu \in BOOLEAN}
  \cup {Board(450, 1..n, pmu) : n \in 1..8, pmu \in BOOLEAN} \cup {Board(450, {1, 2, 5, 6}, TRUE)}
Example == [Board(400, {1}, TRUE) EXCEPT !.tree = [NoTree EXCEPT ![0] = 0, ![1] = 2, ![9] = 1]]

PC == INSTANCE PowerCost WITH Boards <- Detected \cup {Example}

\* Three clocks, two cores, and times of which the longer outlasts a timeout.
UT == INSTANCE Utilization WITH
        WordBits <- 6, ScaleBits <- 2, Clocks <- <<2, 5, 8>>, Second <- 60, MaxSystemFps <- 60,
        DesiredFps <- 58, MaxCores <- 2, Elapses <- {1, 40}, MaxElapses <- 3, MaxWindows <- 1,
        FirstTimeout <- 1, Timeout <- 2, SuspendRaces <- FALSE

\* Two processes: of one cached memory that the GPU shares, or of two memories.
U1 == INSTANCE Ump WITH
        Mems <- {1}, Sessions <- {"s1", "s2"}, Threads <- {"t1", "t2"},
        SessionOf <- [t1 |-> "s1", t2 |-> "s2"], Ids <- {1}, Blocks <- {<<1, 2>>}, Maps <- {"v1"},
        MaxPages <- 6, MaxCookies <- 1, MaxHandles <- 1, Kinds <- {TRUE}, Shares <- TRUE,
        OuterCache <- FALSE, BlockFails <- FALSE, MaySplit <- FALSE, MayInterrupt <- FALSE,
        ImportTwice <- FALSE, MayCrash <- FALSE, CopyFails <- FALSE, wrong <- misused
U2 == INSTANCE Ump WITH
        Mems <- {1, 2}, Sessions <- {"s1", "s2"}, Threads <- {"t1", "t2"},
        SessionOf <- [t1 |-> "s1", t2 |-> "s2"], Ids <- {1, 2}, Blocks <- {<<1, 2>>}, Maps <- {"v1"},
        MaxPages <- 6, MaxCookies <- 1, MaxHandles <- 1, Kinds <- {FALSE}, Shares <- FALSE,
        OuterCache <- FALSE, BlockFails <- FALSE, MaySplit <- FALSE, MayInterrupt <- FALSE,
        ImportTwice <- FALSE, MayCrash <- FALSE, CopyFails <- FALSE, wrong <- misused

\* A ring of four events, written from two CPUs; two processes start, stop and clear it.
PR == INSTANCE ProfilingRing WITH
        Users <- {"u1", "u2"}, Cpus <- {"c1", "c2"}, Limit <- 5, WordBits <- 4, MaxEvents <- 6,
        Happens <- {}, wrong <- spoilt

\* Two streams of two records, two cores and a reader.
PS == INSTANCE ProfilingStreams WITH
        Clients <- {"a", "b"}, Cores <- {"c1", "c2"}, Streams <- {"s1", "s2"}, Readers <- {"r1"},
        Activity <- {"c1", "c2"}, Room <- 2, ReadRoom <- 2, GroupBits <- 2, WordBits <- 5,
        Happens <- {}, used <- records, busy <- working, reader <- streamReader,
        wrong <- streamFault

\* An object of the display driver and two clients.
DB == INSTANCE DisplayBuffers WITH
        Gems <- {"g1"}, Clients <- {"a", "b"}, MaxUses <- 2, Kinds <- {"contig", "pages"},
        Steps <- {"first page"}, HandleFails <- FALSE, AnyMemory <- FALSE, FbdevExports <- FALSE,
        Remaps <- FALSE, handles <- gemHandles, buf <- gemBuf, sync <- looked, wrong <- gemFault

\* The display of the H3: two framebuffers of one object in two formats, two of two
\* objects, and one of two objects of which one has single pages.
H1 == INSTANCE H3Display WITH
        Gems <- {"g1"}, Fbs <- {"f1", "f2"}, MaxUses <- 1, Output <- "hdmi",
        Kinds <- {"contig", "pages", "foreign"}, Modes <- {"720p60", "1080p60", "vga"},
        Formats <- {"XRGB8888", "NV12"}, LoadFails <- {"private", "crtc", "encoder", "connector"},
        Happens <- {}, gem <- h3gem, fb <- h3fb, buf <- h3buf, wrong <- h3Fault
H2 == INSTANCE H3Display WITH
        Gems <- {"g1", "g2"}, Fbs <- {"f1", "f2"}, MaxUses <- 1, Output <- "lcd",
        Kinds <- {"contig"}, Modes <- {"720p60"}, Formats <- {"XRGB8888"}, LoadFails <- {},
        Happens <- {}, gem <- h3gem, fb <- h3fb, buf <- h3buf, wrong <- h3Fault
H3 == INSTANCE H3Display WITH
        Gems <- {"g1", "g2"}, Fbs <- {"f1"}, MaxUses <- 1, Output <- "lcd",
        Kinds <- {"contig", "pages"}, Modes <- {"720p60"}, Formats <- {"NV12"}, LoadFails <- {},
        Happens <- {}, gem <- h3gem, fb <- h3fb, buf <- h3buf, wrong <- h3Fault

startup == <<phase, at, todo, held, known, misled>>
table == <<board, config, groups, best>>
clock == <<now, gp, pp, start, work, running, period, last, due, callback, queuing, suspending,
           windows, step, busy, elapses, bad>>
ump == <<mem, tree, list, maps, call, handles, used, ongoing, l1, l2, buf, open, misused>>
ring == <<state, entries, mask, index, hooked, probe, user, reader, total, crossed, spoilt>>
streams == <<loaded, free, queue, records, counterStream, activityStream, timer, rate, enabled,
             pid, stopping, counted, working, streamReader, fdUsed, fds, fdAsked, streamFault>>
objects == <<gem, gemHandles, fbs, vmas, gemBuf, att, foreign, looked, gemFault>>
h3 == <<drv, h3gem, h3fb, crtc, conn, engine, off, h3buf, slips, h3Fault>>
shows == <<objects, h3>>

PartInit ==
  /\ part \in {"lock", "start", "board", "clock", "one memory", "two memories", "ring", "streams",
               "objects", "h3 formats", "h3 objects", "h3 planes"}
  /\ Init /\ ST!Init /\ PC!Init /\ UT!Init /\ PR!Init /\ PS!Init /\ DB!Init
  /\ CASE part = "h3 objects" -> H2!Init
       [] part = "h3 planes" -> H3!Init
       [] part = "h3 formats" -> H1!Init
       [] OTHER -> H1!Init /\ slips = {}
  /\ part # "board" => board = Example
  /\ IF part = "two memories" THEN U2!Init ELSE U1!Init

PartNext ==
  /\ \/ part = "lock" /\ Next /\ UNCHANGED <<startup, table, clock, ump, ring, streams, shows>>
     \/ part = "start" /\ ST!Next /\ UNCHANGED <<vars, table, clock, ump, ring, streams, shows>>
     \/ part = "board" /\ PC!Next /\ UNCHANGED <<vars, startup, clock, ump, ring, streams, shows>>
     \/ part = "clock" /\ UT!Next /\ UNCHANGED <<vars, startup, table, ump, ring, streams, shows>>
     \/ /\ \/ part = "one memory" /\ U1!Next
           \/ part = "two memories" /\ U2!Next
        /\ UNCHANGED <<vars, startup, table, clock, ring, streams, shows>>
     \/ part = "ring" /\ PR!Next /\ UNCHANGED <<vars, startup, table, clock, ump, streams, shows>>
     \/ part = "streams" /\ PS!Next /\ UNCHANGED <<vars, startup, table, clock, ump, ring, shows>>
     \/ /\ \/ part = "objects" /\ DB!Next /\ UNCHANGED h3
           \/ part = "h3 formats" /\ H1!Next /\ UNCHANGED objects
           \/ part = "h3 objects" /\ H2!Next /\ UNCHANGED objects
           \/ part = "h3 planes" /\ H3!Next /\ UNCHANGED objects
        /\ UNCHANGED <<vars, startup, table, clock, ump, ring, streams>>
  /\ UNCHANGED part

PartSpec == PartInit /\ [][PartNext]_<<part, vars, startup, table, clock, ump, ring, streams, shows>>

\* A start that fails and an end of the driver release what was allocated, once, and in
\* an order in which nothing is used after it was released (mali_kernel_core.c); the
\* table of power costs names, for every number of PP cores, as many cores that exist and
\* cost least (mali_pm.c); the control timer runs exactly while a core works, the work it
\* adds up never exceeds the time, and a clock it sets fits the load (mali_utilization.c).
DriverSound ==
  /\ part = "start" => ST!StartupSound
  /\ part = "board" => PC!CheapestCores
  /\ part = "clock" => UT!UtilizationSound

\* UMP memory lives while anybody has it, has one id, is mapped only where it lives, and
\* the GPU and the CPUs see what the other wrote.
UmpMemorySound ==
  /\ part = "one memory" => U1!UmpMemorySound
  /\ part = "two memories" => U2!UmpMemorySound

\* The ring returns events whole, each once and oldest first, and no event is written
\* into a ring that is gone, unless one process clears the recording while the stop of
\* another still waits or a reader is at it; a sample is in one stream only, each stream
\* in one list, and the timer samples exactly while a client asked for it.
ProfilingSound ==
  /\ part = "ring" => PR!RingSound
  /\ part = "streams" => PS!StreamsSound /\ PS!CountersSound

\* An object of a display driver lives as long as a handle, a framebuffer, a mapping, a
\* dma-buf or a call has it, and is released once; and the display of the H3 reads live
\* and contiguous memory, as long as no client removes what is shown, makes framebuffers
\* of single pages or leaves planes out.
MemoryShown ==
  /\ part = "objects" => DB!BuffersSound
  /\ part = "h3 formats" => H1!DisplaySound
  /\ part = "h3 objects" => H2!DisplaySound
  /\ part = "h3 planes" => H3!DisplaySound
================================================================================
