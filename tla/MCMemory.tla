-------------------------------- MODULE MCMemory --------------------------------
(***************************************************************************)
(* GPU memory in one run: allocations (Memory, in three instances),        *)
(* swappable memory (SwapMemory), page tables (PageDirectory) and the page *)
(* directories that groups use (GroupSessions).  Each behaviour is one of  *)
(* the instance named by part.                                             *)
(***************************************************************************)
EXTENDS GroupSessions, Sequences, TLC

CONSTANTS
  Three,   \* allocations
  Pair,    \* whatever there are two of that are alike
  Nobody

VARIABLES
  part,
  mem, gpu, store, counted, drifted, op,
  bk, lock, moved, swapPool, size, visit, limit, swapJob,
  open, tables, usage, tablePool, mapped, failed, flushed

\* One thread, dedicated memory and pages of the system: three allocations of a page,
\* or two of two pages, among them such that are copied twice or resized.
M1 == INSTANCE Memory WITH Threads <- {"t"}, Allocs <- Three, OsPages <- {1, 2},
        Blocks <- {5}, MaxSize <- 1, Limit <- 2, MaxChanges <- 1, MaxCharge <- 9
M2 == INSTANCE Memory WITH Threads <- {"t"}, Allocs <- Pair, OsPages <- {1, 2},
        Blocks <- {5, 6, 7}, MaxSize <- 2, Limit <- 2, MaxChanges <- 1, MaxCharge <- 9

\* Two threads, and pages of the system only.
MT == INSTANCE Memory WITH Threads <- Pair, Allocs <- Pair, OsPages <- {1, 2, 3},
        Blocks <- {}, MaxSize <- 1, Limit <- 2, MaxChanges <- 2, MaxCharge <- 3

\* Two jobs that use the same two backends, in opposite order.
SW == INSTANCE SwapMemory WITH
        Backends <- Pair, Items <- {1, 2, 3}, Jobs <- Pair,
        Uses <- [j \in Pair |-> <<j, CHOOSE b \in Pair : b # j>>], Pages <- 2,
        Threshold <- 2, stale <- moved, pool <- swapPool,
        job <- swapJob

\* One directory of three tables of two pages.
PD == INSTANCE PageDirectory WITH
        Directories <- {"d"}, NumPdes <- 3, PerTable <- 2, PoolSize <- 1, Values <- Pair,
        Sizes <- {1, 3, 5}, None <- Nobody, live <- open, pool <- tablePool

memory == <<mem, gpu, store, counted, drifted, op>>
swap == <<bk, lock, moved, swapPool, size, visit, limit, swapJob>>
pages == <<open, tables, usage, tablePool, mapped, failed, flushed>>

PartInit ==
  /\ part \in {"one page", "two pages", "threads", "swap", "pages", "groups"}
  /\ CASE part = "two pages" -> M2!Init [] part = "threads" -> MT!Init [] OTHER -> M1!Init
  /\ SW!Init /\ PD!Init /\ Init

PartNext ==
  /\ \/ part = "one page" /\ M1!Next /\ UNCHANGED <<swap, pages, vars>>
     \/ part = "two pages" /\ M2!Next /\ UNCHANGED <<swap, pages, vars>>
     \/ part = "threads" /\ MT!Next /\ UNCHANGED <<swap, pages, vars>>
     \/ part = "swap" /\ SW!Next /\ UNCHANGED <<memory, pages, vars>>
     \/ part = "pages" /\ PD!Next /\ UNCHANGED <<memory, swap, vars>>
     \/ part = "groups" /\ Next /\ UNCHANGED <<memory, swap, pages>>
  /\ UNCHANGED part

PartSpec == PartInit /\ [][PartNext]_<<part, memory, swap, pages, vars>>

Symmetry == Permutations(Three) \cup Permutations(Pair) \cup Permutations(Sessions)

\* A page is counted once for each allocation that has it, pools and limits included, and
\* handed out only when nobody has it, whatever is copied, replaced, resized or freed.
PagesExact ==
  CASE part = "two pages" -> M2!PagesExact
    [] part = "threads" -> MT!PagesExact
    [] OTHER -> M1!PagesExact

\* The GPU sees the pages of each allocation, and the session is charged for each page it
\* has once.  The charge is not exact when two threads replace shared pages at a time.
SessionExact ==
  CASE part = "two pages" -> M2!SessionExact
    [] part = "threads" -> TRUE
    [] OTHER -> M1!SessionExact

\* Swappable memory of a running job is in, and where the GPU was told it is; and every
\* mapped address leads to its page, through a page table that lives as long as it is used.
WhereTheGpuLooks == SW!SwappedInForJobs /\ PD!PagesMapped
================================================================================
