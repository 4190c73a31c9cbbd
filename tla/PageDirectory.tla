----------------------------- MODULE PageDirectory -----------------------------
(***************************************************************************)
(* The two-level GPU page tables of mali_mmu_page_directory.c, with the    *)
(* pool of table pages of mali_memory_os_alloc.c.  An address is a page    *)
(* number; a page table holds PerTable pages (1024) and a directory NumPdes*)
(* tables.  A table exists while its usage count is not 0.  It comes from  *)
(* the pool with whatever it held before, or empty from the kernel if the  *)
(* pool is empty.  A table page stands for its entries: a directory, a     *)
(* pool slot or the kernel has it.  The caller holds the memory lock of    *)
(* the session, and its ranges do not overlap.                             *)
(***************************************************************************)
EXTENDS Integers, Sequences, FiniteSets, FiniteSetsExt, SequencesExt

CONSTANTS
  Directories, NumPdes, PerTable,
  PoolSize,     \* MALI_MEM_OS_PAGE_TABLE_PAGE_POOL_SIZE
  Values,       \* physical pages; each is mapped at most once
  Sizes,        \* bound: sizes of mappings
  None

VARIABLES
  live,     \* the sessions with a directory
  tables,   \* page_entries_mapped
  usage,    \* page_entries_usage_count
  pool,     \* mali_mem_page_table_page_pool
  mapped,   \* the mappings of each session: first page, number of pages, value
  failed,   \* the sessions one of whose mappings has failed
  flushed   \* whether the last unmap invalidated the L2 caches as a whole

vars == <<live, tables, usage, pool, mapped, failed, flushed>>

Pdes == 0 .. NumPdes - 1
Pages == 0 .. NumPdes * PerTable - 1
Pde(a) == a \div PerTable
Pte(a) == a % PerTable
Span(first, size) == first .. first + size - 1
Empty == [e \in 0 .. PerTable - 1 |-> None]
NoTables == [i \in Pdes |-> None]
NoUse == [i \in Pdes |-> 0]

Init ==
  /\ live = {} /\ failed = {} /\ pool = << >> /\ flushed = [all |-> FALSE, sound |-> TRUE]
  /\ tables = [d \in Directories |-> NoTables] /\ usage = [d \in Directories |-> NoUse]
  /\ mapped = [d \in Directories |-> {}]

\* The pages mali_mem_os_get_table_page hands out, in order, when the kernel has n left,
\* the pool after that, and after pages were given back.
Supply(n) == Reverse(pool) \o [k \in 1 .. n |-> Empty]
PoolWithout(n) == IF n >= Len(pool) THEN << >> ELSE SubSeq(pool, 1, Len(pool) - n)
PoolWith(s) ==
  pool \o SubSeq(s, 1, IF Len(s) < PoolSize - Len(pool) THEN Len(s) ELSE PoolSize - Len(pool))

\* The tables of some entries of a directory, in order.
TablesIn(d, entries) ==
  LET s == SetToSortSeq(entries, <) IN [k \in DOMAIN s |-> tables[d][s[k]]]

--------------------------------------------------------------------------------

\* mali_mmu_pagedir_alloc, which clears the page, and mali_mmu_pagedir_free
Begin(d) ==
  /\ d \notin live /\ live' = live \cup {d} /\ pool' = PoolWithout(1)
  /\ UNCHANGED <<tables, usage, mapped, failed, flushed>>

End(d) ==
  /\ d \in live /\ mapped[d] = {}
  /\ pool' = PoolWith(TablesIn(d, {i \in Pdes : tables[d][i] # None}) \o <<Empty>>)
  /\ tables' = [tables EXCEPT ![d] = NoTables] /\ usage' = [usage EXCEPT ![d] = NoUse]
  /\ live' = live \ {d} /\ failed' = failed \ {d} /\ UNCHANGED <<mapped, flushed>>

\* The usage count of a table after mali_mmu_pagedir_map; a table that the range
\* covers is simply full.
Raised(d, first, size, i) ==
  LET lo == Pde(first)
      hi == Pde(first + size - 1)
  IN  CASE lo = hi -> usage[d][i] + size
        [] lo # hi /\ i = lo -> usage[d][i] + (i + 1) * PerTable - first
        [] lo # hi /\ i = hi -> usage[d][i] + first + size - i * PerTable
        [] OTHER -> PerTable

\* What a caller may map: free addresses, pages not mapped yet.
MayMap(d, first, size, v) ==
  /\ d \in live /\ first + size <= NumPdes * PerTable
  /\ \A m \in mapped[d] : first + size <= m.first \/ m.first + m.size <= first
  /\ \A e \in Directories : \A m \in mapped[e] : m.value # v

\* mali_mmu_pagedir_map, then mali_mmu_pagedir_update by its callers.  If table pages run
\* out, n of the kernel being left, the mapping fails and the tables before stay raised.
Map(d, first, size, v, n) ==
  LET range == Pde(first) .. Pde(first + size - 1)
      absent == SetToSortSeq({i \in range : tables[d][i] = None}, <)
      fails == Len(absent) > Len(Supply(n))
      took == IF fails THEN Len(Supply(n)) ELSE Len(absent)
      done == IF fails THEN {i \in range : i < absent[took + 1]} ELSE range
      Table(i) == IF \E k \in 1 .. took : absent[k] = i
                  THEN Supply(n)[CHOOSE k \in 1 .. took : absent[k] = i] ELSE tables[d][i]
      Updated(i) == [e \in 0 .. PerTable - 1 |->
                       IF i * PerTable + e \in Span(first, size) THEN v ELSE Table(i)[e]]
  IN  /\ MayMap(d, first, size, v)
      /\ fails => failed = {}   \* bound: one mapping fails
      /\ pool' = PoolWithout(took)
      /\ usage' = [usage EXCEPT ![d] = [i \in Pdes |->
                     IF i \in done THEN Raised(d, first, size, i) ELSE @[i]]]
      /\ tables' = [tables EXCEPT ![d] = [i \in Pdes |->
                      IF i \in range /\ ~fails THEN Updated(i) ELSE Table(i)]]
      /\ mapped' = IF fails THEN mapped
                   ELSE [mapped EXCEPT ![d] = @ \cup {[first |-> first, size |-> size, value |-> v]}]
      /\ failed' = IF fails THEN failed \cup {d} ELSE failed
      /\ UNCHANGED <<live, flushed>>

\* How many pages of a mapping mali_mmu_pagedir_unmap finds in a table.
InPde(m, i) ==
  LET end == m.first + m.size
  IN  (IF end < (i + 1) * PerTable THEN end ELSE (i + 1) * PerTable)
        - (IF m.first > i * PerTable THEN m.first ELSE i * PerTable)

\* mali_mmu_pagedir_unmap.  A table no longer used is given back as it is, the entries
\* of one still used are cleared.  Each table that is kept and the directory are
\* invalidated in the L2 caches, or everything if more than two tables are kept.
Unmap(d, m) ==
  LET range == Pde(m.first) .. Pde(m.first + m.size - 1)
      left == [i \in Pdes |-> usage[d][i] - (IF i \in range THEN InPde(m, i) ELSE 0)]
      gone == {i \in range : left[i] = 0}
      kept == range \ gone
      Cleared(i) == [e \in 0 .. PerTable - 1 |->
                       IF i * PerTable + e \in Span(m.first, m.size) THEN None ELSE tables[d][i][e]]
  IN  /\ mapped' = [mapped EXCEPT ![d] = @ \ {m}]
      /\ usage' = [usage EXCEPT ![d] = left]
      /\ tables' = [tables EXCEPT ![d] = [i \in Pdes |->
                      IF i \in gone THEN None ELSE IF i \in kept THEN Cleared(i) ELSE @[i]]]
      /\ pool' = PoolWith(TablesIn(d, gone))
      /\ flushed' = [all |-> Cardinality(kept) > 2, sound |-> d \notin failed]
      /\ UNCHANGED <<live, failed>>

Next ==
  \E d \in Directories :
    \/ Begin(d) \/ End(d)
    \/ \E m \in mapped[d] : Unmap(d, m)
    \/ \E first \in Pages, size \in Sizes, v \in Values, n \in {0, NumPdes} :
         Map(d, first, size, v, n)

--------------------------------------------------------------------------------

\* Every mapped address leads to the page it was mapped to.
TranslationExact ==
  \A d \in Directories : \A m \in mapped[d] : \A a \in Span(m.first, m.size) :
    tables[d][Pde(a)] # None /\ tables[d][Pde(a)][Pte(a)] = m.value

\* A usage count is the number of mapped pages of its table, so that a table lives just
\* as long as it is needed; only a mapping that failed half way leaves counts too high.
\* Then alone the caches may have to be invalidated as a whole.
InUse(d, i) ==
  MapThenSumSet(LAMBDA m : Cardinality({a \in Span(m.first, m.size) : Pde(a) = i}), mapped[d])
UsageExact ==
  /\ \A d \in Directories, i \in Pdes :
       /\ usage[d][i] >= InUse(d, i)
       /\ d \notin failed => usage[d][i] = InUse(d, i)
       /\ (tables[d][i] = None) = (usage[d][i] = 0)
  /\ flushed.all => ~flushed.sound

PagesMapped == TranslationExact /\ UsageExact
================================================================================
