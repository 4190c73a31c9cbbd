-------------------------------- MODULE Memory --------------------------------
(***************************************************************************)
(* The memory a session allocates for the GPU: pages of the operating      *)
(* system, handed out through a pool, or blocks of dedicated memory;       *)
(* allocations that are resized, bound only when a job needs them, or      *)
(* copied on write, so that pages are shared and counted; CPU mappings     *)
(* that keep an allocation alive.  Threads of the process work on          *)
(* different allocations at a time; those may still share pages.           *)
(*                                                                         *)
(* Copies on write share pages one by one; the other operations take one   *)
(* step, between the locks they hold.  The count of a page is updated      *)
(* atomically, that of a block by a read and a write.                      *)
(***************************************************************************)
EXTENDS Integers, Sequences, FiniteSets, SequencesExt, FiniteSetsExt

CONSTANTS
  Threads,
  Allocs,   \* GPU addresses
  OsPages,  \* a set of integers, as Blocks: the lowest is handed out first
  Blocks,   \* dedicated memory, if there is any
  MaxSize,  \* bound on the pages of an allocation
  Limit,    \* allocation_limit, in pages
  MaxChanges, \* bound on the pages of a copy replaced by page faults
  MaxCharge \* bound: above it no page is replaced; threads that do so at a time
            \* may raise what the session is charged for without end

VARIABLES
  mem,      \* the allocations
  gpu,      \* the pages the page directory maps them to
  store,    \* counts of pages, the page pool and the free blocks
  counted,  \* mali_mem_allocated_pages of the session
  drifted,  \* a modification failed half way, which is miscounted; bound: one does
  op        \* what a thread is doing

vars == <<mem, gpu, store, counted, drifted, op>>

Pages == OsPages \cup Blocks

\* The n lowest of a set of integers, in order
Lowest(S, n) == [i \in 1 .. n |-> CHOOSE x \in S : Cardinality({y \in S : y <= x}) = i]

NoBackend == [kind |-> "none"]
Idle == [do |-> "idle"]

\* An allocation. The user's handle and each CPU mapping hold a reference.
Allocation(kind, nodes, size, resizable) ==
  [kind |-> kind, nodes |-> nodes, size |-> size, resizable |-> resizable,
   cowed |-> FALSE, changes |-> 0, handle |-> TRUE, maps |-> 0]

Init ==
  /\ mem = [a \in Allocs |-> NoBackend] /\ gpu = [a \in Allocs |-> <<>>]
  /\ store = [refs |-> [p \in Pages |-> 0], pool |-> {}, allocated |-> 0,
              free |-> Blocks, freeNum |-> Cardinality(Blocks)]
  /\ counted = 0 /\ drifted = FALSE /\ op = [t \in Threads |-> Idle]

(***************************************************************************)
(* Pages                                                                   *)
(***************************************************************************)
\* Pages the system has not given to the driver
Fresh == {p \in OsPages : store.refs[p] = 0}
FromPool(n) == IF n < Cardinality(store.pool) THEN n ELSE Cardinality(store.pool)

\* n pages, from the pool first
Grabbed(n) == Lowest(store.pool, FromPool(n)) \o Lowest(Fresh, n - FromPool(n))
CanGrab(n) == store.allocated + n <= Limit /\ Cardinality(Fresh) >= n - FromPool(n)

Grab(s, n) ==
  [s EXCEPT !.pool = @ \ ToSet(Grabbed(n)), !.allocated = @ + n,
            !.refs = [p \in Pages |-> IF p \in ToSet(Grabbed(n)) THEN 1 ELSE @[p]]]

\* The system has no more after k fresh pages: all that was taken goes to the pool
GrabFails(s, k) ==
  [s EXCEPT !.pool = @ \cup ToSet(Lowest(Fresh, k)),
            !.refs = [p \in Pages |-> IF p \in ToSet(Lowest(Fresh, k)) THEN 1 ELSE @[p]]]

\* mali_mem_os_alloc_pages fails, at the limit or for want of pages
NoPages(n) ==
  \/ store.allocated + n > Limit /\ store' = store
  \/ /\ store.allocated + n <= Limit /\ n > FromPool(n)
     /\ \E k \in 0 .. n - FromPool(n) - 1 :
          k <= Cardinality(Fresh) /\ store' = GrabFails(store, k)

\* A single page may not be had
NoPage == FromPool(1) = 0 \/ ~ CanGrab(1)

\* Blocks for n pages, <<>> if there are not more than that
BlockAlloc(n) == IF store.freeNum > n THEN Lowest(store.free, n) ELSE <<>>
TakeBlocks(s, b) ==
  [s EXCEPT !.free = @ \ ToSet(b), !.freeNum = @ - Len(b),
            !.refs = [p \in Pages |-> IF p \in ToSet(b) THEN 1 ELSE @[p]]]

\* Pages nobody else holds go to the pool, or back to the free blocks
LastUser(s, nodes) == {p \in ToSet(nodes) : s.refs[p] = 1}
FreeShared(s, nodes) ==
  [s EXCEPT !.pool = @ \cup (LastUser(s, nodes) \cap OsPages),
            !.allocated = @ - Cardinality(LastUser(s, nodes) \cap OsPages),
            !.free = @ \cup (LastUser(s, nodes) \cap Blocks),
            !.freeNum = @ + Cardinality(LastUser(s, nodes) \cap Blocks),
            !.refs = [p \in Pages |->
                        IF p \in ToSet(nodes) /\ ~ (p \in OsPages /\ @[p] = 1)
                        THEN @[p] - 1 ELSE @[p]]]

\* Pages known to be nobody else's
FreeOwn(s, nodes) ==
  [s EXCEPT !.pool = @ \cup ToSet(nodes), !.allocated = @ - Len(nodes)]

\* A page of the system is put without going to the pool
PutPage(s, p) ==
  [s EXCEPT !.refs[p] = @ - 1, !.allocated = IF s.refs[p] = 1 THEN @ - 1 ELSE @]

\* A block is put by a thread that read the count n
PutBlock(s, p, n) ==
  [s EXCEPT !.refs[p] = n - 1,
            !.free = IF n = 1 THEN @ \cup {p} ELSE @,
            !.freeNum = IF n = 1 THEN @ + 1 ELSE @]

(***************************************************************************)
(* Allocating, resizing, binding and freeing                               *)
(***************************************************************************)
Busy(a) == \E t \in Threads : op[t].do # "idle" /\ a \in {op[t].a, op[t].from}
Ready(t, a) == op[t] = Idle /\ ~ Busy(a)
Alive(a) == mem[a] # NoBackend /\ mem[a].handle

\* Memory that can be resized is of the system, and so is memory bound later;
\* other memory is dedicated memory first
Allocate(t, a, n, resizable) ==
  LET b == IF resizable THEN <<>> ELSE BlockAlloc(n) IN
  /\ Ready(t, a) /\ mem[a] = NoBackend
  /\ \/ /\ b # <<>>
        /\ store' = TakeBlocks(store, b)
        /\ mem' = [mem EXCEPT ![a] = Allocation("block", b, n, FALSE)]
        /\ gpu' = [gpu EXCEPT ![a] = b] /\ counted' = counted + n
     \/ /\ b = <<>> /\ CanGrab(n)
        /\ store' = Grab(store, n)
        /\ mem' = [mem EXCEPT ![a] = Allocation("os", Grabbed(n), n, resizable)]
        /\ gpu' = [gpu EXCEPT ![a] = Grabbed(n)] /\ counted' = counted + n
     \/ b = <<>> /\ n > 0 /\ NoPages(n) /\ UNCHANGED <<mem, gpu, counted>>
  /\ UNCHANGED <<drifted, op>>

\* The pages come when a job is started
AllocateDeferred(t, a, n) ==
  /\ Ready(t, a) /\ mem[a] = NoBackend /\ n > 0
  /\ mem' = [mem EXCEPT ![a] = Allocation("os", <<>>, n, FALSE)]
  /\ UNCHANGED <<gpu, store, counted, drifted, op>>

Unbound(a) == Alive(a) /\ mem[a].kind = "os" /\ Len(mem[a].nodes) < mem[a].size

\* A job starts whose varying memory is not bound yet (one such allocation)
Bind(t, a) ==
  LET n == mem[a].size IN
  /\ Ready(t, a) /\ Unbound(a)
  /\ \/ /\ CanGrab(n)
        /\ store' = Grab(store, n)
        /\ mem' = [mem EXCEPT ![a].nodes = Grabbed(n)]
        /\ gpu' = [gpu EXCEPT ![a] = Grabbed(n)] /\ counted' = counted + n
     \/ NoPages(n) /\ UNCHANGED <<mem, gpu, counted>>
  /\ UNCHANGED <<drifted, op>>

Resizable(a) == Alive(a) /\ mem[a].resizable

\* More pages; if they cannot be mapped, they go to the pool again
Grow(t, a, n) ==
  LET more == n - mem[a].size
      nodes == mem[a].nodes \o Grabbed(more) IN
  /\ Ready(t, a) /\ Resizable(a) /\ n > mem[a].size
  /\ \/ /\ CanGrab(more)
        /\ \/ /\ store' = Grab(store, more)
              /\ mem' = [mem EXCEPT ![a].nodes = nodes, ![a].size = n]
              /\ gpu' = [gpu EXCEPT ![a] = nodes] /\ counted' = counted + more
           \/ /\ store' = FreeOwn(Grab(store, more), Grabbed(more))
              /\ UNCHANGED <<mem, gpu, counted>>
     \/ NoPages(more) /\ UNCHANGED <<mem, gpu, counted>>
  /\ UNCHANGED <<drifted, op>>

\* Mutant: the GPU keeps the pages that are given up.
Shrink_KeepMap(t, a, n) ==
  /\ Ready(t, a) /\ Resizable(a) /\ n < mem[a].size
  /\ store' = FreeOwn(store, SubSeq(mem[a].nodes, n + 1, mem[a].size))
  /\ mem' = [mem EXCEPT ![a].nodes = SubSeq(@, 1, n), ![a].size = n]
  /\ counted' = counted - (mem[a].size - n)
  /\ UNCHANGED <<gpu, drifted, op>>

\* The last pages are unmapped, then freed
Shrink(t, a, n) ==
  /\ Ready(t, a) /\ Resizable(a) /\ n < mem[a].size
  /\ store' = FreeOwn(store, SubSeq(mem[a].nodes, n + 1, mem[a].size))
  /\ mem' = [mem EXCEPT ![a].nodes = SubSeq(@, 1, n), ![a].size = n]
  /\ gpu' = [gpu EXCEPT ![a] = SubSeq(@, 1, n)]
  /\ counted' = counted - (mem[a].size - n)
  /\ UNCHANGED <<drifted, op>>

\* The last reference to an allocation is dropped. Without pages of its own
\* kind of memory there is nothing to free.
Release(a) ==
  LET nodes == mem[a].nodes
      own == mem[a].kind = "os" /\ ~ mem[a].cowed IN
  /\ store' = IF own THEN FreeOwn(store, nodes) ELSE FreeShared(store, nodes)
  /\ counted' = counted - (IF own THEN Len(nodes) ELSE Cardinality(LastUser(store, nodes)))
  /\ mem' = [mem EXCEPT ![a] = NoBackend] /\ gpu' = [gpu EXCEPT ![a] = <<>>]

Unref(a, m) ==
  IF m.maps = 0 /\ ~ m.handle THEN Release(a)
  ELSE mem' = [mem EXCEPT ![a] = m] /\ UNCHANGED <<gpu, store, counted>>

Free(t, a) ==
  /\ Ready(t, a) /\ Alive(a)
  /\ Unref(a, [mem[a] EXCEPT !.handle = FALSE]) /\ UNCHANGED <<drifted, op>>

Unmap(t, a) ==
  /\ Ready(t, a) /\ mem[a] # NoBackend /\ mem[a].maps > 0
  /\ Unref(a, [mem[a] EXCEPT !.maps = @ - 1]) /\ UNCHANGED <<drifted, op>>

\* mmap, but not of memory that is bound later; at most one mapping here
Map(t, a) ==
  /\ Ready(t, a) /\ Alive(a) /\ mem[a].maps = 0 /\ ~ Unbound(a)
  /\ mem' = [mem EXCEPT ![a].maps = @ + 1]
  /\ UNCHANGED <<gpu, store, counted, drifted, op>>

\* The shrinker, or the trimming of the pool, gives a page back to the system
ShrinkPool ==
  /\ store.pool # {}
  /\ store' = [store EXCEPT !.pool = @ \ {Min(store.pool)}, !.refs[Min(store.pool)] = 0]
  /\ UNCHANGED <<mem, gpu, counted, drifted, op>>

(***************************************************************************)
(* Copy on write                                                           *)
(***************************************************************************)
\* A copy c of an allocation without its first pages, with new pages for
\* lo..hi. The copy is made page by page, holding the mutex of the target.
Cow(t, target, c, skip, lo, hi) ==
  /\ Ready(t, c) /\ ~ Busy(target) /\ mem[c] = NoBackend
  /\ Alive(target) /\ ~ mem[target].resizable /\ ~ Unbound(target)
  /\ skip < mem[target].size /\ hi <= mem[target].size - skip
  /\ mem' = [mem EXCEPT ![c] = Allocation("cow", <<>>, mem[target].size - skip, FALSE)]
  /\ op' = [op EXCEPT ![t] =
              [do |-> "cow", a |-> c, from |-> target, read |-> 0, lo |-> lo, hi |-> hi,
               rest |-> SubSeq(mem[target].nodes, skip + 1, mem[target].size)]]
  /\ UNCHANGED <<gpu, store, counted, drifted>>

\* The copy is given up: a page, or room in the page directory, was not to be had
CowFails(t, s) ==
  /\ store' = FreeShared(s, mem[op[t].a].nodes)
  /\ mem' = [mem EXCEPT ![op[t].a] = NoBackend]
  /\ op' = [op EXCEPT ![t] = Idle]
  /\ UNCHANGED <<gpu, counted, drifted>>

Added(t, p, s) ==
  /\ store' = s
  /\ mem' = [mem EXCEPT ![op[t].a].nodes = Append(@, p)]
  /\ op' = [op EXCEPT ![t].rest = Tail(@), ![t].read = 0]
  /\ UNCHANGED <<gpu, counted, drifted>>

CowPage(t) ==
  LET o == op[t]
      i == Len(mem[o.a].nodes) + 1
      p == Head(o.rest) IN
  /\ o.do = "cow" /\ o.rest # <<>>
  /\ \/ /\ i \in o.lo .. o.hi
        /\ \/ CanGrab(1) /\ Added(t, Grabbed(1)[1], Grab(store, 1))
           \/ NoPage /\ CowFails(t, store)
     \/ i \notin o.lo .. o.hi /\ p \in OsPages /\ Added(t, p, [store EXCEPT !.refs[p] = @ + 1])
     \/ /\ i \notin o.lo .. o.hi /\ p \in Blocks /\ o.read = 0
        /\ op' = [op EXCEPT ![t].read = store.refs[p]]
        /\ UNCHANGED <<mem, gpu, store, counted, drifted>>
     \/ /\ i \notin o.lo .. o.hi /\ p \in Blocks /\ o.read > 0
        /\ Added(t, p, [store EXCEPT !.refs[p] = o.read + 1])

\* Mutant: the backend is not marked as copied from.
CowEnd_NoFlag(t) ==
  LET o == op[t] IN
  /\ o.do = "cow" /\ o.rest = <<>>
  /\ gpu' = [gpu EXCEPT ![o.a] = mem[o.a].nodes] /\ mem' = mem
  /\ counted' = counted + (o.hi + 1 - o.lo)
  /\ op' = [op EXCEPT ![t] = Idle] /\ UNCHANGED <<store, drifted>>

\* The copy is mapped, and only then the target is known to be copied
CowEnd(t) ==
  LET o == op[t] IN
  /\ o.do = "cow" /\ o.rest = <<>>
  /\ \/ /\ gpu' = [gpu EXCEPT ![o.a] = mem[o.a].nodes]
        /\ mem' = [mem EXCEPT ![o.from].cowed = TRUE]
        /\ counted' = counted + (o.hi + 1 - o.lo)
        /\ op' = [op EXCEPT ![t] = Idle] /\ UNCHANGED <<store, drifted>>
     \/ CowFails(t, store)

\* New pages for lo..hi of a copy, by _mali_ukk_mem_cow_modify_range, or for
\* one page of it that the CPU writes to
Modify(t, c, lo, hi, do) ==
  /\ Ready(t, c) /\ mem[c] # NoBackend /\ mem[c].kind = "cow" /\ hi <= mem[c].size /\ lo <= hi
  /\ counted < MaxCharge
  /\ IF do = "fault" THEN mem[c].maps > 0 /\ lo = hi /\ mem[c].changes < MaxChanges
     ELSE mem[c].handle /\ ~ drifted
  /\ op' = [op EXCEPT ![t] =
              [do |-> do, a |-> c, from |-> c, read |-> 0, lo |-> lo, hi |-> hi, first |-> lo,
               changed |-> 0]]
  /\ UNCHANGED <<mem, gpu, store, counted, drifted>>

\* The page is replaced; its count was n when it was looked at
Replace(t, s, n) ==
  LET o == op[t]
      new == Grabbed(1)[1] IN
  /\ store' = s
  /\ mem' = [mem EXCEPT ![o.a].nodes[o.lo] = new]
  /\ op' = [op EXCEPT ![t].lo = @ + 1, ![t].read = 0,
                      ![t].changed = IF n # 1 THEN @ + 1 ELSE @]
  /\ UNCHANGED <<gpu, counted, drifted>>

\* The range is mapped again, and the pages it shares no longer are counted.
\* A modification that fails half way maps it, too, but counts what the last
\* one changed.
Remap(t, changed, failed) ==
  LET o == op[t] IN
  /\ gpu' = [gpu EXCEPT ![o.a] = [i \in DOMAIN @ |-> IF i \in o.first .. o.hi
                                                     THEN mem[o.a].nodes[i] ELSE @[i]]]
  /\ counted' = counted + changed
  /\ mem' = IF failed THEN mem
            ELSE [mem EXCEPT ![o.a].changes = IF o.do = "fault" THEN @ + changed ELSE changed]
  /\ drifted' = (drifted \/ failed)
  /\ op' = [op EXCEPT ![t] = Idle] /\ UNCHANGED store

ModifyPage(t) ==
  LET o == op[t]
      p == mem[o.a].nodes[o.lo] IN
  /\ o.do \in {"modify", "fault"} /\ o.lo <= o.hi
  /\ \/ /\ o.read = 0 /\ CanGrab(1) /\ op' = [op EXCEPT ![t].read = store.refs[p]]
        /\ UNCHANGED <<mem, gpu, store, counted, drifted>>
     \/ /\ o.read > 0 /\ CanGrab(1)
        /\ Replace(t, IF p \in OsPages THEN PutPage(Grab(store, 1), p)
                      ELSE PutBlock(Grab(store, 1), p, o.read), o.read)
     \/ /\ NoPage
        /\ \/ o.do = "modify" /\ Remap(t, mem[o.a].changes, TRUE)
           \/ o.do = "fault" /\ op' = [op EXCEPT ![t] = Idle]
              /\ UNCHANGED <<mem, gpu, store, counted, drifted>>

ModifyEnd(t) ==
  /\ op[t].do \in {"modify", "fault"} /\ op[t].lo > op[t].hi
  /\ Remap(t, op[t].changed, FALSE)

Next ==
  \/ ShrinkPool
  \/ \E t \in Threads :
       \/ CowPage(t) \/ CowEnd(t) \/ ModifyPage(t) \/ ModifyEnd(t)
       \/ \E a \in Allocs :
            \/ Bind(t, a) \/ Free(t, a) \/ Map(t, a) \/ Unmap(t, a)
            \/ \E n \in 0 .. MaxSize :
                 \/ \E r \in BOOLEAN : Allocate(t, a, n, r)
                 \/ AllocateDeferred(t, a, n) \/ Grow(t, a, n) \/ Shrink(t, a, n)
            \/ \E lo \in 1 .. MaxSize, hi \in 0 .. MaxSize :
                 \/ \E do \in {"modify", "fault"} : Modify(t, a, lo, hi, do)
                 \/ \E c \in Allocs, skip \in 0 .. MaxSize - 1 :
                      hi >= lo - 1 /\ Cow(t, a, c, skip, lo, hi)

Spec == Init /\ [][Next]_vars

(***************************************************************************)
(* Properties                                                              *)
(***************************************************************************)
Held(p) == {<<a, i>> \in Allocs \X (1 .. MaxSize) :
              mem[a] # NoBackend /\ i \in DOMAIN mem[a].nodes /\ mem[a].nodes[i] = p}

\* A page is counted once for each allocation that uses it, the pool included,
\* and is handed out only when nobody uses it: a copy keeps the pages it shares
\* when the original is freed, and the last to go gives each page back once
PagesExact ==
  /\ \A p \in Pages : store.refs[p] = Cardinality(Held(p)) + (IF p \in store.pool THEN 1 ELSE 0)
  /\ \A p \in store.pool \cup store.free : Held(p) = {}
  /\ store.allocated = Cardinality({p \in OsPages : Held(p) # {}})
  /\ store.free = {p \in Blocks : Held(p) = {}} /\ store.freeNum = Cardinality(store.free)

\* The GPU sees the pages of an allocation that is not being changed, and the
\* session is charged for each page it holds once, whoever shares it
SessionExact ==
  /\ \A a \in Allocs : ~ Busy(a) => gpu[a] = (IF mem[a] = NoBackend THEN <<>> ELSE mem[a].nodes)
  /\ (~ drifted /\ \A t \in Threads : op[t] = Idle)
       => counted = Cardinality({p \in Pages : Held(p) # {}})
====
