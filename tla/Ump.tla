---------------------------------- MODULE Ump ----------------------------------
(***************************************************************************)
(* The unified memory provider (ump/common and ump/linux): memory that     *)
(* processes and drivers share by a random number, its secure id.          *)
(*                                                                         *)
(* A memory has a reference for every entry of a session's list, for every *)
(* mapping and for every kernel handle; the tree of ids has none, and a    *)
(* lookup takes one.  The last reference to go takes the memory from the   *)
(* tree and gives it back to its backend.                                  *)
(*                                                                         *)
(* Clients release what they have, one thread of a session switches the    *)
(* user of a memory at a time, and the CPU writes while it is the user.    *)
(***************************************************************************)
EXTENDS Integers, Sequences, FiniteSets, FiniteSetsExt, SequencesExt

CONSTANTS
  Mems, Sessions, Threads, None,
  SessionOf,        \* the session each thread works in
  Ids,              \* random numbers; 0 is what the id of a new memory holds
  Blocks,           \* the block sizes a memory may have, as sequences
  Maps,             \* vm areas
  MaxPages, MaxCookies, MaxHandles,
  Kinds,            \* whether clients ask for cached memory or not
  Shares,           \* whether the GPU uses the memory too
  OuterCache,       \* whether there is a cache beyond the one flushed by the CPU
  BlockFails,       \* whether mapping a block may fail
  MaySplit,         \* whether the first of two pieces of a vm area may be unmapped first
  MayInterrupt,     \* whether a signal may interrupt the release to the backend
  ImportTwice,      \* whether a session imports a dma-buf it has imported
  MayCrash,         \* whether a client may die between the start and the end of cache operations
  CopyFails         \* whether the answer to an import may not reach the client

VARIABLES
  mem,       \* ump_dd_mem
  tree,      \* what device.secure_id_map holds
  list,      \* list_head_session_memory_list
  maps,      \* ump_memory_allocation with its vm area
  call,      \* the ioctl or mmap a thread is in
  handles,   \* references of kernel drivers
  used,      \* num_pages_allocated
  ongoing,   \* cache_operations_ongoing
  l1, l2,    \* memory with lines only this cache has
  buf,       \* references and attachments of a dma-buf
  open,
  wrong      \* something was used that is not there

vars == <<mem, tree, list, maps, call, handles, used, ongoing, l1, l2, buf, open, wrong>>

Fresh == [st |-> "new", ref |-> 0, id |-> 0, blocks |-> <<>>, backend |-> FALSE,
          cached |-> FALSE, user |-> "cpu", dma |-> FALSE]
Idle == [op |-> "none", m |-> None, arg |-> None]

Init ==
  /\ mem = [m \in Mems |-> Fresh] /\ tree = {} /\ list = [s \in Sessions |-> <<>>]
  /\ maps = [v \in Maps |-> None] /\ call = [t \in Threads |-> Idle]
  /\ handles = [m \in Mems |-> 0] /\ used = 0 /\ ongoing = [s \in Sessions |-> 0]
  /\ l1 = {} /\ l2 = {} /\ buf = [refs |-> 1, attached |-> 0]
  /\ open = {} /\ wrong = FALSE

Size(m) == FoldSeq(+, 0, mem[m].blocks)
Live == {m \in Mems : mem[m].st = "live"}
At(t, op) == call[t].op = op
Return(t) == call' = [call EXCEPT ![t] = Idle]
Holds(i) == {m \in tree : mem[m].id = i}

\* What a thread may call: its session is open.
Free(t) == At(t, "none") /\ SessionOf[t] \in open

\* ump_random_mapping_put: under the lock of the tree.
Put(m, how, misuse) ==
  LET gone == mem[m].ref = 1
      back == gone /\ mem[m].backend /\ how # "interrupted"
  IN /\ how \in (IF MayInterrupt THEN {"done", "interrupted"} ELSE {"done"})
     /\ mem' = [mem EXCEPT ![m].ref = @ - 1, ![m].st = IF gone THEN "freed" ELSE @]
     /\ tree' = IF gone THEN tree \ Holds(mem[m].id) ELSE tree
     /\ used' = IF back THEN used - Size(m) ELSE used
     /\ buf' = IF gone /\ mem[m].dma THEN [refs |-> buf.refs - 1, attached |-> buf.attached - 1]
               ELSE buf
     /\ l1' = (IF gone THEN l1 \ {m} ELSE l1) /\ l2' = (IF gone THEN l2 \ {m} ELSE l2)
     /\ wrong' = (wrong \/ misuse \/ mem[m].st # "live")

\* Mutant: the lookup takes no reference.
Get_NoRef(m) == UNCHANGED mem

\* ump_random_mapping_get: the lookup and the reference, under the lock of the tree.
Get(m) == mem' = [mem EXCEPT ![m].ref = @ + 1]

\* insert: a number that is taken is drawn again.  Which free one is drawn makes no
\* difference, nor which new memory is taken.
Insert(m, i) ==
  /\ i = Min(Ids \ {mem[n].id : n \in tree})
  /\ tree' = tree \cup {m}

Unused(m) == mem[m].st = "new" /\ \A n \in Mems : mem[n].st = "new" => m <= n

----------------------------------------------------------------------------
\* _ump_ukk_open and _ump_ukk_close.  The file stays open while one of its calls or
\* vm areas remains.
Open(s) ==
  /\ s \notin open /\ open' = open \cup {s}
  /\ list' = [list EXCEPT ![s] = <<>>] /\ ongoing' = [ongoing EXCEPT ![s] = 0]
  /\ UNCHANGED <<mem, tree, maps, call, handles, used, l1, l2, buf, wrong>>

Quiet(s) ==
  /\ s \in open
  /\ \A t \in Threads : SessionOf[t] = s => At(t, "none")
  /\ \A v \in Maps : maps[v] # None => maps[v].s # s

CloseRelease(s, how) ==
  /\ Quiet(s) /\ list[s] # <<>>
  /\ Put(Head(list[s]), how, FALSE) /\ list' = [list EXCEPT ![s] = Tail(@)]
  /\ UNCHANGED <<maps, call, handles, ongoing, open>>

Close(s) ==
  /\ Quiet(s) /\ list[s] = <<>> /\ open' = open \ {s}
  /\ ongoing[s] = 0 \/ MayCrash
  /\ UNCHANGED <<mem, tree, list, maps, call, handles, used, ongoing, l1, l2, buf, wrong>>

\* _ump_ukk_allocate: the backend gives all the pages or none, the memory goes into the
\* session's list, and only then into the tree.
Allocate(t, m, blocks, cached) ==
  /\ Free(t) /\ Unused(m)
  /\ used + FoldSeq(+, 0, blocks) <= MaxPages
  /\ used' = used + FoldSeq(+, 0, blocks)
  /\ mem' = [mem EXCEPT ![m] = [Fresh EXCEPT !.st = "live", !.ref = 1, !.blocks = blocks,
                                             !.backend = TRUE, !.cached = cached]]
  /\ list' = [list EXCEPT ![SessionOf[t]] = <<m>> \o @]
  /\ call' = [call EXCEPT ![t] = [op |-> "allocate", m |-> m, arg |-> None]]
  /\ UNCHANGED <<tree, maps, handles, ongoing, l1, l2, buf, open, wrong>>

AllocateId(t, i) ==
  LET m == call[t].m
  IN /\ At(t, "allocate") /\ Insert(m, i) /\ Return(t)
     /\ mem' = [mem EXCEPT ![m].id = i]
     /\ wrong' = (wrong \/ mem[m].st # "live")
     /\ UNCHANGED <<list, maps, handles, used, ongoing, l1, l2, buf, open>>

\* _ump_ukk_release: the first entry of the list with the id, under the session's lock.
Release(t, i, how) ==
  LET s == SessionOf[t]
      entry == Min({k \in 1..Len(list[s]) : mem[list[s][k]].id = i})
  IN /\ Free(t) /\ \E m \in Holds(i) : Contains(list[s], m)
     /\ Put(list[s][entry], how, FALSE) /\ list' = [list EXCEPT ![s] = RemoveAt(@, entry)]
     /\ UNCHANGED <<maps, call, handles, ongoing, open>>

----------------------------------------------------------------------------
\* The calls that look a memory up and give it back: size_get, msync, lock, unlock,
\* switch_hw_usage, and mmap, which keeps the reference.
Lookup(t, op, i, arg) ==
  \E m \in Holds(i) :
    /\ Free(t) /\ Get(m)
    /\ call' = [call EXCEPT ![t] = [op |-> op, m |-> m, arg |-> arg]]
    /\ UNCHANGED <<tree, list, maps, handles, used, ongoing, l1, l2, buf, open, wrong>>

Done(t, how) ==
  /\ At(t, "done") /\ Put(call[t].m, how, FALSE) /\ Return(t)
  /\ UNCHANGED <<list, maps, handles, ongoing, open>>

\* The part of each block that _ump_osk_msync flushes, block for block.
BlockParts(blocks, offset, size) ==
  LET step(acc, b) ==
        IF acc.size = 0 THEN acc
        ELSE IF acc.offset >= b THEN [acc EXCEPT !.offset = @ - b, !.base = @ + b]
        ELSE LET n == IF acc.size < b - acc.offset THEN acc.size ELSE b - acc.offset
             IN [base |-> acc.base + b, offset |-> 0, size |-> acc.size - n,
                 bytes |-> acc.bytes \cup (acc.base + acc.offset .. acc.base + acc.offset + n - 1)]
  IN FoldLeft(step, [base |-> 0, offset |-> offset, size |-> size, bytes |-> {}], blocks).bytes

\* _ump_ukk_msync of a range; only the flush of everything is said to clean the memory.
Msync(t, offset, size) ==
  LET m == call[t].m
      bytes == BlockParts(mem[m].blocks, offset, size)
  IN /\ At(t, "msync") /\ size > 0 /\ offset + size <= Size(m)
     /\ call' = [call EXCEPT ![t].op = "done"]
     /\ LET all == mem[m].cached /\ bytes = 0..Size(m) - 1
        IN l1' = (IF all THEN l1 \ {m} ELSE l1) /\ l2' = (IF all THEN l2 \ {m} ELSE l2)
     /\ wrong' = (wrong \/ bytes # offset .. offset + size - 1)
     /\ UNCHANGED <<mem, tree, list, maps, handles, used, ongoing, buf, open>>

\* _ump_ukk_switch_hw_usage: first the user, without a lock, then the flush under the
\* session's lock.  While cache operations go on the inner flush waits for their end.
SwitchUser(t) ==
  LET m == call[t].m  old == mem[m].user  new == call[t].arg
  IN /\ At(t, "switch")
     /\ mem' = [mem EXCEPT ![m].user = new]
     /\ call' = [call EXCEPT ![t].op = IF mem[m].cached /\ old # new THEN "flush" ELSE "done"]
     /\ UNCHANGED <<tree, list, maps, handles, used, ongoing, l1, l2, buf, open, wrong>>

Inner(all) == IF OuterCache THEN l2 \cup all ELSE l2

SwitchFlush(t) ==
  LET m == call[t].m  now == ongoing[SessionOf[t]] = 0
  IN /\ At(t, "flush")
     /\ l1' = (IF now THEN {} ELSE l1)
     /\ l2' = (IF now THEN Inner(l1) ELSE l2) \ {m}
     /\ call' = [call EXCEPT ![t].op = "done"]
     /\ UNCHANGED <<mem, tree, list, maps, handles, used, ongoing, buf, open, wrong>>

\* _ump_ukk_cache_operations_control: the end always flushes the inner cache.
CacheStart(t) ==
  /\ Shares /\ Free(t) /\ ongoing[SessionOf[t]] = 0 /\ ongoing' = [ongoing EXCEPT ![SessionOf[t]] = 1]
  /\ UNCHANGED <<mem, tree, list, maps, call, handles, used, l1, l2, buf, open, wrong>>

CacheFinish(t) ==
  /\ Free(t) /\ ongoing[SessionOf[t]] = 1 /\ ongoing' = [ongoing EXCEPT ![SessionOf[t]] = 0]
  /\ l1' = {} /\ l2' = Inner(l1)
  /\ UNCHANGED <<mem, tree, list, maps, call, handles, used, buf, open, wrong>>

----------------------------------------------------------------------------
Cookies(s) == {maps[v].cookie : v \in {w \in Maps : maps[w] # None /\ maps[w].s = s}}

\* _ump_ukk_map_mem, after the lookup: the cookie, the vm area, block for block, and the
\* session's list.  Cookie 0 is not given.
MapAll(t, v) ==
  LET s == SessionOf[t]  free == 1..MaxCookies \ Cookies(s)
  IN /\ At(t, "map") /\ maps[v] = None /\ free # {}
     /\ maps' = [maps EXCEPT ![v] = [s |-> s, m |-> call[t].m, cookie |-> Min(free),
                                     pieces |-> 1, origin |-> TRUE]]
     /\ Return(t)
     /\ UNCHANGED <<mem, tree, list, handles, used, ongoing, l1, l2, buf, open, wrong>>

\* The size differs, there is no cookie or no room.  When a block could not be mapped the
\* reference goes while the blocks before it are still mapped; the kernel unmaps them
\* afterwards.
MapRefused(t, how, mapped) ==
  /\ At(t, "map") /\ (mapped => BlockFails /\ mem[call[t].m].ref = 1)
  /\ Put(call[t].m, how, mapped) /\ Return(t)
  /\ UNCHANGED <<list, maps, handles, ongoing, open>>

\* ump_vma_open and ump_vma_close; the last close is _ump_ukk_unmap_mem, which looks the
\* tracker up in the vm area that was mapped first.
VmaOpen(v) ==
  /\ maps[v] # None /\ maps[v].pieces = 1 /\ maps[v].origin
  /\ maps' = [maps EXCEPT ![v].pieces = 2]
  /\ UNCHANGED <<mem, tree, list, call, handles, used, ongoing, l1, l2, buf, open, wrong>>

VmaCloseOne(v, origin) ==
  /\ maps[v] # None /\ maps[v].pieces = 2 /\ (origin => MaySplit)
  /\ maps' = [maps EXCEPT ![v].pieces = 1, ![v].origin = ~origin]
  /\ UNCHANGED <<mem, tree, list, call, handles, used, ongoing, l1, l2, buf, open, wrong>>

Unmap(v, how) ==
  /\ maps[v] # None /\ maps[v].pieces = 1
  /\ Put(maps[v].m, how, ~maps[v].origin) /\ maps' = [maps EXCEPT ![v] = None]
  /\ UNCHANGED <<list, call, handles, ongoing, open>>

\* The process writes through a mapping.
CpuWrites(v) ==
  /\ maps[v] # None /\ mem[maps[v].m].cached /\ mem[maps[v].m].user = "cpu"
  /\ l1' = l1 \cup {maps[v].m}
  /\ UNCHANGED <<mem, tree, list, maps, call, handles, used, ongoing, l2, buf, open, wrong>>

----------------------------------------------------------------------------
\* ump_dd_handle_create_from_secure_id and ump_dd_reference_release of a kernel driver.
HandleGet(i) ==
  \E m \in Holds(i) :
    /\ FoldFunction(+, 0, handles) < MaxHandles /\ Get(m) /\ handles' = [handles EXCEPT ![m] = @ + 1]
    /\ UNCHANGED <<tree, list, maps, call, used, ongoing, l1, l2, buf, open, wrong>>

HandlePut(m, how) ==
  /\ handles[m] > 0 /\ Put(m, how, FALSE) /\ handles' = [handles EXCEPT ![m] = @ - 1]
  /\ UNCHANGED <<list, maps, call, ongoing, open>>

\* ump_dmabuf_import_wrapper: a dma-buf the session has is found under its lock, and
\* the reference is taken after it.
Imported(s) == {m \in ToSet(list[s]) : mem[m].dma}

Import(t) ==
  /\ Free(t) /\ buf.refs > 0
  /\ IF Imported(SessionOf[t]) = {}
       THEN /\ buf' = [refs |-> buf.refs + 1, attached |-> buf.attached + 1]
            /\ call' = [call EXCEPT ![t].op = "import"] /\ UNCHANGED mem
       ELSE /\ ImportTwice /\ UNCHANGED buf
            /\ \E m \in Imported(SessionOf[t]) :
                 Get(m) /\ call' = [call EXCEPT ![t] = [op |-> "imported", m |-> m, arg |-> None]]
  /\ UNCHANGED <<tree, list, maps, handles, used, ongoing, l1, l2, open, wrong>>

ImportFails(t) ==
  /\ At(t, "import") /\ Return(t)
  /\ buf' = [refs |-> buf.refs - 1, attached |-> buf.attached - 1]
  /\ UNCHANGED <<mem, tree, list, maps, handles, used, ongoing, l1, l2, open, wrong>>

\* ump_dd_handle_create_from_phys_blocks, and the entry of the session's list.
ImportMakes(t, m, i, blocks) ==
  /\ At(t, "import") /\ Unused(m) /\ Insert(m, i)
  /\ mem' = [mem EXCEPT ![m] = [Fresh EXCEPT !.st = "live", !.ref = 1, !.id = i,
                                             !.blocks = blocks, !.dma = TRUE]]
  /\ list' = [list EXCEPT ![SessionOf[t]] = <<m>> \o @]
  /\ call' = [call EXCEPT ![t] = [op |-> "imported", m |-> m, arg |-> None]]
  /\ UNCHANGED <<maps, handles, used, ongoing, l1, l2, buf, open, wrong>>

\* When the answer does not reach the client the memory is released while its entry stays
\* in the list, and the attachment and the dma-buf are given back again after it.
ImportDone(t) ==
  /\ At(t, "imported") /\ Return(t)
  /\ wrong' \in (IF CopyFails THEN {wrong, TRUE} ELSE {wrong})
  /\ UNCHANGED <<mem, tree, list, maps, handles, used, ongoing, l1, l2, buf, open>>

----------------------------------------------------------------------------
Next ==
  \/ \E s \in Sessions : Open(s) \/ Close(s)
  \/ \E t \in Threads :
       \/ \E m \in Mems, b \in Blocks :
            \/ \E c \in Kinds : Allocate(t, m, b, c)
            \/ \E i \in Ids : ImportMakes(t, m, i, b)
       \/ \E i \in Ids :
            \/ AllocateId(t, i)
            \/ Lookup(t, "msync", i, None)
            \/ Lookup(t, "map", i, None)
            \/ \E u \in {"cpu", "mali"} :
                 /\ Shares /\ \A o \in Threads : call[o].op \notin {"switch", "flush"}
                 /\ Lookup(t, "switch", i, u)
       \/ \E o \in 0..3, n \in 1..3 : Msync(t, o, n)
       \/ SwitchUser(t) \/ SwitchFlush(t) \/ CacheStart(t) \/ CacheFinish(t)
       \/ \E v \in Maps : MapAll(t, v)
       \/ Import(t) \/ ImportFails(t) \/ ImportDone(t)
  \/ \E how \in {"done", "interrupted"} :
       \/ \E s \in Sessions : CloseRelease(s, how)
       \/ \E t \in Threads : Done(t, how) \/ (\E b \in BOOLEAN : MapRefused(t, how, b))
                             \/ \E i \in Ids : Release(t, i, how)
       \/ \E v \in Maps : Unmap(v, how)
       \/ \E m \in Mems : HandlePut(m, how)
  \/ \E v \in Maps : VmaOpen(v) \/ CpuWrites(v)
                     \/ \E o \in BOOLEAN : VmaCloseOne(v, o)
  \/ \E i \in Ids : HandleGet(i)

Spec == Init /\ [][Next]_vars

----------------------------------------------------------------------------
\* How often a memory is referred to.
References(m) ==
  handles[m] + Cardinality({v \in Maps : maps[v] # None /\ maps[v].m = m})
  + Cardinality({t \in Threads : call[t].m = m /\ call[t].op \notin {"allocate", "imported"}})
  + MapThenSumSet(LAMBDA s : Cardinality({k \in 1..Len(list[s]) : list[s][k] = m}), Sessions)

\* Every reference is counted, a memory is there exactly as long as it has one, and the
\* backend has back what is not.
AccountedFor ==
  /\ \A m \in Mems : mem[m].ref = References(m) /\ (m \in Live <=> mem[m].ref > 0)
  /\ tree \subseteq Live /\ \A m, n \in tree : mem[m].id = mem[n].id => m = n
  /\ used = MapThenSumSet(Size, {m \in Live : mem[m].backend})
  /\ buf.attached = Cardinality({m \in Live : mem[m].dma})
                    + Cardinality({t \in Threads : At(t, "import")})
  /\ buf.refs = buf.attached + 1

\* Nothing is mapped in a process that was freed.
MappedIsLive ==
  \A v \in Maps : maps[v] # None => maps[v].m \in Live

\* When a memory has been switched to the GPU, what the CPU wrote is in memory.
SeenByGpu ==
  \A m \in Live :
    mem[m].user = "mali" /\ (\A s \in Sessions : ongoing[s] = 0)
    /\ (\A t \in Threads : call[t].m = m => call[t].op # "flush")
      => m \notin l1 \cup l2

\* The memory of UMP is freed when its last user goes and not before, and what the CPU
\* wrote reaches the GPU: ump_random_mapping_put, _ump_ukk_switch_hw_usage.
UmpMemorySound == ~wrong /\ AccountedFor /\ MappedIsLive /\ SeenByGpu
=============================================================================
