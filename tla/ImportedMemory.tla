------------------------------ MODULE ImportedMemory ------------------------------
(***************************************************************************)
(* Memory of other drivers in the GPU addresses of a session: UMP memory,  *)
(* dma-bufs, physical ranges and secure dma-bufs (linux/mali_memory_ump.c, *)
(* _dma_buf.c, _external.c and _secure.c), bound and unbound by the client *)
(* while PP jobs use it.  A build without MALI_DMA_BUF_MAP_ON_ATTACH maps  *)
(* a dma-buf when a job that names it is queued and unmaps it when the job *)
(* is deleted; the other build maps it when it is bound.                   *)
(***************************************************************************)
EXTENDS Integers, FiniteSets

CONSTANTS
  Addrs,     \* GPU pages at which clients bind memory
  Bufs, None,
  Big,       \* the buffers of two pages; clients bind one page
  Jobs,
  Kinds,     \* of "ump", "dmabuf", "external", "secure"
  Happens    \* of what the passing run leaves out, what may happen: see the uses

VARIABLES
  onAttach,  \* the build: CONFIG_MALI_DMA_BUF_MAP_ON_ATTACH
  alloc,     \* address -> None, or the allocation that is bound there
  table,     \* GPU page -> None, or the buffer it is mapped to
  refs,      \* buffer -> references the driver has
  attached,  \* buffer -> attachments the driver has
  sgts,      \* buffer -> tables from dma_buf_map_attachment()
  job,       \* job -> None, or its memory cookies, the next ones to map or unmap, its state
  wrong      \* what went wrong

vars == <<onAttach, alloc, table, refs, attached, sgts, job, wrong>>

Pages == UNION {a..(a + 2) : a \in Addrs}
Zero == [b \in Bufs |-> 0]

Init ==
  /\ onAttach \in BOOLEAN
  /\ alloc = [a \in Addrs |-> None] /\ table = [p \in Pages |-> None]
  /\ refs = Zero /\ attached = Zero /\ sgts = Zero
  /\ job = [j \in Jobs |-> None] /\ wrong = {}

May(h) == h \in Happens
Bound(a) == alloc[a] # None
Size(b) == IF b \in Big THEN 2 ELSE 1
Up(count, b) == [count EXCEPT ![b] = @ + 1]
Down(count, b) == [count EXCEPT ![b] = @ - 1]

-----------------------------------------------------------------------------
(* The pages of an allocation: mali_mem_mali_map_prepare() and             *)
(* mali_mem_mali_map_free() add one for a guard, which maps the first page *)
(* of the buffer again.                                                    *)
Span(a, guard) == a..(IF guard THEN a + 1 ELSE a)
MapIn(a, b, pages) == [p \in Pages |-> IF p \in pages THEN b ELSE table[p]]
MapFree(x) == [p \in Pages |-> IF p \in Span(x.addr, x.guard) THEN None ELSE table[p]]

(* mali_mem_ump_map() maps all blocks of the memory, whatever its size.    *)
UmpSpan(a, b, guard) == a..(a + Size(b) - (IF guard THEN 0 ELSE 1))

(* mali_vma_offset_add() does not return when the address is taken.        *)
VmaOffsetAdd(a) == wrong' = wrong \cup (IF Bound(a) THEN {"no return"} ELSE {})

Node(k, a, b, guard) ==
  [kind |-> k, addr |-> a, buf |-> b, guard |-> guard, ref |-> 0, mapped |-> FALSE, state |-> "bound"]

Free(a, guard) == \A p \in Span(a, guard) : \A c \in Addrs \ {a} :
                    Bound(c) => p \notin Span(c, alloc[c].guard)

(* _mali_ukk_mem_bind() with mali_mem_bind_ump_buf(): the client gives the *)
(* size.                                                                   *)
BindUmp(a, b, guard) ==
  /\ Size(b) = 1 \/ May("other size")
  /\ alloc' = [alloc EXCEPT ![a] = Node("ump", a, b, guard)]
  /\ table' = MapIn(a, b, UmpSpan(a, b, guard))
  /\ refs' = Up(refs, b)
  /\ UNCHANGED <<attached, sgts>>

(* mali_mem_bind_ext_buf(): the range is checked by the validator.         *)
BindExternal(a, b, guard) ==
  /\ alloc' = [alloc EXCEPT ![a] = Node("external", a, b, guard)]
  /\ table' = MapIn(a, b, Span(a, guard))
  /\ UNCHANGED <<refs, attached, sgts>>

(* mali_mem_bind_dma_buf(), which compares the sizes: a build that maps    *)
(* now and lacks page tables forgets the table it was given.               *)
BindDmaBuf(a, b, guard) ==
  /\ Size(b) = 1
  /\ LET new == Node("dmabuf", a, b, guard)
     IN \/ /\ alloc' = [alloc EXCEPT ![a] = IF onAttach THEN [new EXCEPT !.ref = 1, !.mapped = TRUE] ELSE new]
           /\ table' = IF onAttach THEN MapIn(a, b, Span(a, guard)) ELSE table
           /\ sgts' = IF onAttach THEN Up(sgts, b) ELSE sgts
           /\ refs' = Up(refs, b) /\ attached' = Up(attached, b)
        \/ /\ sgts' = IF onAttach /\ May("no page tables") THEN Up(sgts, b) ELSE sgts
           /\ UNCHANGED <<alloc, table, refs, attached>>

(* _mali_ukk_mem_allocate() of secure memory: mali_mem_secure_attach_dma_  *)
(* buf() and mali_mem_secure_mali_map(), which undo what they did.         *)
AllocateSecure(a, b) ==
  /\ Size(b) = 1
  /\ alloc' = [alloc EXCEPT ![a] = Node("secure", a, b, FALSE)]
  /\ table' = MapIn(a, b, {a})
  /\ refs' = Up(refs, b) /\ attached' = Up(attached, b) /\ sgts' = Up(sgts, b)

Bind ==
  /\ \E a \in Addrs, b \in Bufs, k \in Kinds, guard \in BOOLEAN :
       /\ ~Bound(a) \/ May("same address")
       /\ Free(a, guard) \/ May("overlaps")
       /\ IF Bound(a) THEN UNCHANGED <<alloc, table, refs, attached, sgts>>
          ELSE CASE k = "ump" -> BindUmp(a, b, guard)
                 [] k = "external" -> BindExternal(a, b, guard)
                 [] k = "secure" -> AllocateSecure(a, b)
                 [] OTHER -> BindDmaBuf(a, b, guard)
       /\ VmaOffsetAdd(a)
  /\ UNCHANGED <<onAttach, job>>

-----------------------------------------------------------------------------
(* mali_dma_buf_map() and mali_dma_buf_unmap(), each under the session's   *)
(* memory lock: only the first who maps and the last who unmaps do it.     *)
DmaBufMap(a, ok) ==
  LET x == alloc[a]
  IN IF ~ok THEN UNCHANGED <<alloc, table, sgts>>
     ELSE /\ alloc' = [alloc EXCEPT ![a].ref = @ + 1, ![a].mapped = @ \/ x.ref = 0]
          /\ IF x.ref = 0
             THEN table' = MapIn(a, x.buf, Span(a, x.guard)) /\ sgts' = Up(sgts, x.buf)
             ELSE UNCHANGED <<table, sgts>>

DmaBufUnmap_First(a) ==   \* mutant: the first who unmaps does it
  LET x == alloc[a]
  IN /\ alloc' = [alloc EXCEPT ![a].ref = @ - 1, ![a].mapped = FALSE]
     /\ IF x.mapped THEN table' = MapFree(x) /\ sgts' = Down(sgts, x.buf) ELSE UNCHANGED <<table, sgts>>

DmaBufUnmap(a) ==
  LET x == alloc[a]
  IN /\ alloc' = [alloc EXCEPT ![a].ref = @ - 1, ![a].mapped = @ /\ x.ref # 1]
     /\ IF x.ref = 1
        THEN table' = (IF x.mapped THEN MapFree(x) ELSE table) /\ sgts' = Down(sgts, x.buf)
        ELSE UNCHANGED <<table, sgts>>

(* _mali_ukk_mem_unbind(), or the end of the session, with the last        *)
(* reference: _mali_free_allocation_mem().  Clients unbind what no job     *)
(* uses; a dma-buf that jobs map is waited for, if they have mapped it.    *)
InUse(a) == \E j \in Jobs : job[j] # None /\ a \in job[j].cookies
Pending(a) == \E j \in Jobs : job[j] # None /\ a \in job[j].cookies /\ job[j].state = "map"

Unbind(a) ==
  /\ Bound(a) /\ alloc[a].state = "bound"
  /\ May("unbinds in use") \/ IF alloc[a].kind = "dmabuf" /\ ~onAttach THEN ~Pending(a) ELSE ~InUse(a)
  /\ IF alloc[a].kind = "dmabuf"
     THEN IF onAttach
          THEN LET x == alloc[a]
               IN /\ alloc' = [alloc EXCEPT ![a].ref = @ - 1, ![a].mapped = FALSE, ![a].state = "wait"]
                  /\ table' = MapFree(x) /\ sgts' = Down(sgts, x.buf)
                  /\ UNCHANGED <<refs, attached>>
          ELSE alloc' = [alloc EXCEPT ![a].state = "wait"] /\ UNCHANGED <<table, refs, attached, sgts>>
     ELSE LET b == alloc[a].buf  k == alloc[a].kind
          IN /\ alloc' = [alloc EXCEPT ![a] = None]
             /\ table' = MapFree(alloc[a])   \* of the size the client gave
             /\ refs' = IF k = "external" THEN refs ELSE Down(refs, b)
             /\ attached' = IF k = "secure" THEN Down(attached, b) ELSE attached
             /\ sgts' = IF k = "secure" THEN Down(sgts, b) ELSE sgts
  /\ UNCHANGED <<onAttach, job, wrong>>

(* mali_mem_unbind_dma_buf(): nothing keeps jobs from mapping it between   *)
(* the end of the wait and the detaching.                                  *)
UnbindWaited(a) ==
  /\ Bound(a) /\ alloc[a].state = "wait" /\ ~alloc[a].mapped
  /\ alloc' = [alloc EXCEPT ![a].state = "detach"]
  /\ UNCHANGED <<onAttach, table, refs, attached, sgts, job, wrong>>

UnbindDmaBuf(a) ==
  /\ Bound(a) /\ alloc[a].state = "detach"
  /\ wrong' = wrong \cup (IF alloc[a].mapped THEN {"mapped when detached"} ELSE {})
  /\ attached' = Down(attached, alloc[a].buf) /\ refs' = Down(refs, alloc[a].buf)
  /\ alloc' = [alloc EXCEPT ![a] = None]
  /\ UNCHANGED <<onAttach, table, sgts, job>>

-----------------------------------------------------------------------------
(* A PP job: mali_dma_buf_map_job() goes through its memory cookies before *)
(* it is queued, and goes on when one cannot be mapped; mali_dma_buf_      *)
(* unmap_job() when it is deleted, also when it was never queued.          *)
MapsForJobs(a) == Bound(a) /\ alloc[a].kind = "dmabuf" /\ ~onAttach

JobSubmit(j) ==
  /\ job[j] = None
  /\ \E c \in SUBSET Addrs \ {{}} :
       /\ \A a \in c : Bound(a) /\ alloc[a].state = "bound"
       /\ job' = [job EXCEPT ![j] = [cookies |-> c, todo |-> c, state |-> "map", failed |-> FALSE]]
  /\ UNCHANGED <<onAttach, alloc, table, refs, attached, sgts, wrong>>

JobMap(j) ==
  /\ job[j] # None /\ job[j].state = "map" /\ job[j].todo # {}
  /\ \E a \in job[j].todo, ok \in {TRUE, ~May("map fails")} :
       /\ IF MapsForJobs(a) THEN DmaBufMap(a, ok \/ alloc[a].ref # 0) ELSE UNCHANGED <<alloc, table, sgts>>
       /\ job' = [job EXCEPT ![j].todo = @ \ {a},
                             ![j].failed = @ \/ (MapsForJobs(a) /\ ~ok /\ alloc[a].ref = 0)]
       /\ wrong' = wrong \cup (IF Bound(a) THEN {} ELSE {"no allocation"})
  /\ UNCHANGED <<onAttach, refs, attached>>

JobRun(j) ==
  /\ job[j] # None /\ job[j].state = "map" /\ job[j].todo = {}
  /\ job' = [job EXCEPT ![j].state = "run"]
  /\ UNCHANGED <<onAttach, alloc, table, refs, attached, sgts, wrong>>

JobDone(j) ==
  /\ job[j] # None
  /\ job[j].state = "run" \/ (May("never mapped") /\ job[j].state = "map" /\ job[j].todo = job[j].cookies)
  /\ job' = [job EXCEPT ![j].state = "unmap", ![j].todo = job[j].cookies]
  /\ UNCHANGED <<onAttach, alloc, table, refs, attached, sgts, wrong>>

JobUnmap(j) ==
  /\ job[j] # None /\ job[j].state = "unmap" /\ job[j].todo # {}
  /\ \E a \in job[j].todo :
       /\ IF MapsForJobs(a) THEN DmaBufUnmap(a) ELSE UNCHANGED <<alloc, table, sgts>>
       /\ job' = [job EXCEPT ![j].todo = @ \ {a}]
       /\ wrong' = wrong \cup (IF Bound(a) THEN {} ELSE {"no allocation"})
  /\ UNCHANGED <<onAttach, refs, attached>>

JobDeleted(j) ==
  /\ job[j] # None /\ job[j].state = "unmap" /\ job[j].todo = {}
  /\ job' = [job EXCEPT ![j] = None]
  /\ UNCHANGED <<onAttach, alloc, table, refs, attached, sgts, wrong>>

JobStep(j) == JobMap(j) \/ JobRun(j) \/ JobDone(j) \/ JobUnmap(j) \/ JobDeleted(j)

Next ==
  \/ Bind
  \/ \E a \in Addrs : Unbind(a) \/ UnbindWaited(a) \/ UnbindDmaBuf(a)
  \/ \E j \in Jobs : JobSubmit(j) \/ JobStep(j)

(* Jobs end, and a thread that need not wait goes on.                      *)
Fairness ==
  /\ \A j \in Jobs : WF_vars(JobStep(j))
  /\ \A a \in Addrs : WF_vars(UnbindWaited(a) \/ UnbindDmaBuf(a))

Spec == Init /\ [][Next]_vars /\ Fairness

-----------------------------------------------------------------------------
(* A job that could map its memory reads, at each address it names, the    *)
(* buffer that is bound there ("the worst that could happen is that this   *)
(* job will fail", mali_scheduler.c 1440-1444); the page tables and the    *)
(* references, attachments and tables the driver holds are those of what   *)
(* is bound; and nothing is unbound under a job or mapped without end.     *)
Holders(b, ks) == Cardinality({a \in Addrs : Bound(a) /\ alloc[a].buf = b /\ alloc[a].kind \in ks})

JobsReadTheirs ==
  \A j \in Jobs : job[j] # None /\ job[j].state = "run" /\ ~job[j].failed =>
    \A a \in job[j].cookies : Bound(a) /\ table[a] = alloc[a].buf

ImportsSound ==
  /\ wrong = {} /\ JobsReadTheirs
  /\ \A b \in Bufs :
       /\ refs[b] = Holders(b, {"ump", "dmabuf", "secure"})
       /\ attached[b] = Holders(b, {"dmabuf", "secure"})
       /\ sgts[b] = Holders(b, {"secure"})
                    + Cardinality({a \in Addrs : Bound(a) /\ alloc[a].buf = b /\ alloc[a].mapped})
  /\ \A a \in Addrs : Bound(a) =>
       LET now == alloc[a].kind # "dmabuf" \/ alloc[a].mapped
       IN \A p \in Span(a, alloc[a].guard) : table[p] = (IF now THEN alloc[a].buf ELSE None)
  /\ \A p \in Pages : table[p] # None => \E a \in Addrs : Bound(a) /\ p \in Span(a, alloc[a].guard)

(* Unbinding memory that jobs use ends when they do (mali_memory_dma_buf.c *)
(* 361).                                                                   *)
UnbindsEnd == \A a \in Addrs : (Bound(a) /\ alloc[a].state # "bound") ~> ~Bound(a)
=============================================================================
