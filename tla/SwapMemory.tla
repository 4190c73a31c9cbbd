------------------------------ MODULE SwapMemory ------------------------------
(***************************************************************************)
(* Swappable GPU memory.  The pages of a backend are locked in while jobs  *)
(* use it; afterwards the backend waits in the pool of swapped-in backends *)
(* until the pool is shrunk.  A copy on write shares items (pages) with    *)
(* another backend.  A page that is not locked may be moved by the system. *)
(* Every step holds the mutex of one backend; shrinking the pool, and      *)
(* changing its list, hold the mutex of the pool as well.                  *)
(***************************************************************************)
EXTENDS Integers, Sequences, FiniteSets, SequencesExt, FiniteSetsExt

CONSTANTS
  Backends, Items,
  Jobs, Uses,  \* the backends of a job, its memory cookies: [Jobs -> Seq(Backends)]
  Pages,       \* of each backend
  Threshold    \* of the pool, in pages

VARIABLES
  bk,     \* backends: their items, whether they are swapped in, their users
  lock,   \* how often the page of an item was swapped in
  stale,  \* backends whose pages are not, or not all, where the GPU is told they are
  pool,   \* mem_backend_swapped_pool
  size,   \* mem_backend_swapped_pool_size
  visit,  \* what the shrinking of the pool has still to look at
  limit,  \* down to which it shrinks
  job     \* the PP jobs

vars == <<bk, lock, stale, pool, size, visit, limit, job>>

NoBackend == [items |-> <<>>, in |-> FALSE, users |-> 0]
NoJob == [at |-> "none", todo |-> <<>>, valid |-> {}, ok |-> TRUE]

Init ==
  /\ bk = [b \in Backends |-> NoBackend] /\ lock = [i \in Items |-> 0]
  /\ stale = {}
  /\ pool = <<>> /\ size = 0 /\ visit = <<>> /\ limit = 0
  /\ job = [j \in Jobs |-> NoJob]

\* Items nobody has; they are all alike, and the lowest are taken
Unused(x) == {i \in Items : \A b \in Backends : i \notin ToSet(x[b].items)}
New(n) == SubSeq(SetToSortSeq(Unused(bk), <), 1, n)
Live(b) == bk[b].items # <<>>
InUse(b) == \E j \in Jobs : job[j].at # "none" /\ b \in ToSet(Uses[j])

\* Swapping in adds a reference to each page of a backend, swapping out drops it
Locked(s, n) == [i \in Items |-> IF i \in ToSet(s) THEN lock[i] + n ELSE lock[i]]

(***************************************************************************)
(* Allocating, copying and releasing                                       *)
(***************************************************************************)
\* New memory is swapped in, but not in the pool before a job has used it
Allocate(b) ==
  /\ ~ Live(b) /\ Cardinality(Unused(bk)) >= Pages
  /\ bk' = [bk EXCEPT ![b] = [items |-> New(Pages), in |-> TRUE, users |-> 0]]
  /\ lock' = Locked(New(Pages), 1)
  /\ UNCHANGED <<stale, pool, size, visit, limit, job>>

\* A copy with new items from page n on; it is not swapped in
Cow(target, c, n) ==
  LET new == Pages + 1 - n IN
  /\ Live(target) /\ ~ Live(c) /\ Cardinality(Unused(bk)) >= new
  /\ bk' = [bk EXCEPT ![c] = [items |-> SubSeq(bk[target].items, 1, n - 1) \o New(new),
                              in |-> FALSE, users |-> 0]]
  /\ stale' = stale \cup {c}
  /\ UNCHANGED <<lock, pool, size, visit, limit, job>>

\* The CPU writes to a page of a copy that is swapped out (it is an error
\* otherwise): the page is copied to a new item
CowFault(c, k) ==
  /\ Live(c) /\ ~ bk[c].in /\ c \notin ToSet(pool) /\ Unused(bk) # {}
  /\ bk' = [bk EXCEPT ![c].items[k] = New(1)[1]] /\ stale' = stale \cup {c}
  /\ UNCHANGED <<lock, pool, size, visit, limit, job>>

\* Memory is freed when no job uses it any more: it leaves the pool, its pages
\* are swapped out and its items dropped
Release(b) ==
  /\ Live(b) /\ ~ InUse(b) /\ visit = <<>>
  /\ pool' = SelectSeq(pool, LAMBDA x : x # b)
  /\ size' = IF b \in ToSet(pool) THEN size - Pages ELSE size
  /\ lock' = IF bk[b].in THEN Locked(bk[b].items, -1) ELSE lock
  /\ bk' = [bk EXCEPT ![b] = NoBackend] /\ stale' = stale \ {b}
  /\ UNCHANGED <<visit, limit, job>>

(***************************************************************************)
(* Jobs                                                                    *)
(***************************************************************************)
\* mali_pp_job_create; the memory exists
Create(j) ==
  /\ job[j].at = "none" /\ \A b \in ToSet(Uses[j]) : Live(b)
  /\ job' = [job EXCEPT ![j] = [at |-> "in", todo |-> Uses[j], valid |-> {}, ok |-> TRUE]]
  /\ UNCHANGED <<bk, lock, stale, pool, size, visit, limit>>

\* The next backend of a job is swapped in, unless another job did it, or it
\* still was. A page that is nowhere locked may not be had: the pages before it
\* are put back, the job fails and its other cookies are not looked at.
SwapIn(j) ==
  LET b == Head(job[j].todo)
      taken == [job EXCEPT ![j].todo = Tail(@), ![j].valid = @ \cup {b}] IN
  /\ job[j].at = "in" /\ job[j].todo # <<>>
  /\ \/ /\ ~ job[j].ok
        /\ job' = [job EXCEPT ![j].todo = Tail(@)] /\ UNCHANGED <<bk, lock, stale>>
     \/ /\ job[j].ok /\ bk[b].in
        /\ bk' = [bk EXCEPT ![b].users = @ + 1] /\ job' = taken /\ UNCHANGED <<lock, stale>>
     \/ /\ job[j].ok /\ bk[b].users = 0 /\ ~ bk[b].in
        /\ bk' = [bk EXCEPT ![b].users = 1, ![b].in = TRUE] /\ job' = taken
        /\ lock' = Locked(bk[b].items, 1)
        /\ stale' = stale \ {b}
     \/ /\ job[j].ok /\ bk[b].users = 0 /\ ~ bk[b].in
        /\ \E i \in ToSet(bk[b].items) : lock[i] = 0
        /\ job' = [job EXCEPT ![j].todo = Tail(@), ![j].ok = FALSE]
        /\ UNCHANGED <<bk, lock, stale>>
  /\ UNCHANGED <<pool, size, visit, limit>>

\* The job runs, or is dropped at once if its memory could not be swapped in,
\* and is deleted: what was swapped in for it is given up, one by one
Delete(j) ==
  /\ job[j].at = "in" /\ job[j].todo = <<>>
  /\ job' = [job EXCEPT ![j].at = "out",
                        ![j].todo = SelectSeq(Uses[j], LAMBDA b : b \in job[j].valid)]
  /\ UNCHANGED <<bk, lock, stale, pool, size, visit, limit>>

\* The last user puts the backend at the tail of the pool, in a step of its own;
\* another job may have used it, and the pool been shrunk, in between
SwapOut(j) ==
  LET b == Head(job[j].todo) IN
  /\ job[j].at = "out" /\ job[j].todo # <<>>
  /\ bk' = [bk EXCEPT ![b].users = @ - 1]
  /\ job' = IF bk[b].users > 1 THEN [job EXCEPT ![j].todo = Tail(@), ![j].valid = @ \ {b}]
            ELSE [job EXCEPT ![j].at = "add", ![j].valid = @ \ {b}]
  /\ UNCHANGED <<lock, stale, pool, size, visit, limit>>

\* The pool may be shrunk then, if the system is short of memory
AddToPool(j) ==
  LET b == Head(job[j].todo) IN
  /\ job[j].at = "add" /\ visit = <<>>
  /\ pool' = Append(SelectSeq(pool, LAMBDA x : x # b), b)
  /\ size' = IF b \in ToSet(pool) THEN size ELSE size + Pages
  /\ \/ UNCHANGED <<visit, limit>>
     \/ b \notin ToSet(pool) /\ size' > Threshold /\ visit' = pool' /\ limit' = Threshold
  /\ job' = [job EXCEPT ![j].at = "out", ![j].todo = Tail(@)]
  /\ UNCHANGED <<bk, lock, stale>>

End(j) ==
  /\ job[j].at = "out" /\ job[j].todo = <<>>
  /\ job' = [job EXCEPT ![j] = NoJob]
  /\ UNCHANGED <<bk, lock, stale, pool, size, visit, limit>>

(***************************************************************************)
(* Shrinking                                                               *)
(***************************************************************************)
\* Little memory and a GPU that is not busy: shrink to a quarter
LowUtilisation ==
  /\ visit = <<>> /\ size > Threshold \div 4
  /\ visit' = pool /\ limit' = Threshold \div 4
  /\ UNCHANGED <<bk, lock, stale, pool, size, job>>

\* Mutant: a backend that a job uses is swapped out, too.
Shrink_All ==
  LET b == Head(visit) IN
  /\ visit # <<>>
  /\ bk' = [bk EXCEPT ![b].in = FALSE] /\ lock' = Locked(bk[b].items, -1)
  /\ pool' = SelectSeq(pool, LAMBDA x : x # b) /\ size' = size - Pages /\ visit' = Tail(visit)
  /\ UNCHANGED <<stale, limit, job>>
\* One backend of the pool is swapped out, unless it is in use
Shrink ==
  LET b == Head(visit) IN
  /\ visit # <<>>
  /\ \/ size <= limit /\ visit' = <<>> /\ UNCHANGED <<bk, lock, pool, size>>
     \/ size > limit /\ bk[b].users > 0 /\ visit' = Tail(visit) /\ UNCHANGED <<bk, lock, pool, size>>
     \/ /\ size > limit /\ bk[b].users = 0
        /\ lock' = IF bk[b].in THEN Locked(bk[b].items, -1) ELSE lock
        /\ bk' = [bk EXCEPT ![b].in = FALSE]
        /\ pool' = SelectSeq(pool, LAMBDA x : x # b) /\ size' = size - Pages
        /\ visit' = Tail(visit)
  /\ UNCHANGED <<stale, limit, job>>

\* The system swaps out a page nobody has locked; it comes back elsewhere
Move(i) ==
  /\ lock[i] = 0 /\ stale' = stale \cup {b \in Backends : i \in ToSet(bk[b].items)}
  /\ UNCHANGED <<bk, lock, pool, size, visit, limit, job>>

Next ==
  \/ LowUtilisation \/ Shrink \/ \E i \in Items : Move(i)
  \/ \E j \in Jobs : Create(j) \/ SwapIn(j) \/ Delete(j) \/ SwapOut(j) \/ AddToPool(j) \/ End(j)
  \/ \E b \in Backends :
       \/ Release(b) \/ Allocate(b)
       \/ \E c \in Backends, n \in 1 .. Pages + 1 : Cow(c, b, n)
       \/ \E k \in 1 .. Pages : CowFault(b, k)

Spec == Init /\ [][Next]_vars

\* The pages of a job whose memory was swapped in stay where the GPU was told
\* they are until the job gives them up; a page is locked once for each backend
\* that is swapped in, shared or not, so that it can be swapped out in the end;
\* and the size of the pool is that of what is in it.  (A backend in the pool
\* need not be swapped in: see AddToPool.)
SwappedInForJobs ==
  /\ \A j \in Jobs : \A b \in job[j].valid :
       bk[b].in /\ b \notin stale /\ \A i \in ToSet(bk[b].items) : lock[i] > 0
  /\ \A b \in Backends : bk[b].users = Cardinality({j \in Jobs : b \in job[j].valid})
  /\ \A i \in Items : lock[i] = Cardinality({<<b, k>> \in Backends \X (1 .. Pages) :
                                    bk[b].in /\ bk[b].items[k] = i})
  /\ size = Pages * Len(pool) /\ \A b \in ToSet(pool) : Live(b)
====
