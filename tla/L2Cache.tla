--------------------------------- MODULE L2Cache ---------------------------------
(***************************************************************************)
(* The L2 caches and the cache order of jobs.  Clients write the memory of *)
(* a job, then the job is queued and gets a number; a cache remembers the  *)
(* number drawn when it was last cleared.  A job clears only the caches    *)
(* that were cleared before it was queued.  Caches are also cleared when   *)
(* memory is unmapped and when the heap of a GP job grows.                 *)
(*                                                                         *)
(* A cache has a lock of its own: drawing the number and sending the       *)
(* command are two steps, between which other jobs run and are queued.     *)
(***************************************************************************)
EXTENDS Integers, Sequences, TLAPS

CONSTANTS
  Caches, Jobs, None,
  CachesOf,        \* job -> sequence of the caches that it uses
  Grows,           \* the jobs whose heap may grow (GP jobs)
  MaxWrites,       \* bound: writes of memory by clients
  MaxOrder,        \* bound: numbers drawn
  Half,            \* half the values of a cache order, 2^31 in the code
  CommandsTimeOut  \* whether the command handler may stay busy

\* A GP job, whose heap may grow, has one cache.  The numbers do not wrap: that takes 2^31
\* jobs and clearings.
ASSUME CachesAssumption ==
  /\ CachesOf \in [Jobs -> Seq(Caches)]
  /\ Grows \subseteq Jobs /\ \A j \in Grows : Len(CachesOf[j]) = 1
ASSUME OrderAssumption == MaxOrder \in Nat /\ Half \in Nat /\ MaxOrder < Half

VARIABLES
  memory,    \* how often the memory has been written
  order,     \* mali_job_cache_order_autonumber
  jobs,      \* job -> st, order (cache_order), needs (the memory it must see), left (caches still to be cleared)
  last,      \* cache -> last_invalidated_id
  lines,     \* cache -> the memory as the cache has it, or None
  clearing,  \* caches whose lock is held, with the command still to be sent
  on         \* caches with power

vars == <<memory, order, jobs, last, lines, clearing, on>>

Init ==
  /\ memory = 0 /\ order = 0 /\ on = {} /\ clearing = {}
  /\ jobs = [j \in Jobs |-> [st |-> "new", order |-> 0, needs |-> 0, left |-> <<>>]]
  /\ last = [c \in Caches |-> 0] /\ lines = [c \in Caches |-> None]

(* (s32)x of the u32 x.                                                    *)
Signed(x) ==
  LET w == x % (2 * Half) IN IF w < Half THEN w ELSE w - 2 * Half

Uses(j, c) == \E i \in DOMAIN CachesOf[j] : CachesOf[j][i] = c
Starts == \E j \in Jobs : jobs[j].st = "starting"
Users(c) == {j \in Jobs : jobs[j].st \in {"starting", "running"} /\ Uses(j, c)}

(* mali_scheduler_get_new_cache_order()                                    *)
NewOrder == order < MaxOrder /\ order' = order + 1

ClientWrites ==
  /\ memory < MaxWrites /\ memory' = memory + 1
  /\ UNCHANGED <<order, jobs, last, lines, clearing, on>>

(* mali_scheduler_queue_gp_job(), mali_scheduler_queue_pp_job(): the client *)
(* wrote the memory before.                                                *)
Queue(j) ==
  /\ jobs[j].st = "new" /\ NewOrder
  /\ jobs' = [jobs EXCEPT ![j] = [st |-> "queued", order |-> order + 1, needs |-> memory, left |-> <<>>]]
  /\ UNCHANGED <<memory, last, lines, clearing, on>>

-----------------------------------------------------------------------------
(* Starting a job holds the executor lock from here to JobRuns.            *)
Start(j) ==
  /\ jobs[j].st = "queued" /\ ~Starts /\ \A c \in Caches : Uses(j, c) => c \in on
  /\ jobs' = [jobs EXCEPT ![j].st = "starting", ![j].left = CachesOf[j]]
  /\ UNCHANGED <<memory, order, last, lines, clearing, on>>

\* Mutant: a job next in order to the last clearing does not clear.
Needed_OffByOne(j, c) == Signed(jobs[j].order) > Signed(last[c]) + 1

(* The test of mali_l2_cache_invalidate_conditional().                     *)
Needed(j, c) == Signed(jobs[j].order) > Signed(last[c])

InvalidateConditional(j) ==
  /\ jobs[j].st = "starting" /\ jobs[j].left # <<>>
  /\ LET c == Head(jobs[j].left) IN
     /\ c \notin clearing
     /\ jobs' = [jobs EXCEPT ![j].left = Tail(@)]
     /\ IF Needed(j, c)
          THEN /\ NewOrder /\ last' = [last EXCEPT ![c] = order + 1]
               /\ clearing' = clearing \cup {c}
          ELSE UNCHANGED <<order, last, clearing>>
  /\ UNCHANGED <<memory, lines, on>>

JobRuns(j) ==
  /\ jobs[j].st = "starting" /\ jobs[j].left = <<>>
  /\ \A c \in Caches : Uses(j, c) => c \notin clearing
  /\ jobs' = [jobs EXCEPT ![j].st = "running"]
  /\ UNCHANGED <<memory, order, last, lines, clearing, on>>

(* The hardware brings memory into the cache for a job.                    *)
Fetch(j, c) ==
  /\ jobs[j].st = "running" /\ Uses(j, c) /\ lines[c] = None
  /\ lines' = [lines EXCEPT ![c] = memory]
  /\ UNCHANGED <<memory, order, jobs, last, clearing, on>>

JobDone(j) ==
  /\ jobs[j].st = "running"
  /\ jobs' = [jobs EXCEPT ![j] = [st |-> "new", order |-> 0, needs |-> 0, left |-> <<>>]]
  /\ UNCHANGED <<memory, order, last, lines, clearing, on>>

-----------------------------------------------------------------------------
(* mali_l2_cache_send_command() waits until the handler is idle, and gives *)
(* up after 100000 reads; nobody looks at the result.                      *)
SendCommand(c) ==
  /\ c \in clearing /\ clearing' = clearing \ {c}
  /\ \E ok \in {TRUE, ~CommandsTimeOut} : lines' = IF ok THEN [lines EXCEPT ![c] = None] ELSE lines
  /\ UNCHANGED <<memory, order, jobs, last, on>>

(* mali_l2_cache_invalidate_all(), one cache; caches without power are     *)
(* passed over.                                                            *)
InvalidateAll(c) ==
  /\ c \in on /\ c \notin clearing
  /\ NewOrder /\ last' = [last EXCEPT ![c] = order + 1]
  /\ clearing' = clearing \cup {c}
  /\ UNCHANGED <<memory, jobs, lines, on>>

(* mali_l2_cache_invalidate_all_pages(), one cache: no number is drawn.    *)
InvalidatePages(c) ==
  /\ c \in on /\ c \notin clearing
  /\ clearing' = clearing \cup {c}
  /\ UNCHANGED <<memory, order, jobs, last, lines, on>>

(* mali_group_resume_gp_with_new_heap(): the job goes on with memory that  *)
(* was written after it started (mali_l2_cache_invalidate).                *)
ResumeWithNewHeap(j) ==
  /\ jobs[j].st = "running" /\ j \in Grows /\ ~Starts /\ jobs[j].needs < memory
  /\ LET c == Head(CachesOf[j]) IN
     /\ c \notin clearing
     /\ NewOrder /\ last' = [last EXCEPT ![c] = order + 1]
     /\ clearing' = clearing \cup {c}
  /\ jobs' = [jobs EXCEPT ![j].st = "starting", ![j].needs = memory]
  /\ UNCHANGED <<memory, lines, on>>

(* mali_l2_cache_power_up() resets the cache.                              *)
PowerUp(c) ==
  /\ c \notin on /\ c \notin clearing
  /\ on' = on \cup {c} /\ lines' = [lines EXCEPT ![c] = None]
  /\ UNCHANGED <<memory, order, jobs, last, clearing>>

(* mali_l2_cache_power_down()                                              *)
PowerDown(c) ==
  /\ c \in on /\ c \notin clearing /\ Users(c) = {}
  /\ on' = on \ {c}
  /\ UNCHANGED <<memory, order, jobs, last, lines, clearing>>

-----------------------------------------------------------------------------
Next ==
  \/ ClientWrites
  \/ \E j \in Jobs :
       \/ Queue(j) \/ Start(j) \/ InvalidateConditional(j) \/ JobRuns(j) \/ JobDone(j)
       \/ ResumeWithNewHeap(j) \/ \E c \in Caches : Fetch(j, c)
  \/ \E c \in Caches :
       SendCommand(c) \/ InvalidateAll(c) \/ InvalidatePages(c) \/ PowerUp(c) \/ PowerDown(c)

Spec == Init /\ [][Next]_vars

-----------------------------------------------------------------------------
(* A job never finds in a cache what was there before its memory was       *)
(* written, although it does not clear caches that were cleared since it   *)
(* was queued (comment at mali_l2_cache.c 382-389).                        *)
FreshMemory ==
  \A j \in Jobs, c \in Caches :
    jobs[j].st = "running" /\ Uses(j, c) /\ lines[c] # None => lines[c] >= jobs[j].needs

-----------------------------------------------------------------------------
(* The proof of FreshMemory, for any jobs, caches and number of writes, as *)
(* long as fewer than Half numbers are drawn and the caches execute their  *)
(* commands.                                                               *)

Job ==
  [st : {"new", "queued", "starting", "running"}, order : Nat, needs : Nat, left : Seq(Caches)]

TypeOK ==
  /\ memory \in Nat /\ order \in 0 .. MaxOrder
  /\ jobs \in [Jobs -> Job]
  /\ last \in [Caches -> 0 .. MaxOrder]
  /\ lines \in [Caches -> Nat \cup {None}]

\* What the cache has is no older than the memory of the job.
Fresh(j, c) == lines[c] = None \/ lines[c] >= jobs[j].needs

\* The cache is to be cleared, or is.
Served(j, c) == c \in clearing \/ Fresh(j, c)

Left(j, c) == \E i \in DOMAIN jobs[j].left : jobs[j].left[i] = c

\* Numbers are drawn in turn, and a job needs memory that has been written.
NumbersInTurn ==
  /\ \A c \in Caches : last[c] <= order
  /\ \A j \in Jobs :
       /\ jobs[j].order <= order /\ jobs[j].needs <= memory
       /\ jobs[j].st = "running" => jobs[j].left = <<>>

\* A cache whose number is not below the job's was told to clear after the job was
\* queued.  This is why the job may pass it over.
ClearedSinceQueued ==
  \A j \in Jobs, c \in Caches :
    jobs[j].st # "new" /\ Uses(j, c) /\ jobs[j].order <= last[c] => Served(j, c)

\* While a job starts, the caches it has dealt with are served.
DealtWith ==
  \A j \in Jobs, c \in Caches :
    jobs[j].st = "starting" /\ Uses(j, c) /\ ~Left(j, c) => Served(j, c)

\* And once it runs they stay fresh, whatever is cleared or fetched.
RunsFresh ==
  \A j \in Jobs, c \in Caches : jobs[j].st = "running" /\ Uses(j, c) => Fresh(j, c)

IInv == TypeOK /\ NumbersInTurn /\ ClearedSinceQueued /\ DealtWith /\ RunsFresh
-----------------------------------------------------------------------------
\* No number is so large that it looks negative.
LEMMA SignedIsItself ==
  ASSUME NEW x \in 0 .. MaxOrder
  PROVE  Signed(x) = x
<1>1. x \in Nat /\ 2 * Half \in Nat /\ x < 2 * Half /\ x < Half
  BY OrderAssumption
<1>2. \A n, m \in Nat : n < m => n % m = n
  OBVIOUS
<1>3. x % (2 * Half) = x
  BY <1>1, <1>2
<1> QED
  BY <1>1, <1>3 DEF Signed

\* An element of a sequence is its head or in its tail.
LEMMA HeadOrTail ==
  ASSUME NEW S, NEW s \in Seq(S), s # <<>>, NEW i \in DOMAIN s
  PROVE  s[i] = Head(s) \/ \E k \in DOMAIN Tail(s) : Tail(s)[k] = s[i]
<1>1. CASE i = 1
  BY <1>1
<1>2. CASE i # 1
  <2>1. i - 1 \in DOMAIN Tail(s) /\ Tail(s)[i - 1] = s[i]
    BY <1>2
  <2> QED
    BY <2>1
<1> QED
  BY <1>1, <1>2

LEMMA InitIInv == Init => IInv
<1> SUFFICES ASSUME Init PROVE IInv
  OBVIOUS
<1> USE OrderAssumption DEF Init
<1>1. TypeOK
  BY DEF TypeOK, Job
<1>2. NumbersInTurn
  BY DEF NumbersInTurn
<1>3. ClearedSinceQueued /\ DealtWith /\ RunsFresh
  BY DEF ClearedSinceQueued, DealtWith, RunsFresh
<1> QED
  BY <1>1, <1>2, <1>3 DEF IInv

\* Steps that leave numbers and jobs alone, and make no cache stale that was served.
LEMMA CachesOnly ==
  ASSUME IInv, TypeOK', memory' >= memory, UNCHANGED <<order, jobs>>,
         \A c \in Caches : last'[c] = last[c],
         \A j \in Jobs, c \in Caches : Fresh(j, c) => Fresh(j, c)',
         \A j \in Jobs, c \in Caches : Served(j, c) => Served(j, c)'
  PROVE  IInv'
<1> USE DEF IInv
<1>1. NumbersInTurn'
  BY DEF NumbersInTurn, TypeOK, Job
<1>2. ClearedSinceQueued'
  BY DEF ClearedSinceQueued, Uses
<1>3. DealtWith'
  BY DEF DealtWith, Uses, Left
<1>4. RunsFresh'
  BY DEF RunsFresh, Uses
<1> QED
  BY <1>1, <1>2, <1>3, <1>4

LEMMA NumbersKept ==
  ASSUME NumbersInTurn, UNCHANGED <<memory, order, last>>,
         \A k \in Jobs : /\ jobs'[k].order <= order /\ jobs'[k].needs <= memory
                         /\ jobs'[k].st = "running" => jobs'[k].left = <<>>
  PROVE  NumbersInTurn'
<1>1. \A c \in Caches : last'[c] <= order'
  BY DEF NumbersInTurn
<1>2. \A k \in Jobs : /\ jobs'[k].order <= order' /\ jobs'[k].needs <= memory'
                      /\ jobs'[k].st = "running" => jobs'[k].left = <<>>
  OBVIOUS
<1> QED
  BY <1>1, <1>2 DEF NumbersInTurn

LEMMA NextIInv ==
  ASSUME ~CommandsTimeOut
  PROVE  IInv /\ [Next]_vars => IInv'
<1> SUFFICES ASSUME IInv, [Next]_vars PROVE IInv'
  OBVIOUS
<1> USE OrderAssumption, CachesAssumption DEF IInv
<1>1. CASE ClientWrites
  <2>1. TypeOK' /\ memory' >= memory
    BY <1>1 DEF ClientWrites, TypeOK
  <2> QED
    BY <1>1, <2>1, CachesOnly DEF ClientWrites, Fresh, Served
<1>2. ASSUME NEW j \in Jobs, Queue(j) PROVE IInv'
  <2> USE <1>2 DEF Queue, NewOrder
  <2>1. /\ order' = order + 1 /\ order' \in 0 .. MaxOrder
        /\ jobs'[j] = [st |-> "queued", order |-> order + 1, needs |-> memory, left |-> <<>>]
        /\ \A k \in Jobs \ {j} : jobs'[k] = jobs[k]
    BY DEF TypeOK
  <2>2. TypeOK'
    BY <2>1 DEF TypeOK, Job
  <2>3. NumbersInTurn'
    BY <2>1 DEF NumbersInTurn, TypeOK, Job
  <2>4. ClearedSinceQueued'
    <3> SUFFICES ASSUME NEW k \in Jobs, NEW c \in Caches,
                        jobs'[k].st # "new", Uses(k, c), jobs'[k].order <= last[c]
                 PROVE  Served(k, c)'
      BY DEF ClearedSinceQueued, Uses
    <3>1. k # j
      BY <2>1 DEF NumbersInTurn, TypeOK
    <3> QED
      BY <2>1, <3>1 DEF ClearedSinceQueued, Served, Fresh
  <2>5. DealtWith'
    BY <2>1 DEF DealtWith, Served, Fresh, Left, Uses
  <2>6. RunsFresh'
    BY <2>1 DEF RunsFresh, Fresh, Uses
  <2> QED
    BY <2>2, <2>3, <2>4, <2>5, <2>6
<1>3. ASSUME NEW j \in Jobs, Start(j) PROVE IInv'
  <2> USE <1>3 DEF Start
  <2>1. /\ jobs'[j] = [jobs[j] EXCEPT !.st = "starting", !.left = CachesOf[j]]
        /\ \A k \in Jobs \ {j} : jobs'[k] = jobs[k]
    BY DEF TypeOK
  <2>2. /\ jobs'[j].st = "starting" /\ jobs'[j].left = CachesOf[j]
        /\ jobs'[j].order = jobs[j].order /\ jobs'[j].needs = jobs[j].needs
    BY <2>1 DEF TypeOK, Job
  <2>3. TypeOK'
    <3>1. jobs[j] \in Job /\ CachesOf[j] \in Seq(Caches)
      BY DEF TypeOK
    <3>2. [jobs[j] EXCEPT !.st = "starting", !.left = CachesOf[j]] \in Job
      BY <3>1, Zenon DEF Job
    <3> QED
      BY <3>2 DEF TypeOK
  <2>4. NumbersInTurn'
    <3>1. ASSUME NEW k \in Jobs
          PROVE  /\ jobs'[k].order <= order /\ jobs'[k].needs <= memory
                 /\ jobs'[k].st = "running" => jobs'[k].left = <<>>
      <4>1. /\ jobs[k].order <= order /\ jobs[k].needs <= memory
            /\ jobs[k].st = "running" => jobs[k].left = <<>>
        BY DEF NumbersInTurn
      <4>2. CASE k = j
        BY <2>2, <4>1, <4>2
      <4>3. CASE k # j
        BY <2>1, <4>1, <4>3
      <4> QED
        BY <4>2, <4>3
    <3> QED
      BY <3>1, NumbersKept
  <2>5. ClearedSinceQueued'
    <3> SUFFICES ASSUME NEW k \in Jobs, NEW c \in Caches,
                        jobs'[k].st # "new", Uses(k, c), jobs'[k].order <= last[c]
                 PROVE  Served(k, c)'
      BY DEF ClearedSinceQueued, Uses
    <3>1. /\ jobs[k].st # "new" /\ jobs[k].order <= last[c]
          /\ jobs'[k].needs = jobs[k].needs
      BY <2>1, <2>2
    <3>2. Served(k, c)
      BY <3>1 DEF ClearedSinceQueued
    <3> QED
      BY <3>1, <3>2 DEF Served, Fresh
  <2>6. DealtWith'
    <3> SUFFICES ASSUME NEW k \in Jobs, NEW c \in Caches,
                        jobs'[k].st = "starting", Uses(k, c), ~Left(k, c)'
                 PROVE  Served(k, c)'
      BY DEF DealtWith, Uses
    <3>1. k # j
      BY <2>2 DEF Left, Uses
    <3>2. jobs'[k] = jobs[k] /\ ~Left(k, c)
      BY <2>1, <3>1 DEF Left
    <3>3. Served(k, c)
      BY <3>2 DEF DealtWith
    <3> QED
      BY <3>2, <3>3 DEF Served, Fresh
  <2>7. RunsFresh'
    <3> SUFFICES ASSUME NEW k \in Jobs, NEW c \in Caches, jobs'[k].st = "running", Uses(k, c)
                 PROVE  Fresh(k, c)'
      BY DEF RunsFresh, Uses
    <3>1. jobs'[k] = jobs[k]
      BY <2>1, <2>2
    <3>2. Fresh(k, c)
      BY <3>1 DEF RunsFresh
    <3> QED
      BY <3>1, <3>2 DEF Fresh
  <2> QED
    BY <2>3, <2>4, <2>5, <2>6, <2>7
<1>4. ASSUME NEW j \in Jobs, InvalidateConditional(j) PROVE IInv'
  <2> DEFINE c == Head(jobs[j].left)
  <2>1. /\ jobs[j].st = "starting" /\ jobs[j].left # <<>> /\ jobs[j].left \in Seq(Caches)
        /\ c \in Caches /\ c \notin clearing /\ UNCHANGED <<memory, lines>>
    BY <1>4 DEF InvalidateConditional, TypeOK, Job
  <2>2. /\ jobs'[j] = [jobs[j] EXCEPT !.left = Tail(@)]
        /\ \A k \in Jobs \ {j} : jobs'[k] = jobs[k]
    BY <1>4 DEF InvalidateConditional, TypeOK
  <2>3. /\ jobs'[j].st = "starting" /\ jobs'[j].left = Tail(jobs[j].left)
        /\ jobs'[j].order = jobs[j].order /\ jobs'[j].needs = jobs[j].needs
    BY <2>1, <2>2 DEF TypeOK, Job
  <2>4. \A k \in Jobs :
          /\ jobs'[k].st = jobs[k].st /\ jobs'[k].order = jobs[k].order
          /\ jobs'[k].needs = jobs[k].needs /\ (k # j => jobs'[k].left = jobs[k].left)
    BY <2>1, <2>2, <2>3
  <2>5. \/ /\ order' = order + 1 /\ order < MaxOrder
           /\ last' = [last EXCEPT ![c] = order + 1] /\ clearing' = clearing \cup {c}
        \/ ~Needed(j, c) /\ UNCHANGED <<order, last, clearing>>
    BY <1>4 DEF InvalidateConditional, NewOrder
  <2>6. TypeOK'
    <3>1. jobs[j] \in Job /\ Tail(jobs[j].left) \in Seq(Caches)
      BY <2>1 DEF TypeOK
    <3>2. [jobs[j] EXCEPT !.left = Tail(@)] \in Job
      BY <3>1, Zenon DEF Job
    <3>3. jobs' \in [Jobs -> Job]
      BY <1>4, <3>2 DEF InvalidateConditional, TypeOK
    <3>4. order' \in 0 .. MaxOrder /\ last' \in [Caches -> 0 .. MaxOrder]
      BY <2>1, <2>5 DEF TypeOK
    <3> QED
      BY <2>1, <3>3, <3>4 DEF TypeOK
  <2>7. NumbersInTurn'
    <3>1. \A d \in Caches : last'[d] <= order'
      <4> SUFFICES ASSUME NEW d \in Caches PROVE last'[d] <= order'
        OBVIOUS
      <4>1. last[d] \in Nat /\ order \in Nat /\ last[d] <= order
        BY DEF NumbersInTurn, TypeOK
      <4>2. CASE last' = [last EXCEPT ![c] = order + 1] /\ order' = order + 1
        <5>1. last'[d] = last[d] \/ last'[d] = order + 1
          BY <4>2 DEF TypeOK
        <5> QED
          BY <4>1, <4>2, <5>1
      <4> QED
        BY <2>5, <4>1, <4>2
    <3>2. \A k \in Jobs :
            /\ jobs'[k].order <= order' /\ jobs'[k].needs <= memory'
            /\ jobs'[k].st = "running" => jobs'[k].left = <<>>
      <4> SUFFICES ASSUME NEW k \in Jobs
                   PROVE  /\ jobs'[k].order <= order' /\ jobs'[k].needs <= memory'
                          /\ jobs'[k].st = "running" => jobs'[k].left = <<>>
        OBVIOUS
      <4>1. jobs[k].order \in Nat /\ order \in Nat /\ jobs[k].order <= order
        BY DEF NumbersInTurn, TypeOK, Job
      <4>2. jobs'[k].order <= order'
        BY <2>4, <2>5, <4>1
      <4> QED
        BY <2>1, <2>4, <4>2 DEF NumbersInTurn
    <3> QED
      BY <3>1, <3>2 DEF NumbersInTurn
  <2>8. \A k \in Jobs, d \in Caches :
          /\ Fresh(k, d) => Fresh(k, d)'
          /\ Served(k, d) => Served(k, d)'
          /\ last'[d] = last[d] \/ Served(k, d)'
    <3> SUFFICES ASSUME NEW k \in Jobs, NEW d \in Caches
                 PROVE  /\ Fresh(k, d) => Fresh(k, d)'
                        /\ Served(k, d) => Served(k, d)'
                        /\ last'[d] = last[d] \/ Served(k, d)'
      OBVIOUS
    <3>1. Fresh(k, d) <=> Fresh(k, d)'
      BY <2>1, <2>4 DEF Fresh
    <3>2. clearing \subseteq clearing' /\ (last'[d] = last[d] \/ d \in clearing')
      BY <2>5 DEF TypeOK
    <3> QED
      BY <3>1, <3>2 DEF Served
  <2>9. ClearedSinceQueued'
    BY <2>4, <2>8 DEF ClearedSinceQueued, Uses
  <2>10. DealtWith'
    <3> SUFFICES ASSUME NEW k \in Jobs, NEW d \in Caches,
                        jobs'[k].st = "starting", Uses(k, d), ~Left(k, d)'
                 PROVE  Served(k, d)'
      BY DEF DealtWith, Uses
    <3>1. CASE k # j
      BY <2>4, <2>8, <3>1 DEF DealtWith, Left
    <3>2. CASE k = j /\ d # c
      <4>1. ~Left(j, d)
        <5> SUFFICES ASSUME NEW i \in DOMAIN jobs[j].left, jobs[j].left[i] = d PROVE FALSE
          BY DEF Left
        <5>1. jobs[j].left[i] = c \/ \E n \in DOMAIN Tail(jobs[j].left) : Tail(jobs[j].left)[n] = jobs[j].left[i]
          BY <2>1, HeadOrTail
        <5>2. \A n \in DOMAIN Tail(jobs[j].left) : Tail(jobs[j].left)[n] # d
          BY <2>3, <3>2 DEF Left
        <5> QED
          BY <3>2, <5>1, <5>2
      <4> QED
        BY <2>1, <2>8, <3>2, <4>1 DEF DealtWith
    <3>3. CASE k = j /\ d = c
      <4>1. CASE clearing' = clearing \cup {c}
        BY <3>3, <4>1 DEF Served
      <4>2. CASE ~Needed(j, c)
        <5>1. jobs[j].order <= last[c]
          <6>1. jobs[j].order \in 0 .. MaxOrder /\ last[c] \in 0 .. MaxOrder
            BY <2>1 DEF TypeOK, Job, NumbersInTurn
          <6> QED
            BY <4>2, <6>1, SignedIsItself DEF Needed
        <5>2. Served(j, c)
          BY <2>1, <3>3, <5>1 DEF ClearedSinceQueued
        <5> QED
          BY <2>1, <2>8, <3>3, <5>2
      <4> QED
        BY <2>5, <4>1, <4>2
    <3> QED
      BY <3>1, <3>2, <3>3
  <2>11. RunsFresh'
    BY <2>4, <2>8 DEF RunsFresh, Uses
  <2> QED
    BY <2>6, <2>7, <2>9, <2>10, <2>11
<1>5. ASSUME NEW j \in Jobs, JobRuns(j) PROVE IInv'
  <2> USE <1>5 DEF JobRuns
  <2>1. /\ jobs'[j] = [jobs[j] EXCEPT !.st = "running"]
        /\ \A k \in Jobs \ {j} : jobs'[k] = jobs[k]
    BY DEF TypeOK
  <2>2. /\ jobs'[j].st = "running" /\ jobs'[j].left = <<>>
        /\ jobs'[j].order = jobs[j].order /\ jobs'[j].needs = jobs[j].needs
    BY <2>1 DEF TypeOK, Job
  <2>3. TypeOK'
    <3>1. jobs[j] \in Job /\ "running" \in {"new", "queued", "starting", "running"}
      BY DEF TypeOK
    <3>2. [jobs[j] EXCEPT !.st = "running"] \in Job
      BY <3>1, Zenon DEF Job
    <3> QED
      BY <3>2 DEF TypeOK
  <2>4. NumbersInTurn'
    <3>1. ASSUME NEW k \in Jobs
          PROVE  /\ jobs'[k].order <= order /\ jobs'[k].needs <= memory
                 /\ jobs'[k].st = "running" => jobs'[k].left = <<>>
      <4>1. /\ jobs[k].order <= order /\ jobs[k].needs <= memory
            /\ jobs[k].st = "running" => jobs[k].left = <<>>
        BY DEF NumbersInTurn
      <4>2. CASE k = j
        BY <2>2, <4>1, <4>2
      <4>3. CASE k # j
        BY <2>1, <4>1, <4>3
      <4> QED
        BY <4>2, <4>3
    <3> QED
      BY <3>1, NumbersKept
  <2>5. ClearedSinceQueued'
    <3> SUFFICES ASSUME NEW k \in Jobs, NEW c \in Caches,
                        jobs'[k].st # "new", Uses(k, c), jobs'[k].order <= last[c]
                 PROVE  Served(k, c)'
      BY DEF ClearedSinceQueued, Uses
    <3>1. /\ jobs[k].st # "new" /\ jobs[k].order <= last[c]
          /\ jobs'[k].needs = jobs[k].needs
      BY <2>1, <2>2
    <3>2. Served(k, c)
      BY <3>1 DEF ClearedSinceQueued
    <3> QED
      BY <3>1, <3>2 DEF Served, Fresh
  <2>6. DealtWith'
    <3> SUFFICES ASSUME NEW k \in Jobs, NEW c \in Caches,
                        jobs'[k].st = "starting", Uses(k, c), ~Left(k, c)'
                 PROVE  Served(k, c)'
      BY DEF DealtWith, Uses
    <3>1. k # j
      BY <2>2
    <3>2. jobs'[k] = jobs[k] /\ ~Left(k, c)
      BY <2>1, <3>1 DEF Left
    <3>3. Served(k, c)
      BY <3>2 DEF DealtWith
    <3> QED
      BY <3>2, <3>3 DEF Served, Fresh
  <2>7. \A c \in Caches : Uses(j, c) => Fresh(j, c)
    BY DEF DealtWith, Left, Served
  <2>8. RunsFresh'
    <3> SUFFICES ASSUME NEW k \in Jobs, NEW c \in Caches, jobs'[k].st = "running", Uses(k, c)
                 PROVE  Fresh(k, c)'
      BY DEF RunsFresh, Uses
    <3>1. jobs'[k].needs = jobs[k].needs
      BY <2>1, <2>2
    <3>2. CASE k = j
      BY <2>7, <3>1, <3>2 DEF Fresh
    <3>3. CASE k # j
      <4>1. jobs[k].st = "running"
        BY <2>1, <3>3
      <4>2. Fresh(k, c)
        BY <4>1 DEF RunsFresh
      <4> QED
        BY <3>1, <4>2 DEF Fresh
    <3> QED
      BY <3>2, <3>3
  <2> QED
    BY <2>3, <2>4, <2>5, <2>6, <2>8
<1>6. ASSUME NEW j \in Jobs, JobDone(j) PROVE IInv'
  <2> USE <1>6 DEF JobDone
  <2>1. /\ jobs'[j] = [st |-> "new", order |-> 0, needs |-> 0, left |-> <<>>]
        /\ \A k \in Jobs \ {j} : jobs'[k] = jobs[k]
    BY DEF TypeOK
  <2>2. TypeOK'
    BY <2>1 DEF TypeOK, Job
  <2>3. NumbersInTurn'
    <3>1. ASSUME NEW k \in Jobs
          PROVE  /\ jobs'[k].order <= order /\ jobs'[k].needs <= memory
                 /\ jobs'[k].st = "running" => jobs'[k].left = <<>>
      <4>1. /\ jobs[k].order <= order /\ jobs[k].needs <= memory
            /\ jobs[k].st = "running" => jobs[k].left = <<>>
        BY DEF NumbersInTurn
      <4>2. CASE k = j
        BY <2>1, <4>2 DEF TypeOK
      <4>3. CASE k # j
        BY <2>1, <4>1, <4>3
      <4> QED
        BY <4>2, <4>3
    <3> QED
      BY <3>1, NumbersKept
  <2>4. \A k \in Jobs : k = j \/ jobs'[k] = jobs[k]
    BY <2>1
  <2>5. ClearedSinceQueued'
    <3> SUFFICES ASSUME NEW k \in Jobs, NEW c \in Caches,
                        jobs'[k].st # "new", Uses(k, c), jobs'[k].order <= last[c]
                 PROVE  Served(k, c)'
      BY DEF ClearedSinceQueued, Uses
    <3>1. jobs'[k] = jobs[k]
      BY <2>1, <2>4
    <3>2. Served(k, c)
      BY <3>1 DEF ClearedSinceQueued
    <3> QED
      BY <3>1, <3>2 DEF Served, Fresh
  <2>6. DealtWith'
    BY <2>1, <2>4 DEF DealtWith, Served, Fresh, Left, Uses
  <2>7. RunsFresh'
    BY <2>1, <2>4 DEF RunsFresh, Fresh, Uses
  <2> QED
    BY <2>2, <2>3, <2>5, <2>6, <2>7
<1>7. ASSUME NEW j \in Jobs, ResumeWithNewHeap(j) PROVE IInv'
  <2> DEFINE c == Head(CachesOf[j])
  <2>1. /\ jobs[j].st = "running" /\ jobs[j].left = <<>> /\ j \in Grows
        /\ order' = order + 1 /\ order < MaxOrder
        /\ last' = [last EXCEPT ![c] = order + 1] /\ clearing' = clearing \cup {c}
        /\ UNCHANGED <<memory, lines>>
    BY <1>7 DEF ResumeWithNewHeap, NewOrder, NumbersInTurn
  <2>2. c \in Caches /\ \A d \in Caches : Uses(j, d) => d = c
    BY <2>1 DEF Uses
  <2>3. /\ jobs'[j] = [jobs[j] EXCEPT !.st = "starting", !.needs = memory]
        /\ \A k \in Jobs \ {j} : jobs'[k] = jobs[k]
    BY <1>7 DEF ResumeWithNewHeap, TypeOK
  <2>4. /\ jobs'[j].st = "starting" /\ jobs'[j].left = <<>>
        /\ jobs'[j].order = jobs[j].order /\ jobs'[j].needs = memory
    BY <2>1, <2>3 DEF TypeOK, Job
  <2>5. TypeOK'
    <3> DEFINE r == [jobs[j] EXCEPT !.st = "starting", !.needs = memory]
    <3>1. jobs' = [jobs EXCEPT ![j] = r] /\ jobs \in [Jobs -> Job]
      BY <1>7 DEF ResumeWithNewHeap, TypeOK
    <3>2. r \in Job
      BY <3>1 DEF Job, TypeOK
    <3> HIDE DEF r
    <3>3. jobs' \in [Jobs -> Job]
      BY <3>1, <3>2
    <3> QED
      BY <2>1, <3>3 DEF TypeOK
  <2>6. NumbersInTurn'
    <3>1. \A d \in Caches : last'[d] <= order'
      <4> SUFFICES ASSUME NEW d \in Caches PROVE last'[d] <= order'
        OBVIOUS
      <4>1. last[d] \in Nat /\ order \in Nat /\ last[d] <= order
        BY DEF NumbersInTurn, TypeOK
      <4>2. last'[d] = last[d] \/ last'[d] = order + 1
        BY <2>1 DEF TypeOK
      <4> QED
        BY <2>1, <4>1, <4>2
    <3>2. \A k \in Jobs :
            /\ jobs'[k].order <= order' /\ jobs'[k].needs <= memory'
            /\ jobs'[k].st = "running" => jobs'[k].left = <<>>
      <4> SUFFICES ASSUME NEW k \in Jobs
                   PROVE  /\ jobs'[k].order <= order' /\ jobs'[k].needs <= memory'
                          /\ jobs'[k].st = "running" => jobs'[k].left = <<>>
        OBVIOUS
      <4>1. jobs[k].order \in Nat /\ order \in Nat /\ jobs[k].order <= order /\ memory \in Nat
        BY DEF NumbersInTurn, TypeOK, Job
      <4>2. jobs'[k].order = jobs[k].order
        BY <2>3, <2>4
      <4>3. jobs'[k].order <= order'
        BY <2>1, <4>1, <4>2
      <4>4. CASE k = j
        <5>1. memory <= memory
          BY <4>1
        <5> QED
          BY <2>1, <2>4, <4>3, <4>4, <5>1
      <4>5. CASE k # j
        <5>1. jobs'[k] = jobs[k] /\ memory' = memory
          BY <2>1, <2>3, <4>5
        <5> QED
          BY <4>3, <5>1 DEF NumbersInTurn
      <4> QED
        BY <4>4, <4>5
    <3> QED
      BY <3>1, <3>2 DEF NumbersInTurn
  <2>7. \A k \in Jobs \ {j}, d \in Caches :
          /\ Fresh(k, d) => Fresh(k, d)'
          /\ Served(k, d) => Served(k, d)'
          /\ last'[d] = last[d] \/ Served(k, d)'
    BY <2>1, <2>3 DEF Fresh, Served, TypeOK
  <2>8. \A d \in Caches : Uses(j, d) => Served(j, d)'
    BY <2>1, <2>2 DEF Served
  <2>9. ClearedSinceQueued'
    BY <2>3, <2>7, <2>8 DEF ClearedSinceQueued, Uses
  <2>10. DealtWith'
    BY <2>3, <2>7, <2>8 DEF DealtWith, Uses, Left
  <2>11. RunsFresh'
    <3> SUFFICES ASSUME NEW k \in Jobs, NEW d \in Caches, jobs'[k].st = "running", Uses(k, d)
                 PROVE  Fresh(k, d)'
      BY DEF RunsFresh, Uses
    <3>1. k # j
      BY <2>4
    <3> QED
      BY <2>3, <2>7, <3>1 DEF RunsFresh
  <2> QED
    BY <2>5, <2>6, <2>9, <2>10, <2>11
<1>8. ASSUME NEW j \in Jobs, NEW c \in Caches, Fetch(j, c) PROVE IInv'
  <2>1. TypeOK' /\ memory' >= memory
    BY <1>8 DEF Fetch, TypeOK
  <2>2. \A k \in Jobs, d \in Caches : Fresh(k, d) => Fresh(k, d)'
    BY <1>8 DEF Fetch, Fresh, TypeOK, NumbersInTurn, Job
  <2> QED
    BY <1>8, <2>1, <2>2, CachesOnly DEF Fetch, Served
<1>9. ASSUME NEW c \in Caches, SendCommand(c) PROVE IInv'
  <2>1. lines' = [lines EXCEPT ![c] = None] /\ clearing' = clearing \ {c}
    BY <1>9 DEF SendCommand
  <2>2. TypeOK' /\ memory' >= memory
    BY <1>9, <2>1 DEF SendCommand, TypeOK
  <2>3. \A k \in Jobs, d \in Caches : Fresh(k, d) => Fresh(k, d)'
    BY <1>9, <2>1 DEF SendCommand, Fresh, TypeOK
  <2>4. \A k \in Jobs, d \in Caches : Served(k, d) => Served(k, d)'
    BY <1>9, <2>1 DEF SendCommand, Fresh, Served, TypeOK
  <2> QED
    BY <1>9, <2>2, <2>3, <2>4, CachesOnly DEF SendCommand
<1>10. ASSUME NEW c \in Caches, InvalidateAll(c) PROVE IInv'
  <2> USE <1>10 DEF InvalidateAll, NewOrder
  <2>1. TypeOK'
    BY DEF TypeOK
  <2>2. NumbersInTurn'
    BY DEF NumbersInTurn, TypeOK, Job
  <2>3. \A k \in Jobs, d \in Caches :
          /\ Fresh(k, d) => Fresh(k, d)'
          /\ Served(k, d) => Served(k, d)'
          /\ last'[d] = last[d] \/ Served(k, d)'
    BY DEF Fresh, Served, TypeOK
  <2>4. ClearedSinceQueued' /\ DealtWith' /\ RunsFresh'
    BY <2>3 DEF ClearedSinceQueued, DealtWith, RunsFresh, Uses, Left
  <2> QED
    BY <2>1, <2>2, <2>4
<1>11. ASSUME NEW c \in Caches, InvalidatePages(c) \/ PowerUp(c) \/ PowerDown(c) PROVE IInv'
  <2>1. TypeOK' /\ memory' >= memory
    BY <1>11 DEF InvalidatePages, PowerUp, PowerDown, TypeOK
  <2>2. \A k \in Jobs, d \in Caches :
          (Fresh(k, d) => Fresh(k, d)') /\ (Served(k, d) => Served(k, d)')
    BY <1>11 DEF InvalidatePages, PowerUp, PowerDown, Fresh, Served, TypeOK
  <2> QED
    BY <1>11, <2>1, <2>2, CachesOnly DEF InvalidatePages, PowerUp, PowerDown
<1>12. CASE UNCHANGED vars
  BY <1>12, CachesOnly DEF vars, TypeOK, Fresh, Served
<1> QED
  BY <1>1, <1>2, <1>3, <1>4, <1>5, <1>6, <1>7, <1>8, <1>9, <1>10, <1>11, <1>12 DEF Next

\* Jobs that pass over a cache cleared since they were queued, caches cleared for other
\* jobs at the same time and heaps that grow: none lets a job read what is older than its
\* memory (mali_l2_cache_invalidate_conditional).
THEOREM ReadsFresh ==
  ASSUME ~CommandsTimeOut
  PROVE  Spec => []FreshMemory
<1>1. IInv => FreshMemory
  BY DEF IInv, RunsFresh, Fresh, FreshMemory
<1> QED
  BY <1>1, InitIInv, NextIInv, PTL DEF Spec
=============================================================================
