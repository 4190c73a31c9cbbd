--------------------------------- MODULE Rotate ---------------------------------
(***************************************************************************)
(* The rotation unit of the sunxi display driver (subdev/sunxi_rotate.c,   *)
(* subdev/sun50iw1_transform.c).  Clients acquire the unit, commit tasks   *)
(* and either sleep until theirs is done or leave it to be queried; tasks  *)
(* wait in a queue, and whoever finds the unit idle, a client or the       *)
(* interrupt of the task before, starts the next one.  The interrupt may   *)
(* come on the CPU of a caller, whose locks do not keep it out.            *)
(***************************************************************************)
EXTENDS Integers, Sequences, FiniteSets

CONSTANTS
  Threads,       \* threads of clients
  Tasks,
  None,
  GuessesIds,    \* a task may be queried before its commit has returned
  Retries,       \* a client may release again what it was told it could not release
  IdFails,       \* no id may be left for a client
  BadIds         \* a client may commit with an id that is not its own

Contexts == Threads \cup {"irq"}

VARIABLES
  task,      \* task -> references, status, whether its client sleeps
  queue,     \* rotate_work
  queried,   \* qurey_head: tasks that are to be queried
  active,    \* "idle", "work" or "finish"
  current,   \* current_task
  hw,        \* the task the unit works on
  lock,      \* process_lock
  pc,        \* context -> what it does next
  below,     \* the thread whose CPU handles the interrupt
  head,      \* it has head_lock
  mine,      \* thread -> the task it has committed
  ids,       \* the threads that have an id
  unit,      \* used_cnt, and how often clock and unit were switched on
  missed,    \* history: who queued a task met one who had found the queue empty
  gone,      \* history: the last client left while there was something to do
  wrong      \* what went wrong

vars == <<task, queue, queried, active, current, hw, lock, pc, below, head, mine, ids, unit,
          missed, gone, wrong>>
clients == <<ids, unit, gone>>

Free == [refs |-> 0, status |-> "none", sleeps |-> FALSE]

Init ==
  /\ task = [k \in Tasks |-> Free] /\ queue = <<>> /\ queried = {}
  /\ active = "idle" /\ current = None /\ hw = None /\ lock = None
  /\ pc = [c \in Contexts |-> "idle"] /\ below = None /\ head = FALSE
  /\ mine = [t \in Threads |-> None]
  /\ ids = {} /\ unit = [used |-> 0, clock |-> 0]
  /\ missed = FALSE /\ gone = FALSE /\ wrong = {}

Put(k) == IF task[k].refs <= 1 THEN [task EXCEPT ![k] = Free] ELSE [task EXCEPT ![k].refs = @ - 1]
Without(k) == SelectSeq(queue, LAMBDA j : j # k)
Uses(k) == wrong' = wrong \cup IF task[k].refs = 0 THEN {"freed task"} ELSE {}

(* A thread runs unless its CPU handles the interrupt, and goes into a     *)
(* section under head_lock when nobody has that.                           *)
Runs(c) == c # below
Enters(c) == Runs(c) /\ ~head

-----------------------------------------------------------------------------
(* Clients.                                                                *)

(* sunxi_rotate_aquire(): without an id the mutex is kept.                 *)
Acquire(t) ==
  /\ Runs(t) /\ pc[t] = "idle" /\ t \notin ids
  /\ \E ok \in {TRUE, ~IdFails} :
       /\ ids' = IF ok THEN ids \cup {t} ELSE ids
       /\ wrong' = IF ok THEN wrong ELSE wrong \cup {"mutex kept"}
       /\ unit' = [used |-> unit.used + 1,
                   clock |-> IF ok /\ unit.used = 0 THEN unit.clock + 1 ELSE unit.clock]
  /\ UNCHANGED <<task, queue, queried, active, current, hw, lock, pc, below, head, mine, missed, gone>>

(* Nothing is queued, on its way to the unit or on it.                     *)
Quiet == queue = <<>> /\ current = None /\ \A c \in Contexts : pc[c] = "idle"

(* sunxi_rotate_release() by any thread of the client: whoever calls it    *)
(* while nobody uses the unit switches it off, whatever it does.  The      *)
(* caller is told that it failed.                                          *)
Release(t) ==
  LET used == IF t \in ids THEN unit.used - 1 ELSE unit.used IN
  /\ t \in ids \/ Retries
  /\ unit.clock > -1                                  \* bound
  /\ ids' = ids \ {t}
  /\ unit' = [used |-> used, clock |-> IF used = 0 THEN unit.clock - 1 ELSE unit.clock]
  /\ hw' = IF used = 0 THEN None ELSE hw
  /\ gone' = (gone \/ (used = 0 /\ ~Quiet))
  /\ UNCHANGED <<task, queue, queried, active, current, lock, pc, below, head, mine, missed, wrong>>

(* sunxi_rotate_commit() up to the queue, under head_lock; with a bad id   *)
(* it frees a pointer that was never set.                                  *)
Commit(t) ==
  /\ Enters(t) /\ pc[t] = "idle" /\ (t \in ids \/ BadIds)
  /\ IF t \in ids
       THEN \E k \in Tasks, sleeps \in BOOLEAN :
              /\ task[k].refs = 0
              /\ task' = [task EXCEPT ![k] = [refs |-> 1, status |-> "no start", sleeps |-> sleeps]]
              /\ queue' = Append(queue, k)
              /\ pc' = [pc EXCEPT ![t] = IF sleeps THEN "schedule" ELSE "list"]
              /\ mine' = [mine EXCEPT ![t] = k]
              /\ UNCHANGED wrong
       ELSE wrong' = wrong \cup {"pointer not set"} /\ UNCHANGED <<task, queue, pc, mine>>
  /\ UNCHANGED <<queried, active, current, hw, lock, below, head, missed, clients>>

(* A task nobody sleeps for goes to the list of queries, under its mutex.  *)
(* query_cnt is counted down as often as up, so the list is never cut.     *)
ListQuery(t) ==
  /\ Runs(t) /\ pc[t] = "list"
  /\ queried' = queried \cup {mine[t]}
  /\ pc' = [pc EXCEPT ![t] = "schedule"]
  /\ UNCHANGED <<task, queue, active, current, hw, lock, below, head, mine, missed, clients, wrong>>

(* Back from sunxi_schedule_process() the task is asked whether to sleep.  *)
ReadSleepMode(t) ==
  /\ Runs(t) /\ pc[t] = "read"
  /\ Uses(mine[t])
  /\ IF task[mine[t]].sleeps
       THEN pc' = [pc EXCEPT ![t] = "sleep"] /\ UNCHANGED mine
       ELSE pc' = [pc EXCEPT ![t] = "idle"] /\ mine' = [mine EXCEPT ![t] = None]
  /\ UNCHANGED <<task, queue, queried, active, current, hw, lock, below, head, missed, clients>>

(* The end of the sleep: the task is done, or time is up or a signal has   *)
(* come, and what has not been started never will be.                      *)
SleepEnd(t) ==
  /\ Enters(t) /\ pc[t] = "sleep"
  /\ queue' = Without(mine[t]) /\ task' = Put(mine[t]) /\ Uses(mine[t])
  /\ pc' = [pc EXCEPT ![t] = "idle"] /\ mine' = [mine EXCEPT ![t] = None]
  /\ UNCHANGED <<queried, active, current, hw, lock, below, head, missed, clients>>

(* sunxi_rotate_query(): a task is dropped when its time is up.            *)
Query(t) ==
  /\ Enters(t) /\ pc[t] = "idle" /\ t \in ids
  /\ \E k \in queried :
       /\ GuessesIds \/ \A u \in Threads : mine[u] # k
       /\ queue' = Without(k) /\ queried' = queried \ {k} /\ task' = Put(k) /\ Uses(k)
  /\ UNCHANGED <<active, current, hw, lock, pc, below, head, mine, missed, clients>>

-----------------------------------------------------------------------------
(* sunxi_schedule_process() of a client or of the interrupt, whose handler *)
(* returns then.                                                           *)
Goes(c, to) ==
  /\ Runs(c)
  /\ pc' = [pc EXCEPT ![c] = IF to # "after" THEN to ELSE IF c = "irq" THEN "idle" ELSE "read"]
  /\ LET returns == c = "irq" /\ to = "after"
     IN below' = (IF returns THEN None ELSE below) /\ head' = (head /\ ~returns)

Lock(c) ==
  /\ pc[c] = "schedule" /\ lock = None
  /\ lock' = c /\ Goes(c, "locked")
  /\ UNCHANGED <<task, queue, queried, active, current, hw, mine, missed, clients, wrong>>

(* Mutant: the lock is kept by who finds the unit at work.                 *)
Claim_KeepsLock(c) ==
  /\ pc[c] = "locked"
  /\ lock' = IF active = "idle" THEN None ELSE lock
  /\ active' = IF active = "idle" THEN "work" ELSE active
  /\ Goes(c, IF active = "idle" THEN "take" ELSE "after")
  /\ UNCHANGED <<task, queue, queried, current, hw, mine, missed, clients, wrong>>

Claim(c) ==
  /\ pc[c] = "locked" /\ lock' = None
  /\ IF active = "idle"
       THEN active' = "work" /\ missed' = FALSE /\ Goes(c, "take")
       ELSE missed' = (missed \/ \E d \in Contexts : pc[d] = "empty") /\ Goes(c, "after") /\ UNCHANGED active
  /\ UNCHANGED <<task, queue, queried, current, hw, mine, clients, wrong>>


Take(c) ==
  /\ Enters(c) /\ pc[c] = "take"
  /\ IF queue = <<>>
       THEN Goes(c, "empty") /\ UNCHANGED <<task, queue, current>>
       ELSE /\ current' = Head(queue) /\ queue' = Tail(queue)
            /\ task' = [task EXCEPT ![Head(queue)].refs = @ + 1]
            /\ Goes(c, "start")
  /\ UNCHANGED <<queried, active, hw, lock, mine, missed, clients, wrong>>

(* A task is given to the unit, if the unit is on.                         *)
Start(c) ==
  /\ pc[c] = "start"
  /\ task' = [task EXCEPT ![current].status = "busy"] /\ Uses(current)
  /\ hw' = IF unit.used > 0 THEN current ELSE None
  /\ Goes(c, "after")
  /\ UNCHANGED <<queue, queried, active, current, lock, mine, missed, clients>>

(* Nothing to do: the unit is said to be idle, without the lock.           *)
Empty(c) ==
  /\ pc[c] = "empty"
  /\ active' = "idle" /\ Goes(c, "after")
  /\ UNCHANGED <<task, queue, queried, current, hw, lock, mine, missed, clients, wrong>>

-----------------------------------------------------------------------------
(* sunxi_rotate_interrupt() on the CPU of a caller or another one; a       *)
(* caller that is not on its way to the unit may be in the section under   *)
(* head_lock with which a commit, a query or a sleep ends.  The task is    *)
(* done, its sleeper is woken and the reference of the unit goes;  *)
(* then the next task.                                                     *)
Interrupt ==
  /\ hw # None /\ pc["irq"] = "idle"
  /\ \/ below' = None /\ head' = FALSE
     \/ \E t \in Threads, inside \in BOOLEAN :
          /\ CASE pc[t] = "idle" -> inside /\ t \in ids
               [] pc[t] = "sleep" -> inside
               [] OTHER -> inside => pc[t] = "take"
          /\ below' = t /\ head' = inside
  /\ active' = "finish" /\ hw' = None /\ current' = None
  /\ task' = Put(current) /\ Uses(current)
  /\ pc' = [pc EXCEPT !["irq"] = "finished"]
  /\ UNCHANGED <<queue, queried, lock, mine, missed, clients>>

InterruptGoesOn ==
  /\ pc["irq"] = "finished"
  /\ active' = "idle"
  /\ pc' = [pc EXCEPT !["irq"] = "schedule"]
  /\ UNCHANGED <<task, queue, queried, current, hw, lock, below, head, mine, missed, clients, wrong>>

Schedules(c) == Lock(c) \/ Claim(c) \/ Take(c) \/ Start(c) \/ Empty(c)

(* What a thread or the handler does next, once it has begun.              *)
GoesOn(c) ==
  \/ Schedules(c)
  \/ IF c = "irq" THEN Interrupt \/ InterruptGoesOn ELSE ListQuery(c) \/ ReadSleepMode(c)

Next ==
  \/ \E t \in Threads : Acquire(t) \/ Release(t) \/ Commit(t) \/ SleepEnd(t) \/ Query(t)
  \/ \E t \in Threads : ListQuery(t) \/ ReadSleepMode(t)
  \/ \E c \in Contexts : Lock(c) \/ Claim(c) \/ Take(c) \/ Start(c) \/ Empty(c)
  \/ Interrupt \/ InterruptGoesOn

(* Handlers and calls go on; the unit completes what it was given; a spin  *)
(* lock of the kernel is given in turn to those who wait for it, if it is  *)
(* given back.                                                             *)
Fairness == (\A c \in Contexts : WF_vars(GoesOn(c))) /\ SF_vars(Lock("irq"))

Spec == Init /\ [][Next]_vars /\ Fairness

-----------------------------------------------------------------------------
(* A task has a reference for its sleeper or the list of queries and one   *)
(* for the unit, so nobody uses one that is freed; the unit and its clock  *)
(* are on exactly while clients have it; the unit works on the current     *)
(* task alone, and when it is said to work it does, or somebody is on the  *)
(* way to it, unless the last client has switched it off meanwhile         *)
(* (sunxi_rotate.c 145-196, 317-407, 451-513).  A task that waits while    *)
(* the unit is idle will be started by somebody on the way, unless it was  *)
(* queued between another's look at the empty queue and its saying so      *)
(* (159-171).                                                              *)
Owned(k) ==
  k \in queried \/ \E t \in Threads : mine[t] = k /\ (task[k].sleeps \/ pc[t] = "list")

RotateSound ==
  /\ wrong = {}
  /\ \A k \in Tasks : task[k].refs = (IF Owned(k) THEN 1 ELSE 0) + (IF current = k THEN 1 ELSE 0)
  /\ unit.used = Cardinality(ids)
  /\ unit.clock = (IF unit.used > 0 THEN 1 ELSE 0)
  /\ hw # None => hw = current /\ active = "work"
  /\ active = "work" =>
       hw # None \/ gone \/ \E c \in Contexts : pc[c] \in {"take", "start", "empty"}
  /\ queue # <<>> /\ active = "idle" =>
       missed \/ \E c \in Contexts : pc[c] \in {"list", "schedule", "locked", "finished"}

(* The interrupt has come on the CPU of the thread that has process_lock   *)
(* or head_lock, which both take with a plain spin_lock() (149, 158): when *)
(* the handler takes that too, neither goes on.                            *)
SelfDeadlock == below # None /\ (lock = below \/ head)

(* The handler of the interrupt returns (176-198), unless it waits for a   *)
(* lock of the thread below it.                                            *)
Handling == pc["irq"] # "idle"
Handled == pc["irq"] = "idle" \/ SelfDeadlock
RotateEnds == Handling ~> Handled
=============================================================================
