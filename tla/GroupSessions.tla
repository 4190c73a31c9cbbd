----------------------------- MODULE GroupSessions -----------------------------
(***************************************************************************)
(* Which page directory the MMU of each core uses.  A group remembers the  *)
(* session whose directory it set last, as a pointer to the session; on    *)
(* Mali-450 cores join and leave a virtual group, which then remembers it  *)
(* for them.  Memory of a session is unmapped, the TLBs are zapped, and    *)
(* only then are the pages freed; a session is closed by ending its jobs,  *)
(* freeing its memory and then its directory.  A later session may be      *)
(* given the same address.  A directory is the number of its session in    *)
(* the order of opening, 0 the empty one.                                  *)
(***************************************************************************)
EXTENDS Integers, FiniteSets

CONSTANTS
  Cores,     \* PP groups that may join the virtual group
  Gp, Virtual,
  Sessions,  \* addresses of sessions
  None,
  Reuse,     \* whether a session may be given the address of one that was closed
  MaxOpens   \* bound

\* The groups are different objects, and no session has the address NULL.
ASSUME GroupsAssumption == Gp \notin Cores /\ Virtual \notin Cores \cup {Gp} /\ None \notin Sessions

VARIABLES
  opened,   \* number of sessions opened so far
  live,     \* the directory of the session at an address, 0 if there is none
  phase,    \* "open", or how far its closing is
  unmapped, \* sessions with memory unmapped and the TLBs not zapped yet
  members,  \* the cores in the virtual group
  active,   \* groups that are active
  on,       \* cores that have power
  session,  \* mali_group.session
  dir,      \* the directory an MMU uses
  stale,    \* MMUs whose TLB may hold translations to unmapped pages
  job       \* the directory of the job a group works on, 0 if none

vars == <<opened, live, phase, unmapped, members, active, on, session, dir, stale, job>>
sessions == <<opened, live, phase, unmapped>>
power == <<active, on>>

Physical == Cores \cup {Gp}
Groups == Physical \cup {Virtual}
Mmus(g) == IF g = Virtual THEN members ELSE {g}

Init ==
  /\ opened = 0 /\ live = [s \in Sessions |-> 0] /\ phase = [s \in Sessions |-> "closed"]
  /\ unmapped = {} /\ members = Cores /\ active = {} /\ on = {}
  /\ session = [g \in Groups |-> None] /\ dir = [p \in Physical |-> 0]
  /\ stale = {} /\ job = [g \in Groups |-> 0]

\* Activation of a directory, or a reset of the MMU, which leaves the empty one
Point(mmus, d) ==
  /\ dir' = [p \in Physical |-> IF p \in mmus THEN d ELSE dir[p]]
  /\ stale' = stale \ mmus

\* Groups fail their job, or forget their session: mali_group_recovery_reset,
\* mali_group_clear_session
Forget(groups) ==
  /\ Point(UNION {Mmus(g) : g \in groups}, 0)
  /\ session' = [g \in Groups |-> IF g \in groups THEN None ELSE session[g]]
  /\ job' = [g \in Groups |-> IF g \in groups THEN 0 ELSE job[g]]

--------------------------------------------------------------------------------

\* mali_group_activate_page_directory: the TLB is zapped in any case.
ActivatePageDirectory(g, s) ==
  IF session[g] # s THEN Point(Mmus(g), live[s]) ELSE stale' = stale \ Mmus(g) /\ UNCHANGED dir

\* mali_group_start_gp_job, mali_group_start_pp_job
StartJob(g, s) ==
  /\ phase[s] = "open" /\ g \in active /\ job[g] = 0 /\ g \notin members /\ Mmus(g) # {}
  /\ ActivatePageDirectory(g, s)
  /\ session' = [session EXCEPT ![g] = s] /\ job' = [job EXCEPT ![g] = live[s]]
  /\ UNCHANGED <<sessions, members, power>>

\* A job ends well, or fails.
JobDone(g) ==
  /\ job[g] # 0 /\ job' = [job EXCEPT ![g] = 0]
  /\ UNCHANGED <<sessions, members, power, session, dir, stale>>
JobFails(g) == job[g] # 0 /\ Forget({g}) /\ UNCHANGED <<sessions, members, power>>

--------------------------------------------------------------------------------

\* mali_group_set_active of the GP and of the virtual group, once all their cores have
\* power; the cores of the virtual group are reset.
Activate(g) ==
  /\ g \in {Gp, Virtual} \ active /\ Mmus(g) \subseteq on
  /\ active' = active \cup {g} \cup Mmus(g)
  /\ IF g = Virtual THEN Point(members, 0) ELSE UNCHANGED <<dir, stale>>
  /\ UNCHANGED <<sessions, members, on, session, job>>

\* mali_group_deactivate
Deactivate(g) ==
  /\ g \in active \ members /\ job[g] = 0 /\ active' = active \ ({g} \cup Mmus(g))
  /\ IF g = Virtual /\ session[g] # None THEN Forget({g}) ELSE UNCHANGED <<session, dir, stale, job>>
  /\ UNCHANGED <<sessions, members, on>>

\* mali_group_power_down, mali_group_power_up
PowerDown(p) ==
  /\ p \in on \ active /\ on' = on \ {p} /\ Forget({p})
  /\ UNCHANGED <<sessions, members, active>>
\* A core outside the virtual group that waits for power is active with it.
PowerUp(p) ==
  /\ p \notin on /\ on' = on \cup {p}
  /\ active' = active \/ (p \in Cores \ members /\ active' = active \cup {p})
  /\ UNCHANGED <<sessions, members, session, dir, stale, job>>

\* mali_group_remove_group
Remove(c, then) ==
  /\ c \in members /\ job[Virtual] = 0 /\ members' = members \ {c}
  /\ session' = [session EXCEPT ![c] = then,
                                ![Virtual] = IF members = {c} THEN None ELSE @]

\* A core is disabled; mali_group_acquire_group takes it from an inactive group, and
\* from an active group to start a job on it.
Disable(c) ==
  /\ Remove(c, session[Virtual]) /\ active' = active \ {c}
  /\ UNCHANGED <<sessions, on, dir, stale, job>>
Acquire(c) ==
  /\ Virtual \notin active /\ Remove(c, session[Virtual])
  /\ IF c \in on THEN Point({c}, 0) ELSE UNCHANGED <<dir, stale>>
  /\ UNCHANGED <<sessions, power, job>>
AcquireAndStart(c, s) ==
  /\ Virtual \in active /\ phase[s] = "open" /\ Remove(c, s)
  /\ job' = [job EXCEPT ![c] = live[s]]
  /\ IF session[Virtual] # s THEN Point({c}, live[s]) ELSE stale' = stale \ {c} /\ UNCHANGED dir
  /\ UNCHANGED <<sessions, power>>

\* Mutant: a core that joins keeps the directory it has.
JoinDirectory_Keep(c) == UNCHANGED <<dir, session>> /\ stale' = stale \ {c}

\* The part of mali_group_add_group about the MMU
JoinDirectory(c) ==
  /\ IF session[Virtual] = None
     THEN IF session[c] # None THEN Point({c}, 0) ELSE UNCHANGED <<dir, stale>>
     ELSE IF session[Virtual] = session[c] THEN stale' = stale \ {c} /\ UNCHANGED dir
     ELSE Point({c}, live[session[Virtual]])
  /\ session' = IF session[Virtual] = None THEN session ELSE [session EXCEPT ![c] = None]

\* mali_executor_physical_rejoin_virtual; a core joins the job of the virtual group.
Rejoin(c, activated) ==
  /\ c \in activated \ members /\ c \in Cores /\ job[c] = 0 /\ members' = members \cup {c}
  /\ active' = IF Virtual \in active THEN activated ELSE activated \ {c}
  /\ JoinDirectory(c) /\ UNCHANGED <<sessions, on, job>>
Join(c) == Rejoin(c, active)

\* A disabled core that still has power is enabled, and joins at once; one without power
\* waits for it.
Enable(c) == c \in on \ active /\ Rejoin(c, active \cup {c})

--------------------------------------------------------------------------------

Open(s) ==
  /\ phase[s] = "closed" \/ (phase[s] = "over" /\ Reuse)
  /\ opened < MaxOpens /\ opened' = opened + 1
  /\ live' = [live EXCEPT ![s] = opened + 1] /\ phase' = [phase EXCEPT ![s] = "open"]
  /\ UNCHANGED <<unmapped, members, power, session, dir, stale, job>>

\* mali_mem_mali_map_free takes pages out of the directory and then zaps the TLBs.
Unmap(s) ==
  /\ phase[s] \in {"open", "aborted"} /\ unmapped' = unmapped \cup {s}
  /\ stale' = stale \cup {p \in Physical : dir[p] = live[s]}
  /\ UNCHANGED <<opened, live, phase, members, power, session, dir, job>>

\* mali_executor_zap_all_active: the GP, the virtual group and the PP groups that work; a
\* job with a page fault fails.
ZapAll(s, faulty) ==
  LET using == {g \in Groups \ members : session[g] = s /\ (job[g] # 0 \/ g \in {Gp, Virtual})}
      forget == {g \in using : job[g] = 0 \/ g \in faulty}
  IN  /\ dir' = [p \in Physical |-> IF \E g \in forget : p \in Mmus(g) THEN 0 ELSE dir[p]]
      /\ stale' = stale \ UNION {Mmus(g) : g \in using}
      /\ session' = [g \in Groups |-> IF g \in forget THEN None ELSE session[g]]
      /\ job' = [g \in Groups |-> IF g \in forget THEN 0 ELSE job[g]]

Zap(s, faulty) ==
  /\ s \in unmapped /\ unmapped' = unmapped \ {s} /\ ZapAll(s, faulty)
  /\ faulty \subseteq {g \in Groups : job[g] # 0 /\ session[g] = s}
  /\ phase' = [phase EXCEPT ![s] = IF @ = "aborted" THEN "freed" ELSE @]
  /\ UNCHANGED <<opened, live, members, power>>

\* Groups that do not work forget the session: the GP if it is this one, every PP group.
Unused(s) == {g \in Physical \ members : job[g] = 0 /\ (g = Gp => session[g] = s)}

\* mali_executor_abort_session
AbortSession(s) ==
  /\ phase[s] = "open" /\ s \notin unmapped /\ phase' = [phase EXCEPT ![s] = "aborted"]
  /\ Forget({g \in Groups : session[g] = s /\ job[g] # 0} \cup {g \in Unused(s) : session[g] # None})
  /\ UNCHANGED <<opened, live, unmapped, members, power>>

\* All memory of the session is freed, then its directory.
Close(s) ==
  /\ phase[s] = "freed" /\ phase' = [phase EXCEPT ![s] = "over"] /\ live' = [live EXCEPT ![s] = 0]
  /\ UNCHANGED <<opened, unmapped, members, power, session, dir, stale, job>>

Next ==
  \/ \E g \in Groups :
       \/ (\E s \in Sessions : StartJob(g, s)) \/ JobDone(g) \/ JobFails(g)
       \/ Activate(g) \/ Deactivate(g)
  \/ \E p \in Physical : PowerDown(p) \/ PowerUp(p)
  \/ \E c \in Cores : Join(c) \/ Disable(c) \/ Enable(c) \/ Acquire(c) \/ \E s \in Sessions : AcquireAndStart(c, s)
  \/ \E s \in Sessions :
       \/ Open(s) \/ Unmap(s) \/ AbortSession(s) \/ Close(s)
       \/ \E faulty \in SUBSET Groups : Zap(s, faulty)

Spec == Init /\ [][Next]_vars

--------------------------------------------------------------------------------

\* A core that works translates addresses with the directory of the session whose job
\* it works on, and once the TLBs are zapped never to a page that was unmapped.
DirectoriesRight ==
  \A g \in Groups : job[g] # 0 => \A p \in Mmus(g) :
    /\ p \in on /\ dir[p] = job[g]
    /\ p \in stale => \E s \in unmapped : live[s] = job[g]
================================================================================
