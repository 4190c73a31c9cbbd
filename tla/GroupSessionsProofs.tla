--------------------------- MODULE GroupSessionsProofs ---------------------------
(***************************************************************************)
(* Every core translates addresses with the directory of the session whose *)
(* job it works on: proved for any number of cores and sessions, provided  *)
(* no session is opened at the address of one that was closed.  (With that *)
(* it is false, see the run group_stale_session.)                          *)
(***************************************************************************)
EXTENDS GroupSessions, TLAPS

Alive == {"open", "aborted", "freed"}

TypeOK ==
  /\ opened \in Nat /\ live \in [Sessions -> Nat]
  /\ phase \in [Sessions -> Alive \cup {"closed", "over"}]
  /\ unmapped \subseteq Sessions /\ members \subseteq Cores
  /\ active \subseteq Groups /\ on \subseteq Physical
  /\ session \in [Groups -> Sessions \cup {None}]
  /\ dir \in [Physical -> Nat] /\ stale \subseteq Physical
  /\ job \in [Groups -> Nat]

\* Each session that lives has a directory of its own; only such have memory that is
\* unmapped, and nobody has heard of a session before it is opened.
SessionsRight ==
  \A s \in Sessions :
    /\ live[s] <= opened /\ (phase[s] \in Alive => live[s] > 0)
    /\ \A t \in Sessions : phase[s] \in Alive /\ live[t] = live[s] => t = s
    /\ s \in unmapped => phase[s] \in {"open", "aborted"}
    /\ phase[s] = "closed" => \A g \in Groups : session[g] # s

\* What is active has power; a virtual group that is not has no session.
PowerRight ==
  /\ active \ {Virtual} \subseteq on
  /\ IF Virtual \in active THEN members \subseteq active ELSE session[Virtual] = None

\* A group that stands for itself remembers what its MMUs use, unless the session is gone.
Remembers(g) ==
  session[g] # None /\ phase[session[g]] # "over" =>
    \A p \in Mmus(g) : dir[p] = live[session[g]]

\* A group works for an open session, and its TLBs hold what is unmapped only as long
\* as the session has not zapped them.
Works(g) ==
  job[g] # 0 =>
    /\ g \in active \ members
    /\ session[g] # None /\ phase[session[g]] = "open" /\ job[g] = live[session[g]]
    /\ \A p \in Mmus(g) : p \in stale => session[g] \in unmapped

IInv ==
  /\ TypeOK /\ SessionsRight /\ PowerRight
  /\ \A g \in Groups \ members : Remembers(g)
  /\ \A g \in Groups : Works(g)
-----------------------------------------------------------------------------
LEMMA InitIInv == Init => IInv
<1> SUFFICES ASSUME Init PROVE IInv
  OBVIOUS
<1> USE GroupsAssumption DEF Init, Physical, Groups
<1>1. TypeOK
  BY DEF TypeOK
<1>2. SessionsRight
  BY DEF SessionsRight, Alive
<1>3. PowerRight
  BY DEF PowerRight
<1>4. \A g \in Groups : Remembers(g) /\ Works(g)
  BY DEF Remembers, Works
<1> QED
  BY <1>1, <1>2, <1>3, <1>4 DEF IInv

\* Groups that stand for themselves have MMUs of their own.
LEMMA Apart ==
  ASSUME members \subseteq Cores
  PROVE  \A g \in Groups \ members : \A p \in Mmus(g) :
           p \in Physical /\ \A h \in Groups \ members : p \in Mmus(h) => h = g
BY GroupsAssumption DEF Groups, Physical, Mmus

\* Steps after which no group has a session, a job or an MMU that it did not have.
LEMMA NothingNew ==
  ASSUME IInv, TypeOK', PowerRight', UNCHANGED sessions,
         \A g \in Groups : session'[g] \in {session[g], None},
         \A g \in Groups \ members' : session'[g] # None =>
            g \notin members /\ \A p \in Mmus(g)' : p \in Mmus(g) /\ dir'[p] = dir[p],
         \A g \in Groups : job'[g] # 0 =>
            /\ job'[g] = job[g] /\ session'[g] = session[g] /\ g \in active' \ members'
            /\ \A p \in Mmus(g)' : p \in Mmus(g) /\ (p \in stale' => p \in stale)
  PROVE  IInv'
<1> USE DEF IInv, sessions
<1>1. SessionsRight'
  <2>1. \A s \in Sessions : phase'[s] = "closed" => \A g \in Groups : session'[g] # s
    BY GroupsAssumption DEF SessionsRight
  <2> QED
    BY <2>1 DEF SessionsRight
<1>2. \A g \in Groups \ members' : Remembers(g)'
  BY DEF Remembers
<1>3. \A g \in Groups : Works(g)'
  BY DEF Works
<1> QED
  BY <1>1, <1>2, <1>3

\* Groups that stand for themselves forget their session: the others keep theirs.
LEMMA ForgetEffect ==
  ASSUME TypeOK, NEW groups \in SUBSET (Groups \ members), Forget(groups)
  PROVE  /\ \A g \in Groups :
              /\ session'[g] = IF g \in groups THEN None ELSE session[g]
              /\ job'[g] = IF g \in groups THEN 0 ELSE job[g]
         /\ \A g \in Groups \ members : g \notin groups => \A p \in Mmus(g) : dir'[p] = dir[p]
         /\ stale' \subseteq stale
         /\ session' \in [Groups -> Sessions \cup {None}] /\ job' \in [Groups -> Nat]
         /\ dir' \in [Physical -> Nat]
<1> USE DEF Forget, Point, TypeOK
<1>1. \A g \in Groups \ members : g \notin groups => \A p \in Mmus(g) : dir'[p] = dir[p]
  BY Apart
<1>2. /\ \A g \in Groups :
           /\ session'[g] = IF g \in groups THEN None ELSE session[g]
           /\ job'[g] = IF g \in groups THEN 0 ELSE job[g]
      /\ session' \in [Groups -> Sessions \cup {None}] /\ job' \in [Groups -> Nat]
  OBVIOUS
<1>3. dir' \in [Physical -> Nat]
  OBVIOUS
<1> QED
  BY <1>1, <1>2, <1>3

\* Forgetting is all that a step does to sessions and jobs.
LEMMA OnlyForgets ==
  ASSUME IInv, NEW groups \in SUBSET (Groups \ members), Forget(groups),
         UNCHANGED <<opened, live, phase, unmapped, members>>, PowerRight',
         active' \subseteq Groups, on' \subseteq Physical,
         \A g \in Groups \ groups : job[g] # 0 => g \in active'
  PROVE  IInv'
<1> USE DEF IInv, sessions
<1>1. TypeOK'
  BY ForgetEffect DEF TypeOK, Forget, Point
<1>2. \A g \in Groups : Mmus(g)' = Mmus(g)
  BY DEF Mmus
<1>3. \A g \in Groups \ members' : session'[g] # None =>
        g \notin members /\ \A p \in Mmus(g)' : p \in Mmus(g) /\ dir'[p] = dir[p]
  BY <1>2, ForgetEffect
<1>4. \A g \in Groups : job'[g] # 0 =>
        /\ job'[g] = job[g] /\ session'[g] = session[g] /\ g \in active' \ members'
        /\ \A p \in Mmus(g)' : p \in Mmus(g) /\ (p \in stale' => p \in stale)
  BY <1>2, ForgetEffect DEF Works
<1>5. \A g \in Groups : session'[g] \in {session[g], None}
  BY ForgetEffect
<1> QED
  BY <1>1, <1>3, <1>4, <1>5, NothingNew

LEMMA NextIInv ==
  ASSUME ~Reuse
  PROVE  IInv /\ [Next]_vars => IInv'
<1> SUFFICES ASSUME IInv, [Next]_vars PROVE IInv'
  OBVIOUS
<1> USE GroupsAssumption DEF IInv, sessions, power
<1>1. ASSUME NEW g \in Groups, NEW s \in Sessions, StartJob(g, s) PROVE IInv'
  <2>1. /\ phase[s] = "open" /\ g \in active \ members /\ job[g] = 0
        /\ UNCHANGED <<opened, live, phase, unmapped, members, active, on>>
        /\ session' = [session EXCEPT ![g] = s] /\ job' = [job EXCEPT ![g] = live[s]]
    BY <1>1 DEF StartJob
  <2>2. \A h \in Groups : Mmus(h)' = Mmus(h)
    BY <2>1 DEF Mmus
  <2>3. /\ \A p \in Mmus(g) : dir'[p] = live[s] /\ p \notin stale'
        /\ \A p \in Physical \ Mmus(g) : dir'[p] = dir[p]
        /\ stale' \subseteq stale /\ dir' \in [Physical -> Nat]
    <3>1. CASE session[g] # s
      BY <1>1, <3>1, Apart DEF StartJob, ActivatePageDirectory, Point, TypeOK
    <3>2. CASE session[g] = s
      <4>1. \A p \in Mmus(g) : dir[p] = live[s]
        BY <2>1, <3>2 DEF Remembers
      <4> QED
        BY <1>1, <3>2, <4>1 DEF StartJob, ActivatePageDirectory, TypeOK
    <3> QED
      BY <3>1, <3>2
  <2>4. TypeOK'
    BY <2>1, <2>3 DEF TypeOK
  <2>5. SessionsRight'
    BY <2>1 DEF SessionsRight, TypeOK
  <2>6. PowerRight'
    BY <2>1 DEF PowerRight, TypeOK
  <2>7. \A h \in Groups \ members : Remembers(h)'
    <3> SUFFICES ASSUME NEW h \in Groups \ members PROVE Remembers(h)'
      OBVIOUS
    <3>1. CASE h = g
      BY <2>1, <2>2, <2>3, <3>1 DEF Remembers, TypeOK
    <3>2. CASE h # g
      <4>1. session'[h] = session[h] /\ \A p \in Mmus(h) : dir'[p] = dir[p]
        BY <2>1, <2>3, <3>2, Apart DEF TypeOK
      <4> QED
        BY <2>1, <2>2, <4>1 DEF Remembers
    <3> QED
      BY <3>1, <3>2
  <2>8. \A h \in Groups : Works(h)'
    <3> SUFFICES ASSUME NEW h \in Groups PROVE Works(h)'
      OBVIOUS
    <3>1. CASE h = g
      BY <2>1, <2>2, <2>3, <3>1 DEF Works, TypeOK
    <3>2. CASE h # g
      <4>1. session'[h] = session[h] /\ job'[h] = job[h]
        BY <2>1, <3>2 DEF TypeOK
      <4> QED
        BY <2>1, <2>2, <2>3, <4>1 DEF Works
    <3> QED
      BY <3>1, <3>2
  <2> QED
    BY <2>1, <2>4, <2>5, <2>6, <2>7, <2>8
<1>2. ASSUME NEW g \in Groups, JobDone(g) PROVE IInv'
  <2> USE <1>2 DEF JobDone
  <2>1. TypeOK' /\ PowerRight'
    BY DEF TypeOK, PowerRight
  <2>2. \A h \in Groups : job'[h] # 0 => job'[h] = job[h]
    BY DEF TypeOK
  <2>3. \A h \in Groups : Mmus(h)' = Mmus(h)
    BY DEF Mmus
  <2> QED
    BY <2>1, <2>2, <2>3, NothingNew DEF Works
<1>3. ASSUME NEW g \in Groups, JobFails(g) PROVE IInv'
  <2>1. g \in Groups \ members /\ Forget({g}) /\ UNCHANGED <<opened, live, phase, unmapped, members, active, on>>
    BY <1>3 DEF JobFails, Works
  <2>2. {g} \in SUBSET (Groups \ members)
    BY <2>1
  <2>3. PowerRight'
    BY <2>1, <2>2, ForgetEffect DEF PowerRight, Groups
  <2>4. \A h \in Groups \ {g} : job[h] # 0 => h \in active'
    BY <2>1 DEF Works
  <2> QED
    BY <2>1, <2>2, <2>3, <2>4, OnlyForgets DEF TypeOK
<1>4. ASSUME NEW g \in Groups, Activate(g) PROVE IInv'
  <2> USE <1>4 DEF Activate, Point
  <2>1. TypeOK'
    BY DEF TypeOK, Groups, Physical, Mmus
  <2>2. PowerRight'
    BY DEF PowerRight, TypeOK, Mmus, Groups, Physical
  <2>3. \A h \in Groups : Mmus(h)' = Mmus(h)
    BY DEF Mmus
  <2>4. \A h \in Groups \ members' : session'[h] # None =>
          h \notin members /\ \A p \in Mmus(h)' : p \in Mmus(h) /\ dir'[p] = dir[p]
    <3>1. CASE g = Gp
      BY <2>3, <3>1
    <3>2. CASE g = Virtual
      <4>1. session[Virtual] = None
        BY <3>2 DEF PowerRight
      <4>2. \A h \in Groups \ members : h # Virtual => \A p \in Mmus(h) : p \in Physical \ members
        BY Apart DEF Mmus, TypeOK, Groups
      <4> QED
        BY <2>3, <3>2, <4>1, <4>2
    <3> QED
      BY <3>1, <3>2
  <2>5. \A h \in Groups : job'[h] # 0 =>
          /\ job'[h] = job[h] /\ session'[h] = session[h] /\ h \in active' \ members'
          /\ \A p \in Mmus(h)' : p \in Mmus(h) /\ (p \in stale' => p \in stale)
    BY <2>3 DEF Works
  <2> QED
    BY <2>1, <2>2, <2>4, <2>5, NothingNew
<1>5. ASSUME NEW g \in Groups, Deactivate(g) PROVE IInv'
  <2>1. /\ g \in active \ members /\ job[g] = 0 /\ active' = active \ ({g} \cup Mmus(g))
        /\ UNCHANGED <<opened, live, phase, unmapped, members, on>>
    BY <1>5 DEF Deactivate
  <2>2. \A h \in Groups : job[h] # 0 => h \in active'
    BY <2>1 DEF Works, Mmus, Groups
  <2>3. CASE g = Virtual /\ session[g] # None
    <3>1. Forget({g}) /\ {g} \in SUBSET (Groups \ members)
      BY <1>5, <2>1, <2>3 DEF Deactivate
    <3>2. session'[Virtual] = None
      BY <2>3, <3>1, ForgetEffect
    <3>3. PowerRight'
      BY <2>1, <2>3, <3>2 DEF PowerRight
    <3> QED
      BY <2>1, <2>2, <3>1, <3>3, OnlyForgets DEF TypeOK
  <2>4. CASE ~(g = Virtual /\ session[g] # None)
    <3>1. UNCHANGED <<session, dir, stale, job>>
      BY <1>5, <2>4 DEF Deactivate
    <3>2. TypeOK'
      BY <2>1, <3>1 DEF TypeOK
    <3>3. PowerRight'
      BY <2>1, <2>4, <3>1 DEF PowerRight, Mmus, TypeOK
    <3>4. \A h \in Groups : Mmus(h)' = Mmus(h)
      BY <2>1 DEF Mmus
    <3> QED
      BY <2>1, <2>2, <3>1, <3>2, <3>3, <3>4, NothingNew DEF Works
  <2> QED
    BY <2>3, <2>4
<1>6. ASSUME NEW p \in Physical, PowerDown(p) PROVE IInv'
  <2>1. /\ p \in on \ active /\ on' = on \ {p} /\ Forget({p})
        /\ UNCHANGED <<opened, live, phase, unmapped, members, active>>
    BY <1>6 DEF PowerDown
  <2>2. \A h \in Groups : job[h] # 0 => h \in active' \ members
    BY <2>1 DEF Works
  <2>3. CASE p \notin members
    <3>1. {p} \in SUBSET (Groups \ members)
      BY <2>3 DEF Groups
    <3>2. PowerRight'
      BY <2>1, <3>1, ForgetEffect DEF PowerRight, Groups
    <3> QED
      BY <2>1, <2>2, <3>1, <3>2, OnlyForgets DEF TypeOK
  <2>4. CASE p \in members
    <3>1. Virtual \notin active /\ session[Virtual] = None
      BY <2>1, <2>4 DEF PowerRight
    <3>2. /\ dir' = [q \in Physical |-> IF q = p THEN 0 ELSE dir[q]] /\ stale' = stale \ {p}
          /\ session' = [h \in Groups |-> IF h = p THEN None ELSE session[h]]
          /\ job' = [h \in Groups |-> IF h = p THEN 0 ELSE job[h]]
      BY <2>1 DEF Forget, Point, Mmus, Physical
    <3>3. TypeOK'
      BY <2>1, <3>2 DEF TypeOK
    <3>4. PowerRight'
      BY <2>1, <3>1, <3>2 DEF PowerRight, Groups
    <3>5. \A h \in Groups : Mmus(h)' = Mmus(h)
      BY <2>1 DEF Mmus
    <3>6. \A h \in Groups \ members : h # Virtual => \A q \in Mmus(h) : q \in Physical \ {p}
      BY <2>4, Apart DEF Mmus, TypeOK, Groups
    <3>7. \A h \in Groups \ members' : session'[h] # None =>
            h \notin members /\ \A q \in Mmus(h)' : q \in Mmus(h) /\ dir'[q] = dir[q]
      BY <2>1, <3>1, <3>2, <3>5, <3>6
    <3> QED
      BY <2>1, <2>2, <3>2, <3>3, <3>4, <3>5, <3>7, NothingNew
  <2> QED
    BY <2>3, <2>4
<1>7. ASSUME NEW p \in Physical, PowerUp(p) PROVE IInv'
  <2>1. /\ p \notin on /\ on' = on \cup {p}
        /\ active' = active \/ (p \in Cores \ members /\ active' = active \cup {p})
        /\ UNCHANGED <<opened, live, phase, unmapped, members, session, dir, stale, job>>
    BY <1>7 DEF PowerUp
  <2>2. TypeOK'
    BY <2>1 DEF TypeOK, Groups
  <2>3. PowerRight'
    BY <2>1 DEF PowerRight, Physical
  <2>4. \A h \in Groups : Mmus(h)' = Mmus(h)
    BY <2>1 DEF Mmus
  <2>5. \A h \in Groups : job[h] # 0 => h \in active' \ members
    BY <2>1 DEF Works
  <2> QED
    BY <2>1, <2>2, <2>3, <2>4, <2>5, NothingNew
<1>8. ASSUME NEW c \in Cores, NEW activated,
             activated = active \/ (c \in on /\ activated = active \cup {c}), Rejoin(c, activated)
      PROVE  IInv'
  <2>1. /\ c \in activated \ members /\ job[c] = 0 /\ members' = members \cup {c}
        /\ active' = (IF Virtual \in active THEN activated ELSE activated \ {c})
        /\ UNCHANGED <<opened, live, phase, unmapped, on, job>>
    BY <1>8 DEF Rejoin
  <2>2. c \in Groups \ members /\ c # Virtual /\ c \in Physical /\ Mmus(c) = {c}
    BY <2>1 DEF Groups, Physical, Mmus
  <2>3. /\ session' \in [Groups -> Sessions \cup {None}] /\ dir' \in [Physical -> Nat]
        /\ \A h \in Groups \ {c} : session'[h] = session[h]
        /\ session'[c] \in {session[c], None}
        /\ \A p \in Physical \ {c} : dir'[p] = dir[p]
        /\ stale' \subseteq stale
    BY <1>8, <2>2 DEF Rejoin, JoinDirectory, Point, TypeOK, Groups
  <2>4. session[Virtual] # None =>
          c \notin stale' /\ (phase[session[Virtual]] # "over" => dir'[c] = live[session[Virtual]])
    <3> SUFFICES ASSUME session[Virtual] # None
                 PROVE  c \notin stale' /\ (phase[session[Virtual]] # "over" => dir'[c] = live[session[Virtual]])
      OBVIOUS
    <3>1. CASE session[Virtual] = session[c]
      BY <1>8, <2>2, <3>1 DEF Rejoin, JoinDirectory, Remembers
    <3>2. CASE session[Virtual] # session[c]
      BY <1>8, <2>2, <3>2 DEF Rejoin, JoinDirectory, Point
    <3> QED
      BY <3>1, <3>2
  <2>5. TypeOK'
    BY <2>1, <2>3, <1>8 DEF TypeOK, Groups, Physical
  <2>6. SessionsRight'
    BY <2>1, <2>2, <2>3 DEF SessionsRight
  <2>7. PowerRight'
    BY <1>8, <2>1, <2>2, <2>3 DEF PowerRight, Groups
  <2>8. \A h \in Groups \ members' : Remembers(h)'
    <3> SUFFICES ASSUME NEW h \in Groups \ members' PROVE Remembers(h)'
      OBVIOUS
    <3>1. h \in Groups \ members /\ h # c
      BY <2>1
    <3>2. CASE h = Virtual
      <4>1. \A p \in members : p \in Physical \ {c}
        BY <2>1 DEF TypeOK, Physical
      <4> QED
        BY <2>1, <2>2, <2>3, <2>4, <3>1, <3>2, <4>1 DEF Remembers, Mmus
    <3>3. CASE h # Virtual
      BY <2>1, <2>3, <3>1, <3>3 DEF Remembers, Mmus, Groups
    <3> QED
      BY <3>2, <3>3
  <2>9. \A h \in Groups : Works(h)'
    <3> SUFFICES ASSUME NEW h \in Groups, job[h] # 0 PROVE Works(h)'
      BY <2>1 DEF Works
    <3>1. h # c /\ session'[h] = session[h]
      BY <2>1, <2>3
    <3>2. h \in active' \ members'
      BY <1>8, <2>1, <3>1 DEF Works
    <3>3. \A p \in Mmus(h)' : p \in stale' => session[h] \in unmapped
      BY <2>1, <2>3, <2>4 DEF Works, Mmus
    <3> QED
      BY <2>1, <3>1, <3>2, <3>3 DEF Works
  <2> QED
    BY <2>5, <2>6, <2>7, <2>8, <2>9
<1>9. ASSUME NEW c \in Cores, Disable(c) PROVE IInv'
  <2>1. /\ c \in members /\ job[Virtual] = 0 /\ members' = members \ {c}
        /\ session' = [session EXCEPT ![c] = session[Virtual],
                                      ![Virtual] = IF members = {c} THEN None ELSE @]
        /\ active' = active \ {c}
        /\ UNCHANGED <<opened, live, phase, unmapped, on, dir, stale, job>>
    BY <1>9 DEF Disable, Remove
  <2>2. c # Virtual /\ c \in Groups /\ Virtual \in Groups \ members /\ Mmus(Virtual) = members
    BY DEF Groups, Physical, TypeOK, Mmus
  <2>3. /\ session'[c] = session[Virtual] /\ session'[Virtual] \in {session[Virtual], None}
        /\ \A h \in Groups \ {c, Virtual} : session'[h] = session[h]
    BY <2>1, <2>2 DEF TypeOK
  <2>4. TypeOK'
    BY <2>1, <2>2 DEF TypeOK
  <2>5. SessionsRight'
    <3>1. \A h \in Groups : \E k \in Groups : session'[h] \in {session[k], None}
      BY <2>2, <2>3
    <3>2. \A r \in Sessions : phase[r] = "closed" => \A h \in Groups : session'[h] # r
      BY <3>1 DEF SessionsRight
    <3> QED
      BY <2>1, <3>2 DEF SessionsRight
  <2>6. PowerRight'
    BY <2>1, <2>2, <2>3 DEF PowerRight
  <2>7. \A h \in Groups \ members' : Remembers(h)'
    <3> SUFFICES ASSUME NEW h \in Groups \ members' PROVE Remembers(h)'
      OBVIOUS
    <3>1. CASE h = c
      BY <2>1, <2>2, <2>3, <3>1 DEF Remembers, Mmus
    <3>2. CASE h = Virtual
      BY <2>1, <2>2, <2>3, <3>2 DEF Remembers, Mmus
    <3>3. CASE h \notin {c, Virtual}
      BY <2>1, <2>2, <2>3, <3>3 DEF Remembers, Mmus
    <3> QED
      BY <3>1, <3>2, <3>3
  <2>8. \A h \in Groups : Works(h)'
    <3> SUFFICES ASSUME NEW h \in Groups, job[h] # 0 PROVE Works(h)'
      BY <2>1 DEF Works
    <3>1. h \notin {c, Virtual}
      BY <2>1 DEF Works
    <3> QED
      <4>1. session'[h] = session[h] /\ h \in active' \ members' /\ Mmus(h)' = Mmus(h)
        BY <2>1, <2>3, <3>1 DEF Works, Mmus
      <4>2. UNCHANGED <<phase, live, job, stale, unmapped>>
        BY <2>1
      <4> QED
        BY <4>1, <4>2 DEF Works
  <2> QED
    BY <2>4, <2>5, <2>6, <2>7, <2>8
<1>10. ASSUME NEW c \in Cores, Acquire(c) PROVE IInv'
  <2>1. /\ c \in members /\ Virtual \notin active /\ session[Virtual] = None
        /\ members' = members \ {c}
        /\ session' = [session EXCEPT ![c] = session[Virtual],
                                      ![Virtual] = IF members = {c} THEN None ELSE @]
        /\ UNCHANGED <<opened, live, phase, unmapped, active, on, job>>
    BY <1>10 DEF Acquire, Remove, PowerRight
  <2>2. c # Virtual /\ c \in Groups /\ Virtual \in Groups
    BY DEF Groups, Physical
  <2>3. /\ session'[c] = None /\ session'[Virtual] = None
        /\ \A h \in Groups \ {c, Virtual} : session'[h] = session[h]
    BY <2>1, <2>2 DEF TypeOK
  <2>4. /\ dir' \in [Physical -> Nat] /\ stale' \subseteq stale
        /\ \A p \in Physical \ {c} : dir'[p] = dir[p]
    BY <1>10 DEF Acquire, Point, TypeOK
  <2>5. TypeOK'
    BY <2>1, <2>2, <2>4 DEF TypeOK
  <2>6. PowerRight'
    BY <2>1, <2>3 DEF PowerRight
  <2>7. \A h \in Groups \ members' : session'[h] # None =>
          h \notin members /\ \A p \in Mmus(h)' : p \in Mmus(h) /\ dir'[p] = dir[p]
    BY <2>1, <2>2, <2>3, <2>4 DEF Mmus, Groups
  <2>8. \A h \in Groups : job'[h] # 0 =>
          /\ job'[h] = job[h] /\ session'[h] = session[h] /\ h \in active' \ members'
          /\ \A p \in Mmus(h)' : p \in Mmus(h) /\ (p \in stale' => p \in stale)
    BY <2>1, <2>3, <2>4 DEF Works, Mmus
  <2> QED
    BY <2>1, <2>3, <2>5, <2>6, <2>7, <2>8, NothingNew
<1>11. ASSUME NEW c \in Cores, NEW s \in Sessions, AcquireAndStart(c, s) PROVE IInv'
  <2>1. /\ c \in members /\ Virtual \in active /\ phase[s] = "open" /\ job[Virtual] = 0
        /\ members' = members \ {c} /\ job' = [job EXCEPT ![c] = live[s]]
        /\ session' = [session EXCEPT ![c] = s, ![Virtual] = IF members = {c} THEN None ELSE @]
        /\ UNCHANGED <<opened, live, phase, unmapped, active, on>>
    BY <1>11 DEF AcquireAndStart, Remove
  <2>2. c # Virtual /\ c \in Groups /\ Virtual \in Groups \ members /\ c \in Physical
    BY DEF Groups, Physical, TypeOK
  <2>3. /\ session'[c] = s /\ session'[Virtual] \in {session[Virtual], None}
        /\ \A h \in Groups \ {c, Virtual} : session'[h] = session[h]
        /\ job'[c] = live[s] /\ \A h \in Groups \ {c} : job'[h] = job[h]
    BY <2>1, <2>2 DEF TypeOK
  <2>4. /\ dir'[c] = live[s] /\ c \notin stale' /\ stale' \subseteq stale
        /\ dir' \in [Physical -> Nat] /\ \A p \in Physical \ {c} : dir'[p] = dir[p]
    <3>1. CASE session[Virtual] # s
      BY <1>11, <2>2, <3>1 DEF AcquireAndStart, Point, TypeOK
    <3>2. CASE session[Virtual] = s
      <4>1. dir[c] = live[s]
        BY <2>1, <2>2, <3>2 DEF Remembers, Mmus
      <4> QED
        BY <1>11, <3>2, <4>1 DEF AcquireAndStart, TypeOK
    <3> QED
      BY <3>1, <3>2
  <2>5. TypeOK'
    BY <2>1, <2>2, <2>4 DEF TypeOK
  <2>6. SessionsRight'
    <3>1. \A h \in Groups : \E k \in Groups : session'[h] \in {session[k], None, s}
      BY <2>2, <2>3
    <3>2. ASSUME NEW r \in Sessions, phase[r] = "closed", NEW h \in Groups PROVE session'[h] # r
      <4>1. r # s /\ r # None /\ \A k \in Groups : session[k] # r
        BY <2>1, <3>2 DEF SessionsRight
      <4> QED
        BY <3>1, <4>1
    <3> QED
      BY <2>1, <3>2 DEF SessionsRight
  <2>7. PowerRight'
    BY <2>1, <2>2 DEF PowerRight
  <2>8. \A h \in Groups \ members' : Remembers(h)'
    <3> SUFFICES ASSUME NEW h \in Groups \ members' PROVE Remembers(h)'
      OBVIOUS
    <3>1. CASE h = c
      BY <2>1, <2>2, <2>3, <2>4, <3>1 DEF Remembers, Mmus
    <3>2. CASE h = Virtual
      <4>1. \A p \in members \ {c} : p \in Physical /\ dir'[p] = dir[p]
        BY <2>4 DEF TypeOK, Physical
      <4> QED
        BY <2>1, <2>2, <2>3, <3>2, <4>1 DEF Remembers, Mmus
    <3>3. CASE h \notin {c, Virtual}
      <4>1. h \in Groups \ members /\ session'[h] = session[h] /\ Mmus(h) = {h} /\ Mmus(h)' = {h}
            /\ dir'[h] = dir[h]
        BY <2>1, <2>3, <2>4, <3>3 DEF Mmus, Groups
      <4> QED
        BY <2>1, <4>1 DEF Remembers
    <3> QED
      BY <3>1, <3>2, <3>3
  <2>9. \A h \in Groups : Works(h)'
    <3> SUFFICES ASSUME NEW h \in Groups, job'[h] # 0 PROVE Works(h)'
      BY DEF Works
    <3>1. CASE h = c
      <4>1. c \in active' \ members'
        BY <2>1 DEF PowerRight
      <4> QED
        BY <2>1, <2>2, <2>3, <2>4, <3>1, <4>1 DEF Works, Mmus
    <3>2. CASE h # c
      <4>1. h # Virtual /\ job[h] # 0
        BY <2>1, <2>3, <3>2
      <4>2. session'[h] = session[h] /\ h \in active' \ members' /\ Mmus(h)' = Mmus(h)
        BY <2>1, <2>3, <3>2, <4>1 DEF Works, Mmus
      <4> QED
        <5>1. job'[h] = job[h] /\ stale' \subseteq stale /\ UNCHANGED <<phase, live, unmapped>>
          BY <2>1, <2>3, <2>4, <3>2
        <5> QED
          BY <4>1, <4>2, <5>1 DEF Works
    <3> QED
      BY <3>1, <3>2
  <2> QED
    BY <2>5, <2>6, <2>7, <2>8, <2>9
<1>12. ASSUME NEW s \in Sessions, Open(s) PROVE IInv'
  <2>1. /\ phase[s] = "closed" /\ opened' = opened + 1
        /\ live' = [live EXCEPT ![s] = opened + 1] /\ phase' = [phase EXCEPT ![s] = "open"]
        /\ UNCHANGED <<unmapped, members, active, on, session, dir, stale, job>>
    BY <1>12 DEF Open
  <2>2. \A g \in Groups : session[g] # s
    BY <2>1 DEF SessionsRight
  <2>3. \A r \in Sessions \ {s} : live'[r] = live[r] /\ phase'[r] = phase[r]
    BY <2>1 DEF TypeOK
  <2>4. live'[s] = opened + 1 /\ phase'[s] = "open"
    BY <2>1 DEF TypeOK
  <2>5. TypeOK'
    BY <2>1 DEF TypeOK, Alive
  <2>6. \A r \in Sessions : live[r] \in Nat /\ live[r] <= opened /\ opened \in Nat
    BY DEF SessionsRight, TypeOK
  <2>7. SessionsRight'
    <3>1. \A r \in Sessions : live'[r] <= opened' /\ (phase'[r] \in Alive => live'[r] > 0)
      BY <2>1, <2>3, <2>4, <2>6 DEF SessionsRight
    <3>2. \A r, t \in Sessions : phase'[r] \in Alive /\ live'[t] = live'[r] => t = r
      <4> SUFFICES ASSUME NEW r \in Sessions, NEW t \in Sessions, r # t, phase'[r] \in Alive
                   PROVE  live'[t] # live'[r]
        OBVIOUS
      <4>1. CASE r = s \/ t = s
        BY <2>3, <2>4, <2>6, <4>1
      <4>2. CASE r # s /\ t # s
        BY <2>3, <4>2 DEF SessionsRight
      <4> QED
        BY <4>1, <4>2
    <3>3. \A r \in Sessions :
            /\ r \in unmapped' => phase'[r] \in {"open", "aborted"}
            /\ phase'[r] = "closed" => \A g \in Groups : session'[g] # r
      BY <2>1, <2>3, <2>4 DEF SessionsRight
    <3> QED
      BY <3>1, <3>2, <3>3 DEF SessionsRight
  <2>8. PowerRight'
    BY <2>1 DEF PowerRight
  <2>9. \A g \in Groups : (Remembers(g) => Remembers(g)') /\ (Works(g) => Works(g)')
    <3> SUFFICES ASSUME NEW g \in Groups PROVE (Remembers(g) => Remembers(g)') /\ (Works(g) => Works(g)')
      OBVIOUS
    <3>1. session[g] # None => live'[session[g]] = live[session[g]] /\ phase'[session[g]] = phase[session[g]]
      BY <2>2, <2>3 DEF TypeOK
    <3>2. Mmus(g)' = Mmus(g)
      BY <2>1 DEF Mmus
    <3> QED
      BY <2>1, <3>1, <3>2 DEF Remembers, Works
  <2> QED
    BY <2>1, <2>5, <2>7, <2>8, <2>9
<1>13. ASSUME NEW s \in Sessions, Unmap(s) PROVE IInv'
  <2>1. /\ phase[s] \in {"open", "aborted"} /\ unmapped' = unmapped \cup {s}
        /\ stale' = stale \cup {p \in Physical : dir[p] = live[s]}
        /\ UNCHANGED <<opened, live, phase, members, active, on, session, dir, job>>
    BY <1>13 DEF Unmap
  <2>2. TypeOK' /\ SessionsRight' /\ PowerRight'
    BY <2>1 DEF TypeOK, SessionsRight, PowerRight
  <2>3. \A g \in Groups : Mmus(g)' = Mmus(g)
    BY <2>1 DEF Mmus
  <2>4. \A g \in Groups \ members : Remembers(g)'
    BY <2>1, <2>3 DEF Remembers
  <2>5. \A g \in Groups : Works(g)'
    <3> SUFFICES ASSUME NEW g \in Groups, job[g] # 0, NEW p \in Mmus(g), p \in stale'
                 PROVE  session[g] \in unmapped'
      BY <2>1, <2>3 DEF Works
    <3>1. CASE p \in stale
      BY <2>1, <3>1 DEF Works
    <3>2. CASE dir[p] = live[s]
      <4>1. /\ g \notin members /\ session[g] # None /\ phase[session[g]] = "open"
            /\ session[g] \in Sessions
        BY DEF Works, TypeOK
      <4>2. live[session[g]] = live[s]
        BY <3>2, <4>1 DEF Remembers
      <4>3. session[g] = s
        BY <2>1, <4>1, <4>2 DEF SessionsRight, Alive
      <4> QED
        BY <2>1, <4>3
    <3> QED
      BY <2>1, <3>1, <3>2
  <2> QED
    BY <2>1, <2>2, <2>4, <2>5
<1>14. ASSUME NEW s \in Sessions, AbortSession(s) PROVE IInv'
  <2> DEFINE groups == {g \in Groups : session[g] = s /\ job[g] # 0} \cup {g \in Unused(s) : session[g] # None}
  <2>1. /\ phase[s] = "open" /\ s \notin unmapped /\ phase' = [phase EXCEPT ![s] = "aborted"]
        /\ Forget(groups)
        /\ UNCHANGED <<opened, live, unmapped, members, active, on>>
    BY <1>14 DEF AbortSession
  <2>2. groups \in SUBSET (Groups \ members)
    BY DEF Works, Unused, Groups
  <2> HIDE DEF groups
  <2>3. TypeOK'
    BY <2>1, <2>2, ForgetEffect DEF TypeOK, Forget, Point, Alive
  <2>4. \A r \in Sessions : phase'[r] = IF r = s THEN "aborted" ELSE phase[r]
    BY <2>1 DEF TypeOK
  <2>5. SessionsRight'
    <3>1. \A r \in Sessions : phase[r] = "closed" => \A g \in Groups : session'[g] # r
      BY <2>2, <2>1, ForgetEffect DEF SessionsRight
    <3> QED
      BY <2>1, <2>4, <3>1 DEF SessionsRight, Alive
  <2>6. PowerRight'
    BY <2>1, <2>2, ForgetEffect DEF PowerRight, Groups
  <2>7. \A g \in Groups : Mmus(g)' = Mmus(g)
    BY <2>1 DEF Mmus
  <2>8. \A g \in Groups \ members : Remembers(g)'
    <3> SUFFICES ASSUME NEW g \in Groups \ members, session'[g] # None, phase'[session'[g]] # "over",
                        NEW p \in Mmus(g)
                 PROVE  dir'[p] = live[session'[g]]
      BY <2>1, <2>7 DEF Remembers
    <3>1. g \notin groups /\ session'[g] = session[g] /\ session[g] \in Sessions /\ dir'[p] = dir[p]
      BY <2>1, <2>2, ForgetEffect DEF TypeOK
    <3>2. phase[session[g]] # "over"
      BY <2>1, <2>4, <3>1
    <3> QED
      BY <3>1, <3>2 DEF Remembers
  <2>9. \A g \in Groups : Works(g)'
    <3> SUFFICES ASSUME NEW g \in Groups, job'[g] # 0 PROVE Works(g)'
      BY DEF Works
    <3>1. g \notin groups /\ session'[g] = session[g] /\ job'[g] = job[g] /\ stale' \subseteq stale
      BY <2>1, <2>2, ForgetEffect
    <3>2. session[g] # s /\ session[g] \in Sessions
      BY <3>1 DEF groups, Works, TypeOK
    <3>3. phase'[session[g]] = phase[session[g]]
      BY <2>4, <3>2
    <3> QED
      BY <2>1, <2>7, <3>1, <3>3 DEF Works
  <2> QED
    BY <2>1, <2>3, <2>5, <2>6, <2>8, <2>9
<1>15. ASSUME NEW s \in Sessions, Close(s) PROVE IInv'
  <2>1. /\ phase[s] = "freed" /\ phase' = [phase EXCEPT ![s] = "over"] /\ live' = [live EXCEPT ![s] = 0]
        /\ UNCHANGED <<opened, unmapped, members, active, on, session, dir, stale, job>>
    BY <1>15 DEF Close
  <2>2. /\ live'[s] = 0 /\ phase'[s] = "over"
        /\ \A r \in Sessions \ {s} : live'[r] = live[r] /\ phase'[r] = phase[r]
    BY <2>1 DEF TypeOK
  <2>3. TypeOK'
    BY <2>1 DEF TypeOK
  <2>4. SessionsRight'
    <3>1. \A r \in Sessions : live'[r] <= opened' /\ (phase'[r] \in Alive => live'[r] > 0)
      BY <2>1, <2>2 DEF SessionsRight, TypeOK, Alive
    <3>2. \A r, t \in Sessions : phase'[r] \in Alive /\ live'[t] = live'[r] => t = r
      <4> SUFFICES ASSUME NEW r \in Sessions, NEW t \in Sessions, r # t, phase'[r] \in Alive
                   PROVE  live'[t] # live'[r]
        OBVIOUS
      <4>1. r # s /\ phase[r] \in Alive /\ live'[r] = live[r] /\ live[r] > 0 /\ live[r] \in Nat
        BY <2>2 DEF SessionsRight, Alive, TypeOK
      <4>2. live'[t] = 0 \/ live'[t] = live[t]
        BY <2>2
      <4> QED
        BY <4>1, <4>2 DEF SessionsRight
    <3>3. \A r \in Sessions :
            /\ r \in unmapped' => phase'[r] \in {"open", "aborted"}
            /\ phase'[r] = "closed" => \A g \in Groups : session'[g] # r
      BY <2>1, <2>2 DEF SessionsRight
    <3> QED
      BY <3>1, <3>2, <3>3 DEF SessionsRight
  <2>5. PowerRight'
    BY <2>1 DEF PowerRight
  <2>6. \A g \in Groups : Mmus(g)' = Mmus(g)
    BY <2>1 DEF Mmus
  <2>7. \A g \in Groups \ members : Remembers(g)'
    <3> SUFFICES ASSUME NEW g \in Groups \ members, session[g] # None, phase'[session[g]] # "over"
                 PROVE  \A p \in Mmus(g) : dir[p] = live'[session[g]]
      BY <2>1, <2>6 DEF Remembers
    <3>1. session[g] \in Sessions \ {s}
      BY <2>2 DEF TypeOK
    <3> QED
      BY <2>2, <3>1 DEF Remembers
  <2>8. \A g \in Groups : Works(g)'
    <3> SUFFICES ASSUME NEW g \in Groups, job[g] # 0 PROVE Works(g)'
      BY <2>1 DEF Works
    <3>1. session[g] \in Sessions \ {s}
      BY <2>1 DEF Works, TypeOK
    <3> QED
      BY <2>1, <2>2, <2>6, <3>1 DEF Works
  <2> QED
    BY <2>1, <2>3, <2>4, <2>5, <2>7, <2>8
<1>16. ASSUME NEW s \in Sessions, NEW faulty \in SUBSET Groups, Zap(s, faulty) PROVE IInv'
  <2> DEFINE using == {g \in Groups \ members : session[g] = s /\ (job[g] # 0 \/ g \in {Gp, Virtual})}
             forget == {g \in using : job[g] = 0 \/ g \in faulty}
  <2>1. /\ s \in unmapped /\ unmapped' = unmapped \ {s}
        /\ phase' = [phase EXCEPT ![s] = IF @ = "aborted" THEN "freed" ELSE @]
        /\ UNCHANGED <<opened, live, members, active, on>>
        /\ dir' = [p \in Physical |-> IF \E g \in forget : p \in Mmus(g) THEN 0 ELSE dir[p]]
        /\ stale' = stale \ UNION {Mmus(g) : g \in using}
        /\ session' = [g \in Groups |-> IF g \in forget THEN None ELSE session[g]]
        /\ job' = [g \in Groups |-> IF g \in forget THEN 0 ELSE job[g]]
    BY <1>16 DEF Zap, ZapAll
  <2>2. forget \subseteq Groups \ members
    OBVIOUS
  <2>3. \A g \in Groups : job[g] # 0 /\ session[g] = s => \A p \in Mmus(g) : p \notin stale'
    BY <2>1 DEF Works
  <2>4. \A g \in Groups : session'[g] = s => job'[g] = 0 \/ session[g] = s
    BY <2>1
  <2> HIDE DEF using, forget
  <2>5. TypeOK'
    BY <2>1 DEF TypeOK, Alive
  <2>6. /\ phase[s] \in {"open", "aborted"} /\ (phase[s] = "open" => phase'[s] = "open")
        /\ phase'[s] \in {"open", "freed"}
        /\ \A r \in Sessions \ {s} : phase'[r] = phase[r]
    BY <2>1 DEF TypeOK, SessionsRight
  <2>7. \A g \in Groups : session'[g] # None => g \notin forget /\ session'[g] = session[g] /\ job'[g] = job[g]
    BY <2>1
  <2>8. SessionsRight'
    <3>1. \A r \in Sessions : phase[r] = "closed" => \A g \in Groups : session'[g] # r
      BY <2>7 DEF SessionsRight
    <3>2. \A r \in Sessions : phase'[r] \in Alive <=> phase[r] \in Alive
      BY <2>6 DEF Alive
    <3> QED
      BY <2>1, <2>6, <3>1, <3>2 DEF SessionsRight
  <2>9. PowerRight'
    BY <2>1 DEF PowerRight, Groups
  <2>10. \A g \in Groups : Mmus(g)' = Mmus(g)
    BY <2>1 DEF Mmus
  <2>11. \A g \in Groups \ members : Remembers(g)'
    <3> SUFFICES ASSUME NEW g \in Groups \ members, session'[g] # None, phase'[session'[g]] # "over",
                        NEW p \in Mmus(g)
                 PROVE  dir'[p] = live[session'[g]]
      BY <2>1, <2>10 DEF Remembers
    <3>1. g \notin forget /\ session'[g] = session[g] /\ session[g] \in Sessions
      BY <2>7 DEF TypeOK
    <3>2. p \in Physical /\ \A h \in forget : p \notin Mmus(h)
      BY <2>2, <3>1, Apart DEF TypeOK
    <3>3. dir'[p] = dir[p]
      BY <2>1, <3>2
    <3>4. phase[session[g]] # "over"
      BY <2>6, <3>1
    <3> QED
      BY <3>1, <3>3, <3>4 DEF Remembers
  <2>12. \A g \in Groups : Works(g)'
    <3> SUFFICES ASSUME NEW g \in Groups, job'[g] # 0 PROVE Works(g)'
      BY DEF Works
    <3>1. session'[g] = session[g] /\ job'[g] = job[g] /\ stale' \subseteq stale
      BY <2>1
    <3>2. /\ g \in active \ members /\ session[g] # None /\ phase[session[g]] = "open"
          /\ job[g] = live[session[g]] /\ session[g] \in Sessions
          /\ \A p \in Mmus(g) : p \in stale => session[g] \in unmapped
      BY <3>1 DEF Works, TypeOK
    <3>3. phase'[session[g]] = "open"
      BY <2>6, <3>2
    <3>4. \A p \in Mmus(g) : p \in stale' => session[g] \in unmapped'
      BY <2>1, <2>3, <3>1, <3>2
    <3> QED
      BY <2>1, <2>10, <3>1, <3>2, <3>3, <3>4 DEF Works
  <2> QED
    BY <2>1, <2>5, <2>8, <2>9, <2>11, <2>12
<1>17. CASE UNCHANGED vars
  <2>1. TypeOK' /\ SessionsRight' /\ PowerRight'
    BY <1>17 DEF vars, TypeOK, SessionsRight, PowerRight
  <2>2. \A g \in Groups : Mmus(g)' = Mmus(g)
    BY <1>17 DEF vars, Mmus
  <2>3. \A g \in Groups : (Remembers(g) => Remembers(g)') /\ (Works(g) => Works(g)')
    BY <1>17, <2>2 DEF vars, Remembers, Works
  <2> QED
    BY <1>17, <2>1, <2>3 DEF vars
<1> QED
  BY <1>1, <1>2, <1>3, <1>4, <1>5, <1>6, <1>7, <1>8, <1>9, <1>10, <1>11, <1>12, <1>13, <1>14,
     <1>15, <1>16, <1>17 DEF Next, Join, Enable, Disable

\* A core works with the directory of the session whose job it has, and never through a
\* translation that its session believes to be zapped (mali_group_activate_page_directory,
\* mali_group_add_group, mali_executor_zap_all_active).
THEOREM RightDirectories ==
  ASSUME ~Reuse
  PROVE  Spec => []DirectoriesRight
<1>1. IInv => DirectoriesRight
  <2> SUFFICES ASSUME IInv, NEW g \in Groups, job[g] # 0, NEW p \in Mmus(g)
               PROVE  /\ p \in on /\ dir[p] = job[g]
                      /\ p \in stale => \E s \in unmapped : live[s] = job[g]
    BY DEF DirectoriesRight
  <2>1. /\ g \in active \ members /\ session[g] # None /\ phase[session[g]] = "open"
        /\ job[g] = live[session[g]] /\ (p \in stale => session[g] \in unmapped)
    BY DEF IInv, Works
  <2>2. dir[p] = job[g]
    BY <2>1 DEF IInv, Remembers
  <2>3. p \in on
    BY <2>1, GroupsAssumption DEF IInv, PowerRight, Mmus, TypeOK, Groups, Physical
  <2> QED
    BY <2>1, <2>2, <2>3
<1> QED
  BY <1>1, InitIInv, NextIInv, PTL DEF Spec
================================================================================
