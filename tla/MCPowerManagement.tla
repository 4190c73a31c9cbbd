--------------------------- MODULE MCPowerManagement ---------------------------
(***************************************************************************)
(* Instances of PowerManagement for TLC: a Mali-400 with two PP cores.     *)
(***************************************************************************)
EXTENDS PowerManagement, TLC

CONSTANTS P0, P1, DGP, DL2, DP0, DP1

BestOf(one) ==
  [n \in 0 .. 2 |-> [d \in {Dummy, DGP, DL2, DP0, DP1} |->
     IF n = 0 THEN 0
     ELSE IF one = Dummy THEN IF d = Dummy THEN n ELSE 0
     ELSE IF n = 2 THEN IF d \in {DP0, DP1} THEN 1 ELSE 0
     ELSE IF d = one THEN 1 ELSE 0]]

\* The PMU of the MP2 as the driver detects it: a domain per core and one for the L2.
Separate(gp, pp, sw) ==
  [dom |-> (GP :> DGP @@ P0 :> DP0 @@ P1 :> DP1), l2 |-> DL2, best |-> BestOf(DP1),
   maxGP |-> gp, maxPP |-> pp, switched |-> sw]

\* No PMU: runtime PM is the only switch.
NoPmu(gp, pp, sw) ==
  [dom |-> [g \in {GP, P0, P1} |-> Dummy], l2 |-> Dummy, best |-> BestOf(Dummy),
   maxGP |-> gp, maxPP |-> pp, switched |-> sw]

\* A device tree that gives no domain to the second PP core.
Mixed(gp, pp, sw) ==
  [dom |-> (GP :> DGP @@ P0 :> DP0 @@ P1 :> Dummy), l2 |-> DL2,
   best |-> [n \in 0 .. 2 |-> [d \in {Dummy, DGP, DL2, DP0, DP1} |->
               IF (d = Dummy /\ n > 0) \/ (d = DP0 /\ n = 2) THEN 1 ELSE 0]],
   maxGP |-> gp, maxPP |-> pp, switched |-> sw]

\* All cores at work and none switched, then cores switched under load.
DetectedConfigs == {Separate(1, 2, {}), NoPmu(1, 2, {}), Separate(1, 0, {GP}),
                    Separate(0, 2, {P0}), Separate(0, 1, {P1}), NoPmu(0, 2, {P0, P1})}
OneSwitched     == {Separate(0, 2, {P0})}
MixedConfigs    == {Mixed(1, 2, {})}
=============================================================================
