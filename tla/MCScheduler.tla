------------------------------ MODULE MCScheduler ------------------------------
(* Instances of Scheduler. *)
EXTENDS Scheduler

CONSTANTS s1, s2, g1, g2, p1, p2, p3

\* A GP and a PP job submitted together, a GP job and a PP job on their own.
MCSession == [j \in Jobs |-> IF j \in {g1, p1, p3} THEN s1 ELSE s2]
MCPartner == [j \in GpJobs |-> IF j = g1 /\ p1 \in PpJobs THEN p1 ELSE None]
MCSubJobs == [j \in PpJobs |-> IF j = p1 THEN 2 ELSE 1]
================================================================================
