--------------------------- MODULE MCSimScheduler ---------------------------
(* Instances of SimScheduler for TLC.  A day is two units of time.         *)
EXTENDS SimScheduler, TLC

CONSTANTS j1, j2, t1, t2, tenant

OneTenant == [j \in Jobs |-> tenant]
Twins     == Permutations(Tasks)
=============================================================================
