------------------------------ MODULE MCOutbox ------------------------------
(* Instances of Outbox for TLC: a partition of two events.                   *)
EXTENDS Outbox, TLC

CONSTANTS e1, e2

TwoEvents    == {e1, e2}
OnePartition == [e \in Events |-> 1]
=============================================================================
