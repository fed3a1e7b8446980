----------------------------- MODULE MCPayments -----------------------------
(* Instances of Payments for TLC.  p1 and p2 compete for the funds of        *)
(* alice, p3 pays back from bob, p4 pays an account that MockSim does not    *)
(* own in the wrong currency.                                                *)
EXTENDS Payments, TLC

CONSTANTS p1, p2, p3, p4, alice, bob, elsewhere

FourPayments == {p1, p2, p3, p4}
MCDebtor     == [p \in Payments |-> IF p = p3 THEN bob ELSE alice]
MCCreditor   == [p \in Payments |-> IF p \in {p1, p2} THEN bob
                                    ELSE IF p = p3 THEN alice ELSE elsewhere]
MCAmount     == [p \in Payments |-> IF p \in {p1, p2} THEN 2 ELSE 1]
MCOpening    == [c \in Accounts |-> IF c = alice THEN 3 ELSE 0]
=============================================================================
