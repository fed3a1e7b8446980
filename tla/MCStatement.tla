---------------------------- MODULE MCStatement -----------------------------
(* Instances of Statement for TLC.  alice can pay p1 only after bob has paid *)
(* p3, and p2 is in the wrong currency.                                      *)
EXTENDS Statement, TLC

CONSTANTS p1, p2, p3, alice, bob, elsewhere

MCDebtor   == p1 :> alice @@ p2 :> alice @@ p3 :> bob
MCCreditor == p1 :> elsewhere @@ p2 :> bob @@ p3 :> alice
MCAmount   == p1 :> 3 @@ p2 :> 2 @@ p3 :> 1
MCOpening  == alice :> 2 @@ bob :> 1
=============================================================================
