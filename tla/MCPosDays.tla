------------------------------ MODULE MCPosDays ------------------------------
(* An instance of PosDays for TLC: a weekend of two days whose sales would   *)
(* fall on the date after it, one sale before it, none on its first day and  *)
(* a batch and a half on its second.                                         *)
EXTENDS PosDays

Draws == [d \in Days |-> IF d = 1 THEN 1 ELSE IF d = 3 THEN 3 ELSE 0]
=============================================================================
