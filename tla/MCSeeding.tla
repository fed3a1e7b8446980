------------------------------ MODULE MCSeeding -----------------------------
(* An instance of Seeding for TLC: two merchants of seed_default.py, a pool  *)
(* with a virtual account, and one merchant that Trazmo's seeds, the mirror  *)
(* script and an operator can bring into being.                              *)
EXTENDS Seeding

CONSTANTS t1, t2, m1, pool, van, s1

MCRank == [i \in Items |-> CASE i \in {t1, m1} -> 1
                             [] i = t2 -> 2
                             [] i = pool -> 3
                             [] i = van -> 4]
MCSlug == [s \in Smes |-> m1]
=============================================================================
