----------------------------- MODULE MCTenants -----------------------------
(* The instance of Tenants for TLC.  Two requests choose what they create,   *)
(* the second's account being a virtual one in the first's; the third is a   *)
(* payment, which may name the account of either.                            *)
EXTENDS Tenants, TLC

CONSTANTS r1, r2, r3, c1, c2

MCWants == [r \in Requests |->
               CASE r = r1 -> {"accounts", "merchants"}
                 [] r = r2 -> {"accounts", "payments", "mandates", "subscriptions"}
                 [] OTHER  -> {"payments"}]
Alike == Permutations(Callers)
=============================================================================
