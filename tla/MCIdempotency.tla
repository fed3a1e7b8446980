---------------------------- MODULE MCIdempotency ----------------------------
(* Instances of Idempotency for TLC.  r1 to r3 are the same payment sent     *)
(* three times, r4 another payment under its key; q1 and q2 are one request  *)
(* about something else than money, m1 and m2 one mandate.                   *)
EXTENDS Idempotency, TLC

CONSTANTS r1, r2, r3, r4, q1, q2, m1, m2, pay, other, ask, mandate

MCKey  == [r \in Requests |-> IF r \in {r1, r2, r3, r4} THEN "k1"
                              ELSE IF r \in {q1, q2} THEN "k2" ELSE "k3"]
MCBody == [r \in Requests |-> IF r \in {r1, r2, r3} THEN pay ELSE IF r = r4 THEN other
                              ELSE IF r \in {q1, q2} THEN ask ELSE mandate]
Retries == Permutations({r1, r2, r3})
=============================================================================
