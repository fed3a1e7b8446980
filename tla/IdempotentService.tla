-------------------------- MODULE IdempotentService --------------------------
(***************************************************************************)
(* What an idempotency key promises a client: the first request that       *)
(* succeeds under a key is performed and remembered; the same request sent *)
(* again gets the remembered response; another request under the key is    *)
(* refused.  A request may also be given up without any effect.            *)
(***************************************************************************)
CONSTANTS Requests, Key, Body, Money, None

VARIABLES
    memory,     \* the request whose response is stored under a key, or None
    performed,  \* requests that had their effect
    answer,     \* "none", "ok", "reused", "busy" or "error"
    source      \* the request whose response was given

service == <<memory, performed, answer, source>>

Init ==
    /\ memory = [k \in {Key[r] : r \in Requests} |-> None]
    /\ performed = {}
    /\ answer = [r \in Requests |-> "none"]
    /\ source = [r \in Requests |-> None]

Open(r) == answer[r] = "none"

Perform(r) ==
    /\ Open(r)
    /\ memory[Key[r]] = None
    /\ memory' = [memory EXCEPT ![Key[r]] = r]
    /\ performed' = performed \cup {r}
    /\ answer' = [answer EXCEPT ![r] = "ok"]
    /\ source' = [source EXCEPT ![r] = r]

Replay(r) ==
    /\ Open(r)
    /\ memory[Key[r]] # None
    /\ Body[memory[Key[r]]] = Body[r]
    /\ answer' = [answer EXCEPT ![r] = "ok"]
    /\ source' = [source EXCEPT ![r] = memory[Key[r]]]
    /\ UNCHANGED <<memory, performed>>

Refuse(r) ==
    /\ Open(r)
    /\ memory[Key[r]] # None
    /\ Body[memory[Key[r]]] # Body[r]
    /\ answer' = [answer EXCEPT ![r] = "reused"]
    /\ UNCHANGED <<memory, performed, source>>

GiveUp(R, a) ==
    /\ \A r \in R : Open(r)
    /\ answer' = [r \in Requests |-> IF r \in R THEN a ELSE answer[r]]
    /\ UNCHANGED <<memory, performed, source>>

\* Responses that are not about money are forgotten after a day.
Forget(k) ==
    /\ memory[k] \notin Money \cup {None}
    /\ memory' = [memory EXCEPT ![k] = None]
    /\ UNCHANGED <<performed, answer, source>>

Next ==
    \/ \E r \in Requests : Perform(r) \/ Replay(r) \/ Refuse(r)
    \/ \E R \in SUBSET Requests, a \in {"busy", "error"} : GiveUp(R, a)
    \/ \E k \in DOMAIN memory : Forget(k)

Spec == Init /\ [][Next]_service
=============================================================================
