--------------------------- MODULE WebhookContract ---------------------------
(***************************************************************************)
(* What the outbox promises about each event, with the table, the poller,  *)
(* the locks and the sessions left out: an event that was published is owed*)
(* to the receiver until the receiver has answered 2xx or enough attempts  *)
(* were refused.  Outbox.tla implements it.                                *)
(***************************************************************************)
EXTENDS Naturals, FiniteSets

CONSTANTS Events, MaxAttempts

VARIABLES
    stage,    \* "unborn", "owed", "delivered", "dead" or "gone"
    refused,  \* attempts counted since the event was last requeued
    acked     \* events the receiver has answered with 2xx at least once

vars == <<stage, refused, acked>>

Stages == {"unborn", "owed", "delivered", "dead", "gone"}

Init ==
    /\ stage = [e \in Events |-> "unborn"]
    /\ refused = [e \in Events |-> 0]
    /\ acked = {}

\* The business transaction that enqueued the event commits.
Publish(e) ==
    /\ stage[e] = "unborn"
    /\ stage' = [stage EXCEPT ![e] = "owed"]
    /\ UNCHANGED <<refused, acked>>

\* A POST is answered 2xx, whether or not the sender gets to record it.
Acknowledge(e) ==
    /\ stage[e] = "owed"
    /\ acked' = acked \cup {e}
    /\ UNCHANGED <<stage, refused>>

\* The sender records the outcome of an attempt.
Confirm(e) ==
    /\ stage[e] = "owed"
    /\ e \in acked
    /\ stage' = [stage EXCEPT ![e] = "delivered"]
    /\ refused' = [refused EXCEPT ![e] = @ + 1]
    /\ UNCHANGED acked

Refuse(e) ==
    /\ stage[e] = "owed"
    /\ refused[e] + 1 < MaxAttempts
    /\ refused' = [refused EXCEPT ![e] = @ + 1]
    /\ UNCHANGED <<stage, acked>>

GiveUp(e) ==
    /\ stage[e] = "owed"
    /\ refused[e] + 1 >= MaxAttempts
    /\ stage' = [stage EXCEPT ![e] = "dead"]
    /\ refused' = [refused EXCEPT ![e] = @ + 1]
    /\ UNCHANGED acked

\* An administrator asks for the event again.
Requeue(e) ==
    /\ stage[e] \in {"owed", "delivered", "dead"}
    /\ stage' \in {stage, [stage EXCEPT ![e] = "owed"]}
    /\ refused' \in {refused, [refused EXCEPT ![e] = 0]}
    /\ UNCHANGED acked

\* Events that are never published, or whose record is deleted.
Forget(S) ==
    /\ \/ \A e \in S : stage[e] \in {"unborn", "delivered"}
       \/ S = {e \in Events : stage[e] \in {"owed", "delivered", "dead"}}
    /\ stage' = [e \in Events |-> IF e \in S THEN "gone" ELSE stage[e]]
    /\ UNCHANGED <<refused, acked>>

Attempted(e) == Confirm(e) \/ Refuse(e) \/ GiveUp(e)

Next ==
    \/ \E e \in Events : \/ Publish(e)
                         \/ Acknowledge(e)
                         \/ Attempted(e)
                         \/ Requeue(e)
    \/ \E S \in SUBSET Events : Forget(S)

Spec == Init /\ [][Next]_vars
=============================================================================
