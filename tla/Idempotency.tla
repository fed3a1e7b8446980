----------------------------- MODULE Idempotency -----------------------------
(***************************************************************************)
(* Idempotency keys: core/idempotency.py as the POST endpoints use it.  A  *)
(* request looks its key up, does its work, marks its record complete and  *)
(* commits record and work together when the session of the request ends.  *)
(*                                                                         *)
(* The row that would serialize two requests does not exist while the      *)
(* first of them works: the record is inserted by the endpoint's flush, or *)
(* by the commit where an endpoint never flushes, and until then both have *)
(* found no record.  What keeps them apart is the unique constraint, on    *)
(* which the second insert waits for the first transaction to end.         *)
(***************************************************************************)
EXTENDS Naturals

CONSTANTS
    Requests,    \* POST requests; a retry is a request of its own
    None,        \* no request
    Key,         \* Idempotency-Key of each request
    Body,        \* body of each request
    Money,       \* requests to the endpoints of class "money"
    Flushing,    \* requests to endpoints that flush before complete()
    Failing,     \* requests whose work may raise
    AnswerFirst, \* the response leaves before the session's commit
    MaxCrashes   \* bound: process crashes

Keys == {Key[r] : r \in Requests}

ASSUME IdempotencyAssumption ==
    /\ None \notin Requests
    /\ DOMAIN Key = Requests
    /\ DOMAIN Body = Requests
    /\ Money \subseteq Requests
    /\ Flushing \subseteq Requests
    /\ Failing \subseteq Requests
    /\ AnswerFirst \in BOOLEAN
    /\ MaxCrashes \in Nat

VARIABLES
    maker,      \* request that made the committed record of a key, or None
    complete,   \* whether that record is complete (or else pending)
    committed,  \* requests whose work is committed
    pc,         \* where a request is
    answer,     \* what its client was answered
    source,     \* the request whose response that was
    pruned,     \* requests whose record the garbage collector deleted
    crashes     \* process crashes so far

store   == <<maker, complete, committed>>
replies == <<answer, source>>
vars    == <<store, pc, replies, pruned, crashes>>

\* Requests that have inserted their record and not yet committed it.
Inserters(k) == {r \in Requests : Key[r] = k /\ pc[r] \in {"inserted", "completed"}}

\* An insert waits for another transaction that inserts the key (mutant: also for its own).
AnyInserter(r) == Inserters(Key[r]) # {}
Waits(r)       == Inserters(Key[r]) \ {r} # {}

\* The unique constraint of (tenant, key) (mutant: none).
NeverTaken(k) == FALSE
Taken(k)      == maker[k] # None

\* body_hash (mutant: not compared).
AnyBody(r, s)  == TRUE
SameBody(r, s) == Body[r] = Body[s]

\* (mutant: an answer no client knows)
Misspelt(r) == "conflict"
Refusal(r)  == IF SameBody(r, maker[Key[r]]) THEN "busy" ELSE "reused"

\* complete() finds the record it has inserted itself (mutant: it never does).
FindsNothing(r) == FALSE
FindsRecord(r)  == pc[r] = "inserted"

\* Which records expire.
Expires(r) == r \notin Money

\* Whether the response leaves at the return of the endpoint.
Early == AnswerFirst

InFlight(r) == pc[r] \in {"working", "inserted", "returned", "completed"}

-----------------------------------------------------------------------------
Init ==
    /\ maker = [k \in Keys |-> None]
    /\ complete = [k \in Keys |-> FALSE]
    /\ committed = {}
    /\ pc = [r \in Requests |-> "new"]
    /\ answer = [r \in Requests |-> "none"]
    /\ source = [r \in Requests |-> None]
    /\ pruned = {}
    /\ crashes = 0

Goes(r, s) == pc' = [pc EXCEPT ![r] = s]

\* The client hears one answer: the first.
Answers(r, a) == answer' = [answer EXCEPT ![r] = IF @ = "none" THEN a ELSE @]

\* An exception: the session is rolled back and the client gets an error.
Fail(r) ==
    /\ Goes(r, "ended")
    /\ Answers(r, "error")
    /\ UNCHANGED <<store, source>>

(***************************************************************************)
(* get_or_start: nothing under the key, the work begins.  The new record   *)
(* is only added to the session.                                           *)
(***************************************************************************)
Start(r) ==
    /\ pc[r] = "new"
    /\ maker[Key[r]] = None
    /\ Goes(r, "working")
    /\ UNCHANGED <<store, replies, pruned, crashes>>

\* ... a complete record of the same body, its response is returned.
Replay(r) ==
    /\ pc[r] = "new"
    /\ maker[Key[r]] # None
    /\ SameBody(r, maker[Key[r]])
    /\ complete[Key[r]]
    /\ Goes(r, "ended")
    /\ Answers(r, "ok")
    /\ source' = [source EXCEPT ![r] = maker[Key[r]]]
    /\ UNCHANGED <<store, pruned, crashes>>

\* ... 409 for another body or a pending record.
Refuse(r) ==
    /\ pc[r] = "new"
    /\ maker[Key[r]] # None
    /\ ~SameBody(r, maker[Key[r]]) \/ ~complete[Key[r]]
    /\ Goes(r, "ended")
    /\ Answers(r, Refusal(r))
    /\ UNCHANGED <<store, source, pruned, crashes>>

\* The endpoint's own rules refuse the request, or its insert fails.
WorkFails(r) ==
    /\ r \in Failing
    /\ pc[r] \in {"working", "inserted"}
    /\ Fail(r)
    /\ UNCHANGED <<pruned, crashes>>

\* session.flush() in the endpoint: the record is inserted with the work.
Flush(r) ==
    /\ pc[r] = "working"
    /\ r \in Flushing
    /\ ~Waits(r)
    /\ IF Taken(Key[r]) THEN Fail(r)
       ELSE Goes(r, "inserted") /\ UNCHANGED <<store, replies>>
    /\ UNCHANGED <<pruned, crashes>>

\* complete() and the endpoint's return.
Return(r) ==
    /\ pc[r] = IF r \in Flushing THEN "inserted" ELSE "working"
    /\ Goes(r, IF FindsRecord(r) THEN "completed" ELSE "returned")
    /\ IF Early
       THEN Answers(r, "ok") /\ source' = [source EXCEPT ![r] = r]
       ELSE UNCHANGED replies
    /\ UNCHANGED <<store, pruned, crashes>>

\* get_session commits; a record that was never flushed is inserted now.
Commit(r) ==
    /\ pc[r] \in {"completed", "returned"}
    /\ ~Waits(r)
    /\ IF Taken(Key[r]) THEN Fail(r)
       ELSE /\ maker' = [maker EXCEPT ![Key[r]] = r]
            /\ complete' = [complete EXCEPT ![Key[r]] = (pc[r] = "completed")]
            /\ committed' = committed \cup {r}
            /\ Goes(r, "ended")
            /\ Answers(r, "ok")
            /\ source' = [source EXCEPT ![r] = r]
    /\ UNCHANGED <<pruned, crashes>>

-----------------------------------------------------------------------------
\* _prune_idempotency_records deletes a record a day after it was made.
Prune(k) ==
    /\ maker[k] # None
    /\ Expires(maker[k])
    /\ pruned' = pruned \cup {maker[k]}
    /\ maker' = [maker EXCEPT ![k] = None]
    /\ complete' = [complete EXCEPT ![k] = FALSE]
    /\ UNCHANGED <<committed, pc, replies, crashes>>

\* Every open transaction is rolled back and its client loses the connection.
Crash ==
    /\ crashes < MaxCrashes
    /\ crashes' = crashes + 1
    /\ pc' = [r \in Requests |-> IF InFlight(r) THEN "ended" ELSE pc[r]]
    /\ answer' = [r \in Requests |-> IF InFlight(r) /\ answer[r] = "none" THEN "error"
                                     ELSE answer[r]]
    /\ UNCHANGED <<store, source, pruned>>

-----------------------------------------------------------------------------
Handle(r) ==
    \/ Start(r)
    \/ Replay(r)
    \/ Refuse(r)
    \/ WorkFails(r)
    \/ Flush(r)
    \/ Return(r)
    \/ Commit(r)

Next ==
    \/ \E r \in Requests : Handle(r)
    \/ \E k \in Keys : Prune(k)
    \/ Crash

Spec == Init /\ [][Next]_vars

\* The event loop runs every request it has begun; clients may stop retrying.
FairSpec == Spec /\ \A r \in Requests : WF_vars(pc[r] # "new" /\ Handle(r))
-----------------------------------------------------------------------------
(***************************************************************************)
(* Properties.                                                             *)
(***************************************************************************)

\* The values every variable may take.
TypeOK ==
    /\ maker \in [Keys -> Requests \cup {None}]
    /\ complete \in [Keys -> BOOLEAN]
    /\ committed \subseteq Requests
    /\ pc \in [Requests -> {"new", "working", "inserted", "returned", "completed", "ended"}]
    /\ answer \in [Requests -> {"none", "ok", "reused", "busy", "error"}]
    /\ source \in [Requests -> Requests \cup {None}]
    /\ pruned \subseteq Requests
    /\ crashes \in Nat

\* Exactly one effect per key: of two committed requests with one key, the record
\* of one expired first, and a record about money never does.  Nothing but the
\* unique constraint sees to it when both requests looked before either inserted.
EffectOnce ==
    \A r, s \in committed :
        (r # s /\ Key[r] = Key[s]) => \E e \in {r, s} \ Money : e \in pruned

\* Record and work are committed together: a record belongs to committed work of
\* its key, committed work has its record until it expires, and the record of an
\* endpoint that flushes is complete.
RecordFollowsEffect ==
    /\ \A k \in Keys : maker[k] # None => maker[k] \in committed /\ Key[maker[k]] = k
    /\ \A r \in committed \ pruned :
          /\ maker[Key[r]] = r
          /\ complete[Key[r]] <=> r \in Flushing

\* A replayed response is that of committed work under the same key and with the
\* same body, also when the record has been pruned and made again since.
RepliesAreOriginals ==
    \A r \in Requests :
        source[r] \notin {r, None} =>
            /\ source[r] \in committed
            /\ Key[source[r]] = Key[r]
            /\ Body[source[r]] = Body[r]

\* Who is told that a request succeeded can rely on it, if the session is committed
\* before the response leaves.
SuccessIsCommitted == AnswerFirst \/ \A r \in Requests : answer[r] = "ok" => source[r] \in committed

\* Every request that has been begun is answered: nobody waits for ever for a key.
EveryRequestAnswered == \A r \in Requests : pc[r] = "working" ~> answer[r] # "none"

\* What makes these properties inductive: one transaction at a time has inserted a
\* key, and none while the key has a committed record; requests commit as they end;
\* and a client has heard nothing while its request is in flight.
OneInserter ==
    \A r \in Requests :
        pc[r] \in {"inserted", "completed"} =>
            /\ maker[Key[r]] = None
            /\ r \in Flushing
            /\ \A s \in Inserters(Key[r]) : s = r

CommitsEnd ==
    /\ \A r \in committed : pc[r] = "ended"
    /\ \A r \in Requests : pc[r] = "returned" => r \notin Flushing
    /\ pruned \subseteq committed \ Money
    /\ \A r \in pruned : maker[Key[r]] # r

Heard ==
    /\ \A r \in Requests :
          (pc[r] \in {"new", "working", "inserted"} \/ (InFlight(r) /\ ~AnswerFirst)) =>
              answer[r] = "none" /\ source[r] = None
    /\ \A r \in Requests : answer[r] = "ok" => source[r] # None
    /\ \A r \in Requests : source[r] = r => AnswerFirst \/ r \in committed

IInv ==
    /\ TypeOK
    /\ OneInserter
    /\ CommitsEnd
    /\ RecordFollowsEffect
    /\ EffectOnce
    /\ RepliesAreOriginals
    /\ Heard
    /\ SuccessIsCommitted

(***************************************************************************)
(* The service a client sees, when responses leave after the commit.       *)
(***************************************************************************)
Service == INSTANCE IdempotentService WITH memory <- maker, performed <- committed

\* Every step of a request is one of the service that performs, replays or refuses
\* it in a single step.
ImplementsService == Service!Spec

(***************************************************************************)
(* What the documentation says and the code does not do.                   *)
(***************************************************************************)

\* idempotency.py:87 - a pending record means that a concurrent request is in
\* flight.
PendingMeansInFlight ==
    \A k \in Keys : (maker[k] # None /\ ~complete[k]) =>
                       \E r \in Requests : Key[r] = k /\ InFlight(r)
=============================================================================
