-------------------------- MODULE IdempotencyProofs --------------------------
(***************************************************************************)
(* Proofs about Idempotency.tla, for every set of requests, keys, bodies   *)
(* and endpoints, and any number of crashes and garbage collections.       *)
(***************************************************************************)
EXTENDS Idempotency, TLAPS

\* The key of a request is one of the keys.
LEMMA KeyType == \A r \in Requests : Key[r] \in Keys
BY DEF Keys

\* Every step of a request, the collector or a crash keeps the types.
LEMMA TypeNext == TypeOK /\ [Next]_vars => TypeOK'
<1> SUFFICES ASSUME TypeOK, [Next]_vars PROVE TypeOK'
    OBVIOUS
<1> USE IdempotencyAssumption, KeyType DEF TypeOK, store, replies, Goes, Answers
<1>1. ASSUME NEW r \in Requests, Start(r) PROVE TypeOK'
    BY <1>1 DEF Start
<1>2. ASSUME NEW r \in Requests, Replay(r) PROVE TypeOK'
    BY <1>2 DEF Replay
<1>3. ASSUME NEW r \in Requests, Refuse(r) PROVE TypeOK'
    BY <1>3 DEF Refuse, Refusal
<1>4. ASSUME NEW r \in Requests, Fail(r), UNCHANGED <<pruned, crashes>> PROVE TypeOK'
    BY <1>4 DEF Fail
<1>5. ASSUME NEW r \in Requests, Flush(r) PROVE TypeOK'
    BY <1>4, <1>5 DEF Flush
<1>6. ASSUME NEW r \in Requests, Return(r) PROVE TypeOK'
    BY <1>6 DEF Return
<1>7. ASSUME NEW r \in Requests, Commit(r) PROVE TypeOK'
    <2>1. CASE Taken(Key[r])
        BY <1>4, <1>7, <2>1 DEF Commit
    <2>2. CASE ~Taken(Key[r])
        <3>1. complete' \in [Keys -> BOOLEAN]
            BY <1>7, <2>2 DEF Commit
        <3>2. maker' \in [Keys -> Requests \cup {None}] /\ committed' \subseteq Requests
            BY <1>7, <2>2 DEF Commit
        <3> QED
            BY <1>7, <2>2, <3>1, <3>2 DEF Commit
    <2> QED
        BY <2>1, <2>2
<1>8. ASSUME NEW k \in Keys, Prune(k) PROVE TypeOK'
    BY <1>8 DEF Prune
<1>9. CASE Crash
    BY <1>9 DEF Crash
<1>10. CASE UNCHANGED vars
    BY <1>10 DEF vars
<1> HIDE DEF TypeOK
<1> QED
    BY <1>1, <1>2, <1>3, <1>4, <1>5, <1>6, <1>7, <1>8, <1>9, <1>10
    DEF Next, Handle, WorkFails
-----------------------------------------------------------------------------
\* The empty store satisfies the inductive invariant.
LEMMA InvInit == Init => IInv
<1> SUFFICES ASSUME Init PROVE IInv
    OBVIOUS
<1>1. TypeOK
    BY IdempotencyAssumption DEF Init, TypeOK
<1>2. OneInserter /\ CommitsEnd /\ RecordFollowsEffect /\ EffectOnce
    BY DEF Init, OneInserter, CommitsEnd, RecordFollowsEffect, EffectOnce
<1>3. RepliesAreOriginals /\ Heard /\ SuccessIsCommitted
    BY IdempotencyAssumption DEF Init, RepliesAreOriginals, Heard, SuccessIsCommitted, InFlight
<1> QED
    BY <1>1, <1>2, <1>3 DEF IInv

\* The store's part of the invariant: who may insert, what a commit leaves.
StoreInv == OneInserter /\ CommitsEnd /\ RecordFollowsEffect /\ EffectOnce

\* What is said of records and committed work survives every step.
LEMMA StoreNext == IInv /\ [Next]_vars => StoreInv'
<1> SUFFICES ASSUME IInv, [Next]_vars PROVE StoreInv'
    OBVIOUS
<1>0. TypeOK /\ StoreInv /\ TypeOK'
    BY TypeNext DEF IInv, StoreInv
<1> USE <1>0, IdempotencyAssumption, KeyType
<1> USE DEF TypeOK, StoreInv, OneInserter, CommitsEnd, RecordFollowsEffect, EffectOnce, Inserters,
            store, replies, Goes
<1>1. ASSUME NEW r \in Requests, Start(r) PROVE StoreInv'
    BY <1>1 DEF Start
<1>2. ASSUME NEW r \in Requests, Replay(r) \/ Refuse(r) PROVE StoreInv'
    BY <1>2 DEF Replay, Refuse
<1>3. ASSUME NEW r \in Requests, Fail(r), UNCHANGED <<pruned, crashes>>, pc[r] # "new" PROVE StoreInv'
    BY <1>3 DEF Fail
<1>4. ASSUME NEW r \in Requests, Flush(r) PROVE StoreInv'
    BY <1>3, <1>4 DEF Flush, Waits, Taken
<1>5. ASSUME NEW r \in Requests, Return(r) PROVE StoreInv'
    BY <1>5 DEF Return, FindsRecord
<1>6. ASSUME NEW r \in Requests, Commit(r) PROVE StoreInv'
    <2>1. CASE Taken(Key[r])
        BY <1>3, <1>6, <2>1 DEF Commit
    <2>2. CASE maker[Key[r]] = None
        BY <1>6, <2>2 DEF Commit, Waits, Taken
    <2> QED
        BY <2>1, <2>2 DEF Taken
<1>7. ASSUME NEW k \in Keys, Prune(k) PROVE StoreInv'
    BY <1>7 DEF Prune, Expires
<1>8. CASE Crash
    BY <1>8 DEF Crash, InFlight
<1>9. CASE UNCHANGED vars
    BY <1>9 DEF vars
<1> HIDE DEF StoreInv
<1> QED
    BY <1>1, <1>2, <1>3, <1>4, <1>5, <1>6, <1>7, <1>8, <1>9 DEF Next, Handle, WorkFails

\* The client's part: a response is given once, and is that of committed work.
ReplyInv == RepliesAreOriginals /\ Heard /\ SuccessIsCommitted

\* What is said of the answers clients got survives every step.
LEMMA ReplyNext == IInv /\ [Next]_vars => ReplyInv'
<1> SUFFICES ASSUME IInv, [Next]_vars PROVE ReplyInv'
    OBVIOUS
<1>0. TypeOK /\ StoreInv /\ ReplyInv /\ TypeOK'
    BY TypeNext DEF IInv, StoreInv, ReplyInv
<1> USE <1>0, IdempotencyAssumption, KeyType
<1> USE DEF TypeOK, ReplyInv, RepliesAreOriginals, Heard, SuccessIsCommitted, InFlight,
            store, replies, Goes, Answers
<1>1. ASSUME NEW r \in Requests, Start(r) PROVE ReplyInv'
    BY <1>1 DEF Start
<1>2. ASSUME NEW r \in Requests, Replay(r) PROVE ReplyInv'
    BY <1>2 DEF Replay, SameBody, StoreInv, RecordFollowsEffect, CommitsEnd
<1>3. ASSUME NEW r \in Requests, Refuse(r) PROVE ReplyInv'
    BY <1>3 DEF Refuse, Refusal
<1>4. ASSUME NEW r \in Requests, Fail(r) PROVE ReplyInv'
    BY <1>4 DEF Fail
<1>5. ASSUME NEW r \in Requests, Flush(r) PROVE ReplyInv'
    BY <1>4, <1>5 DEF Flush
<1>6. ASSUME NEW r \in Requests, Return(r) PROVE ReplyInv'
    BY <1>6 DEF Return, Early, FindsRecord
<1>7. ASSUME NEW r \in Requests, Commit(r) PROVE ReplyInv'
    BY <1>4, <1>7 DEF Commit
<1>8. ASSUME NEW k \in Keys, Prune(k) PROVE ReplyInv'
    BY <1>8 DEF Prune
<1>9. CASE Crash
    BY <1>9 DEF Crash
<1>10. CASE UNCHANGED vars
    BY <1>10 DEF vars
<1> HIDE DEF ReplyInv
<1> QED
    BY <1>1, <1>2, <1>3, <1>4, <1>5, <1>6, <1>7, <1>8, <1>9, <1>10
    DEF Next, Handle, WorkFails
-----------------------------------------------------------------------------
\* The inductive invariant: at most one transaction has inserted a key and none while
\* it has a record, work commits with its record, clients hear once.
THEOREM Invariance == Spec => []IInv
<1>1. Init => IInv
    BY InvInit
<1>2. IInv /\ [Next]_vars => IInv'
    <2> SUFFICES ASSUME IInv, [Next]_vars PROVE IInv'
        OBVIOUS
    <2>1. TypeOK'
        BY TypeNext DEF IInv
    <2> QED
        BY <2>1, StoreNext, ReplyNext DEF IInv, StoreInv, ReplyInv
<1> QED
    BY <1>1, <1>2, PTL DEF Spec

\* Every variable keeps its type.
THEOREM Typing == Spec => []TypeOK
<1>1. IInv => TypeOK
    BY DEF IInv
<1> QED
    BY <1>1, Invariance, PTL

\* However requests with one key interleave with each other and with crashes, one of
\* them has its effect, and another only after the record of a first that was not
\* about money expired.
THEOREM Once == Spec => []EffectOnce
<1>1. IInv => EffectOnce
    BY DEF IInv
<1> QED
    BY <1>1, Invariance, PTL

\* Record and work are committed together.
THEOREM Atomicity == Spec => []RecordFollowsEffect
<1>1. IInv => RecordFollowsEffect
    BY DEF IInv
<1> QED
    BY <1>1, Invariance, PTL

\* A replay is the response of committed work with the same key and body.
THEOREM Originality == Spec => []RepliesAreOriginals
<1>1. IInv => RepliesAreOriginals
    BY DEF IInv
<1> QED
    BY <1>1, Invariance, PTL

\* Success is told of committed work, if the session is committed first.
THEOREM Durability == Spec => []SuccessIsCommitted
<1>1. IInv => SuccessIsCommitted
    BY DEF IInv
<1> QED
    BY <1>1, Invariance, PTL
-----------------------------------------------------------------------------
\* A request's steps up to its commit are invisible to clients; the commit performs
\* it, a failure gives it up.
LEMMA StepSimulation ==
    ASSUME ~AnswerFirst
    PROVE  IInv /\ [Next]_vars => [Service!Next]_(Service!service)
<1> SUFFICES ASSUME IInv, [Next]_vars PROVE Service!Next \/ UNCHANGED Service!service
    OBVIOUS
<1> DEFINE Goal == Service!Next \/ UNCHANGED Service!service
<1>0. TypeOK /\ Heard /\ StoreInv
    BY DEF IInv, StoreInv
<1> USE <1>0, IdempotencyAssumption, KeyType
<1> USE DEF TypeOK, Heard, InFlight, store, replies, Goes, Answers
<1>k. DOMAIN maker = Keys
    OBVIOUS
<1>1. ASSUME NEW r \in Requests, Start(r) PROVE Goal
    BY <1>1 DEF Start, Service!service
<1>2. ASSUME NEW r \in Requests, Replay(r) PROVE Goal
    <2>1. Service!Replay(r)
        BY <1>2 DEF Replay, SameBody, Service!Replay, Service!Open
    <2> QED
        BY <2>1 DEF Service!Next
<1>3. ASSUME NEW r \in Requests, Refuse(r) PROVE Goal
    <2>1. CASE SameBody(r, maker[Key[r]])
        <3>1. Service!GiveUp({r}, "busy")
            BY <1>3, <2>1 DEF Refuse, Refusal, Service!GiveUp, Service!Open
        <3> QED
            BY <3>1 DEF Service!Next
    <2>2. CASE ~SameBody(r, maker[Key[r]])
        <3>1. Service!Refuse(r)
            BY <1>3, <2>2 DEF Refuse, Refusal, SameBody, Service!Refuse, Service!Open
        <3> QED
            BY <3>1 DEF Service!Next
    <2> QED
        BY <2>1, <2>2
<1>4. ASSUME NEW r \in Requests, Fail(r), InFlight(r) PROVE Goal
    <2>1. Service!GiveUp({r}, "error")
        BY <1>4 DEF Fail, Service!GiveUp, Service!Open
    <2> QED
        BY <2>1 DEF Service!Next
<1>5. ASSUME NEW r \in Requests, WorkFails(r) PROVE Goal
    BY <1>4, <1>5 DEF WorkFails
<1>6. ASSUME NEW r \in Requests, Flush(r) PROVE Goal
    <2>1. CASE Taken(Key[r])
        BY <1>4, <1>6, <2>1 DEF Flush
    <2>2. CASE ~Taken(Key[r])
        BY <1>6, <2>2 DEF Flush, Service!service
    <2> QED
        BY <2>1, <2>2
<1>7. ASSUME NEW r \in Requests, Return(r) PROVE Goal
    BY <1>7 DEF Return, Early, Service!service
<1>8. ASSUME NEW r \in Requests, Commit(r) PROVE Goal
    <2>1. CASE Taken(Key[r])
        BY <1>4, <1>8, <2>1 DEF Commit
    <2>2. CASE ~Taken(Key[r])
        <3>1. Service!Perform(r)
            BY <1>8, <2>2 DEF Commit, Taken, Service!Perform, Service!Open
        <3> QED
            BY <3>1 DEF Service!Next
    <2> QED
        BY <2>1, <2>2
<1>9. ASSUME NEW k \in Keys, Prune(k) PROVE Goal
    <2>1. Service!Forget(k)
        BY <1>9 DEF Prune, Expires, Service!Forget
    <2> QED
        BY <2>1, <1>k DEF Service!Next
<1>10. CASE Crash
    <2> DEFINE Lost == {r \in Requests : InFlight(r)}
    <2>1. Service!GiveUp(Lost, "error")
        BY <1>10 DEF Crash, Service!GiveUp, Service!Open
    <2> QED
        BY <2>1 DEF Service!Next
<1>11. CASE UNCHANGED vars
    BY <1>11 DEF vars, Service!service
<1> QED
    BY <1>1, <1>2, <1>3, <1>5, <1>6, <1>7, <1>8, <1>9, <1>10, <1>11 DEF Next, Handle

\* Clients see a service that performs, replays or refuses a request in one step, if
\* responses leave after the commit.
THEOREM Refinement == ASSUME ~AnswerFirst PROVE Spec => ImplementsService
<1>1. Init => Service!Init
    BY DEF Init, Keys, Service!Init
<1>2. IInv /\ [Next]_vars => [Service!Next]_(Service!service)
    BY StepSimulation
<1> QED
    BY <1>1, <1>2, Invariance, PTL DEF Spec, ImplementsService, Service!Spec
=============================================================================
