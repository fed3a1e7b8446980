---------------------------- MODULE OutboxProofs ----------------------------
(***************************************************************************)
(* Proofs about Outbox.tla, for every set of events, partitioning, batch   *)
(* size, retry limit, number of replays and choice of failures.            *)
(***************************************************************************)
EXTENDS Outbox, TLAPS

\* Appending a new element to a sequence of events gives a sequence of events.
LEMMA AppendNewType ==
    ASSUME NEW s \in Seq(Events), NEW e \in Events
    PROVE  AppendNew(s, e) \in Seq(Events) /\ Append(s, e) \in Seq(Events)
BY DEF AppendNew

\* The empty outbox is well typed.
LEMMA TypeInit == Init => TypeOK
<1> SUFFICES ASSUME Init PROVE TypeOK
    OBVIOUS
<1>1. status \in [Events -> Statuses]
    BY DEF Init, Statuses
<1>2. replay \in [stage : {"idle", "read", "locked"},
                  event : Events \cup {NoEvent}, cols : SUBSET Columns]
    BY DEF Init, NoReplay
<1> QED
    BY <1>1, <1>2 DEF Init, TypeOK

\* Every step of the dispatcher, a replay, a clean-up or a fault keeps the types.
LEMMA TypeNext == TypeOK /\ [Next]_vars => TypeOK'
<1> SUFFICES ASSUME TypeOK, [Next]_vars PROVE TypeOK'
    OBVIOUS
<1> USE OutboxAssumption DEF TypeOK, Statuses
<1>1. ASSUME NEW e \in Events, Enqueue(e) PROVE TypeOK'
    <2>1. now + 1 \in Nat /\ now' = now + 1
        BY <1>1 DEF Enqueue
    <2>2. stamp' \in [Events -> Nat] /\ status' \in [Events -> Statuses]
        BY <1>1, <2>1 DEF Enqueue
    <2> QED
        BY <1>1, <2>1, <2>2 DEF Enqueue, poller, seen
<1>2. ASSUME NEW e \in Events, CommitBusiness(e) PROVE TypeOK'
    BY <1>2, AppendNewType DEF CommitBusiness, poller
<1>3. ASSUME NEW e \in Events, RollbackBusiness(e) PROVE TypeOK'
    BY <1>3 DEF RollbackBusiness, poller, seen
<1>4. ASSUME NEW e \in Events, BackoffElapses(e) PROVE TypeOK'
    BY <1>4 DEF BackoffElapses, poller, seen
<1>5. ASSUME NEW e \in Events, ReplayReads(e) PROVE TypeOK'
    BY <1>5 DEF ReplayReads, Dirty, row, poller, seen
<1>6. CASE PollerSelects
    BY <1>6 DEF PollerSelects, Selectable, seen
<1>7. ASSUME NEW e \in Events, DeliverStarts(e) PROVE TypeOK'
    BY <1>7 DEF DeliverStarts, row, seen
<1>8. CASE DeliverPosts
    <2>1. sending \in Events
        BY <1>8 DEF DeliverPosts
    <2>2. AppendNew(tried, sending) \in Seq(Events)
        BY <2>1, AppendNewType
    <2>3. /\ tried' \in Seq(Events)
          /\ acked' \in SUBSET Events
          /\ answer' \in {"none", "ok", "refused", "failed"}
        BY <1>8, <2>1, <2>2 DEF DeliverPosts
    <2> QED
        BY <1>8, <2>3 DEF DeliverPosts, row
<1>9. CASE DeliverCommits
    <2>1. sending \in Events
        BY <1>9 DEF DeliverCommits, Outcome
    <2>2. attempts' \in [Events -> Nat]
        BY <1>9, <2>1 DEF DeliverCommits, Outcome
    <2>3. status' \in [Events -> Statuses] /\ waiting' \in SUBSET Events
        BY <1>9, <2>1 DEF DeliverCommits, Outcome
    <2> QED
        BY <1>9, <2>2, <2>3 DEF DeliverCommits, Outcome, seen
<1>10. CASE TickAborts
    BY <1>10 DEF TickAborts, Abandoned, row
<1>11. CASE Crash
    BY <1>11 DEF Crash, Abandoned, NoReplay
<1>12. CASE ReplayFlushes
    BY <1>12 DEF ReplayFlushes, NoReplay, row, poller, seen
<1>13. CASE ReplayCommits
    BY <1>13 DEF ReplayCommits, NoReplay, poller
<1>14. CASE ArchiveDelivered
    BY <1>14 DEF ArchiveDelivered, Delete, poller, seen
<1>15. CASE ResetTenant
    BY <1>15 DEF ResetTenant, poller
<1>16. CASE UNCHANGED vars
    BY <1>16 DEF vars, row, poller, seen
<1> QED
    BY <1>1, <1>2, <1>3, <1>4, <1>5, <1>6, <1>7, <1>8, <1>9, <1>10, <1>11,
       <1>12, <1>13, <1>14, <1>15, <1>16 DEF Next, Poller

\* Every variable of the outbox stays within its type in every behaviour.
THEOREM Typing == Spec => []TypeOK
BY TypeInit, TypeNext, PTL DEF Spec
-----------------------------------------------------------------------------
\* The initial states satisfy the inductive invariant.
LEMMA InvInit == Init => IInv
<1> SUFFICES ASSUME Init PROVE IInv
    OBVIOUS
<1>1. TypeOK
    BY TypeInit
<1>2. InFlightIsOwned /\ DeliveredIsAcked /\ RetryBudget
    BY DEF Init, InFlightIsOwned, DeliveredIsAcked, RetryBudget
<1>3. SendingAcked /\ UncommittedUntried
    BY DEF Init, SendingAcked, UncommittedUntried
<1>4. FirstReplay /\ RowsHeld
    BY DEF Init, FirstReplay, RowsHeld, NoReplay
<1> QED
    BY <1>1, <1>2, <1>3, <1>4 DEF IInv

\* No step orphans an in_flight row: each action hands it on.
LEMMA OwnedNext == IInv /\ [Next]_vars => InFlightIsOwned'
<1> SUFFICES ASSUME IInv, [Next]_vars, NEW e \in Events, status'[e] = "in_flight"
             PROVE  e \in (batch \cup {sending} \cup lost)'
    BY DEF InFlightIsOwned
<1> USE DEF IInv, TypeOK
<1> e # NoEvent
    BY OutboxAssumption
<1>1. CASE \E x \in Events : Enqueue(x) \/ CommitBusiness(x) \/ RollbackBusiness(x)
    BY <1>1 DEF Enqueue, CommitBusiness, RollbackBusiness, poller, seen,
                InFlightIsOwned
<1>2. CASE \E x \in Events : BackoffElapses(x) \/ ReplayReads(x)
    BY <1>2 DEF BackoffElapses, ReplayReads, row, poller, seen, InFlightIsOwned
<1>3. CASE PollerSelects
    BY <1>3 DEF PollerSelects, PollerIdle, seen, InFlightIsOwned
<1>4. CASE \E x \in Events : DeliverStarts(x)
    BY <1>4 DEF DeliverStarts, Exists, row, seen, InFlightIsOwned
<1>5. CASE DeliverPosts
    BY <1>5 DEF DeliverPosts, row, InFlightIsOwned
<1>6. CASE DeliverCommits
    BY <1>6 DEF DeliverCommits, Outcome, seen, InFlightIsOwned
<1>7. CASE TickAborts
    BY <1>7 DEF TickAborts, Abandoned, row, InFlightIsOwned
<1>8. CASE Crash
    BY <1>8 DEF Crash, Abandoned, InFlightIsOwned
<1>9. CASE ReplayFlushes
    BY <1>9 DEF ReplayFlushes, row, poller, seen, InFlightIsOwned
<1>10. CASE ReplayCommits
    BY <1>10 DEF ReplayCommits, poller, InFlightIsOwned
<1>11. CASE ArchiveDelivered
    BY <1>11 DEF ArchiveDelivered, Delete, poller, seen, InFlightIsOwned
<1>12. CASE ResetTenant
    BY <1>12 DEF ResetTenant, Exists
<1>13. CASE UNCHANGED vars
    BY <1>13 DEF vars, row, poller, seen, InFlightIsOwned
<1> QED
    BY <1>1, <1>2, <1>3, <1>4, <1>5, <1>6, <1>7, <1>8, <1>9, <1>10, <1>11,
       <1>12, <1>13 DEF Next, Poller

\* A row becomes delivered only after the POST in progress was answered 2xx.
LEMMA AckedNext == IInv /\ [Next]_vars => (DeliveredIsAcked /\ SendingAcked)'
<1> SUFFICES ASSUME IInv, [Next]_vars PROVE (DeliveredIsAcked /\ SendingAcked)'
    OBVIOUS
<1> USE DEF IInv, TypeOK, DeliveredIsAcked, SendingAcked
<1>1. CASE \E x \in Events : Enqueue(x) \/ CommitBusiness(x) \/ RollbackBusiness(x)
    BY <1>1 DEF Enqueue, CommitBusiness, RollbackBusiness, poller, seen
<1>2. CASE \E x \in Events : BackoffElapses(x) \/ ReplayReads(x)
    BY <1>2 DEF BackoffElapses, ReplayReads, row, poller, seen
<1>3. CASE PollerSelects
    BY <1>3 DEF PollerSelects, PollerIdle, seen
<1>4. CASE \E x \in Events : DeliverStarts(x)
    BY <1>4 DEF DeliverStarts, row, seen
<1>5. CASE DeliverPosts
    BY <1>5 DEF DeliverPosts, row
<1>6. CASE DeliverCommits
    BY <1>6 DEF DeliverCommits, Outcome, seen
<1>7. CASE TickAborts
    BY <1>7 DEF TickAborts, row
<1>8. CASE Crash
    BY <1>8 DEF Crash
<1>9. CASE ReplayFlushes
    BY <1>9 DEF ReplayFlushes, row, poller, seen
<1>10. CASE ReplayCommits
    BY <1>10 DEF ReplayCommits, poller
<1>11. CASE ArchiveDelivered
    BY <1>11 DEF ArchiveDelivered, Delete, poller, seen
<1>12. CASE ResetTenant
    <2>1. \A e \in Events : status'[e] # "delivered"
        BY <1>12 DEF ResetTenant, Exists, Statuses
    <2> QED
        BY <1>12, <2>1 DEF ResetTenant, poller
<1>13. CASE UNCHANGED vars
    BY <1>13 DEF vars, row, poller, seen
<1> QED
    BY <1>1, <1>2, <1>3, <1>4, <1>5, <1>6, <1>7, <1>8, <1>9, <1>10, <1>11,
       <1>12, <1>13 DEF Next, Poller
\* The first replay never clears the attempts of a row it leaves in its status.
LEMMA ReplayNext == IInv /\ [Next]_vars => (UncommittedUntried /\ FirstReplay)'
<1> SUFFICES ASSUME IInv, [Next]_vars PROVE (UncommittedUntried /\ FirstReplay)'
    OBVIOUS
<1> USE DEF IInv, TypeOK, UncommittedUntried, FirstReplay
<1>1. CASE \E x \in Events : Enqueue(x) \/ CommitBusiness(x) \/ RollbackBusiness(x)
    BY <1>1 DEF Enqueue, CommitBusiness, RollbackBusiness
<1>2. CASE \E x \in Events : BackoffElapses(x)
    BY <1>2 DEF BackoffElapses
<1>3. ASSUME NEW x \in Events, ReplayReads(x)
      PROVE  (UncommittedUntried /\ FirstReplay)'
    <2>1. /\ status' = status /\ attempts' = attempts
          /\ replays' = replays + 1 /\ replay.stage = "idle"
          /\ replay'.event = x /\ replay'.cols = Dirty(x)
        BY <1>3 DEF ReplayReads, row
    <2>2. ASSUME replays' = 1
          PROVE  /\ \A e \in Events : status[e] = "pending" => attempts[e] = 0
                 /\ "attempts" \in Dirty(x) => "status" \in Dirty(x)
        BY <2>1, <2>2 DEF Dirty, Columns
    <2> QED
        BY <2>1, <2>2
<1>4. CASE PollerSelects
    BY <1>4 DEF PollerSelects
<1>5. CASE \E x \in Events : DeliverStarts(x)
    BY <1>5 DEF DeliverStarts, row
<1>6. CASE DeliverPosts
    BY <1>6 DEF DeliverPosts, row
<1>7. CASE DeliverCommits
    <2>1. /\ sending \in Events
          /\ status'[sending] \in {"delivered", "dead_letter", "retrying"}
          /\ \A e \in Events \ {sending} :
                status'[e] = status[e] /\ attempts'[e] = attempts[e]
        BY <1>7 DEF DeliverCommits, Outcome
    <2>2. replay' = replay /\ replays' = replays
        BY <1>7 DEF DeliverCommits, Outcome
    <2> QED
        BY <2>1, <2>2
<1>8. CASE TickAborts
    BY <1>8 DEF TickAborts, row
<1>9. CASE Crash
    BY <1>9 DEF Crash, NoReplay
<1>10. CASE ReplayFlushes
    BY <1>10 DEF ReplayFlushes, NoReplay, row
<1>11. CASE ReplayCommits
    BY <1>11 DEF ReplayCommits, NoReplay
<1>12. CASE ArchiveDelivered
    BY <1>12 DEF ArchiveDelivered, Delete
<1>13. CASE ResetTenant
    BY <1>13 DEF ResetTenant, Exists
<1>14. CASE UNCHANGED vars
    BY <1>14 DEF vars, row
<1> QED
    BY <1>1, <1>2, <1>3, <1>4, <1>5, <1>6, <1>7, <1>8, <1>9, <1>10, <1>11,
       <1>12, <1>13, <1>14 DEF Next, Poller

\* _deliver retires a row only when its budget is spent, and the first replay
\* cannot give a dead-lettered or retrying row a count that denies it.
LEMMA BudgetNext == IInv /\ [Next]_vars => RetryBudget'
<1> SUFFICES ASSUME IInv, [Next]_vars PROVE RetryBudget'
    OBVIOUS
<1> USE DEF IInv, TypeOK, RetryBudget
<1>1. CASE \E x \in Events : Enqueue(x) \/ CommitBusiness(x) \/ RollbackBusiness(x)
    BY <1>1 DEF Enqueue, CommitBusiness, RollbackBusiness
<1>2. CASE \E x \in Events : BackoffElapses(x) \/ ReplayReads(x)
    BY <1>2 DEF BackoffElapses, ReplayReads, row
<1>3. CASE PollerSelects
    BY <1>3 DEF PollerSelects
<1>4. CASE \E x \in Events : DeliverStarts(x)
    BY <1>4 DEF DeliverStarts, row
<1>5. CASE DeliverPosts
    BY <1>5 DEF DeliverPosts, row
<1>6. CASE DeliverCommits
    <2>0. sending \in Events /\ attempts[sending] + 1 \in Nat /\ MaxAttempts \in Nat
        BY <1>6, OutboxAssumption DEF DeliverCommits
    <2>1. /\ sending \in Events
          /\ attempts'[sending] = attempts[sending] + 1
          /\ status'[sending] = "dead_letter" => attempts[sending] + 1 >= MaxAttempts
          /\ status'[sending] = "retrying" => attempts[sending] + 1 < MaxAttempts
          /\ \A e \in Events \ {sending} :
                status'[e] = status[e] /\ attempts'[e] = attempts[e]
          /\ replays' = replays
        BY <1>6, <2>0 DEF DeliverCommits, Outcome
    <2>2. attempts[sending] \in Nat /\ MaxAttempts \in Nat
        BY <2>1, OutboxAssumption
    <2>3. status'[sending] = "retrying" => attempts'[sending] \in 1 .. (MaxAttempts - 1)
        BY <2>1, <2>2
    <2>4. status'[sending] = "dead_letter" => attempts'[sending] >= MaxAttempts
        BY <2>1, <2>2
    <2> QED
        BY <2>1, <2>3, <2>4
<1>7. CASE TickAborts
    BY <1>7 DEF TickAborts, row
<1>8. CASE Crash
    BY <1>8 DEF Crash
<1>9. CASE ReplayFlushes
    BY <1>9 DEF ReplayFlushes, row
<1>10. CASE ReplayCommits
    BY <1>10 DEF ReplayCommits, FirstReplay
<1>11. CASE ArchiveDelivered
    BY <1>11 DEF ArchiveDelivered, Delete
<1>12. CASE ResetTenant
    BY <1>12 DEF ResetTenant
<1>13. CASE UNCHANGED vars
    BY <1>13 DEF vars, row
<1> QED
    BY <1>1, <1>2, <1>3, <1>4, <1>5, <1>6, <1>7, <1>8, <1>9, <1>10, <1>11,
       <1>12, <1>13 DEF Next, Poller

\* Row locks: what the dispatcher or a replay holds is not settled by others.
LEMMA HeldNext == IInv /\ [Next]_vars => RowsHeld'
<1> SUFFICES ASSUME IInv, [Next]_vars PROVE RowsHeld'
    OBVIOUS
<1> USE OutboxAssumption DEF IInv, TypeOK, RowsHeld, Exists
<1> replay.stage # "idle" => replay.event \in Events
    BY DEF FirstReplay
<1>1. CASE \E x \in Events : Enqueue(x) \/ CommitBusiness(x) \/ RollbackBusiness(x)
    <2> PICK x \in Events : Enqueue(x) \/ CommitBusiness(x) \/ RollbackBusiness(x)
        BY <1>1
    <2>1. /\ status[x] \in {"none", "open"}
          /\ \A e \in Events \ {x} : status'[e] = status[e]
          /\ UNCHANGED <<batch, sending, replay>>
        BY DEF Enqueue, CommitBusiness, RollbackBusiness, poller
    <2> QED
        BY <2>1
<1>2. CASE \E x \in Events : BackoffElapses(x)
    BY <1>2 DEF BackoffElapses, poller
<1>3. CASE \E x \in Events : ReplayReads(x)
    BY <1>3 DEF ReplayReads, row, poller
<1>4. CASE PollerSelects
    <2>1. PICK B \in SUBSET Selectable :
              /\ batch' = B
              /\ status' = [e \in Events |-> IF e \in B THEN "in_flight" ELSE status[e]]
        BY <1>4 DEF PollerSelects
    <2>2. sending' = NoEvent /\ replay' = replay
        BY <1>4 DEF PollerSelects, PollerIdle
    <2> QED
        BY <2>1, <2>2 DEF Selectable
<1>5. CASE \E x \in Events : DeliverStarts(x)
    BY <1>5 DEF DeliverStarts, row
<1>6. CASE DeliverPosts
    BY <1>6 DEF DeliverPosts, row
<1>7. CASE DeliverCommits
    <2>1. /\ sending' = NoEvent /\ batch' = batch /\ replay' = replay
          /\ sending \in Events
          /\ status'[sending] \in {"delivered", "dead_letter", "retrying"}
          /\ \A e \in Events \ {sending} : status'[e] = status[e]
        BY <1>7 DEF DeliverCommits, Outcome
    <2> QED
        BY <2>1
<1>8. CASE TickAborts
    BY <1>8 DEF TickAborts, row
<1>9. CASE Crash
    BY <1>9 DEF Crash, NoReplay
<1>10. CASE ReplayFlushes
    BY <1>10 DEF ReplayFlushes, NoReplay, row, poller
<1>11. CASE ReplayCommits
    BY <1>11 DEF ReplayCommits, NoReplay, poller
<1>12. CASE ArchiveDelivered
    <2>1. PICK D \in SUBSET {e \in Events : /\ status[e] = "delivered"
                                           /\ ~LockedByReplay(e)} :
              status' = [e \in Events |-> IF e \in D THEN "gone" ELSE status[e]]
        BY <1>12 DEF ArchiveDelivered, Delete
    <2>2. UNCHANGED <<batch, sending, replay>>
        BY <1>12 DEF ArchiveDelivered, Delete, poller
    <2>3. \A e \in D : e \in Events /\ status[e] = "delivered"
        BY <2>1
    <2>4. replay.stage = "locked" => replay.event \notin D
        BY <2>1 DEF LockedByReplay
    <2>5. \A e \in Events \ D : status'[e] = status[e]
        BY <2>1
    <2>6. \A e \in batch' : status'[e] \in {"pending", "in_flight", "gone"}
        BY <2>2, <2>3, <2>5
    <2>7. sending' # NoEvent => status'[sending'] \in {"pending", "in_flight"}
        BY <2>2, <2>3, <2>5
    <2> QED
        BY <2>2, <2>4, <2>5, <2>6, <2>7
<1>13. CASE ResetTenant
    BY <1>13 DEF ResetTenant, poller
<1>14. CASE UNCHANGED vars
    BY <1>14 DEF vars, row, poller
<1> QED
    BY <1>1, <1>2, <1>3, <1>4, <1>5, <1>6, <1>7, <1>8, <1>9, <1>10, <1>11,
       <1>12, <1>13, <1>14 DEF Next, Poller

\* The inductive invariant holds in every reachable state.
THEOREM Invariance == Spec => []IInv
<1>1. IInv /\ [Next]_vars => IInv'
    <2>1. IInv => TypeOK
        BY DEF IInv
    <2> QED
        BY <2>1, TypeNext, OwnedNext, AckedNext, ReplayNext, BudgetNext, HeldNext
           DEF IInv
<1> QED
    BY InvInit, <1>1, PTL DEF Spec

\* No replay, archive, reset or commit leaves an in_flight row unowned
\* (core/outbox.py: dispatch_batch claims rows, _deliver settles them).
THEOREM Ownership == Spec => []InFlightIsOwned
<1>1. IInv => InFlightIsOwned
    BY DEF IInv
<1> QED
    BY <1>1, Invariance, PTL

\* A row is called delivered only if the receiver answered it with 2xx.
THEOREM Delivery == Spec => []DeliveredIsAcked
<1>1. IInv => DeliveredIsAcked
    BY DEF IInv
<1> QED
    BY <1>1, Invariance, PTL

\* With at most one replay, the attempt count agrees with the retry status.
THEOREM Budget == Spec => []RetryBudget
<1>1. IInv => RetryBudget
    BY DEF IInv
<1> QED
    BY <1>1, Invariance, PTL
-----------------------------------------------------------------------------
\* The replay's flush and _deliver's SELECT FOR UPDATE exclude each other.
LEMMA WriterNext == IInv /\ OneWriter /\ [Next]_vars => OneWriter'
<1> SUFFICES ASSUME IInv, OneWriter, [Next]_vars PROVE OneWriter'
    OBVIOUS
<1> USE DEF OneWriter, LockedByReplay
<1>1. CASE \E x \in Events : Enqueue(x) \/ CommitBusiness(x) \/ RollbackBusiness(x)
    BY <1>1 DEF Enqueue, CommitBusiness, RollbackBusiness, poller
<1>2. CASE \E x \in Events : BackoffElapses(x) \/ ReplayReads(x)
    BY <1>2 DEF BackoffElapses, ReplayReads, poller
<1>3. CASE PollerSelects
    BY <1>3 DEF PollerSelects, PollerIdle
<1>4. CASE \E x \in Events : DeliverStarts(x)
    BY <1>4 DEF DeliverStarts
<1>5. CASE DeliverPosts \/ DeliverCommits \/ TickAborts \/ Crash
    BY <1>5 DEF DeliverPosts, DeliverCommits, TickAborts, Crash
<1>6. CASE ReplayFlushes
    BY <1>6 DEF ReplayFlushes, LockedByDelivery, NoReplay, poller
<1>7. CASE ReplayCommits
    BY <1>7 DEF ReplayCommits, NoReplay, poller
<1>8. CASE ArchiveDelivered \/ ResetTenant \/ UNCHANGED vars
    BY <1>8 DEF ArchiveDelivered, Delete, ResetTenant, vars, poller
<1> QED
    BY <1>1, <1>2, <1>3, <1>4, <1>5, <1>6, <1>7, <1>8 DEF Next, Poller

\* What one step may do to a terminal row and to the row under delivery.
LEMMA TerminalStep ==
    ASSUME IInv, OneWriter, [Next]_vars, NEW e \in Events
    PROVE  /\ (status[e] \in {"delivered", "dead_letter"} /\ status'[e] # status[e])
                 => \/ status'[e] = "gone"
                    \/ status'[e] = "pending" /\ replay.event = e
           /\ (sending = e /\ sending' = e)
                 => status'[e] = status[e] /\ attempts'[e] = attempts[e]
<1> USE OutboxAssumption DEF IInv, TypeOK, RowsHeld
<1> e # NoEvent
    OBVIOUS
<1>1. CASE \E x \in Events : Enqueue(x) \/ CommitBusiness(x) \/ RollbackBusiness(x)
    BY <1>1 DEF Enqueue, CommitBusiness, RollbackBusiness
<1>2. CASE \E x \in Events : BackoffElapses(x) \/ ReplayReads(x) \/ DeliverStarts(x)
    BY <1>2 DEF BackoffElapses, ReplayReads, DeliverStarts, row
<1>3. CASE PollerSelects
    BY <1>3 DEF PollerSelects, PollerIdle, Selectable
<1>4. CASE DeliverCommits
    <2>1. /\ sending' = NoEvent
          /\ \A x \in Events \ {sending} : status'[x] = status[x]
        BY <1>4 DEF DeliverCommits
    <2> QED
        BY <2>1
<1>5. CASE Crash
    BY <1>5 DEF Crash
<1>6. CASE ReplayCommits
    <2>1. replay.event \in Events
        BY <1>6 DEF ReplayCommits, FirstReplay
    <2>2. sending = e => replay.event # e
        BY <1>6 DEF ReplayCommits, OneWriter, LockedByReplay
    <2> QED
        BY <1>6, <2>1, <2>2 DEF ReplayCommits
<1>7. CASE ArchiveDelivered
    BY <1>7 DEF ArchiveDelivered, Delete
<1>8. CASE ResetTenant
    BY <1>8 DEF ResetTenant
<1>9. CASE DeliverPosts \/ TickAborts \/ ReplayFlushes \/ UNCHANGED vars
    BY <1>9 DEF DeliverPosts, TickAborts, ReplayFlushes, vars, row
<1> QED
    BY <1>1, <1>2, <1>3, <1>4, <1>5, <1>6, <1>7, <1>8, <1>9 DEF Next, Poller

\* A delivered or dead-lettered row changes only by a replay of that row or its
\* deletion, and nothing writes a row while _deliver holds it FOR UPDATE.
THEOREM Settlement == Spec => TerminalUnlessReplayed
<1> DEFINE Step ==
        \A e \in Events :
            /\ (status[e] \in {"delivered", "dead_letter"} /\ status'[e] # status[e])
                  => \/ status'[e] = "gone"
                     \/ status'[e] = "pending" /\ replay.event = e
            /\ (sending = e /\ sending' = e)
                  => status'[e] = status[e] /\ attempts'[e] = attempts[e]
<1>1. IInv /\ OneWriter /\ [Next]_vars => [Step]_vars
    BY TerminalStep
<1>2. Init => OneWriter
    BY DEF Init, OneWriter
<1> QED
    BY <1>1, <1>2, Invariance, WriterNext, PTL DEF Spec, TerminalUnlessReplayed
-----------------------------------------------------------------------------
(***************************************************************************)
(* The order of first tries.                                               *)
(***************************************************************************)

\* What a sequence of events holds, and in which order, after an append.
LEMMA AppendOrder ==
    ASSUME NEW s \in Seq(Events), NEW x \in Events, NEW e, NEW f
    PROVE  /\ Occurs(Append(s, x), e) <=> Occurs(s, e) \/ e = x
           /\ Before(Append(s, x), e, f) <=> Before(s, e, f) \/ (f = x /\ Occurs(s, e))
           /\ Before(s, e, f) => Occurs(s, e) /\ Occurs(s, f)
<1> DEFINE t == Append(s, x)
<1>1. /\ Len(s) \in Nat /\ Len(t) = Len(s) + 1
      /\ DOMAIN s = 1 .. Len(s) /\ DOMAIN t = 1 .. (Len(s) + 1)
      /\ \A i \in 1 .. Len(s) : t[i] = s[i]
      /\ t[Len(s) + 1] = x
    OBVIOUS
<1> HIDE DEF t
<1>2. Occurs(t, e) <=> Occurs(s, e) \/ e = x
    BY <1>1 DEF Occurs
<1>3. Before(t, e, f) <=> Before(s, e, f) \/ (f = x /\ Occurs(s, e))
    <2>1. ASSUME Before(t, e, f) PROVE Before(s, e, f) \/ (f = x /\ Occurs(s, e))
        <3>1. PICK i, j \in DOMAIN t : i < j /\ t[i] = e /\ t[j] = f
            BY <2>1 DEF Before
        <3>2. i \in DOMAIN s /\ s[i] = e
            BY <1>1, <3>1
        <3>3. CASE j = Len(s) + 1
            BY <1>1, <3>1, <3>2, <3>3 DEF Occurs
        <3>4. CASE j # Len(s) + 1
            BY <1>1, <3>1, <3>2, <3>4 DEF Before
        <3> QED
            BY <3>3, <3>4
    <2>2. ASSUME Before(s, e, f) PROVE Before(t, e, f)
        BY <1>1, <2>2 DEF Before
    <2>3. ASSUME f = x, Occurs(s, e) PROVE Before(t, e, f)
        <3>1. PICK i \in DOMAIN s : s[i] = e
            BY <2>3 DEF Occurs
        <3>2. i \in DOMAIN t /\ Len(s) + 1 \in DOMAIN t /\ i < Len(s) + 1 /\ t[i] = e
            BY <1>1, <3>1
        <3> QED
            BY <1>1, <2>3, <3>2 DEF Before
    <2> QED
        BY <2>1, <2>2, <2>3
<1>4. Before(s, e, f) => Occurs(s, e) /\ Occurs(s, f)
    BY DEF Before, Occurs
<1> QED
    BY <1>2, <1>3, <1>4 DEF t

\* A POST adds the row to the tried ones, behind the others if it is new.
LEMMA TriedOrder ==
    ASSUME IInv, DeliverPosts, NEW e \in Events, NEW f \in Events
    PROVE  /\ Occurs(tried', e) <=> Occurs(tried, e) \/ e = sending
           /\ Before(tried, e, f) => Before(tried', e, f)
           /\ (Occurs(tried, e) /\ f = sending /\ ~Occurs(tried, f))
                 => Before(tried', e, f)
<1>1. tried \in Seq(Events) /\ sending \in Events /\ tried' = AppendNew(tried, sending)
    BY DEF DeliverPosts, IInv, TypeOK
<1>2. CASE Occurs(tried, sending)
    BY <1>1, <1>2 DEF AppendNew
<1>3. CASE ~Occurs(tried, sending)
    BY <1>1, <1>3, AppendOrder DEF AppendNew
<1> QED
    BY <1>2, <1>3

\* A commit makes its own row visible, behind the ones committed before.
LEMMA VisibleOrder ==
    ASSUME IInv, NEW x \in Events, CommitBusiness(x), NEW e \in Events, NEW f \in Events
    PROVE  /\ Occurs(visible', e) <=> Occurs(visible, e) \/ e = x
           /\ Before(visible', e, f) <=> Before(visible, e, f) \/ (f = x /\ Occurs(visible, e))
<1>1. visible \in Seq(Events) /\ visible' = Append(visible, x)
    BY DEF CommitBusiness, IInv, TypeOK
<1> QED
    BY <1>1, AppendOrder

\* Only committed rows are tried, and only tried ones wait for a retry.
LEMMA TrackedNext == IInv /\ RowsTracked /\ [Next]_vars => RowsTracked'
<1> SUFFICES ASSUME IInv, RowsTracked, [Next]_vars PROVE RowsTracked'
    OBVIOUS
<1> USE OutboxAssumption DEF IInv, TypeOK, RowsTracked, Unborn, Exists
<1>1. ASSUME NEW x \in Events, Enqueue(x) \/ RollbackBusiness(x)
      PROVE  RowsTracked'
    BY <1>1 DEF Enqueue, RollbackBusiness, UncommittedUntried, poller, seen
<1>2. ASSUME NEW x \in Events, CommitBusiness(x) PROVE RowsTracked'
    <2>1. \A e \in Events : Occurs(visible', e) <=> Occurs(visible, e) \/ e = x
        BY <1>2, VisibleOrder
    <2>2. /\ status' = [status EXCEPT ![x] = "pending"]
          /\ UNCHANGED <<waiting, sending, answer, tried, lost>>
        BY <1>2 DEF CommitBusiness, poller
    <2> QED
        BY <2>1, <2>2
<1>3. CASE \E x \in Events : BackoffElapses(x) \/ ReplayReads(x)
    BY <1>3 DEF BackoffElapses, ReplayReads, row, poller, seen
<1>4. CASE PollerSelects
    BY <1>4 DEF PollerSelects, PollerIdle, Selectable, SendingAcked, seen
<1>5. CASE \E x \in Events : DeliverStarts(x)
    BY <1>5 DEF DeliverStarts, SendingAcked, row, seen
<1>6. CASE DeliverPosts
    <2>1. sending \in Events /\ Occurs(visible, sending)
        BY <1>6 DEF DeliverPosts, RowsHeld
    <2> QED
        BY <1>6, <2>1, TriedOrder DEF DeliverPosts, row
<1>7. CASE DeliverCommits
    <2>1. /\ sending \in Events /\ Occurs(tried, sending) /\ answer' = "none"
          /\ Exists(sending)
          /\ status'[sending] \in {"delivered", "dead_letter", "retrying"}
          /\ \A e \in Events \ {sending} : status'[e] = status[e]
          /\ waiting' \subseteq waiting \cup {sending}
          /\ UNCHANGED <<visible, tried, lost>>
        BY <1>7 DEF DeliverCommits, Outcome, RowsHeld, seen
    <2> QED
        BY <2>1
<1>8. CASE TickAborts
    BY <1>8 DEF TickAborts, Abandoned, row
<1>9. CASE Crash
    BY <1>9 DEF Crash, Abandoned
<1>10. CASE ReplayFlushes \/ UNCHANGED vars
    BY <1>10 DEF ReplayFlushes, vars, row, poller, seen
<1>11. CASE ReplayCommits
    BY <1>11 DEF ReplayCommits, RowsHeld, FirstReplay, poller
<1>12. CASE ArchiveDelivered
    BY <1>12 DEF ArchiveDelivered, Delete, poller, seen
<1>13. CASE ResetTenant
    BY <1>13 DEF ResetTenant, poller
<1> QED
    BY <1>1, <1>2, <1>3, <1>4, <1>5, <1>6, <1>7, <1>8, <1>9, <1>10, <1>11,
       <1>12, <1>13 DEF Next, Poller

\* Without a replay no replay session is open, and none opens.
LEMMA NoReplays ==
    ASSUME IInv, [Next]_vars, replays' = 0
    PROVE  replays = 0 /\ replay.stage = "idle" /\ ~ReplayCommits /\ ~ReplayFlushes
<1> USE DEF IInv, TypeOK, FirstReplay
<1>1. replays = 0
    <2>1. CASE \E x \in Events : Enqueue(x) \/ CommitBusiness(x) \/ RollbackBusiness(x)
        BY <2>1 DEF Enqueue, CommitBusiness, RollbackBusiness
    <2>2. CASE \E x \in Events : BackoffElapses(x) \/ ReplayReads(x) \/ DeliverStarts(x)
        BY <2>2 DEF BackoffElapses, ReplayReads, DeliverStarts
    <2>3. CASE PollerSelects \/ DeliverPosts \/ DeliverCommits \/ TickAborts \/ Crash
        BY <2>3 DEF PollerSelects, DeliverPosts, DeliverCommits, TickAborts, Crash
    <2>4. CASE ReplayFlushes \/ ReplayCommits \/ ArchiveDelivered \/ ResetTenant
               \/ UNCHANGED vars
        BY <2>4 DEF ReplayFlushes, ReplayCommits, ArchiveDelivered, Delete,
                    ResetTenant, vars
    <2> QED
        BY <2>1, <2>2, <2>3, <2>4 DEF Next, Poller
<1> QED
    BY <1>1 DEF ReplayCommits, ReplayFlushes

\* Without a replay, one step undoes no deletion and no loss except by deletion,
\* and makes a pair of rows Older only by committing the younger one.
LEMMA OlderBack ==
    ASSUME IInv, RowsTracked, [Next]_vars, replays' = 0,
           NEW e \in Events, NEW f \in Events, Older(e, f)'
    PROVE  Older(e, f) \/ (CommitBusiness(f) /\ ~Occurs(visible, f))
<1> USE DEF IInv, TypeOK, Unborn, Exists
<1>1. /\ Partition[e] = Partition[f] /\ stamp'[e] < stamp'[f]
      /\ Before(visible', e, f) /\ status'[e] # "gone" /\ e \notin lost'
    BY DEF Older
<1>2. ~ReplayCommits /\ ~ReplayFlushes
    BY NoReplays
<1>3. ASSUME NEW x \in Events, CommitBusiness(x)
      PROVE  Older(e, f) \/ (CommitBusiness(f) /\ ~Occurs(visible, f))
    <2>1. Before(visible, e, f) \/ f = x
        BY <1>1, <1>3, VisibleOrder
    <2>2. CASE f = x
        BY <1>3, <2>2 DEF CommitBusiness, RowsTracked
    <2>3. CASE Before(visible, e, f)
        <3>1. stamp' = stamp /\ lost' = lost /\ (status[e] = "gone" => status'[e] = "gone")
            BY <1>3 DEF CommitBusiness
        <3> QED
            BY <1>1, <2>3, <3>1 DEF Older
    <2> QED
        BY <2>1, <2>2, <2>3
<1>4. ASSUME visible' = visible
      PROVE  Occurs(visible, e) /\ Occurs(visible, f) /\ ~Unborn(e) /\ ~Unborn(f)
    <2>1. Occurs(visible, e) /\ Occurs(visible, f)
        BY <1>1, <1>4 DEF Before, Occurs
    <2> QED
        BY <2>1 DEF RowsTracked
<1>5. ASSUME visible' = visible, stamp'[e] = stamp[e], stamp'[f] = stamp[f],
             status[e] = "gone" => status'[e] = "gone", e \in lost => e \in lost'
      PROVE  Older(e, f)
    BY <1>1, <1>5 DEF Older
<1>6. ASSUME NEW x \in Events, Enqueue(x) PROVE Older(e, f)
    <2>1. /\ visible' = visible /\ lost' = lost /\ status[x] = "none"
          /\ \A y \in Events \ {x} : stamp'[y] = stamp[y] /\ status'[y] = status[y]
        BY <1>6 DEF Enqueue, seen
    <2>2. e # x /\ f # x
        BY <1>4, <2>1
    <2> QED
        BY <1>5, <2>1, <2>2
<1>7. CASE \E x \in Events : RollbackBusiness(x) \/ BackoffElapses(x)
                             \/ ReplayReads(x) \/ DeliverStarts(x)
    BY <1>5, <1>7 DEF RollbackBusiness, BackoffElapses, ReplayReads, DeliverStarts,
                      row, seen
<1>8. CASE PollerSelects
    <2>1. status[e] = "gone" => status'[e] = "gone"
        BY <1>8 DEF PollerSelects, Selectable
    <2> QED
        BY <1>5, <1>8, <2>1 DEF PollerSelects, seen
<1>9. CASE DeliverPosts \/ TickAborts \/ Crash \/ UNCHANGED vars
    BY <1>5, <1>9 DEF DeliverPosts, TickAborts, Crash, vars, row, seen
<1>10. CASE DeliverCommits
    <2>1. status[e] = "gone" => status'[e] = "gone"
        BY <1>10 DEF DeliverCommits, RowsHeld
    <2> QED
        BY <1>5, <1>10, <2>1 DEF DeliverCommits, seen
<1>11. CASE ArchiveDelivered
    BY <1>5, <1>11 DEF ArchiveDelivered, Delete, seen
<1>12. CASE ResetTenant
    <2>1. visible' = visible /\ (Exists(e) => status'[e] = "gone")
                             /\ (status[e] = "gone" => status'[e] = "gone")
        BY <1>12 DEF ResetTenant
    <2> QED
        BY <1>1, <1>4, <2>1
<1> QED
    BY <1>2, <1>3, <1>6, <1>7, <1>8, <1>9, <1>10, <1>11, <1>12 DEF Next, Poller

\* Without a replay, a claimed row is requeued by nobody.
LEMMA ClaimedNext ==
    ASSUME IInv, QueuedInOrder, [Next]_vars, replays' = 0
    PROVE  /\ \A e \in batch' : status'[e] \in {"in_flight", "gone"}
           /\ sending' # NoEvent => status'[sending'] = "in_flight"
<1> USE OutboxAssumption DEF IInv, TypeOK, Exists
<1>1. ~ReplayCommits /\ ~ReplayFlushes
    BY NoReplays
<1>2. /\ \A e \in batch : status[e] \in {"in_flight", "gone"}
      /\ sending # NoEvent => status[sending] = "in_flight"
    BY NoReplays DEF QueuedInOrder
<1>3. ASSUME NEW x \in Events, Enqueue(x) \/ CommitBusiness(x) \/ RollbackBusiness(x)
      PROVE  /\ \A e \in batch' : status'[e] \in {"in_flight", "gone"}
             /\ sending' # NoEvent => status'[sending'] = "in_flight"
    <2>1. /\ status[x] \in {"none", "open"}
          /\ \A e \in Events \ {x} : status'[e] = status[e]
          /\ UNCHANGED <<batch, sending>>
        BY <1>3 DEF Enqueue, CommitBusiness, RollbackBusiness, poller
    <2> QED
        BY <1>2, <2>1
<1>4. CASE \E x \in Events : BackoffElapses(x) \/ ReplayReads(x) \/ DeliverStarts(x)
    BY <1>2, <1>4 DEF BackoffElapses, ReplayReads, DeliverStarts, row, poller
<1>5. CASE PollerSelects
    <2>1. PICK B \in SUBSET Selectable :
              /\ batch' = B
              /\ status' = [e \in Events |-> IF e \in B THEN "in_flight" ELSE status[e]]
        BY <1>5 DEF PollerSelects
    <2>2. sending' = NoEvent /\ B \subseteq Events
        BY <1>5 DEF PollerSelects, PollerIdle, Selectable
    <2> QED
        BY <2>1, <2>2
<1>6. CASE DeliverCommits
    <2>1. /\ sending' = NoEvent /\ batch' = batch
          /\ \A e \in Events \ {sending} : status'[e] = status[e]
        BY <1>6 DEF DeliverCommits
    <2> QED
        BY <1>2, <2>1 DEF RowsHeld
<1>7. CASE DeliverPosts \/ TickAborts \/ Crash \/ UNCHANGED vars
    BY <1>2, <1>7 DEF DeliverPosts, TickAborts, Crash, vars, row, poller
<1>8. CASE ArchiveDelivered
    <2>1. /\ \A e \in Events : status'[e] \in {status[e], "gone"}
          /\ \A e \in Events : status[e] = "in_flight" => status'[e] = "in_flight"
          /\ UNCHANGED <<batch, sending>>
        BY <1>8 DEF ArchiveDelivered, Delete, poller
    <2> QED
        BY <1>2, <2>1
<1>9. CASE ResetTenant
    BY <1>2, <1>9 DEF ResetTenant, poller
<1> QED
    BY <1>1, <1>3, <1>4, <1>5, <1>6, <1>7, <1>8, <1>9 DEF Next, Poller

\* Without a replay, a committed row that was not POSTed yet is pending or with
\* the poller, unless it was deleted or abandoned.
LEMMA UntriedNext ==
    ASSUME IInv, RowsTracked, QueuedInOrder, [Next]_vars, replays' = 0,
           NEW e \in Events, Occurs(visible, e)', Untried(e)', status'[e] # "gone",
           e \notin lost'
    PROVE  status'[e] = "pending" \/ e \in batch' \cup {sending'}
<1> USE OutboxAssumption DEF IInv, TypeOK, Unborn, Exists
<1>1. ~ReplayCommits /\ ~ReplayFlushes
    BY NoReplays
<1>2. ASSUME Occurs(visible, e), Untried(e), status[e] # "gone", e \notin lost
      PROVE  status[e] = "pending" \/ e \in batch \cup {sending}
    BY <1>2, NoReplays DEF QueuedInOrder
<1>3. Occurs(visible', e) /\ ~Occurs(tried', e)
    BY DEF Untried
<1>4. ASSUME NEW x \in Events, CommitBusiness(x)
      PROVE  status'[e] = "pending" \/ e \in batch' \cup {sending'}
    BY <1>2, <1>3, <1>4, VisibleOrder DEF CommitBusiness, poller, Untried
<1>5. ASSUME NEW x \in Events, Enqueue(x) \/ RollbackBusiness(x)
      PROVE  status'[e] = "pending" \/ e \in batch' \cup {sending'}
    <2>1. UNCHANGED <<visible, tried, lost, batch, sending>>
        BY <1>5 DEF Enqueue, RollbackBusiness, poller, seen
    <2>2. status[x] \in {"none", "open"} /\ e # x
        BY <1>3, <1>5, <2>1 DEF Enqueue, RollbackBusiness, RowsTracked
    <2>3. status'[e] = status[e]
        BY <1>5, <2>2 DEF Enqueue, RollbackBusiness
    <2> QED
        BY <1>2, <1>3, <2>1, <2>3 DEF Untried
<1>6. CASE \E x \in Events : BackoffElapses(x) \/ ReplayReads(x)
    BY <1>2, <1>3, <1>6 DEF BackoffElapses, ReplayReads, row, poller, seen, Untried
<1>7. CASE PollerSelects
    BY <1>2, <1>3, <1>7 DEF PollerSelects, PollerIdle, Selectable, seen, Untried
<1>8. ASSUME NEW x \in Events, DeliverStarts(x)
      PROVE  status'[e] = "pending" \/ e \in batch' \cup {sending'}
    <2>1. status[e] = "pending" \/ e \in batch
        BY <1>2, <1>3, <1>8 DEF DeliverStarts, row, seen, Untried
    <2>2. e = x => sending' = x
        <3>1. status[x] \in {"in_flight", "gone"}
            BY <1>8, NoReplays DEF DeliverStarts, QueuedInOrder
        <3> QED
            BY <1>8, <3>1 DEF DeliverStarts, row
    <2> QED
        BY <1>8, <2>1, <2>2 DEF DeliverStarts, row
<1>9. CASE DeliverPosts
    BY <1>2, <1>3, <1>9, TriedOrder DEF DeliverPosts, row, Untried
<1>10. CASE DeliverCommits
    <2>1. Occurs(tried, sending) /\ UNCHANGED <<visible, tried, lost, batch>>
        BY <1>10 DEF DeliverCommits, RowsTracked, seen
    <2>2. e # sending
        BY <1>3, <2>1
    <2>3. status'[e] = status[e]
        BY <1>10, <2>2 DEF DeliverCommits
    <2> QED
        BY <1>2, <1>3, <2>1, <2>2, <2>3 DEF Untried
<1>11. CASE TickAborts \/ Crash
    <2>1. /\ lost' = lost \cup Abandoned /\ UNCHANGED <<visible, tried>>
          /\ ~Unborn(e)
          /\ status'[e] = status[e]
        BY <1>3, <1>11 DEF TickAborts, Crash, RowsTracked, row
    <2>2. e \notin Abandoned
        BY <2>1
    <2>3. e \in batch \cup {sending} => status[e] \in {"in_flight", "gone"}
        BY NoReplays DEF QueuedInOrder
    <2>4. e \notin batch \cup {sending}
        BY <2>1, <2>2, <2>3 DEF Abandoned
    <2> QED
        BY <1>2, <1>3, <2>1, <2>4 DEF Untried
<1>12. CASE ArchiveDelivered
    BY <1>2, <1>3, <1>12 DEF ArchiveDelivered, Delete, poller, seen, Untried
<1>13. CASE ResetTenant
    BY <1>3, <1>13 DEF ResetTenant, RowsTracked
<1>14. CASE UNCHANGED vars
    BY <1>2, <1>3, <1>14 DEF vars, row, poller, seen, Untried
<1> QED
    BY <1>1, <1>4, <1>5, <1>6, <1>7, <1>8, <1>9, <1>10, <1>11, <1>12, <1>13,
       <1>14 DEF Next, Poller

\* Without a replay, while an older committed row of the partition has not been
\* POSTed, the younger one is neither tried nor under delivery, and is claimed
\* only behind it: the poller orders its claim by created_at within a partition.
LEMMA BehindNext ==
    ASSUME IInv, RowsTracked, QueuedInOrder, [Next]_vars, replays' = 0,
           NEW e \in Events, NEW f \in Events, Older(e, f)', Untried(e)'
    PROVE  /\ Untried(f)'
           /\ f \in batch' => e \in batch' \cup {sending'}
           /\ sending' # f
<1> USE OutboxAssumption DEF IInv, TypeOK, Unborn, Exists
<1> DEFINE Goal == /\ ~Occurs(tried', f)
                   /\ f \in batch' => e \in batch' \cup {sending'}
                   /\ sending' # f
<1> SUFFICES Goal
    BY DEF Untried
<1>1. /\ replays = 0 /\ replay.stage = "idle" /\ ~ReplayCommits /\ ~ReplayFlushes
      /\ e # NoEvent /\ f # NoEvent
    BY NoReplays
<1>2. /\ Partition[e] = Partition[f] /\ stamp'[e] < stamp'[f]
      /\ status'[e] # "gone" /\ e \notin lost' /\ ~Occurs(tried', e)
    BY DEF Older, Untried
<1>3. CASE CommitBusiness(f) /\ ~Occurs(visible, f)
    <2>1. UNCHANGED <<batch, sending, tried>> /\ status[f] = "open"
        BY <1>3 DEF CommitBusiness, poller
    <2>2. ~Occurs(tried, f) /\ f \notin batch /\ f # sending
        BY <1>3, <2>1 DEF RowsTracked, RowsHeld
    <2> QED
        BY <2>1, <2>2
<1>4. ASSUME Older(e, f), Untried(e)
      PROVE  /\ ~Occurs(tried, f) /\ sending # f
             /\ f \in batch => e \in batch \cup {sending}
             /\ stamp[e] < stamp[f]
             /\ status[e] = "pending" \/ e \in batch \cup {sending}
    <2>1. Occurs(visible, e)
        BY <1>4 DEF Older, Before, Occurs
    <2> QED
        BY <1>1, <1>4, <2>1 DEF QueuedInOrder, Untried, Older
<1>5. CASE Older(e, f) /\ UNCHANGED <<tried, batch, sending>>
    BY <1>2, <1>4, <1>5 DEF Untried
<1>6. CASE Older(e, f) /\ PollerSelects
    <2>1. PICK B \in SUBSET Selectable : IsClaim(B) /\ batch' = B
        BY <1>6 DEF PollerSelects
    <2>2. /\ batch = {} /\ sending = NoEvent /\ sending' = NoEvent
          /\ UNCHANGED <<tried, stamp>>
        BY <1>6 DEF PollerSelects, PollerIdle, seen
    <2>3. ~Occurs(tried, e) /\ Untried(e)
        BY <1>2, <2>2 DEF Untried
    <2>4. e \in Selectable
        BY <1>1, <1>4, <1>6, <2>2, <2>3 DEF Selectable, LockedByReplay, RowsTracked
    <2>5. ~Precedes(f, e)
        BY <1>2, <2>2 DEF Precedes
    <2>6. f \in B => e \in B
        BY <2>1, <2>4, <2>5 DEF IsClaim
    <2> QED
        BY <1>1, <1>4, <1>6, <2>1, <2>2, <2>3, <2>6
<1>7. ASSUME Older(e, f), NEW x \in Events, DeliverStarts(x) PROVE Goal
    <2>1. /\ sending = NoEvent /\ x \in batch /\ batch' = batch \ {x}
          /\ sending' \in {x, NoEvent} /\ tried' = tried
          /\ \A y \in batch \ {x} : Precedes(x, y)
        BY <1>7 DEF DeliverStarts, seen
    <2>2. Untried(e)
        BY <1>2, <2>1 DEF Untried
    <2>3. f \in batch => e \in batch
        BY <1>1, <1>4, <1>7, <2>1, <2>2
    <2>4. f # x
        <3> SUFFICES ASSUME f = x PROVE FALSE
            OBVIOUS
        <3>1. e \in batch \ {x} /\ stamp[e] < stamp[f]
            BY <1>4, <1>7, <2>1, <2>2, <2>3
        <3>2. Precedes(f, e)
            BY <2>1, <3>1
        <3>3. stamp[e] \in Nat /\ stamp[f] \in Nat /\ Partition[f] \in Nat
            OBVIOUS
        <3> QED
            BY <1>2, <3>1, <3>2, <3>3 DEF Precedes
    <2>5. e = x => sending' = x
        <3>1. status'[e] = status[e] /\ (e = x => status[x] \in {"in_flight", "gone"})
            BY <1>1, <1>7, <2>1 DEF DeliverStarts, QueuedInOrder, row
        <3> QED
            BY <1>2, <1>7, <3>1 DEF DeliverStarts
    <2> QED
        BY <1>1, <1>4, <1>7, <2>1, <2>2, <2>3, <2>4, <2>5
<1>8. CASE Older(e, f) /\ DeliverPosts
    <2>1. Untried(e) /\ (Occurs(tried', f) <=> Occurs(tried, f) \/ f = sending)
        BY <1>2, <1>8, TriedOrder DEF Untried
    <2>2. UNCHANGED <<batch, sending>>
        BY <1>8 DEF DeliverPosts
    <2> QED
        BY <1>4, <1>8, <2>1, <2>2
<1>9. CASE Older(e, f) /\ DeliverCommits
    <2>1. /\ batch' = batch /\ sending' = NoEvent /\ tried' = tried
          /\ Occurs(tried, sending)
        BY <1>9 DEF DeliverCommits, RowsTracked, seen
    <2>2. Untried(e) /\ e # sending
        BY <1>2, <2>1 DEF Untried
    <2> QED
        BY <1>1, <1>4, <1>9, <2>1, <2>2
<1>10. CASE Older(e, f) /\ (TickAborts \/ Crash)
    <2>1. batch' = {} /\ sending' = NoEvent /\ tried' = tried
        BY <1>10 DEF TickAborts, Crash
    <2>2. Untried(e)
        BY <1>2, <2>1 DEF Untried
    <2> QED
        BY <1>1, <1>4, <1>10, <2>1, <2>2
<1>11. ASSUME NEW x \in Events,
              Enqueue(x) \/ CommitBusiness(x) \/ RollbackBusiness(x)
                 \/ BackoffElapses(x) \/ ReplayReads(x)
       PROVE  UNCHANGED <<tried, batch, sending>>
    BY <1>11 DEF Enqueue, CommitBusiness, RollbackBusiness, BackoffElapses,
                 ReplayReads, poller, seen
<1>12. ASSUME ArchiveDelivered \/ ResetTenant \/ UNCHANGED vars
       PROVE  UNCHANGED <<tried, batch, sending>>
    BY <1>12 DEF ArchiveDelivered, Delete, ResetTenant, vars, poller, seen
<1>13. Older(e, f) \/ (CommitBusiness(f) /\ ~Occurs(visible, f))
    BY OlderBack
<1> QED
    BY <1>1, <1>3, <1>5, <1>6, <1>7, <1>8, <1>9, <1>10, <1>11, <1>12, <1>13
       DEF Next, Poller

\* Without a replay the first POST of the younger row comes after the older one's.
LEMMA TriesNext ==
    ASSUME IInv, RowsTracked, QueuedInOrder, FirstTriesInOrder, [Next]_vars,
           replays' = 0, NEW e \in Events, NEW f \in Events, Older(e, f)',
           Occurs(tried, f)'
    PROVE  Before(tried, e, f)'
<1>1. replays = 0
    BY NoReplays
<1>2. Occurs(tried', f)
    OBVIOUS
<1>3. ASSUME Older(e, f), Occurs(tried, f) PROVE Before(tried, e, f)
    BY <1>1, <1>3 DEF FirstTriesInOrder
<1>4. Older(e, f) \/ (tried' = tried /\ ~Occurs(tried, f))
    BY OlderBack DEF CommitBusiness, RowsTracked
<1>5. CASE tried' = tried
    BY <1>2, <1>3, <1>4, <1>5
<1>6. CASE DeliverPosts
    <2>1. sending \in Events /\ ~CommitBusiness(f)
        BY <1>6 DEF DeliverPosts, CommitBusiness, IInv, TypeOK, row, poller
    <2>2. Older(e, f)
        BY <2>1, OlderBack
    <2>3. CASE Occurs(tried, f)
        BY <1>3, <1>6, <2>2, <2>3, TriedOrder
    <2>4. CASE ~Occurs(tried, f)
        <3>1. f = sending
            BY <1>2, <1>6, <2>4, TriedOrder
        <3>2. Occurs(tried, e)
            BY <1>1, <2>2, <3>1 DEF QueuedInOrder, Untried
        <3> QED
            BY <1>6, <2>4, <3>1, <3>2, TriedOrder
    <2> QED
        BY <2>3, <2>4
<1>7. CASE ~DeliverPosts
    <2>1. CASE \E x \in Events : Enqueue(x) \/ CommitBusiness(x) \/ RollbackBusiness(x)
                                 \/ BackoffElapses(x) \/ ReplayReads(x)
                                 \/ DeliverStarts(x)
        BY <1>5, <2>1 DEF Enqueue, CommitBusiness, RollbackBusiness, BackoffElapses,
                          ReplayReads, DeliverStarts, seen
    <2>2. CASE PollerSelects \/ DeliverCommits \/ TickAborts \/ Crash
        BY <1>5, <2>2 DEF PollerSelects, DeliverCommits, TickAborts, Crash, seen
    <2>3. CASE ReplayFlushes \/ ReplayCommits \/ ArchiveDelivered \/ ResetTenant
               \/ UNCHANGED vars
        BY <1>5, <2>3 DEF ReplayFlushes, ReplayCommits, ArchiveDelivered, Delete,
                          ResetTenant, vars, seen
    <2> QED
        BY <1>7, <2>1, <2>2, <2>3 DEF Next, Poller
<1> QED
    BY <1>6, <1>7

\* Without replays, the first POSTs of a partition's events follow the order in
\* which the poller could see them (core/outbox.py: ORDER BY partition_key,
\* created_at), with crashes, aborts, retries and clean-ups in between.
THEOREM FirstTries == Spec => []FirstTriesInOrder
<1> DEFINE Ordered == RowsTracked /\ QueuedInOrder /\ FirstTriesInOrder
<1>1. Init => Ordered
    <2> SUFFICES ASSUME Init PROVE Ordered
        OBVIOUS
    <2>1. \A e : ~Occurs(tried, e) /\ ~Occurs(visible, e)
        BY DEF Init, Occurs
    <2>2. RowsTracked
        BY <2>1 DEF Init, RowsTracked, Exists
    <2>3. QueuedInOrder
        BY <2>1 DEF Init, QueuedInOrder, Older, Before, Occurs
    <2>4. FirstTriesInOrder
        BY <2>1 DEF FirstTriesInOrder
    <2> QED
        BY <2>2, <2>3, <2>4
<1>2. IInv /\ Ordered /\ [Next]_vars => Ordered'
    <2> SUFFICES ASSUME IInv, Ordered, [Next]_vars PROVE Ordered'
        OBVIOUS
    <2>1. RowsTracked'
        BY TrackedNext
    <2>2. QueuedInOrder'
        BY ClaimedNext, UntriedNext, BehindNext DEF QueuedInOrder
    <2>3. FirstTriesInOrder'
        BY TriesNext DEF FirstTriesInOrder
    <2> QED
        BY <2>1, <2>2, <2>3
<1> QED
    BY <1>1, <1>2, Invariance, PTL DEF Spec

-----------------------------------------------------------------------------
(***************************************************************************)
(* Refinement of WebhookContract.                                          *)
(***************************************************************************)

\* Steps that change no row's stage, attempt count or acknowledgement.
LEMMA ContractStutter ==
    ASSUME TypeOK, UNCHANGED <<attempts, acked>>,
           \A e \in Events : StageOf(status'[e]) = StageOf(status[e])
    PROVE  UNCHANGED Contract!vars
BY DEF Contract!vars

\* The steps of the business transaction that enqueues an event.
LEMMA ContractPublish ==
    ASSUME TypeOK, NEW e \in Events,
           Enqueue(e) \/ CommitBusiness(e) \/ RollbackBusiness(e)
    PROVE  [Contract!Next]_(Contract!vars)
<1> USE DEF TypeOK, Statuses
<1>1. CASE Enqueue(e)
    BY <1>1, ContractStutter DEF Enqueue, StageOf, seen
<1>2. CASE CommitBusiness(e)
    <2>1. Contract!Publish(e)
        BY <1>2 DEF CommitBusiness, Contract!Publish, StageOf
    <2> QED
        BY <2>1 DEF Contract!Next
<1>3. CASE RollbackBusiness(e)
    <2>1. Contract!Forget({e})
        BY <1>3 DEF RollbackBusiness, Contract!Forget, StageOf, seen
    <2> QED
        BY <2>1 DEF Contract!Next
<1> QED
    BY <1>1, <1>2, <1>3

\* The outcome _deliver records is a step of the contract.
LEMMA ContractCommit ==
    ASSUME IInv, DeliverCommits
    PROVE  Contract!Attempted(sending) /\ sending \in Events
<1> USE DEF IInv, TypeOK, Statuses
<1>1. sending \in Events /\ status[sending] \in {"pending", "in_flight"}
    BY DEF DeliverCommits, RowsHeld
<1>2. UNCHANGED acked
    BY DEF DeliverCommits, Outcome, seen
<1> attempts[sending] + 1 \in Nat /\ MaxAttempts \in Nat
    BY <1>1, OutboxAssumption
<1>3. CASE answer = "ok"
    <2>1. sending \in acked
        BY <1>3 DEF SendingAcked
    <2>2. Contract!Confirm(sending)
        BY <1>1, <1>2, <1>3, <2>1 DEF DeliverCommits, Outcome, Contract!Confirm, StageOf
    <2> QED
        BY <1>1, <2>2 DEF Contract!Attempted
<1>4. CASE answer # "ok" /\ attempts[sending] + 1 >= MaxAttempts
    <2>1. status' = [status EXCEPT ![sending] = "dead_letter"]
        BY <1>4 DEF DeliverCommits, Outcome
    <2>2. Contract!GiveUp(sending)
        BY <1>1, <1>2, <1>4, <2>1 DEF DeliverCommits, Contract!GiveUp, StageOf
    <2> QED
        BY <1>1, <2>2 DEF Contract!Attempted
<1>5. CASE answer # "ok" /\ ~(attempts[sending] + 1 >= MaxAttempts)
    <2>1. status' = [status EXCEPT ![sending] = "retrying"]
        BY <1>5 DEF DeliverCommits, Outcome
    <2>2. attempts[sending] + 1 < MaxAttempts
        BY <1>5
    <2>3. Contract!Refuse(sending)
        BY <1>1, <1>2, <1>5, <2>1, <2>2 DEF DeliverCommits, Contract!Refuse, StageOf
    <2> QED
        BY <1>1, <2>3 DEF Contract!Attempted
<1> QED
    BY <1>3, <1>4, <1>5

\* Every step of the outbox is a step of the contract or a stutter.
LEMMA ContractNext == IInv /\ [Next]_vars => [Contract!Next]_(Contract!vars)
<1> SUFFICES ASSUME IInv, [Next]_vars PROVE [Contract!Next]_(Contract!vars)
    OBVIOUS
<1> TypeOK
    BY DEF IInv
<1> USE DEF Statuses
<1>1. CASE \E x \in Events : Enqueue(x) \/ CommitBusiness(x) \/ RollbackBusiness(x)
    BY <1>1, ContractPublish
<1>2. CASE \E x \in Events : BackoffElapses(x) \/ ReplayReads(x) \/ DeliverStarts(x)
    BY <1>2, ContractStutter DEF BackoffElapses, ReplayReads, DeliverStarts, row, seen
<1>3. CASE ReplayFlushes \/ TickAborts \/ UNCHANGED vars
    BY <1>3, ContractStutter DEF ReplayFlushes, TickAborts, vars, row, seen
<1>4. CASE PollerSelects
    <2>1. \A e \in Events : StageOf(status'[e]) = StageOf(status[e])
        BY <1>4 DEF PollerSelects, Selectable, StageOf, TypeOK
    <2> QED
        BY <1>4, <2>1, ContractStutter DEF PollerSelects, seen
<1>5. CASE DeliverPosts
    <2>1. sending \in Events /\ StageOf(status[sending]) = "owed"
        BY <1>5 DEF DeliverPosts, IInv, RowsHeld, TypeOK, StageOf
    <2>2. CASE acked' = acked \cup {sending}
        <3>1. Contract!Acknowledge(sending)
            BY <1>5, <2>1, <2>2 DEF DeliverPosts, row, Contract!Acknowledge
        <3> QED
            BY <2>1, <3>1 DEF Contract!Next
    <2>3. CASE acked' = acked
        BY <1>5, <2>3, ContractStutter DEF DeliverPosts, row
    <2> QED
        BY <1>5, <2>2, <2>3 DEF DeliverPosts
<1>6. CASE DeliverCommits
    BY <1>6, ContractCommit DEF Contract!Next
<1>7. CASE Crash
    <2> DEFINE S == {e \in Events : status[e] = "open"}
    <2>1. Contract!Forget(S)
        BY <1>7 DEF Crash, Contract!Forget, StageOf, TypeOK
    <2> QED
        BY <2>1 DEF Contract!Next
<1>8. CASE ReplayCommits
    <2> DEFINE e == replay.event
    <2>1. e \in Events /\ status[e] \notin {"none", "open", "gone"}
        BY <1>8 DEF ReplayCommits, IInv, FirstReplay, RowsHeld, Exists
    <2>2. Contract!Requeue(e)
        BY <1>8, <2>1 DEF ReplayCommits, Contract!Requeue, StageOf, TypeOK
    <2> QED
        BY <2>1, <2>2 DEF Contract!Next
<1>9. CASE ArchiveDelivered
    <2>1. PICK D \in SUBSET {e \in Events : /\ status[e] = "delivered"
                                           /\ ~LockedByReplay(e)} :
              status' = [e \in Events |-> IF e \in D THEN "gone" ELSE status[e]]
        BY <1>9 DEF ArchiveDelivered, Delete
    <2>2. Contract!Forget(D)
        BY <1>9, <2>1 DEF ArchiveDelivered, Delete, Contract!Forget, StageOf, TypeOK, seen
    <2> QED
        BY <2>1, <2>2 DEF Contract!Next
<1>10. CASE ResetTenant
    <2> DEFINE S == {e \in Events : Exists(e)}
    <2>1. S = {e \in Events : StageOf(status[e]) \in {"owed", "delivered", "dead"}}
        BY DEF Exists, StageOf, TypeOK
    <2>2. Contract!Forget(S)
        BY <1>10, <2>1 DEF ResetTenant, Contract!Forget, StageOf, Exists, TypeOK
    <2> QED
        BY <2>2 DEF Contract!Next
<1> QED
    BY <1>1, <1>2, <1>3, <1>4, <1>5, <1>6, <1>7, <1>8, <1>9, <1>10 DEF Next, Poller

\* The outbox with its poller, locks, replay sessions, crashes and aborts
\* implements the contract of WebhookContract.tla.
THEOREM Refinement == Spec => ImplementsContract
<1>1. Init => Contract!Init
    BY DEF Init, Contract!Init, StageOf
<1> QED
    BY <1>1, Invariance, ContractNext, PTL DEF Spec, ImplementsContract, Contract!Spec
=============================================================================
