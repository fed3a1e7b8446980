------------------------------- MODULE Outbox -------------------------------
(***************************************************************************)
(* The transactional outbox of core/outbox.py: the webhook_outbox table,   *)
(* the single poller that claims a batch and POSTs it row by row, and the  *)
(* administrative actions that touch the same rows (replay, archive,       *)
(* reset).  Every await of the code that lets another coroutine or another *)
(* database session run is a step boundary here; what Postgres makes       *)
(* atomic (one commit, one row lock) is one step.                          *)
(*                                                                         *)
(* Time is abstract: `waiting' holds the rows whose next_attempt_at is     *)
(* still in the future; which delay it was does not matter to any property.*)
(***************************************************************************)
EXTENDS Naturals, Sequences, FiniteSets

CONSTANTS
    Events,       \* outbox rows that may ever be enqueued (their ULIDs)
    NoEvent,      \* not an event
    Partition,    \* the rank of each event's partition_key in text order
    BatchSize,    \* LIMIT of the claiming SELECT (50 in the code)
    MaxAttempts,  \* _MAX_ATTEMPTS (7 in the code)
    MaxReplays,   \* bound: calls of the replay endpoint
    Faults        \* the failures an instance includes

ASSUME OutboxAssumption ==
    /\ NoEvent \notin Events
    /\ IsFiniteSet(Events)
    /\ Partition \in [Events -> Nat]
    /\ BatchSize \in Nat \ {0}
    /\ MaxAttempts \in Nat \ {0}
    /\ MaxReplays \in Nat
    /\ Faults \subseteq {"crash", "abort", "reset"}

VARIABLES
    status,    \* row status; "none", "open" (uncommitted), "gone" (no row) added
    attempts,  \* attempt_count
    waiting,   \* rows with next_attempt_at > now
    stamp,     \* created_at
    now,       \* last created_at handed out
    batch,     \* claimed rows dispatch_batch has not passed to _deliver yet
    sending,   \* the row _deliver holds FOR UPDATE, or NoEvent
    answer,    \* what post_webhook returned, "none" before the POST
    replay,    \* the session of the replay endpoint
    replays,   \* replay calls so far
    visible,   \* history: events in the order their rows were committed
    tried,     \* history: events in the order of their first POST
    acked,     \* history: events the receiver answered with 2xx
    lost       \* history: rows left in_flight by a dispatcher that died

row    == <<status, attempts, waiting, stamp, now>>
poller == <<batch, sending, answer>>
seen   == <<visible, tried, acked, lost>>
vars   == <<row, poller, replay, replays, seen>>

Statuses == {"none", "open", "pending", "in_flight", "retrying", "delivered",
             "dead_letter", "gone"}
\* What replay resets: the status, and the attempt_count / next_attempt_at that
\* the first failed attempt sets together.
Columns  == {"status", "attempts"}
NoReplay == [stage |-> "idle", event |-> NoEvent, cols |-> {}]

Occurs(s, e)    == \E i \in DOMAIN s : s[i] = e
Before(s, e, f) == \E i, j \in DOMAIN s : i < j /\ s[i] = e /\ s[j] = f
AppendNew(s, e) == IF Occurs(s, e) THEN s ELSE Append(s, e)

Exists(e) == status[e] \notin {"none", "open", "gone"}

\* Rows another session may not lock: _deliver and replay hold one each.
LockedByReplay(e)   == replay.stage = "locked" /\ replay.event = e
NeverLocked(e)      == e = NoEvent               \* a mutant: no FOR UPDATE
LockedByDelivery(e) == sending = e

\* ORDER BY partition_key, created_at (after a mutant: created_at DESC)
NewestFirst(e, f) ==
    \/ Partition[e] < Partition[f]
    \/ Partition[e] = Partition[f] /\ stamp[e] > stamp[f]
Precedes(e, f) ==
    \/ Partition[e] < Partition[f]
    \/ Partition[e] = Partition[f] /\ stamp[e] < stamp[f]

Selectable ==
    {e \in Events : /\ status[e] \in {"pending", "retrying"}
                    /\ e \notin waiting
                    /\ ~LockedByReplay(e)}

-----------------------------------------------------------------------------
Init ==
    /\ status = [e \in Events |-> "none"]
    /\ attempts = [e \in Events |-> 0]
    /\ waiting = {}
    /\ stamp = [e \in Events |-> 0]
    /\ now = 0
    /\ batch = {}
    /\ sending = NoEvent
    /\ answer = "none"
    /\ replay = NoReplay
    /\ replays = 0
    /\ visible = <<>>
    /\ tried = <<>>
    /\ acked = {}
    /\ lost = {}

(***************************************************************************)
(* The write path.  enqueue() adds the row inside the caller's business    *)
(* transaction: it takes its created_at now and is seen by the dispatcher  *)
(* only when that transaction commits, perhaps after a younger one did.    *)
(***************************************************************************)
Enqueue(e) ==
    /\ status[e] = "none"
    /\ status' = [status EXCEPT ![e] = "open"]
    /\ stamp' = [stamp EXCEPT ![e] = now + 1]
    /\ now' = now + 1
    /\ UNCHANGED <<attempts, waiting, poller, replay, replays, seen>>

CommitBusiness(e) ==
    /\ status[e] = "open"
    /\ status' = [status EXCEPT ![e] = "pending"]
    /\ visible' = Append(visible, e)
    /\ UNCHANGED <<attempts, waiting, stamp, now, poller, replay, replays,
                   tried, acked, lost>>

RollbackBusiness(e) ==
    /\ status[e] = "open"
    /\ status' = [status EXCEPT ![e] = "gone"]
    /\ UNCHANGED <<attempts, waiting, stamp, now, poller, replay, replays, seen>>

-----------------------------------------------------------------------------
(***************************************************************************)
(* The dispatcher.  max_instances=1: no tick starts before the previous    *)
(* one has finished its whole batch.  The claiming transaction locks what  *)
(* it reads, so its SELECT and its commit are one step.                    *)
(***************************************************************************)
PollerIdle == batch = {} /\ sending = NoEvent

\* A claim: the first BatchSize selectable rows in dispatch order.
IsClaim(B) ==
    /\ B # {}
    /\ \A e \in B, f \in Selectable \ B : Precedes(e, f)
    /\ \/ B = Selectable /\ Cardinality(B) <= BatchSize
       \/ Cardinality(B) = BatchSize

PollerSelects ==
    /\ PollerIdle
    /\ \E B \in SUBSET Selectable :
        /\ IsClaim(B)
        /\ status' = [e \in Events |-> IF e \in B THEN "in_flight" ELSE status[e]]
        /\ batch' = B
    /\ UNCHANGED <<attempts, waiting, stamp, now, sending, answer, replay,
                   replays, seen>>

\* _deliver takes the next row of the batch FOR UPDATE, or finds it deleted.
DeliverStarts(e) ==
    /\ sending = NoEvent
    /\ e \in batch
    /\ \A f \in batch \ {e} : Precedes(e, f)
    /\ ~LockedByReplay(e)
    /\ batch' = batch \ {e}
    /\ sending' = IF Exists(e) THEN e ELSE NoEvent
    /\ UNCHANGED <<row, answer, replay, replays, seen>>

(***************************************************************************)
(* post_webhook: "ok" is a 2xx, "refused" a 4xx, and "failed" a 5xx, a     *)
(* timeout or a connection error, of which some leave the event with the   *)
(* receiver, who then gets it again.  It returns False for both failures,  *)
(* and only the text beside it differs.                                    *)
(***************************************************************************)
DeliverPosts ==
    /\ sending # NoEvent
    /\ answer = "none"
    /\ tried' = AppendNew(tried, sending)
    /\ \/ answer' = "ok" /\ acked' = acked \cup {sending}
       \/ answer' \in {"refused", "failed"} /\ UNCHANGED acked
    /\ UNCHANGED <<row, batch, sending, replay, replays, visible, lost>>

(***************************************************************************)
(* _deliver records the outcome and commits, releasing the row.  Outcome is*)
(* the status the n-th attempt leaves: it asks whether the POST succeeded, *)
(* never whether the receiver refused it.  The operators before it are     *)
(* wrong versions of it, which the runs are shown to detect.               *)
(***************************************************************************)
MistypedOutcome(n, a) ==
    IF a = "ok" THEN "delivered" ELSE IF n >= MaxAttempts THEN "dead_letter" ELSE "retry"
HastyOutcome(n, a) ==
    IF a = "ok" THEN "delivered" ELSE IF n + 1 >= MaxAttempts THEN "dead_letter" ELSE "retrying"
ForgetfulOutcome(n, a) ==
    IF a = "ok" THEN "delivered" ELSE IF n >= MaxAttempts THEN "dead_letter" ELSE "in_flight"

Outcome(n, a) ==
    IF a = "ok" THEN "delivered" ELSE IF n >= MaxAttempts THEN "dead_letter" ELSE "retrying"

DeliverCommits ==
    /\ sending # NoEvent
    /\ answer # "none"
    /\ LET outcome == Outcome(attempts[sending] + 1, answer) IN
        /\ attempts' = [attempts EXCEPT ![sending] = @ + 1]
        /\ status' = [status EXCEPT ![sending] = outcome]
        /\ waiting' = IF outcome = "retrying" THEN waiting \cup {sending} ELSE waiting
    /\ sending' = NoEvent
    /\ answer' = "none"
    /\ UNCHANGED <<stamp, now, batch, replay, replays, seen>>

\* Wall-clock time passes next_attempt_at (set by _backoff).
BackoffElapses(e) ==
    /\ e \in waiting
    /\ waiting' = waiting \ {e}
    /\ UNCHANGED <<status, attempts, stamp, now, poller, replay, replays, seen>>

(***************************************************************************)
(* Two ways a dispatch ends early.  A database error inside _deliver is    *)
(* swallowed by _outbox_poller_tick: the rest of the batch is dropped.  A  *)
(* process crash drops everything that was not committed.  In both cases   *)
(* the rows already claimed keep the status in_flight.                     *)
(***************************************************************************)
Abandoned == {e \in batch \cup {sending} : e \in Events /\ status[e] = "in_flight"}

TickAborts ==
    /\ "abort" \in Faults
    /\ ~PollerIdle
    /\ batch' = {}
    /\ sending' = NoEvent
    /\ answer' = "none"
    /\ lost' = lost \cup Abandoned
    /\ UNCHANGED <<row, replay, replays, visible, tried, acked>>

Crash ==
    /\ "crash" \in Faults
    /\ batch' = {}
    /\ sending' = NoEvent
    /\ answer' = "none"
    /\ replay' = NoReplay
    /\ lost' = lost \cup Abandoned
    /\ status' = [e \in Events |-> IF status[e] = "open" THEN "gone" ELSE status[e]]
    /\ UNCHANGED <<attempts, waiting, stamp, now, replays, visible, tried,
                   acked>>

-----------------------------------------------------------------------------
(***************************************************************************)
(* POST /admin/webhooks/{event_id}/replay.  The row is read without a lock *)
(* and written by an ORM flush that emits only the columns whose loaded    *)
(* value differs, blocking while _deliver holds the row.                   *)
(***************************************************************************)
Dirty(e) ==
    {c \in Columns : \/ c = "status" /\ status[e] # "pending"
                     \/ c = "attempts" /\ attempts[e] # 0}

ReplayReads(e) ==
    /\ replay.stage = "idle"
    /\ replays < MaxReplays
    /\ Exists(e)
    /\ Dirty(e) # {}
    /\ replay' = [stage |-> "read", event |-> e, cols |-> Dirty(e)]
    /\ replays' = replays + 1
    /\ UNCHANGED <<row, poller, seen>>

ReplayFlushes ==
    /\ replay.stage = "read"
    /\ ~LockedByDelivery(replay.event)
    /\ replay' = IF Exists(replay.event)
                 THEN [replay EXCEPT !.stage = "locked"]
                 ELSE NoReplay                     \* StaleDataError
    /\ UNCHANGED <<row, poller, replays, seen>>

ReplayCommits ==
    /\ replay.stage = "locked"
    /\ LET e == replay.event IN
        /\ status' = [status EXCEPT ![e] =
                        IF "status" \in replay.cols THEN "pending" ELSE @]
        /\ attempts' = [attempts EXCEPT ![e] =
                        IF "attempts" \in replay.cols THEN 0 ELSE @]
        /\ waiting' = IF "attempts" \in replay.cols
                      THEN waiting \ {e} ELSE waiting
        /\ lost' = IF "status" \in replay.cols THEN lost \ {e} ELSE lost
    /\ replay' = NoReplay
    /\ UNCHANGED <<stamp, now, poller, replays, visible, tried, acked>>

\* Daily job: delete rows delivered more than 30 days ago (after a mutant that
\* also deletes the dead letters).
Delete(D) ==
    /\ D # {}
    /\ status' = [e \in Events |-> IF e \in D THEN "gone" ELSE status[e]]
    /\ waiting' = waiting \ D
    /\ UNCHANGED <<attempts, stamp, now, poller, replay, replays, seen>>

ArchiveSettled ==
    \E D \in SUBSET {e \in Events : /\ status[e] \in {"delivered", "dead_letter"}
                                    /\ ~LockedByReplay(e)} : Delete(D)
ArchiveDelivered ==
    \E D \in SUBSET {e \in Events : /\ status[e] = "delivered"
                                    /\ ~LockedByReplay(e)} : Delete(D)

\* POST /admin/reset: delete every committed row of the tenant; the DELETE
\* waits for the sessions that hold one of them.
ResetTenant ==
    /\ "reset" \in Faults
    /\ sending = NoEvent
    /\ replay.stage # "locked"
    /\ \E e \in Events : Exists(e)
    /\ status' = [e \in Events |-> IF Exists(e) THEN "gone" ELSE status[e]]
    /\ waiting' = {}
    /\ lost' = {}
    /\ UNCHANGED <<attempts, stamp, now, poller, replay, replays, visible,
                   tried, acked>>

-----------------------------------------------------------------------------
Poller ==
    \/ PollerSelects
    \/ \E e \in Events : DeliverStarts(e)
    \/ DeliverPosts
    \/ DeliverCommits

Next ==
    \/ \E e \in Events : \/ Enqueue(e)
                         \/ CommitBusiness(e)
                         \/ RollbackBusiness(e)
                         \/ BackoffElapses(e)
                         \/ ReplayReads(e)
    \/ Poller
    \/ TickAborts
    \/ Crash
    \/ ReplayFlushes
    \/ ReplayCommits
    \/ ArchiveDelivered
    \/ ResetTenant

Spec == Init /\ [][Next]_vars

(***************************************************************************)
(* Fairness: APScheduler fires the poller every 5 seconds and nothing else *)
(* occupies it, an open transaction ends, wall-clock time goes on.  Crashes*)
(* and administrators are not fair.                                        *)
(***************************************************************************)
FairSpec ==
    /\ Spec
    /\ WF_vars(Poller)
    /\ WF_vars(ReplayFlushes \/ ReplayCommits)
    /\ \A e \in Events : WF_vars(BackoffElapses(e))
-----------------------------------------------------------------------------
(***************************************************************************)
(* Properties.                                                             *)
(***************************************************************************)

\* The values every variable may take.
TypeOK ==
    /\ status \in [Events -> Statuses]
    /\ attempts \in [Events -> Nat]
    /\ waiting \in SUBSET Events
    /\ stamp \in [Events -> Nat]
    /\ now \in Nat
    /\ batch \in SUBSET Events
    /\ sending \in Events \cup {NoEvent}
    /\ answer \in {"none", "ok", "refused", "failed"}
    /\ replay \in [stage : {"idle", "read", "locked"},
                   event : Events \cup {NoEvent},
                   cols : SUBSET Columns]
    /\ replays \in Nat
    /\ visible \in Seq(Events)
    /\ tried \in Seq(Events)
    /\ acked \in SUBSET Events
    /\ lost \in SUBSET Events

\* A row in status in_flight (dispatch_batch:95) is still owned: it waits in the
\* running batch, is being delivered, or was abandoned by a dispatcher that
\* died.  Nothing else - replay, archive, reset, a deleted row - leaves one
\* behind, which matters because nothing ever selects an in_flight row again.
InFlightIsOwned ==
    \A e \in Events : status[e] = "in_flight" => e \in batch \cup {sending} \cup lost

\* The table never calls an event delivered that the receiver has not answered
\* with a 2xx, whatever replays, crashes and aborts came in between.
DeliveredIsAcked ==
    \A e \in Events : status[e] = "delivered" => e \in acked

\* The retry budget of _deliver (lines 128-152), which is the same for a 4xx and
\* for a failure worth retrying (the documents promise a 4xx another treatment:
\* RefusedIsDead below): a dead-lettered row used at least MaxAttempts attempts
\* and a retrying row has one left, although a replay that read the row earlier
\* overwrites only the columns it saw differ.  This is
\* true of the first replay only: a second one may read a row as pending, wait
\* for the delivery that dead-letters it, and clear just its attempt_count.
RetryBudget ==
    replays <= 1 =>
        \A e \in Events :
            /\ status[e] = "dead_letter" => attempts[e] >= MaxAttempts
            /\ status[e] = "retrying" => attempts[e] \in 1 .. (MaxAttempts - 1)

\* What makes the three properties above inductive.  The receiver has acknowledged
\* the row whose POST returned 2xx; a row that was never committed was never
\* attempted; and as long as only one replay has begun, no pending row has used
\* attempts, so that replay overwrites the status whenever it clears the count.
SendingAcked ==
    /\ sending = NoEvent => answer = "none"
    /\ answer = "ok" => sending \in acked

UncommittedUntried ==
    \A e \in Events : status[e] \in {"none", "open"} => attempts[e] = 0

FirstReplay ==
    /\ replays = 0 => replay.stage = "idle"
    /\ replay.stage # "idle" => replay.event \in Events
    /\ (replays = 0 \/ (replays = 1 /\ replay.stage # "idle")) =>
          /\ \A e \in Events : status[e] = "pending" => attempts[e] = 0
          /\ replay.stage # "idle" /\ "attempts" \in replay.cols
                => "status" \in replay.cols

\* A claimed row can only have been requeued or deleted since, the row being
\* delivered only requeued; a replay that holds its row lock has a row.
RowsHeld ==
    /\ sending \notin batch
    /\ \A e \in batch : status[e] \in {"pending", "in_flight", "gone"}
    /\ sending # NoEvent => status[sending] \in {"pending", "in_flight"}
    /\ replay.stage = "locked" => Exists(replay.event)

IInv ==
    /\ TypeOK
    /\ RowsHeld
    /\ InFlightIsOwned
    /\ DeliveredIsAcked
    /\ RetryBudget
    /\ SendingAcked
    /\ UncommittedUntried
    /\ FirstReplay

\* An event and a younger one of its partition whose row was committed later,
\* the first of which is neither deleted nor abandoned.
Older(e, f) ==
    /\ Partition[e] = Partition[f]
    /\ stamp[e] < stamp[f]
    /\ Before(visible, e, f)
    /\ status[e] # "gone"
    /\ e \notin lost

\* Ordering as far as the code provides it: an event is POSTed for the first time
\* only after every older event of its partition whose row was committed before
\* its own, unless that row was deleted or abandoned by a dispatcher that died (a
\* replay may bring an abandoned row back, late).
FirstTriesInOrder ==
    replays = 0 =>
        \A e, f \in Events : (Older(e, f) /\ Occurs(tried, f)) => Before(tried, e, f)

\* What makes it inductive.  Only committed rows are POSTed, and only tried ones
\* wait.  Without replays a row that was committed and not tried is pending, or
\* the poller has it; and as long as an older one is in that state, the younger
\* one was not tried, is not being delivered, and is in the batch only behind it.
Unborn(e)  == status[e] \in {"none", "open"}
Untried(e) == ~Occurs(tried, e)

RowsTracked ==
    /\ answer # "none" => Occurs(tried, sending)
    /\ \A e \in Events :
        /\ Exists(e) => Occurs(visible, e)
        /\ Occurs(tried, e) => Occurs(visible, e)
        /\ Occurs(visible, e) => ~Unborn(e)
        /\ e \in waiting => Occurs(tried, e)
        /\ e \in lost => ~Unborn(e)

QueuedInOrder ==
    replays = 0 =>
        /\ \A e \in batch : status[e] \in {"in_flight", "gone"}
        /\ sending # NoEvent => status[sending] = "in_flight"
        /\ \A e \in Events :
              (Occurs(visible, e) /\ Untried(e) /\ status[e] # "gone" /\ e \notin lost)
                  => status[e] = "pending" \/ e \in batch \cup {sending}
        /\ \A e, f \in Events :
              (Older(e, f) /\ Untried(e)) =>
                  /\ Untried(f)
                  /\ f \in batch => e \in batch \cup {sending}
                  /\ sending # f

\* What keeps a row under delivery from being written by a replay.
OneWriter == sending # NoEvent => ~LockedByReplay(sending)

\* A row leaves the terminal statuses only through replay or deletion, and a row
\* under delivery is written by nobody else (the FOR UPDATE of _deliver).
TerminalUnlessReplayed ==
    [][\A e \in Events :
        /\ (status[e] \in {"delivered", "dead_letter"} /\ status'[e] # status[e])
              => \/ status'[e] = "gone"
                 \/ status'[e] = "pending" /\ replay.event = e
        /\ (sending = e /\ sending' = e)
              => status'[e] = status[e] /\ attempts'[e] = attempts[e]]_vars

Resolved(e) == status[e] \in {"delivered", "dead_letter", "gone"}

\* At-least-once, as far as the code provides it: every committed event is
\* eventually delivered, dead-lettered or deleted - or was abandoned in_flight.
ResolvedUnlessLost ==
    \A e \in Events : status[e] = "pending" ~> (Resolved(e) \/ e \in lost)

(***************************************************************************)
(* The abstract contract this module implements.                           *)
(***************************************************************************)
StageOf(s) ==
    CASE s \in {"none", "open"} -> "unborn"
      [] s \in {"pending", "in_flight", "retrying"} -> "owed"
      [] s = "dead_letter" -> "dead"
      [] OTHER -> s

Contract == INSTANCE WebhookContract
                WITH stage <- [e \in Events |-> StageOf(status[e])],
                     refused <- attempts

\* Every step of the dispatcher and the administrators is a step the contract of
\* WebhookContract.tla allows (or a stutter).
ImplementsContract == Contract!Spec

(***************************************************************************)
(* What the documentation says and the code does not do.                   *)
(***************************************************************************)

\* models.py:143 - at-least-once even if the process crashes between the commit
\* and the POST: no crash leaves a committed event unresolved for ever.
AtLeastOnce == \A e \in Events : status[e] = "pending" ~> Resolved(e)

\* DESIGN.md:534 and webhook.py:117 - a 4xx is not retried: the attempt it answers
\* leaves the row dead-lettered, however much of the budget is left.
RefusedIsDead ==
    [][\A e \in Events :
        (sending = e /\ answer = "refused" /\ attempts'[e] # attempts[e])
            => status'[e] = "dead_letter"]_vars
=============================================================================
