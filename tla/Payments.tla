------------------------------ MODULE Payments ------------------------------
(***************************************************************************)
(* The life of a payment instruction: bank/payments.py on top of           *)
(* core/accounts.py.  initiate_payment stores an accepted instruction and  *)
(* its scheduler job in one transaction; a slice of a clock advance locks  *)
(* jobs and calls process_payment for them one by one; process_payment     *)
(* reads accounts without locking them and commits everything at once.     *)
(*                                                                         *)
(* Two things about the sessions matter.  SQLAlchemy keeps the first       *)
(* version of a row a session reads and writes back absolute values, so a  *)
(* balance is a snapshot until the commit overwrites the row.  And the     *)
(* job's status is committed by the slice, later than the payment.         *)
(***************************************************************************)
EXTENDS Integers, FiniteSets, FiniteSetsExt

CONSTANTS
    Payments,    \* payment instructions (end_to_end_id)
    Accounts,    \* accounts MockSim owns (iban)
    Workers,     \* clock advances that may be running at one time
    None,        \* no payment
    Debtor,      \* debtor account of each payment
    Creditor,    \* creditor account, in Accounts or not
    Amount,      \* minor units; Money allows a leading minus
    Matching,    \* payments in the currency of every account they touch
    Opening,     \* balances the accounts start with
    Blocked,     \* accounts whose status is closed or dormant
    Subscribed,  \* event types the tenant's subscription asks for
    MaxCrashes   \* bound: process crashes

Notices == {"settled", "rejected", "credited"}
Kinds   == {"debit", "credit"} \cup Notices

ASSUME PaymentsAssumption ==
    /\ None \notin Payments
    /\ Debtor \in [Payments -> Accounts]
    /\ DOMAIN Creditor = Payments
    /\ Amount \in [Payments -> Int]
    /\ Matching \subseteq Payments
    /\ Opening \in [Accounts -> Int]
    /\ Blocked \subseteq Accounts
    /\ Subscribed \subseteq Notices
    /\ MaxCrashes \in Nat

VARIABLES
    instr,    \* payment_instructions.status; "none" before it is accepted
    job,      \* status of its sim_scheduler_jobs row
    balance,  \* accounts.balance
    effects,  \* how many entries and outbox rows of each kind a payment has
    held,     \* jobs a slice has locked
    done,     \* held jobs whose handler returned
    raised,   \* held jobs whose handler raised
    at,       \* the payment process_payment is working on, or None
    stage,    \* how far it is
    debtor,   \* the debtor's balance as the session read it, while it is open
    creditor, \* the creditor's balance as the session read it, while it is open
    crashes   \* process crashes so far

table   == <<instr, job, balance, effects>>
slice   == <<held, done, raised>>
session == <<at, stage, debtor, creditor>>
vars    == <<table, slice, session, crashes>>

Final == {"settled", "rejected"}

\* process_payment skips a final instruction (mutants: none, any accepted one).
NeverSkips(s)  == FALSE
AlwaysSkips(s) == s # "none"
Skips(s)       == s \in Final

\* balance < amount rejects (mutant: off by one).
AlmostFunded(b, p) == b + 1 >= Amount[p]
Funded(b, p)       == b >= Amount[p]

Owned(p) == Creditor[p] \in Accounts

\* What an entry of the payment says it is worth: abs(delta), the direction beside it.
EntryAmount(p) == IF Amount[p] < 0 THEN -Amount[p] ELSE Amount[p]

\* What a settled or rejected payment leaves behind.
Emitted(p, s) ==
    CASE s = "settled"  -> {"debit"} \cup (Subscribed \cap {"settled"})
                           \cup (IF Owned(p) THEN {"credit"} \cup (Subscribed \cap {"credited"})
                                 ELSE {})
      [] s = "rejected" -> Subscribed \cap {"rejected"}
      [] OTHER          -> {}

Booked(p, K) ==
    [q \in Payments \X Kinds |-> IF q[1] = p /\ q[2] \in K THEN effects[q] + 1
                                 ELSE effects[q]]

-----------------------------------------------------------------------------
Init ==
    /\ instr = [p \in Payments |-> "none"]
    /\ job = [p \in Payments |-> "none"]
    /\ balance = Opening
    /\ effects = [q \in Payments \X Kinds |-> 0]
    /\ held = [w \in Workers |-> {}]
    /\ done = [w \in Workers |-> {}]
    /\ raised = [w \in Workers |-> {}]
    /\ at = [w \in Workers |-> None]
    /\ stage = [w \in Workers |-> "idle"]
    /\ debtor = [w \in Workers |-> 0]
    /\ creditor = [w \in Workers |-> 0]
    /\ crashes = 0

\* The instruction and its job are inserted in one transaction.
InitiatePayment(p) ==
    /\ instr[p] = "none"
    /\ instr' = [instr EXCEPT ![p] = "accepted"]
    /\ job' = [job EXCEPT ![p] = "pending"]
    /\ UNCHANGED <<balance, effects, slice, session, crashes>>

-----------------------------------------------------------------------------
(***************************************************************************)
(* A slice locks some pending jobs (which ones are due is the business of  *)
(* SimScheduler.tla), runs the handler of each and commits their statuses. *)
(***************************************************************************)
SliceSelects(w) ==
    /\ held[w] = {}
    /\ \E S \in SUBSET {p \in Payments : /\ job[p] = "pending"
                                         /\ \A u \in Workers : p \notin held[u]} :
        /\ S # {}
        /\ held' = [held EXCEPT ![w] = S]
    /\ UNCHANGED <<table, done, raised, session, crashes>>

\* process_payment locks the instruction; nothing is done for a final one.
LoadInstruction(w, p) ==
    /\ at[w] = None
    /\ p \in held[w] \ (done[w] \cup raised[w])
    /\ \/ /\ Skips(instr[p])
          /\ done' = [done EXCEPT ![w] = @ \cup {p}]
          /\ UNCHANGED <<at, stage>>
       \/ /\ ~Skips(instr[p])
          /\ at' = [at EXCEPT ![w] = p]
          /\ stage' = [stage EXCEPT ![w] = "loaded"]
          /\ UNCHANGED done
    /\ UNCHANGED <<table, held, raised, debtor, creditor, crashes>>

\* _check_debtor reads the account; get_account later finds the same version of it.
CheckDebtor(w) ==
    /\ stage[w] = "loaded"
    /\ LET p == at[w]
           b == balance[Debtor[p]] IN
        /\ debtor' = [debtor EXCEPT ![w] = b]
        /\ stage' = [stage EXCEPT ![w] =
                        IF Debtor[p] \in Blocked \/ ~Funded(b, p) THEN "rejecting"
                        ELSE "debiting"]
    /\ UNCHANGED <<table, slice, at, creditor, crashes>>

\* write_entry raises for a currency that is not the account's: the session is
\* rolled back and the slice marks the job failed.
Raise(w) ==
    /\ stage[w] = "debiting"
    /\ at[w] \notin Matching
    /\ raised' = [raised EXCEPT ![w] = @ \cup {at[w]}]
    /\ at' = [at EXCEPT ![w] = None]
    /\ stage' = [stage EXCEPT ![w] = "idle"]
    /\ debtor' = [debtor EXCEPT ![w] = 0]
    /\ UNCHANGED <<table, held, done, creditor, crashes>>

FindCreditor(w) ==
    /\ stage[w] = "debiting"
    /\ at[w] \in Matching
    /\ creditor' = [creditor EXCEPT ![w] = IF Owned(at[w]) THEN balance[Creditor[at[w]]] ELSE 0]
    /\ stage' = [stage EXCEPT ![w] = "crediting"]
    /\ UNCHANGED <<table, slice, at, debtor, crashes>>

(***************************************************************************)
(* The commit writes the balances computed from the snapshots, the         *)
(* entries, the status and the outbox rows.  A payment of nothing or to    *)
(* oneself leaves the balance it loaded, and the ORM writes no balance.    *)
(***************************************************************************)
\* (mutant: the creditor is paid on top of the debtor's snapshot)
MixedBalances(w, p) ==
    IF Amount[p] = 0 \/ Debtor[p] = Creditor[p] THEN balance
    ELSE [a \in Accounts |-> IF a = Debtor[p] THEN debtor[w] - Amount[p]
                             ELSE IF a = Creditor[p] THEN debtor[w] + Amount[p]
                             ELSE balance[a]]

NewBalances(w, p) ==
    IF Amount[p] = 0 \/ Debtor[p] = Creditor[p] THEN balance
    ELSE [a \in Accounts |-> IF a = Debtor[p] THEN debtor[w] - Amount[p]
                             ELSE IF a = Creditor[p] THEN creditor[w] + Amount[p]
                             ELSE balance[a]]

Conclude(w, s) ==
    LET p == at[w] IN
    /\ instr' = [instr EXCEPT ![p] = s]
    /\ effects' = Booked(p, Emitted(p, s))
    /\ done' = [done EXCEPT ![w] = @ \cup {p}]
    /\ at' = [at EXCEPT ![w] = None]
    /\ stage' = [stage EXCEPT ![w] = "idle"]
    /\ debtor' = [debtor EXCEPT ![w] = 0]
    /\ creditor' = [creditor EXCEPT ![w] = 0]
    /\ UNCHANGED <<job, held, raised, crashes>>

Settle(w) ==
    /\ stage[w] = "crediting"
    /\ Conclude(w, "settled")
    /\ balance' = NewBalances(w, at[w])

Reject(w) ==
    /\ stage[w] = "rejecting"
    /\ Conclude(w, "rejected")
    /\ UNCHANGED balance

\* (mutant: a raised handler recorded as fired)
AllFired(w) == [p \in Payments |-> IF p \in held[w] THEN "fired" ELSE job[p]]
Recorded(w) == [p \in Payments |-> IF p \in done[w] THEN "fired"
                                   ELSE IF p \in raised[w] THEN "failed" ELSE job[p]]

SliceCommits(w) ==
    /\ held[w] # {}
    /\ held[w] = done[w] \cup raised[w]
    /\ job' = Recorded(w)
    /\ held' = [held EXCEPT ![w] = {}]
    /\ done' = [done EXCEPT ![w] = {}]
    /\ raised' = [raised EXCEPT ![w] = {}]
    /\ UNCHANGED <<instr, balance, effects, session, crashes>>

\* Every open session is rolled back; what was committed stays.
Crash ==
    /\ crashes < MaxCrashes
    /\ crashes' = crashes + 1
    /\ held' = [w \in Workers |-> {}]
    /\ done' = [w \in Workers |-> {}]
    /\ raised' = [w \in Workers |-> {}]
    /\ at' = [w \in Workers |-> None]
    /\ stage' = [w \in Workers |-> "idle"]
    /\ debtor' = [w \in Workers |-> 0]
    /\ creditor' = [w \in Workers |-> 0]
    /\ UNCHANGED table

-----------------------------------------------------------------------------
Step(w) ==
    \/ SliceSelects(w)
    \/ \E p \in Payments : LoadInstruction(w, p)
    \/ CheckDebtor(w)
    \/ Raise(w)
    \/ FindCreditor(w)
    \/ Settle(w)
    \/ Reject(w)
    \/ SliceCommits(w)

Next ==
    \/ \E p \in Payments : InitiatePayment(p)
    \/ \E w \in Workers : Step(w)
    \/ Crash

Spec == Init /\ [][Next]_vars
-----------------------------------------------------------------------------
(***************************************************************************)
(* Properties.                                                             *)
(***************************************************************************)

\* The values every variable may take.
TypeOK ==
    /\ instr \in [Payments -> {"none", "accepted", "settled", "rejected"}]
    /\ job \in [Payments -> {"none", "pending", "fired", "failed"}]
    /\ balance \in [Accounts -> Int]
    /\ effects \in [Payments \X Kinds -> Nat]
    /\ held \in [Workers -> SUBSET Payments]
    /\ done \in [Workers -> SUBSET Payments]
    /\ raised \in [Workers -> SUBSET Payments]
    /\ at \in [Workers -> Payments \cup {None}]
    /\ stage \in [Workers -> {"idle", "loaded", "rejecting", "debiting", "crediting"}]
    /\ debtor \in [Workers -> Int]
    /\ creditor \in [Workers -> Int]
    /\ crashes \in Nat

\* Exactly-once settlement: however often a payment's job is fired again after a
\* crash, its entries and webhooks are those of its status, each once.
EffectsMatchStatus ==
    \A p \in Payments, k \in Kinds :
        effects[<<p, k>>] = IF k \in Emitted(p, instr[p]) THEN 1 ELSE 0

\* The job tells the truth about its payment: fired means settled or rejected,
\* failed means still accepted for want of a matching currency, and a pending job
\* of a finished payment is one whose slice has not committed, or was lost.
JobTellsOutcome ==
    \A p \in Payments :
        /\ job[p] = "fired" => instr[p] \in Final
        /\ job[p] = "failed" => instr[p] = "accepted" /\ p \notin Matching
        /\ (job[p] = "pending" /\ instr[p] \in Final) =>
              crashes > 0 \/ \E w \in Workers : p \in done[w]

\* No account goes negative while amounts and opening balances are not: not even
\* when concurrent sessions check the same funds, because each writes a balance
\* computed from the snapshot it checked.
NoNegativeAmount == \A p \in Payments : Amount[p] >= 0
NonNegative == NoNegativeAmount /\ \A a \in Accounts : Opening[a] >= 0
NoOverdraft == NonNegative => \A a \in Accounts : balance[a] >= 0

\* The balance of an account is what its entries say, if no amount is negative: such
\* a payment moves money the other way, and its entries do not tell.
EntrySum(a) ==
    LET Net(p) == (IF Creditor[p] = a THEN effects[<<p, "credit">>] * EntryAmount(p) ELSE 0)
                - (IF Debtor[p] = a THEN effects[<<p, "debit">>] * EntryAmount(p) ELSE 0)
    IN MapThenSumSet(Net, Payments)
BalanceMatchesEntries ==
    NoNegativeAmount => \A a \in Accounts : balance[a] = Opening[a] + EntrySum(a)

\* Every accepted payment in the right currency is settled or rejected.
PaymentEnds == \A p \in Matching : instr[p] = "accepted" ~> instr[p] \in Final

\* What makes these properties inductive.  Slices hold disjoint sets of pending
\* jobs, and work on a payment they hold and that is still accepted; what they
\* have done is final, what has raised is not; and a session that goes on to
\* settle has read enough funds.
SlicesApart ==
    \A w \in Workers :
        /\ done[w] \cup raised[w] \subseteq held[w]
        /\ \A p \in held[w] : job[p] = "pending"
        /\ \A u \in Workers \ {w} : held[u] \cap held[w] = {}
        /\ at[w] # None => at[w] \in held[w] \ (done[w] \cup raised[w])

WorkInOrder ==
    \A w \in Workers :
        /\ (stage[w] = "idle") <=> (at[w] = None)
        /\ at[w] # None => instr[at[w]] = "accepted"
        /\ \A p \in done[w] : instr[p] \in Final
        /\ \A p \in raised[w] : instr[p] = "accepted" /\ p \notin Matching

JobsFollow == \A p \in Payments : instr[p] = "none" <=> job[p] = "none"

FundsSeen ==
    NonNegative =>
        \A w \in Workers :
            /\ stage[w] \in {"debiting", "crediting"} => Funded(debtor[w], at[w])
            /\ creditor[w] >= 0

IInv ==
    /\ TypeOK
    /\ SlicesApart
    /\ WorkInOrder
    /\ JobsFollow
    /\ EffectsMatchStatus
    /\ JobTellsOutcome
    /\ FundsSeen
    /\ NoOverdraft

(***************************************************************************)
(* The abstract bank.  With one worker this module implements it; with     *)
(* several, up to the first update that is lost (Statement.tla).           *)
(***************************************************************************)
Bank == INSTANCE SerialBank

(***************************************************************************)
(* What the documentation says and the code does not do.                   *)
(***************************************************************************)

\* accounts.py:58 - write_entry writes an entry and updates the balance
\* atomically: also while other sessions do, the two agree.
BalanceFollowsEntries == BalanceMatchesEntries
=============================================================================
