----------------------------- MODULE Statement ------------------------------
(***************************************************************************)
(* GET /bank/accounts/{iban}/statement, read page by page by a client      *)
(* while payments are processed: the composition of bank/api.py with       *)
(* Payments.tla.                                                           *)
(*                                                                         *)
(* The cursor of a page is the booking time of its last entry, and the     *)
(* next page has the entries booked before that.  Booking times come from  *)
(* the simulated clock, which stands still while a slice of an advance     *)
(* runs its jobs: entries with equal times are the rule.                   *)
(***************************************************************************)
EXTENDS Payments

CONSTANTS
    Account,  \* the account whose statement is read
    Limit,    \* entries of a page
    MaxNow    \* bound: ticks of the simulated clock

ASSUME StatementAssumption ==
    /\ Account \in Accounts
    /\ Limit \in Nat \ {0}
    /\ MaxNow \in Nat
    /\ IsFiniteSet(Payments)

VARIABLES
    now,     \* the simulated clock
    stamp,   \* booking_datetime of the account's entries
    stale,   \* history: a payment was settled while a session held balances it had read
    walk,    \* where the client's reading is
    shown,   \* the balance on the first page
    cursor,  \* the cursor of the last page
    seen,    \* entries on the pages read
    there,   \* history: entries that were there when the first page was read
    cuts,    \* history: the cursors of the pages read
    changed  \* history: the balance moved between the first page's two reads

clock   == <<now, stamp>>
reading == <<walk, shown, cursor, seen, there, cuts, changed>>
all     == <<vars, clock, stale, reading>>

Sides == {"debit", "credit"}
Owner(e) == IF e[2] = "debit" THEN Debtor[e[1]] ELSE Creditor[e[1]]
Ours    == {e \in Payments \X Sides : Owner(e) = Account}
Entries == {e \in Ours : effects[e] > 0}

Beginning == MaxNow + 1  \* no cursor: later than every entry

-----------------------------------------------------------------------------
StInit ==
    /\ Init
    /\ now = 0
    /\ stamp = [e \in Ours |-> 0]
    /\ stale = FALSE
    /\ walk = "no"
    /\ shown = 0
    /\ cursor = Beginning
    /\ seen = {}
    /\ there = {}
    /\ cuts = {}
    /\ changed = FALSE

\* The client knows nothing of the reading any more.
Forgets ==
    /\ walk' = "no"
    /\ shown' = 0
    /\ cursor' = Beginning
    /\ seen' = {}
    /\ there' = {}
    /\ cuts' = {}
    /\ changed' = FALSE

(***************************************************************************)
(* Payments are processed.  A slice moves the clock before it selects its  *)
(* jobs; write_entry takes the time from the clock, for the debit before   *)
(* the creditor is looked up and for the credit after it; a restart sets   *)
(* the clock back.                                                         *)
(***************************************************************************)
Stamps(w, side) ==
    /\ stamp' = [stamp EXCEPT ![<<at[w], side>>] = now]
    /\ UNCHANGED now

Holding(w) == stage[w] \in {"rejecting", "debiting", "crediting"}

Pays(w) ==
    \/ /\ SliceSelects(w)
       /\ now' \in {now, now + 1} \cap (0..MaxNow)
       /\ UNCHANGED <<stamp, stale>>
    \/ FindCreditor(w) /\ Stamps(w, "debit") /\ UNCHANGED stale
    \/ /\ Settle(w)
       /\ Stamps(w, "credit")
       /\ stale' = (stale \/ \E u \in Workers \ {w} : Holding(u))
    \/ /\ \/ \E p \in Payments : LoadInstruction(w, p)
          \/ CheckDebtor(w)
          \/ Raise(w)
          \/ Reject(w)
          \/ SliceCommits(w)
       /\ UNCHANGED <<clock, stale>>

Processes(w) ==
    /\ Pays(w)
    /\ changed' = (changed \/ (walk = "opened" /\ balance'[Account] # balance[Account]))
    /\ UNCHANGED <<walk, shown, cursor, seen, there, cuts>>

Initiates ==
    /\ \E p \in Payments : InitiatePayment(p)
    /\ UNCHANGED <<clock, stale, reading>>

\* A request that is being served is lost too; a client between two pages goes on.
Restarts ==
    /\ Crash
    /\ now' = 0
    /\ IF walk = "opened" THEN Forgets ELSE UNCHANGED reading
    /\ UNCHANGED <<stamp, stale>>

-----------------------------------------------------------------------------
\* The handler reads the account first and the entries in a second statement.
Opens ==
    /\ walk = "no"
    /\ walk' = "opened"
    /\ shown' = balance[Account]
    /\ UNCHANGED <<vars, clock, stale, cursor, seen, there, cuts, changed>>

Eligible == {e \in Entries : stamp[e] < cursor}

\* The latest of them, in any order when booked at the same time.
IsPage(P) ==
    /\ P \subseteq Eligible
    /\ Cardinality(P) = IF Cardinality(Eligible) > Limit THEN Limit ELSE Cardinality(Eligible)
    /\ \A e \in P, f \in Eligible \ P : stamp[e] >= stamp[f]

\* limit + 1 rows are asked for: one too many means that there is another page
\* (mutant: a full page is taken for the last one).
TwoMore(n) == n > Limit + 1
More(n)    == n > Limit

ReadsPage ==
    /\ walk \in {"opened", "walking"}
    /\ \E P \in SUBSET Entries :
        /\ IsPage(P)
        /\ seen' = seen \cup P
        /\ IF More(Cardinality(Eligible))
           THEN \E e \in P : /\ \A f \in P : stamp[f] >= stamp[e]
                             /\ cursor' = stamp[e]
                             /\ cuts' = cuts \cup {stamp[e]}
                             /\ walk' = "walking"
           ELSE walk' = "finished" /\ UNCHANGED <<cursor, cuts>>
    /\ there' = IF walk = "opened" THEN Entries ELSE there
    /\ UNCHANGED <<vars, clock, stale, shown, changed>>

Closes ==
    /\ walk = "finished"
    /\ Forgets
    /\ UNCHANGED <<vars, clock, stale>>

-----------------------------------------------------------------------------
StNext ==
    \/ Initiates
    \/ \E w \in Workers : Processes(w)
    \/ Restarts
    \/ Opens
    \/ ReadsPage
    \/ Closes

StSpec == StInit /\ [][StNext]_all

\* As in Payments: somebody keeps advancing the clock.
FairStSpec == StSpec /\ \A w \in Workers : WF_all(Processes(w))
-----------------------------------------------------------------------------
(***************************************************************************)
(* Properties.                                                             *)
(***************************************************************************)

\* A complete reading of the statement has every entry that was there when it
\* began, except entries booked at the same moment as the last entry of a page.
MissedOnlyIfTied ==
    walk = "finished" => \A e \in there \ seen : stamp[e] \in cuts

\* The balance on the first page is the sum of the entries on all pages, if those
\* are the entries that were there, no payment was committed between the two reads
\* of the first page, no two sessions ever overwrote each other's balances, and no
\* payment is of a negative amount: its debit raises the balance, but the entry a
\* client reads is a debit of the amount without its sign (accounts.py:86).
Sum(E) == MapThenSumSet(LAMBDA e : IF e[2] = "credit" THEN EntryAmount(e[1])
                                   ELSE -EntryAmount(e[1]), E)
Reconciles ==
    (walk = "finished" /\ seen = there /\ ~changed /\ ~stale /\ NoNegativeAmount)
        => shown = Opening[Account] + Sum(seen)

\* Every step is one of the bank that decides payments serially, up to the first
\* payment settled over balances another session has read.
ImplementsUnlessStale == Bank!Init /\ [][Bank!Next \/ stale']_(Bank!bank)

\* What makes MissedOnlyIfTied inductive: what was there and has not been read is
\* on a later page, or was booked when some page ended.
ReadingInv ==
    /\ now \in 0 .. MaxNow
    /\ stamp \in [Ours -> 0 .. MaxNow]
    /\ walk \in {"no", "opened", "walking", "finished"}
    /\ walk \in {"no", "opened"} => cursor = Beginning /\ there = {}
    /\ there \subseteq Entries
    /\ \A e \in there \ seen : stamp[e] \in cuts \/ (walk # "finished" /\ stamp[e] < cursor)

\* What makes the refinement hold: as long as nothing is stale, a session's
\* decision is the one the current balances lead to.
Decided(w) ==
    LET p == at[w] IN
    /\ stage[w] = "rejecting" => Debtor[p] \in Blocked \/ ~Funded(balance[Debtor[p]], p)
    /\ stage[w] \in {"debiting", "crediting"} =>
          /\ Debtor[p] \notin Blocked
          /\ debtor[w] = balance[Debtor[p]]
          /\ Funded(debtor[w], p)
    /\ stage[w] = "crediting" =>
          /\ p \in Matching
          /\ creditor[w] = IF Owned(p) THEN balance[Creditor[p]] ELSE 0
Fresh == stale \in BOOLEAN /\ (~stale => \A w \in Workers : Decided(w))

\* What makes Reconciles inductive: until something is stale the account's balance is
\* the sum of its entries, and the first page showed the balance they were read with.
Reconciled == ~stale /\ NoNegativeAmount => balance[Account] = Opening[Account] + Sum(Entries)
FirstPage ==
    /\ walk = "opened" /\ ~changed => shown = balance[Account]
    /\ walk \in {"walking", "finished"} /\ ~changed /\ ~stale /\ NoNegativeAmount =>
          shown = Opening[Account] + Sum(there)
=============================================================================
