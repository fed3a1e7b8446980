--------------------------- MODULE StatementProofs ---------------------------
(***************************************************************************)
(* Proofs about Statement.tla, for any payments, accounts and advances,    *)
(* any page size and any number of crashes.                                *)
(***************************************************************************)
EXTENDS Statement, PaymentsProofs, FiniteSetTheorems

\* Reading the statement does not disturb the payments.
LEMMA StepsArePayments == [StNext]_all => [Next]_vars
<1> SUFFICES ASSUME StNext \/ UNCHANGED all PROVE Next \/ UNCHANGED vars
    OBVIOUS
<1>1. CASE Initiates
    BY <1>1 DEF Initiates, Next
<1>2. ASSUME NEW w \in Workers, Processes(w) PROVE Next
    BY <1>2 DEF Processes, Pays, Step, Next
<1>3. CASE Restarts
    BY <1>3 DEF Restarts, Next
<1>4. CASE Opens \/ ReadsPage \/ Closes
    BY <1>4 DEF Opens, ReadsPage, Closes
<1>5. CASE UNCHANGED all
    BY <1>5 DEF all
<1> QED
    BY <1>1, <1>2, <1>3, <1>4, <1>5 DEF StNext

\* The composition is a payment system: what is proved of Payments holds in it.
THEOREM Composition == StSpec => Spec
<1>1. StInit => Init
    BY DEF StInit
<1> QED
    BY <1>1, StepsArePayments, PTL DEF StSpec, Spec

-----------------------------------------------------------------------------
\* Entries are never removed, and one that is there keeps its booking time.
LEMMA EntriesStay ==
    ASSUME IInv, ReadingInv, [StNext]_all
    PROVE  /\ Entries \subseteq Entries'
           /\ \A e \in Entries : stamp'[e] = stamp[e]
<1> USE DEF IInv
<1>1. ASSUME NEW w \in Workers, stage[w] # "idle"
      PROVE  at[w] \in Payments /\ \A k \in Sides : <<at[w], k>> \notin Entries
    <2>1. at[w] \in Payments /\ instr[at[w]] = "accepted"
        BY <1>1 DEF TypeOK, WorkInOrder
    <2>2. \A k \in Kinds : effects[<<at[w], k>>] = 0
        BY <2>1 DEF EffectsMatchStatus, Emitted
    <2> QED
        BY <2>1, <2>2 DEF Sides, Kinds, Entries
<1>2. ASSUME UNCHANGED effects PROVE Entries' = Entries
    BY <1>2 DEF Entries, Ours, Owner
<1>3. ASSUME NEW w \in Workers, NEW s \in Final, stage[w] # "idle", Conclude(w, s)
      PROVE  Entries \subseteq Entries'
    <2>1. effects' = Booked(at[w], Emitted(at[w], s))
        BY <1>3 DEF Conclude
    <2>2. \A q \in Payments \X Kinds : effects'[q] >= effects[q] /\ effects[q] \in Nat
        BY <2>1 DEF Booked, TypeOK
    <2>3. Ours \subseteq Payments \X Kinds /\ effects' \in [Payments \X Kinds -> Int]
        BY <2>1 DEF Ours, Sides, Kinds, Booked, TypeOK
    <2>4. \A q \in Payments \X Kinds : effects[q] > 0 => effects'[q] > 0
        BY <2>2, <2>3
    <2> QED
        BY <2>3, <2>4 DEF Entries, Ours, Owner
<1>4. ASSUME NEW w \in Workers, NEW k \in Sides, stage[w] # "idle", Stamps(w, k)
      PROVE  \A e \in Entries : stamp'[e] = stamp[e]
    BY <1>1, <1>4 DEF Stamps, ReadingInv, Entries
<1>5. ASSUME NEW w \in Workers, Processes(w)
      PROVE  Entries \subseteq Entries' /\ \A e \in Entries : stamp'[e] = stamp[e]
    <2>1. CASE FindCreditor(w) /\ Stamps(w, "debit")
        BY <1>2, <1>4, <2>1 DEF FindCreditor, table, Sides
    <2>2. CASE Settle(w) /\ Stamps(w, "credit")
        BY <1>3, <1>4, <2>2 DEF Settle, Sides, Final
    <2>3. CASE Reject(w) /\ UNCHANGED clock
        BY <1>3, <2>3 DEF Reject, Final, clock
    <2>4. CASE UNCHANGED effects /\ UNCHANGED stamp
        BY <1>2, <2>4
    <2> QED
        BY <1>5, <2>1, <2>2, <2>3, <2>4
        DEF Processes, Pays, SliceSelects, LoadInstruction, CheckDebtor, Raise, SliceCommits,
            table, clock
<1>6. ASSUME UNCHANGED effects, UNCHANGED stamp
      PROVE  Entries \subseteq Entries' /\ \A e \in Entries : stamp'[e] = stamp[e]
    BY <1>2, <1>6
<1>7. CASE Initiates \/ Restarts \/ Opens \/ ReadsPage \/ Closes \/ UNCHANGED all
    BY <1>6, <1>7
    DEF Initiates, InitiatePayment, Restarts, Crash, Opens, ReadsPage, Closes, all, vars, table,
        clock
<1> QED
    BY <1>5, <1>7 DEF StNext

\* A page that is not full has all that is left.
LEMMA LastPage ==
    ASSUME NEW P \in SUBSET Entries, IsPage(P), ~More(Cardinality(Eligible)),
           IsFiniteSet(Eligible)
    PROVE  P = Eligible
<1>1. P \subseteq Eligible /\ Cardinality(P) = Cardinality(Eligible)
    BY StatementAssumption, FS_CardinalityType DEF IsPage, More
<1> QED
    BY <1>1, FS_Subset

\* There are finitely many entries.
LEMMA EntriesFinite == IsFiniteSet(Eligible)
<1>1. IsFiniteSet(Payments \X Sides)
    <2>1. IsFiniteSet(Sides)
        <3>1. Sides = {"debit"} \cup {"credit"}
            BY DEF Sides
        <3> QED
            BY <3>1, FS_Singleton, FS_AddElement
    <2> QED
        BY <2>1, FS_Product, StatementAssumption
<1>2. Eligible \subseteq Payments \X Sides
    BY DEF Eligible, Entries, Ours
<1> QED
    BY <1>1, <1>2, FS_Subset
-----------------------------------------------------------------------------
\* What has not been read is on a later page, or was booked when a page ended.
LEMMA ReadingInit == StInit => ReadingInv
<1> SUFFICES ASSUME StInit PROVE ReadingInv
    OBVIOUS
<1>1. 0 \in 0 .. MaxNow
    BY StatementAssumption
<1>2. stamp \in [Ours -> 0 .. MaxNow] /\ now \in 0 .. MaxNow
    BY <1>1 DEF StInit
<1> QED
    BY <1>2 DEF StInit, ReadingInv

\* The clock and the booking times stay in their range.
LEMMA ClockTyped ==
    ASSUME ReadingInv, [StNext]_all
    PROVE  now' \in 0 .. MaxNow /\ stamp' \in [Ours' -> 0 .. MaxNow]
<1>0. 0 \in 0 .. MaxNow /\ Ours' = Ours
    BY StatementAssumption DEF Ours, Owner
<1>1. ASSUME NEW w \in Workers, Processes(w)
      PROVE  now' \in 0 .. MaxNow /\ stamp' \in [Ours -> 0 .. MaxNow]
    <2>1. CASE \E k \in Sides : Stamps(w, k)
        BY <2>1 DEF Stamps, ReadingInv
    <2>2. CASE now' \in {now, now + 1} \cap (0 .. MaxNow) /\ UNCHANGED stamp
        BY <2>2 DEF ReadingInv
    <2>3. CASE UNCHANGED clock
        BY <2>3 DEF clock, ReadingInv
    <2> QED
        BY <1>1, <2>1, <2>2, <2>3 DEF Processes, Pays, Sides
<1>2. CASE Restarts
    BY <1>0, <1>2 DEF Restarts, ReadingInv
<1>3. CASE Initiates \/ Opens \/ ReadsPage \/ Closes \/ UNCHANGED all
    BY <1>0, <1>3 DEF Initiates, Opens, ReadsPage, Closes, all, clock, ReadingInv
<1> QED
    BY <1>0, <1>1, <1>2, <1>3 DEF StNext

\* A page leaves behind only entries that come later, or that are tied with its end.
LEMMA PageKeeps ==
    ASSUME ReadingInv, ReadsPage
    PROVE  /\ there' \subseteq Entries
           /\ walk' \in {"walking", "finished"}
           /\ \A e \in there' \ seen' :
                 stamp[e] \in cuts' \/ (walk' # "finished" /\ stamp[e] < cursor')
<1>1. PICK P \in SUBSET Entries :
          /\ IsPage(P)
          /\ seen' = seen \cup P
          /\ IF More(Cardinality(Eligible))
             THEN \E e \in P : /\ \A f \in P : stamp[f] >= stamp[e]
                               /\ cursor' = stamp[e]
                               /\ cuts' = cuts \cup {stamp[e]}
                               /\ walk' = "walking"
             ELSE walk' = "finished" /\ UNCHANGED <<cursor, cuts>>
    BY DEF ReadsPage
<1>2. there' \subseteq Entries
    BY DEF ReadsPage, ReadingInv
<1>3. walk' \in {"walking", "finished"}
    BY <1>1
<1>4. ASSUME NEW e \in there' \ seen'
      PROVE  stamp[e] \in cuts \/ e \in Eligible \ P
    <2>1. e \in Entries /\ e \notin seen /\ e \notin P
        BY <1>1, <1>2, <1>4
    <2>2. CASE walk = "opened"
        <3>1. stamp[e] \in 0 .. MaxNow
            BY <2>1 DEF ReadingInv, Entries
        <3>2. stamp[e] < cursor
            BY <2>2, <3>1, StatementAssumption DEF ReadingInv, Beginning
        <3> QED
            BY <2>1, <3>2 DEF Eligible
    <2>3. CASE walk # "opened"
        <3>1. e \in there \ seen
            BY <1>4, <2>1, <2>3 DEF ReadsPage
        <3> QED
            BY <2>1, <3>1 DEF ReadingInv, Eligible
    <2> QED
        BY <2>2, <2>3
<1>5. ASSUME NEW e \in there' \ seen'
      PROVE  stamp[e] \in cuts' \/ (walk' # "finished" /\ stamp[e] < cursor')
    <2>1. CASE stamp[e] \in cuts
        BY <1>1, <2>1
    <2>2. CASE e \in Eligible \ P /\ More(Cardinality(Eligible))
        <3>1. PICK g \in P : /\ cursor' = stamp[g]
                             /\ cuts' = cuts \cup {stamp[g]}
                             /\ walk' = "walking"
            BY <1>1, <2>2
        <3>2. stamp[g] >= stamp[e]
            BY <1>1, <2>2 DEF IsPage
        <3>3. stamp[g] \in Int /\ stamp[e] \in Int
            BY <2>2 DEF ReadingInv, Entries, Eligible
        <3> QED
            BY <3>1, <3>2, <3>3
    <2>3. CASE e \in Eligible \ P /\ ~More(Cardinality(Eligible))
        BY <1>1, <2>3, LastPage, EntriesFinite
    <2> QED
        BY <1>4, <1>5, <2>1, <2>2, <2>3
<1> QED
    BY <1>2, <1>3, <1>5

\* Every step keeps it.
LEMMA ReadingNext == IInv /\ ReadingInv /\ [StNext]_all => ReadingInv'
<1> SUFFICES ASSUME IInv, ReadingInv, [StNext]_all PROVE ReadingInv'
    OBVIOUS
<1>1. now' \in 0 .. MaxNow /\ stamp' \in [Ours' -> 0 .. MaxNow]
    BY ClockTyped
<1>2. Entries \subseteq Entries' /\ \A e \in Entries : stamp'[e] = stamp[e]
    BY EntriesStay
<1>3. CASE UNCHANGED <<walk, cursor, seen, there, cuts>>
    <2>1. there' \subseteq Entries' /\ \A e \in there : stamp'[e] = stamp[e]
        BY <1>2, <1>3 DEF ReadingInv
    <2> QED
        BY <1>1, <1>3, <2>1 DEF ReadingInv, Beginning
<1>4. CASE Forgets
    BY <1>1, <1>4 DEF Forgets, ReadingInv, Beginning
<1>5. CASE Opens
    <2>1. there = {} /\ cursor = Beginning
        BY <1>5 DEF Opens, ReadingInv
    <2> QED
        BY <1>1, <1>5, <2>1 DEF Opens, ReadingInv, Beginning
<1>6. CASE ReadsPage
    <2>1. /\ there' \subseteq Entries' /\ walk' \in {"walking", "finished"}
          /\ \A e \in there' \ seen' :
                stamp'[e] \in cuts' \/ (walk' # "finished" /\ stamp'[e] < cursor')
        BY <1>2, <1>6, PageKeeps
    <2> QED
        BY <1>1, <2>1 DEF ReadingInv
<1> QED
    BY <1>3, <1>4, <1>5, <1>6
    DEF StNext, Initiates, Processes, Restarts, Closes, all, reading

\* A complete reading misses only what was booked at the end of one of its pages.
THEOREM Paging == StSpec => []MissedOnlyIfTied
<1>1. ReadingInv => MissedOnlyIfTied
    BY DEF ReadingInv, MissedOnlyIfTied
<1> QED
    BY <1>1, ReadingInit, ReadingNext, Composition, Invariance, PTL DEF StSpec

-----------------------------------------------------------------------------
\* Nothing is decided in the beginning.
LEMMA FreshInit == StInit => Fresh
BY DEF StInit, Init, Fresh, Decided

\* A decision stays the one of the current balances until somebody else settles.
LEMMA FreshNext == IInv /\ Fresh /\ [StNext]_all => Fresh'
<1> SUFFICES ASSUME IInv, Fresh, [StNext]_all PROVE Fresh'
    OBVIOUS
<1> USE DEF IInv
<1>1. ASSUME NEW u \in Workers, Decided(u), UNCHANGED balance,
             at'[u] = at[u], stage'[u] = stage[u], debtor'[u] = debtor[u],
             creditor'[u] = creditor[u]
      PROVE  Decided(u)'
    BY <1>1 DEF Decided, Funded, Owned
<1>2. ASSUME NEW u \in Workers, stage'[u] \in {"idle", "loaded"} PROVE Decided(u)'
    BY <1>2 DEF Decided
<1>3. ASSUME NEW w \in Workers, Pays(w) PROVE Fresh'
    <2>0. stale' \in BOOLEAN /\ (stale => stale')
        BY <1>3 DEF Pays, Fresh
    <2> SUFFICES ASSUME ~stale, ~stale', NEW u \in Workers PROVE Decided(u)'
        BY <2>0 DEF Fresh
    <2>1. Decided(u) /\ Decided(w)
        BY DEF Fresh
    <2>2. CASE Settle(w) /\ stale' = (stale \/ \E v \in Workers \ {w} : Holding(v))
        <3>1. stage'[w] = "idle" /\ (u # w => stage'[u] = stage[u])
            BY <2>2 DEF Settle, Conclude, TypeOK
        <3>2. u # w => stage[u] \in {"idle", "loaded"}
            BY <2>2 DEF Holding, TypeOK
        <3> QED
            BY <1>2, <3>1, <3>2
    <2>3. CASE Reject(w)
        <3>1. /\ stage'[w] = "idle" /\ UNCHANGED balance
              /\ u # w => /\ at'[u] = at[u] /\ stage'[u] = stage[u]
                          /\ debtor'[u] = debtor[u] /\ creditor'[u] = creditor[u]
            BY <2>3 DEF Reject, Conclude, TypeOK
        <3> QED
            BY <1>1, <1>2, <2>1, <3>1
    <2>4. CASE Raise(w)
        <3>1. /\ stage'[w] = "idle" /\ UNCHANGED balance
              /\ u # w => /\ at'[u] = at[u] /\ stage'[u] = stage[u]
                          /\ debtor'[u] = debtor[u] /\ creditor'[u] = creditor[u]
            BY <2>4 DEF Raise, TypeOK, table
        <3> QED
            BY <1>1, <1>2, <2>1, <3>1
    <2>5. CASE CheckDebtor(w)
        <3>1. /\ UNCHANGED balance
              /\ u # w => /\ at'[u] = at[u] /\ stage'[u] = stage[u]
                          /\ debtor'[u] = debtor[u] /\ creditor'[u] = creditor[u]
            BY <2>5 DEF CheckDebtor, TypeOK, table
        <3>2. Decided(w)'
            <4> DEFINE p == at[w]
            <4>1. /\ at'[w] = p /\ UNCHANGED balance
                  /\ debtor'[w] = balance[Debtor[p]]
                  /\ stage'[w] = IF Debtor[p] \in Blocked \/ ~Funded(balance[Debtor[p]], p)
                                  THEN "rejecting" ELSE "debiting"
                BY <2>5 DEF CheckDebtor, TypeOK, table
            <4> HIDE DEF p
            <4> QED
                BY <4>1 DEF Decided, Funded
        <3> QED
            BY <1>1, <2>1, <3>1, <3>2
    <2>6. CASE FindCreditor(w)
        <3>1. /\ UNCHANGED balance
              /\ u # w => /\ at'[u] = at[u] /\ stage'[u] = stage[u]
                          /\ debtor'[u] = debtor[u] /\ creditor'[u] = creditor[u]
            BY <2>6 DEF FindCreditor, TypeOK, table
        <3>2. Decided(w)'
            <4> DEFINE p == at[w]
            <4>1. /\ at'[w] = p /\ UNCHANGED balance /\ debtor'[w] = debtor[w]
                  /\ creditor'[w] = (IF Owned(p) THEN balance[Creditor[p]] ELSE 0)
                  /\ stage'[w] = "crediting" /\ p \in Matching /\ stage[w] = "debiting"
                BY <2>6 DEF FindCreditor, TypeOK, table
            <4> HIDE DEF p
            <4>2. /\ Debtor[p] \notin Blocked
                  /\ debtor[w] = balance[Debtor[p]]
                  /\ Funded(debtor[w], p)
                BY <2>1, <4>1 DEF Decided, p
            <4> QED
                BY <4>1, <4>2 DEF Decided, Funded, Owned
        <3> QED
            BY <1>1, <2>1, <3>1, <3>2
    <2>7. ASSUME NEW p \in Payments, LoadInstruction(w, p) PROVE Decided(u)'
        <3>1. /\ UNCHANGED balance /\ debtor'[u] = debtor[u] /\ creditor'[u] = creditor[u]
              /\ (at'[u] = at[u] /\ stage'[u] = stage[u]) \/ stage'[u] = "loaded"
            BY <2>7 DEF LoadInstruction, TypeOK, table
        <3> QED
            BY <1>1, <1>2, <2>1, <3>1
    <2>8. CASE SliceSelects(w) \/ SliceCommits(w)
        <3>1. UNCHANGED <<balance, at, stage, debtor, creditor>>
            BY <2>8 DEF SliceSelects, SliceCommits, table, session
        <3> QED
            BY <1>1, <2>1, <3>1
    <2> QED
        BY <1>3, <2>2, <2>3, <2>4, <2>5, <2>6, <2>7, <2>8 DEF Pays
<1>4. CASE Restarts
    <2>1. \A w \in Workers : stage'[w] = "idle"
        BY <1>4 DEF Restarts, Crash
    <2> QED
        BY <1>2, <1>4, <2>1 DEF Restarts, Fresh
<1>5. CASE Initiates \/ Opens \/ ReadsPage \/ Closes \/ UNCHANGED all
    <2>1. UNCHANGED <<balance, at, stage, debtor, creditor, stale>>
        BY <1>5 DEF Initiates, InitiatePayment, Opens, ReadsPage, Closes, all, vars, table, session
    <2> QED
        BY <1>1, <2>1 DEF Fresh
<1> QED
    BY <1>3, <1>4, <1>5 DEF StNext, Processes
-----------------------------------------------------------------------------
\* What a payment leaves is new, and is what the abstract bank leaves.
LEMMA LeavesTheSame ==
    ASSUME IInv, NEW p \in Payments, NEW s \in Final, instr[p] = "accepted",
           effects' = Booked(p, Emitted(p, s))
    PROVE  Bank!Leaves(p, Emitted(p, s))
<1>1. \A k \in Kinds : effects[<<p, k>>] = 0
    BY DEF IInv, EffectsMatchStatus, Emitted
<1>2. Kinds = Bank!Kinds
    BY DEF Kinds, Notices, Bank!Kinds
<1>3. \A q \in Payments \X Kinds : q[1] = p => effects[q] = 0
    BY <1>1
<1>4. effects' = [q \in Payments \X Kinds |->
                    IF q[1] = p /\ q[2] \in Emitted(p, s) THEN 1 ELSE effects[q]]
    BY <1>3 DEF Booked
<1> QED
    BY <1>2, <1>4 DEF Bank!Leaves

\* A settlement from fresh snapshots moves the amount.
LEMMA MovesTheSame ==
    ASSUME IInv, NEW w \in Workers, Decided(w), stage[w] = "crediting", at[w] \in Payments
    PROVE  NewBalances(w, at[w]) = [a \in Accounts |-> balance[a] + Bank!Moved(at[w], a)]
<1> DEFINE p == at[w]
<1>0. /\ p \in Payments /\ balance \in [Accounts -> Int] /\ Amount[p] \in Int
      /\ Debtor[p] \in Accounts
    BY PaymentsAssumption DEF IInv, TypeOK
<1>1. /\ debtor[w] = balance[Debtor[p]]
      /\ Creditor[p] \in Accounts => creditor[w] = balance[Creditor[p]]
    BY DEF Decided, Owned
<1>2. Bank!Moved(p, Debtor[p]) = IF Debtor[p] = Creditor[p] THEN 0 ELSE -Amount[p]
    BY <1>0 DEF Bank!Moved
<1> SUFFICES NewBalances(w, p) = [a \in Accounts |-> balance[a] + Bank!Moved(p, a)]
    OBVIOUS
<1> HIDE DEF p
<1>3. CASE Amount[p] = 0 \/ Debtor[p] = Creditor[p]
    <2>1. \A a \in Accounts : Bank!Moved(p, a) = 0
        BY <1>0, <1>3 DEF Bank!Moved
    <2>2. balance = [a \in Accounts |-> balance[a] + Bank!Moved(p, a)]
        BY <1>0, <2>1
    <2> QED
        BY <1>3, <2>2 DEF NewBalances
<1>4. CASE ~(Amount[p] = 0 \/ Debtor[p] = Creditor[p])
    <2>1. ASSUME NEW a \in Accounts
          PROVE  (IF a = Debtor[p] THEN debtor[w] - Amount[p]
                  ELSE IF a = Creditor[p] THEN creditor[w] + Amount[p]
                  ELSE balance[a]) = balance[a] + Bank!Moved(p, a)
        BY <1>0, <1>1, <1>4 DEF Bank!Moved
    <2> QED
        BY <1>4, <2>1 DEF NewBalances
<1> QED
    BY <1>3, <1>4

\* A step of the payments is one of the serial bank, or leaves it alone, or is the
\* settlement after which something is stale.
LEMMA Simulates ==
    ASSUME IInv, Fresh, [StNext]_all
    PROVE  Bank!Next \/ stale' \/ UNCHANGED Bank!bank
<1> USE DEF IInv
<1>0. /\ Bank!bank = <<instr, balance, effects>>
      /\ (UNCHANGED table => UNCHANGED Bank!bank)
    BY DEF Bank!bank, table
<1>1. ASSUME NEW w \in Workers, stage[w] \in {"crediting", "rejecting"}
      PROVE  at[w] \in Payments /\ instr[at[w]] = "accepted"
    BY <1>1 DEF TypeOK, WorkInOrder
<1>2. ASSUME NEW w \in Workers, Pays(w)
      PROVE  Bank!Next \/ stale' \/ UNCHANGED Bank!bank
    <2>1. CASE stale
        BY <1>2, <2>1 DEF Pays
    <2>2. CASE ~stale /\ Settle(w)
        <3> DEFINE p == at[w]
        <3>1. p \in Payments /\ instr[p] = "accepted" /\ Decided(w) /\ stage[w] = "crediting"
            BY <1>1, <2>2 DEF Settle, Fresh
        <3>2. /\ instr' = [instr EXCEPT ![p] = "settled"]
              /\ effects' = Booked(p, Emitted(p, "settled"))
              /\ balance' = [a \in Accounts |-> balance[a] + Bank!Moved(p, a)]
            BY <2>2, <3>1, MovesTheSame DEF Settle, Conclude
        <3>3. p \in Matching /\ Bank!CanPay(p)
            BY <3>1 DEF Decided, Funded, Bank!CanPay
        <3>4. Bank!Leaves(p, Emitted(p, "settled"))
            BY <3>1, <3>2, LeavesTheSame DEF Final
        <3>5. Emitted(p, "settled") =
                 {"debit"} \cup (Subscribed \cap {"settled"})
                 \cup (IF Creditor[p] \in Accounts
                       THEN {"credit"} \cup (Subscribed \cap {"credited"}) ELSE {})
            BY DEF Emitted, Owned
        <3> HIDE DEF p
        <3>6. Bank!Settle(p)
            BY <3>1, <3>2, <3>3, <3>4, <3>5 DEF Bank!Settle
        <3> QED
            BY <3>1, <3>6 DEF Bank!Next
    <2>3. CASE ~stale /\ Reject(w)
        <3> DEFINE p == at[w]
        <3>1. p \in Payments /\ instr[p] = "accepted" /\ Decided(w) /\ stage[w] = "rejecting"
            BY <1>1, <2>3 DEF Reject, Fresh
        <3>2. /\ instr' = [instr EXCEPT ![p] = "rejected"]
              /\ effects' = Booked(p, Emitted(p, "rejected"))
              /\ UNCHANGED balance
            BY <2>3 DEF Reject, Conclude
        <3>3. ~Bank!CanPay(p)
            BY <3>1 DEF Decided, Funded, Bank!CanPay
        <3>4. Bank!Leaves(p, Subscribed \cap {"rejected"})
            BY <3>1, <3>2, LeavesTheSame DEF Final, Emitted
        <3> HIDE DEF p
        <3>5. Bank!Reject(p)
            BY <3>1, <3>2, <3>3, <3>4 DEF Bank!Reject
        <3> QED
            BY <3>1, <3>5 DEF Bank!Next
    <2>4. CASE SliceSelects(w) \/ (\E p \in Payments : LoadInstruction(w, p)) \/ CheckDebtor(w)
               \/ Raise(w) \/ FindCreditor(w) \/ SliceCommits(w)
        BY <2>4 DEF SliceSelects, LoadInstruction, CheckDebtor, Raise, FindCreditor, SliceCommits,
                    table, Bank!bank
    <2> QED
        BY <1>2, <2>1, <2>2, <2>3, <2>4 DEF Pays
<1>3. CASE Initiates
    <2>1. PICK p \in Payments : InitiatePayment(p)
        BY <1>3 DEF Initiates
    <2>2. Bank!Accept(p)
        BY <2>1 DEF InitiatePayment, Bank!Accept
    <2> QED
        BY <2>2 DEF Bank!Next
<1>4. CASE Restarts \/ Opens \/ ReadsPage \/ Closes \/ UNCHANGED all
    BY <1>0, <1>4 DEF Restarts, Crash, Opens, ReadsPage, Closes, all, vars
<1> QED
    BY <1>2, <1>3, <1>4 DEF StNext, Processes

\* The payments implement the serial bank, up to the first settlement over balances
\* that another session has read.
THEOREM Refinement == StSpec => ImplementsUnlessStale
<1>1. StInit => Bank!Init
    BY DEF StInit, Init, Bank!Init, Kinds, Notices, Bank!Kinds
<1>2. IInv /\ Fresh /\ [StNext]_all => [Bank!Next \/ stale']_(Bank!bank)
    BY Simulates
<1> QED
    BY <1>1, <1>2, FreshInit, FreshNext, Composition, Invariance, PTL
    DEF StSpec, ImplementsUnlessStale
-----------------------------------------------------------------------------
\* Every set of natural numbers that is not empty has a least element.
LEMMA LeastNatural ==
    ASSUME NEW T \in SUBSET Nat, T # {}
    PROVE  \E n \in T : \A m \in T : n <= m
<1> DEFINE F == {0 .. n : n \in T}
<1>1. F \subseteq FiniteSubsetsOf(Nat) /\ F # {}
    <2>1. ASSUME NEW n \in T PROVE 0 .. n \in SUBSET Nat /\ IsFiniteSet(0 .. n)
        <3>1. n \in Int /\ 0 \in Int
            OBVIOUS
        <3> QED
            BY <3>1, FS_Interval
    <2> QED
        BY <2>1 DEF FiniteSubsetsOf
<1>2. \E s \in F : \A t \in F : <<t, s>> \notin StrictSubsetOrdering(Nat)
    <2> HIDE DEF F
    <2> QED
        BY <1>1, FS_StrictSubsetOrderingWellFounded, WFMin
<1>3. PICK n \in T : \A t \in F : <<t, 0 .. n>> \notin StrictSubsetOrdering(Nat)
    BY <1>2
<1>4. ASSUME NEW m \in T, m < n PROVE FALSE
    <2>1. 0 .. m \in F /\ 0 .. m \subseteq 0 .. n /\ n \in 0 .. n /\ n \notin 0 .. m
        BY <1>4
    <2>2. <<0 .. m, 0 .. n>> \in StrictSubsetOrdering(Nat)
        BY <2>1 DEF StrictSubsetOrdering
    <2> QED
        BY <1>3, <2>1, <2>2
<1> QED
    BY <1>4

\* So has every set of subsets of a finite set: one without a smaller one.
LEMMA LeastSubset ==
    ASSUME NEW S, IsFiniteSet(S), NEW T \in SUBSET SUBSET S, T # {}
    PROVE  \E s \in T : \A t \in T : Cardinality(s) <= Cardinality(t)
<1>1. \A s \in SUBSET S : Cardinality(s) \in Nat
    BY FS_Subset, FS_CardinalityType
<1> DEFINE N == {Cardinality(s) : s \in T}
<1>2. N \in SUBSET Nat /\ N # {}
    BY <1>1
<1>3. PICK n \in N : \A m \in N : n <= m
    BY <1>2, LeastNatural
<1> QED
    BY <1>3

\* The element that a sum takes first.
Pick(s) == CHOOSE x \in s : TRUE

\* g gives the sum of the values v over every subset of S: nothing over the empty set,
\* over another the value of one of its elements and the sum over the rest.
Adds(S, v, g) ==
    \A s \in SUBSET S : g[s] = IF s = {} THEN 0 ELSE v[Pick(s)] + g[s \ {Pick(s)}]

\* Values and sums are integers.
Integral(S, v, g) == v \in [S -> Int] /\ g \in [SUBSET S -> Int]

\* It is one of the set.
LEMMA PickIn == ASSUME NEW s, s # {} PROVE Pick(s) \in s
BY DEF Pick

\* A set is larger than what is left of it without an element.
LEMMA OneLess ==
    ASSUME NEW s, IsFiniteSet(s), NEW x \in s
    PROVE  /\ Cardinality(s \ {x}) \in Nat /\ Cardinality(s) \in Nat
           /\ Cardinality(s \ {x}) < Cardinality(s)
           /\ Cardinality(s \ {x}) = Cardinality(s) - 1
<1>1. Cardinality(s) \in Nat /\ Cardinality(s \ {x}) = Cardinality(s) - 1
    BY FS_RemoveElement, FS_CardinalityType
<1>2. Cardinality(s \ {x}) \in Nat
    BY FS_RemoveElement, FS_CardinalityType
<1> QED
    BY <1>1, <1>2

\* There is one: sums over sets of at most n elements are extended to n + 1.
LEMMA SumsExist ==
    ASSUME NEW S, IsFiniteSet(S), NEW v \in [S -> Int]
    PROVE  \E g \in [SUBSET S -> Int] : Adds(S, v, g)
<1> DEFINE Upto(n, g) == \A s \in SUBSET S : Cardinality(s) <= n =>
                           g[s] = IF s = {} THEN 0 ELSE v[Pick(s)] + g[s \ {Pick(s)}]
           Fails == {n \in Nat : ~\E g \in [SUBSET S -> Int] : Upto(n, g)}
<1>1. ASSUME NEW s \in SUBSET S
      PROVE  /\ Cardinality(s) \in Nat /\ Cardinality(s) <= Cardinality(S)
             /\ Cardinality(s) = 0 <=> s = {}
             /\ s # {} => /\ Pick(s) \in s /\ s \ {Pick(s)} \in SUBSET S
                          /\ Cardinality(s \ {Pick(s)}) = Cardinality(s) - 1
    <2>1. IsFiniteSet(s) /\ Cardinality(s) <= Cardinality(S)
        BY FS_Subset
    <2>2. s # {} => Pick(s) \in s
        BY PickIn
    <2>3. Cardinality(s) \in Nat
        BY <2>1, FS_CardinalityType
    <2>4. Cardinality(s) = 0 <=> s = {}
        BY <2>1, FS_EmptySet
    <2>5. s # {} => Cardinality(s \ {Pick(s)}) = Cardinality(s) - 1
        BY <2>1, <2>2, FS_RemoveElement
    <2> QED
        BY <2>1, <2>2, <2>3, <2>4, <2>5
<1>2. ASSUME NEW n \in Nat, NEW g \in [SUBSET S -> Int], Upto(n, g)
      PROVE  \E h \in [SUBSET S -> Int] : Upto(n + 1, h)
    <2> DEFINE h == [s \in SUBSET S |-> IF Cardinality(s) <= n THEN g[s]
                                        ELSE IF s = {} THEN 0
                                        ELSE v[Pick(s)] + g[s \ {Pick(s)}]]
    <2>1. h \in [SUBSET S -> Int]
        BY <1>1
    <2>2. ASSUME NEW s \in SUBSET S, Cardinality(s) <= n + 1
          PROVE  h[s] = IF s = {} THEN 0 ELSE v[Pick(s)] + h[s \ {Pick(s)}]
        <3>1. CASE s = {}
            BY <1>1, <1>2, <3>1
        <3>2. CASE s # {}
            <4>1. s \ {Pick(s)} \in SUBSET S /\ Cardinality(s \ {Pick(s)}) <= n
                BY <1>1, <2>2, <3>2
            <4>2. h[s \ {Pick(s)}] = g[s \ {Pick(s)}]
                BY <4>1
            <4>3. h[s] = v[Pick(s)] + g[s \ {Pick(s)}]
                BY <1>2, <3>2
            <4> QED
                BY <3>2, <4>2, <4>3
        <3> QED
            BY <3>1, <3>2
    <2> QED
        BY <2>1, <2>2
<1>3. Upto(0, [s \in SUBSET S |-> 0])
    <2>1. ASSUME NEW s \in SUBSET S, Cardinality(s) <= 0 PROVE s = {}
        <3>1. Cardinality(s) \in Nat /\ (Cardinality(s) = 0 <=> s = {})
            BY <1>1
        <3> QED
            BY <2>1, <3>1
    <2> QED
        BY <2>1
<1>4. Fails = {}
    <2> SUFFICES ASSUME Fails # {} PROVE FALSE
        OBVIOUS
    <2>1. PICK n \in Fails : \A m \in Fails : n <= m
        <3>1. Fails \in SUBSET Nat
            OBVIOUS
        <3> HIDE DEF Fails
        <3> QED
            BY <3>1, LeastNatural
    <2>2. [s \in SUBSET S |-> 0] \in [SUBSET S -> Int]
        OBVIOUS
    <2> HIDE DEF Upto
    <2>3. n \in Nat /\ ~\E g \in [SUBSET S -> Int] : Upto(n, g)
        OBVIOUS
    <2>4. n # 0
        BY <1>3, <2>2, <2>3
    <2>5. n - 1 \in Nat /\ n - 1 \notin Fails
        <3> HIDE DEF Fails
        <3> QED
            BY <2>1, <2>3, <2>4
    <2>6. PICK g \in [SUBSET S -> Int] : Upto(n - 1, g)
        BY <2>5
    <2>7. \E h \in [SUBSET S -> Int] : Upto(n - 1 + 1, h)
        BY <1>2, <2>5, <2>6
    <2>8. n - 1 + 1 = n
        BY <2>3
    <2> QED
        BY <2>3, <2>7, <2>8
<1>5. Cardinality(S) \in Nat
    BY <1>1
<1>6. PICK g \in [SUBSET S -> Int] : Upto(Cardinality(S), g)
    BY <1>4, <1>5
<1> QED
    BY <1>1, <1>6 DEF Adds

\* Taking any element out of a set takes its value out of the sum.
LEMMA SumStep ==
    ASSUME NEW S, NEW v, NEW g,
           IsFiniteSet(S), Integral(S, v, g), Adds(S, v, g)
    PROVE  \A T \in SUBSET S : \A e \in T : g[T] = v[e] + g[T \ {e}]
<1> DEFINE Fails == {s \in SUBSET S : \E x \in s : g[s] # v[x] + g[s \ {x}]}
<1> SUFFICES ASSUME Fails # {} PROVE FALSE
    OBVIOUS
<1>1. PICK s \in Fails : \A t \in Fails : Cardinality(s) <= Cardinality(t)
    <2>1. Fails \in SUBSET SUBSET S
        OBVIOUS
    <2> HIDE DEF Fails
    <2> QED
        BY <2>1, LeastSubset
<1>2. s \in SUBSET S /\ IsFiniteSet(s)
    BY FS_Subset
<1>3. PICK x \in s : g[s] # v[x] + g[s \ {x}]
    OBVIOUS
<1> DEFINE c == Pick(s)
<1>4. c \in s /\ g[s] = v[c] + g[s \ {c}]
    BY <1>2, PickIn DEF Adds
<1>5. x # c
    BY <1>3, <1>4
<1> HIDE DEF c
<1>6. ASSUME NEW y \in s
      PROVE  /\ s \ {y} \in SUBSET S
             /\ \A z \in s \ {y} : g[s \ {y}] = v[z] + g[(s \ {y}) \ {z}]
    <2>1. /\ Cardinality(s \ {y}) \in Nat /\ Cardinality(s) \in Nat
          /\ Cardinality(s \ {y}) < Cardinality(s)
        BY <1>2, OneLess
    <2>2. s \ {y} \notin Fails
        <3> HIDE DEF Fails
        <3> QED
            BY <1>1, <2>1
    <2> QED
        BY <1>2, <2>2
<1>7. g[s \ {c}] = v[x] + g[(s \ {c}) \ {x}]
    BY <1>3, <1>4, <1>5, <1>6
<1>8. g[s \ {x}] = v[c] + g[(s \ {x}) \ {c}]
    BY <1>3, <1>4, <1>5, <1>6
<1>9. g[(s \ {c}) \ {x}] = g[(s \ {x}) \ {c}]
    <2>1. (s \ {c}) \ {x} = (s \ {x}) \ {c}
        OBVIOUS
    <2> QED
        BY <2>1, Zenon
<1>10. v[x] \in Int /\ v[c] \in Int /\ g[(s \ {x}) \ {c}] \in Int
    BY <1>2, <1>3, <1>4 DEF Integral
<1>11. g[s] = v[x] + g[s \ {x}]
    <2> HIDE DEF Fails
    <2> QED
        BY <1>4, <1>7, <1>8, <1>9, <1>10
<1> QED
    BY <1>3, <1>11

\* The sum over a set does not depend on what the set is a subset of.
LEMMA SumsAgree ==
    ASSUME NEW S, IsFiniteSet(S), NEW v, NEW g, NEW h,
           Adds(S, v, g),
           Adds(S, v, h)
    PROVE  g[S] = h[S]
<1> DEFINE Fails == {s \in SUBSET S : g[s] # h[s]}
<1> SUFFICES ASSUME Fails # {} PROVE FALSE
    OBVIOUS
<1>1. PICK s \in Fails : \A t \in Fails : Cardinality(s) <= Cardinality(t)
    <2>1. Fails \in SUBSET SUBSET S
        OBVIOUS
    <2> HIDE DEF Fails
    <2> QED
        BY <2>1, LeastSubset
<1>2. s \in SUBSET S /\ IsFiniteSet(s) /\ g[s] # h[s]
    BY FS_Subset
<1>3. s # {} /\ Pick(s) \in s
    BY <1>2, PickIn DEF Adds
<1>4. /\ Cardinality(s \ {Pick(s)}) \in Nat /\ Cardinality(s) \in Nat
      /\ Cardinality(s \ {Pick(s)}) < Cardinality(s)
    BY <1>2, <1>3, OneLess
<1>5. s \ {Pick(s)} \notin Fails
    <2> HIDE DEF Fails
    <2> QED
        BY <1>1, <1>4
<1>6. g[s \ {Pick(s)}] = h[s \ {Pick(s)}]
    BY <1>2, <1>5
<1> QED
    BY <1>2, <1>3, <1>6 DEF Adds

\* The amount an entry says it adds to the balance.
Worth(e) == IF e[2] = "credit" THEN EntryAmount(e[1]) ELSE -EntryAmount(e[1])

\* Sum is such a sum.
LEMMA SumIs ==
    ASSUME NEW S, IsFiniteSet(S), \A e \in S : Worth(e) \in Int
    PROVE  \E g \in [SUBSET S -> Int] :
              Adds(S, [e \in S |-> Worth(e)], g) /\ Sum(S) = g[S]
<1> DEFINE Eq(g) == g = [s \in SUBSET S |-> IF s = {} THEN 0
                            ELSE LET x == CHOOSE x \in s : TRUE
                                 IN Worth(x) + g[s \ {x}]]
           iter == CHOOSE g : Eq(g)
           v == [e \in S |-> Worth(e)]
<1>1. Sum(S) = iter[S]
    BY DEF Sum, Worth, MapThenSumSet, MapThenFoldSet
<1>2. PICK g \in [SUBSET S -> Int] : Adds(S, v, g)
    <2>1. v \in [S -> Int]
        OBVIOUS
    <2> HIDE DEF v, Eq
    <2> QED
        BY <2>1, SumsExist
<1>3. \A s \in SUBSET S : s # {} => v[Pick(s)] = Worth(Pick(s))
    BY PickIn
<1>4. Eq(g)
    BY <1>2, <1>3 DEF Pick, Adds
<1>5. Eq(iter)
    <2> HIDE DEF Eq
    <2> QED
        BY <1>4
<1>6. Adds(S, v, iter)
    <2>1. \A s \in SUBSET S : iter[s] = IF s = {} THEN 0 ELSE Worth(Pick(s)) + iter[s \ {Pick(s)}]
        <3> HIDE DEF iter
        <3> QED
            BY <1>5 DEF Pick
    <2> HIDE DEF v, iter, Eq
    <2> QED
        BY <1>3, <2>1 DEF Adds
<1> HIDE DEF v, iter, Eq
<1> QED
    BY <1>1, <1>2, <1>6, SumsAgree DEF v

\* The sum over no entry is nothing, and a new entry adds its amount to it.
LEMMA SumAdds ==
    /\ Sum({}) = 0
    /\ \A E : (IsFiniteSet(E) /\ \A e \in E : Worth(e) \in Int) => Sum(E) \in Int
    /\ \A E, e : ( /\ IsFiniteSet(E) /\ e \notin E /\ Worth(e) \in Int
                   /\ \A f \in E : Worth(f) \in Int )
                 => Sum(E \cup {e}) = Sum(E) + Worth(e)
<1>1. ASSUME NEW E, IsFiniteSet(E), \A e \in E : Worth(e) \in Int
      PROVE  Sum(E) \in Int
    <2>1. PICK g \in [SUBSET E -> Int] : Sum(E) = g[E]
        BY <1>1, SumIs
    <2> QED
        BY <2>1
<1>2. Sum({}) = 0
    <2>1. IsFiniteSet({}) /\ \A e \in {} : Worth(e) \in Int
        BY FS_EmptySet
    <2>2. PICK g \in [SUBSET {} -> Int] :
                Adds({}, [e \in {} |-> Worth(e)], g) /\ Sum({}) = g[{}]
        BY <2>1, SumIs
    <2> QED
        BY <2>2 DEF Adds
<1>3. ASSUME NEW E, NEW e, IsFiniteSet(E), e \notin E, Worth(e) \in Int,
             \A f \in E : Worth(f) \in Int
      PROVE  Sum(E \cup {e}) = Sum(E) + Worth(e)
    <2> DEFINE F == E \cup {e}
               u == [f \in E |-> Worth(f)]
               v == [f \in F |-> Worth(f)]
    <2>1. IsFiniteSet(F) /\ \A f \in F : Worth(f) \in Int
        BY <1>3, FS_AddElement
    <2>2. PICK g \in [SUBSET F -> Int] : Adds(F, v, g) /\ Sum(F) = g[F]
        BY <2>1, SumIs
    <2>3. PICK h \in [SUBSET E -> Int] : Adds(E, u, h) /\ Sum(E) = h[E]
        BY <1>3, SumIs
    <2>4. \A s \in SUBSET E : s # {} => v[Pick(s)] = u[Pick(s)]
        BY PickIn
    <2>5. v \in [F -> Int] /\ v[e] = Worth(e) /\ F \ {e} = E
        BY <1>3, <2>1
    <2>6. SUBSET E \subseteq SUBSET F /\ F \in SUBSET F /\ e \in F
        OBVIOUS
    <2> HIDE DEF F, u, v
    <2>7. Adds(E, u, g)
        BY <2>2, <2>4, <2>6 DEF Adds
    <2>8. g[E] = h[E]
        BY <1>3, <2>3, <2>7, SumsAgree
    <2>9. g[F] = v[e] + g[F \ {e}]
        <3>1. IsFiniteSet(F) /\ Integral(F, v, g) /\ Adds(F, v, g)
            BY <2>1, <2>2, <2>5 DEF Integral
        <3> QED
            BY <2>6, <3>1, SumStep
    <2>10. h[E] \in Int
        BY <2>3
    <2>11. g[F \ {e}] = h[E]
        BY <2>5, <2>8, Zenon
    <2>12. Sum(F) = h[E] + Worth(e)
        BY <1>3, <2>2, <2>5, <2>9, <2>10, <2>11
    <2> QED
        BY <2>3, <2>12 DEF F
<1> QED
    BY <1>1, <1>2, <1>3
-----------------------------------------------------------------------------
\* There are finitely many entries, and each is worth an amount.
LEMMA EntriesWorth ==
    /\ IsFiniteSet(Entries)
    /\ \A e \in Entries : Worth(e) \in Int
<1>1. IsFiniteSet(Payments \X Sides)
    <2>1. Sides = {"debit"} \cup {"credit"}
        BY DEF Sides
    <2> QED
        BY <2>1, FS_Singleton, FS_AddElement, FS_Product, StatementAssumption
<1>2. Entries \in SUBSET (Payments \X Sides)
    BY DEF Entries, Ours
<1>3. \A e \in Payments \X Sides : Worth(e) \in Int
    BY PaymentsAssumption DEF Worth, EntryAmount
<1> QED
    BY <1>1, <1>2, <1>3, FS_Subset

\* A payment that ends adds the entries it emits, which were not there.
LEMMA NewEntries ==
    ASSUME IInv, NEW p \in Payments, NEW s \in Final, instr[p] = "accepted",
           effects' = Booked(p, Emitted(p, s))
    PROVE  /\ Entries' = Entries \cup {e \in Ours : e[1] = p /\ e[2] \in Emitted(p, s)}
           /\ \A k \in Sides : <<p, k>> \notin Entries
<1>1. \A k \in Kinds : effects[<<p, k>>] = 0
    BY DEF IInv, EffectsMatchStatus, Emitted
<1>2. Ours \subseteq Payments \X Kinds /\ Sides \subseteq Kinds
    BY DEF Ours, Sides, Kinds
<1>3. effects \in [Payments \X Kinds -> Nat]
    BY DEF IInv, TypeOK
<1>4. ASSUME NEW e \in Ours
      PROVE  effects'[e] > 0 <=> (effects[e] > 0 \/ (e[1] = p /\ e[2] \in Emitted(p, s)))
    BY <1>2, <1>3 DEF Booked
<1>5. Ours' = Ours
    BY DEF Ours, Owner
<1> QED
    BY <1>1, <1>2, <1>4, <1>5 DEF Entries

\* The account starts with no entry.
LEMMA ReconciledInit == StInit => Reconciled
<1> SUFFICES ASSUME StInit, NoNegativeAmount
             PROVE  balance[Account] = Opening[Account] + Sum(Entries)
    BY DEF Reconciled
<1>1. Entries = {}
    BY DEF StInit, Init, Entries, Ours, Sides, Kinds
<1>2. Opening[Account] \in Int /\ balance[Account] = Opening[Account]
    BY PaymentsAssumption, StatementAssumption DEF StInit, Init
<1> QED
    BY <1>1, <1>2, SumAdds

\* A settlement adds its entries' amounts to the balance: on either side, or on both.
LEMMA SettlementReconciles ==
    ASSUME IInv, Fresh, Reconciled, ~stale, NoNegativeAmount, NEW w \in Workers, Settle(w)
    PROVE  balance'[Account] = Opening[Account] + Sum(Entries')
<1> DEFINE p == at[w]
           d == <<p, "debit">>
           c == <<p, "credit">>
<1>1. p \in Payments /\ instr[p] = "accepted" /\ Decided(w) /\ stage[w] = "crediting"
    BY DEF IInv, TypeOK, WorkInOrder, Settle, Fresh
<1>2. /\ effects' = Booked(p, Emitted(p, "settled"))
      /\ balance' = [a \in Accounts |-> balance[a] + Bank!Moved(p, a)]
    BY <1>1, MovesTheSame DEF Settle, Conclude
<1>3. /\ Entries' = Entries \cup {e \in Ours : e[1] = p /\ e[2] \in Emitted(p, "settled")}
      /\ d \notin Entries /\ c \notin Entries
    BY <1>1, <1>2, NewEntries DEF Final, Sides
<1>4. /\ balance[Account] = Opening[Account] + Sum(Entries)
      /\ Amount[p] \in Int /\ Opening[Account] \in Int /\ Account \in Accounts
      /\ Debtor[p] \in Accounts
    BY <1>1, PaymentsAssumption, StatementAssumption DEF Reconciled
<1>5. /\ Worth(d) = -Amount[p] /\ Worth(c) = Amount[p]
      /\ d \in Ours <=> Debtor[p] = Account
      /\ c \in Ours <=> Creditor[p] = Account
      /\ "debit" \in Emitted(p, "settled")
      /\ Creditor[p] = Account => "credit" \in Emitted(p, "settled")
    <2>1. EntryAmount(p) = Amount[p]
        BY <1>1, <1>4 DEF EntryAmount, NoNegativeAmount
    <2> QED
        BY <1>1, <1>4, <2>1 DEF Worth, Ours, Sides, Owner, Emitted, Owned
<1>6. \A e \in Ours : e[1] = p => e = d \/ e = c
    BY DEF Ours, Sides
<1>7. Entries' = Entries \cup {e \in {d, c} : e \in Ours}
    BY <1>3, <1>5, <1>6
<1>8. balance'[Account] = balance[Account] + Bank!Moved(p, Account)
    BY <1>2, <1>4
<1>9. /\ IsFiniteSet(Entries) /\ (\A e \in Entries : Worth(e) \in Int) /\ Sum(Entries) \in Int
    BY EntriesWorth, SumAdds
<1>10. d # c
    OBVIOUS
<1> HIDE DEF p, d, c
<1>11. CASE Debtor[p] = Account /\ Creditor[p] = Account
    <2>1. Entries' = (Entries \cup {d}) \cup {c}
        BY <1>5, <1>7, <1>11
    <2>2. Sum(Entries \cup {d}) = Sum(Entries) - Amount[p] /\ IsFiniteSet(Entries \cup {d})
        BY <1>3, <1>4, <1>5, <1>9, SumAdds, FS_AddElement
    <2>3. Sum((Entries \cup {d}) \cup {c}) = Sum(Entries \cup {d}) + Amount[p]
        <3>1. c \notin Entries \cup {d} /\ \A e \in Entries \cup {d} : Worth(e) \in Int
            BY <1>3, <1>4, <1>5, <1>9, <1>10
        <3> QED
            BY <1>4, <1>5, <2>2, <3>1, SumAdds
    <2>4. Bank!Moved(p, Account) = 0
        BY <1>4, <1>11 DEF Bank!Moved
    <2> QED
        BY <1>4, <1>8, <1>9, <2>1, <2>2, <2>3, <2>4
<1>12. CASE Debtor[p] = Account /\ Creditor[p] # Account
    <2>1. Entries' = Entries \cup {d}
        BY <1>5, <1>7, <1>12
    <2>2. Sum(Entries \cup {d}) = Sum(Entries) - Amount[p]
        BY <1>3, <1>4, <1>5, <1>9, SumAdds
    <2>3. Bank!Moved(p, Account) = -Amount[p]
        BY <1>4, <1>12 DEF Bank!Moved
    <2> QED
        BY <1>4, <1>8, <1>9, <2>1, <2>2, <2>3
<1>13. CASE Debtor[p] # Account /\ Creditor[p] = Account
    <2>1. Entries' = Entries \cup {c}
        BY <1>5, <1>7, <1>13
    <2>2. Sum(Entries \cup {c}) = Sum(Entries) + Amount[p]
        BY <1>3, <1>4, <1>5, <1>9, SumAdds
    <2>3. Bank!Moved(p, Account) = Amount[p]
        BY <1>4, <1>13 DEF Bank!Moved
    <2> QED
        BY <1>4, <1>8, <1>9, <2>1, <2>2, <2>3
<1>14. CASE Debtor[p] # Account /\ Creditor[p] # Account
    <2>1. Entries' = Entries
        BY <1>5, <1>7, <1>14
    <2>2. Bank!Moved(p, Account) = 0
        BY <1>4, <1>14 DEF Bank!Moved
    <2> QED
        BY <1>4, <1>8, <1>9, <2>1, <2>2
<1> QED
    BY <1>11, <1>12, <1>13, <1>14

\* Nothing else changes the balance or the entries.
LEMMA OthersReconcile ==
    ASSUME IInv, [StNext]_all, \A w \in Workers : ~Settle(w)
    PROVE  balance' = balance /\ Entries' = Entries
<1>1. ASSUME UNCHANGED effects PROVE Entries' = Entries
    BY <1>1 DEF Entries, Ours, Owner
<1>2. ASSUME NEW w \in Workers, Pays(w) PROVE balance' = balance /\ Entries' = Entries
    <2>1. CASE Reject(w)
        <3>1. /\ at[w] \in Payments /\ instr[at[w]] = "accepted"
              /\ effects' = Booked(at[w], Emitted(at[w], "rejected"))
              /\ balance' = balance
            BY <2>1 DEF Reject, Conclude, IInv, TypeOK, WorkInOrder
        <3>2. Entries' = Entries \cup {e \in Ours : /\ e[1] = at[w]
                                                   /\ e[2] \in Emitted(at[w], "rejected")}
            BY <3>1, NewEntries DEF Final
        <3>3. \A e \in Ours : e[2] \notin Emitted(at[w], "rejected")
            BY DEF Ours, Sides, Emitted
        <3> QED
            BY <3>1, <3>2, <3>3
    <2>2. CASE ~Reject(w)
        BY <1>1, <1>2, <2>2
        DEF Pays, SliceSelects, LoadInstruction, CheckDebtor, Raise, FindCreditor, SliceCommits,
            table
    <2> QED
        BY <2>1, <2>2
<1>3. CASE Initiates \/ Restarts \/ Opens \/ ReadsPage \/ Closes \/ UNCHANGED all
    BY <1>1, <1>3
    DEF Initiates, InitiatePayment, Restarts, Crash, Opens, ReadsPage, Closes, all, vars, table
<1> QED
    BY <1>2, <1>3 DEF StNext, Processes

\* What is stale stays stale.
LEMMA StaleStays ==
    ASSUME Fresh, [StNext]_all, stale PROVE stale'
BY DEF StNext, Processes, Pays, Initiates, Restarts, Opens, ReadsPage, Closes, all, reading

\* The balance is the sum of the entries until two sessions have overlapped.
LEMMA ReconciledNext == IInv /\ Fresh /\ Reconciled /\ [StNext]_all => Reconciled'
<1> SUFFICES ASSUME IInv, Fresh, Reconciled, [StNext]_all, ~stale', NoNegativeAmount
             PROVE  balance'[Account] = Opening[Account] + Sum(Entries')
    BY DEF Reconciled, NoNegativeAmount
<1>1. ~stale
    BY StaleStays
<1>2. CASE \E w \in Workers : Settle(w)
    BY <1>1, <1>2, SettlementReconciles
<1>3. CASE \A w \in Workers : ~Settle(w)
    BY <1>1, <1>3, OthersReconcile DEF Reconciled
<1> QED
    BY <1>2, <1>3

\* The first page shows the balance that goes with the entries it starts from.
LEMMA FirstPageNext ==
    IInv /\ Fresh /\ Reconciled /\ FirstPage /\ [StNext]_all => FirstPage'
<1> SUFFICES ASSUME IInv, Fresh, Reconciled, FirstPage, [StNext]_all PROVE FirstPage'
    OBVIOUS
<1>1. stale => stale'
    BY StaleStays
<1>2. CASE \E w \in Workers : Processes(w)
    <2>1. /\ UNCHANGED <<walk, shown, there>>
          /\ changed' = (changed \/ (walk = "opened" /\ balance'[Account] # balance[Account]))
        BY <1>2 DEF Processes
    <2> QED
        BY <1>1, <2>1 DEF FirstPage
<1>3. CASE Opens
    BY <1>1, <1>3 DEF Opens, FirstPage, vars, table
<1>4. CASE ReadsPage
    <2>1. /\ walk \in {"opened", "walking"} /\ walk' \in {"walking", "finished"}
          /\ there' = (IF walk = "opened" THEN Entries ELSE there)
          /\ UNCHANGED <<shown, changed, stale, balance>>
        BY <1>4 DEF ReadsPage, vars, table
    <2> QED
        BY <2>1 DEF FirstPage, Reconciled
<1>5. CASE Forgets
    BY <1>5 DEF Forgets, FirstPage
<1>6. CASE UNCHANGED <<balance, stale, walk, shown, there, changed>>
    BY <1>6 DEF FirstPage
<1>7. CASE Initiates \/ Restarts \/ Closes \/ UNCHANGED all
    BY <1>5, <1>6, <1>7
    DEF Initiates, InitiatePayment, Restarts, Crash, Closes, all, reading, vars, table
<1> QED
    BY <1>2, <1>3, <1>4, <1>7 DEF StNext

\* Until a settlement overwrites what another session has read, the balance of any account
\* is its opening balance and the sum of its entries, unless some amount is negative: only
\* lost updates and amounts without their sign make them differ.
THEOREM Ledger == StSpec => []Reconciled
BY ReconciledInit, ReconciledNext, FreshInit, FreshNext, Composition, Invariance, PTL DEF StSpec

\* The first page's balance is the sum of the entries on all pages, when no entry was
\* missed, the account did not move between the two reads of that page, no two
\* sessions overwrote each other's balances, and no amount is negative.
THEOREM Reconciliation == StSpec => []Reconciles
<1>1. StInit => FirstPage
    BY DEF StInit, FirstPage
<1>2. FirstPage => Reconciles
    BY DEF FirstPage, Reconciles
<1> QED
    BY <1>1, <1>2, ReconciledInit, ReconciledNext, FirstPageNext, FreshInit, FreshNext,
       Composition, Invariance, PTL DEF StSpec
=============================================================================
