--------------------------- MODULE PaymentsProofs ---------------------------
(***************************************************************************)
(* Proofs about Payments.tla, for every set of payments, accounts and      *)
(* concurrent advances, all amounts and opening balances, and any number   *)
(* of crashes.                                                             *)
(***************************************************************************)
EXTENDS Payments, TLAPS

\* Booking adds to the counters and nothing else.
LEMMA BookedType ==
    ASSUME TypeOK, NEW p, NEW K
    PROVE  Booked(p, K) \in [Payments \X Kinds -> Nat]
BY DEF TypeOK, Booked

\* The balances a commit writes are integers, whatever was read.
LEMMA BalancesType ==
    ASSUME TypeOK, NEW w \in Workers, NEW p \in Payments
    PROVE  NewBalances(w, p) \in [Accounts -> Int]
BY PaymentsAssumption DEF TypeOK, NewBalances

\* The initial bank is well typed.
LEMMA TypeInit == Init => TypeOK
BY PaymentsAssumption DEF Init, TypeOK

\* A session that is past the load works on a payment.
AtWork == \A w \in Workers : stage[w] # "idle" => at[w] \in Payments

\* Every step keeps the types, if sessions work on payments they hold.
LEMMA TypeNext == TypeOK /\ AtWork /\ [Next]_vars => TypeOK'
<1> SUFFICES ASSUME TypeOK, AtWork, [Next]_vars PROVE TypeOK'
    OBVIOUS
<1> USE PaymentsAssumption DEF TypeOK, table, slice, session
<1>1. ASSUME NEW p \in Payments, InitiatePayment(p) PROVE TypeOK'
    BY <1>1 DEF InitiatePayment
<1>2. ASSUME NEW w \in Workers, SliceSelects(w) PROVE TypeOK'
    BY <1>2 DEF SliceSelects
<1>3. ASSUME NEW w \in Workers, NEW p \in Payments, LoadInstruction(w, p) PROVE TypeOK'
    <2>1. CASE Skips(instr[p])
        BY <1>3, <2>1 DEF LoadInstruction
    <2>2. CASE ~Skips(instr[p])
        BY <1>3, <2>2 DEF LoadInstruction
    <2> QED
        BY <2>1, <2>2
<1>4. ASSUME NEW w \in Workers, CheckDebtor(w) PROVE TypeOK'
    <2>1. at[w] \in Payments
        BY <1>4 DEF CheckDebtor, AtWork
    <2>2. debtor' \in [Workers -> Int]
        BY <1>4, <2>1 DEF CheckDebtor
    <2> QED
        BY <1>4, <2>2 DEF CheckDebtor
<1>5. ASSUME NEW w \in Workers, Raise(w) PROVE TypeOK'
    BY <1>5 DEF Raise, AtWork
<1>6. ASSUME NEW w \in Workers, FindCreditor(w) PROVE TypeOK'
    <2>1. at[w] \in Payments
        BY <1>6 DEF FindCreditor, AtWork
    <2>2. creditor' \in [Workers -> Int]
        BY <1>6, <2>1 DEF FindCreditor, Owned
    <2> QED
        BY <1>6, <2>2 DEF FindCreditor
<1>7. ASSUME NEW w \in Workers, Settle(w) PROVE TypeOK'
    <2>1. at[w] \in Payments
        BY <1>7 DEF Settle, AtWork
    <2>2. balance' \in [Accounts -> Int]
        BY <1>7, <2>1, BalancesType DEF Settle
    <2>3. effects' \in [Payments \X Kinds -> Nat]
        BY <1>7, BookedType DEF Settle, Conclude
    <2> QED
        BY <1>7, <2>1, <2>2, <2>3 DEF Settle, Conclude
<1>8. ASSUME NEW w \in Workers, Reject(w) PROVE TypeOK'
    <2>1. at[w] \in Payments
        BY <1>8 DEF Reject, AtWork
    <2>2. effects' \in [Payments \X Kinds -> Nat]
        BY <1>8, BookedType DEF Reject, Conclude
    <2> QED
        BY <1>8, <2>1, <2>2 DEF Reject, Conclude
<1>9. ASSUME NEW w \in Workers, SliceCommits(w) PROVE TypeOK'
    BY <1>9 DEF SliceCommits, Recorded
<1>10. CASE Crash
    BY <1>10 DEF Crash
<1>11. CASE UNCHANGED vars
    BY <1>11 DEF vars
<1> HIDE DEF TypeOK
<1> QED
    BY <1>1, <1>2, <1>3, <1>4, <1>5, <1>6, <1>7, <1>8, <1>9, <1>10, <1>11 DEF Next, Step

\* A payment nobody works on is None, which is no payment.
LEMMA Working == TypeOK /\ SlicesApart /\ WorkInOrder => AtWork
BY DEF TypeOK, WorkInOrder, AtWork
-----------------------------------------------------------------------------
\* The initial bank satisfies the inductive invariant.
LEMMA InvInit == Init => IInv
<1> SUFFICES ASSUME Init PROVE IInv
    OBVIOUS
<1>1. TypeOK
    BY TypeInit
<1>2. SlicesApart /\ WorkInOrder /\ JobsFollow
    BY DEF Init, SlicesApart, WorkInOrder, JobsFollow
<1>3. EffectsMatchStatus
    BY DEF Init, EffectsMatchStatus, Emitted
<1>4. JobTellsOutcome
    BY DEF Init, JobTellsOutcome
<1>5. FundsSeen /\ NoOverdraft
    BY DEF Init, FundsSeen, NoOverdraft, NonNegative, NoNegativeAmount
<1> QED
    BY <1>1, <1>2, <1>3, <1>4, <1>5 DEF IInv

\* Which steps begin and end the work on a payment, and the locks around it.
LEMMA WorkNext == IInv /\ [Next]_vars => (SlicesApart /\ WorkInOrder /\ JobsFollow)'
<1> SUFFICES ASSUME IInv, [Next]_vars PROVE (SlicesApart /\ WorkInOrder /\ JobsFollow)'
    OBVIOUS
<1> DEFINE Goal == (SlicesApart /\ WorkInOrder /\ JobsFollow)'
<1> None \notin Payments
    BY PaymentsAssumption
<1> USE DEF IInv, TypeOK, SlicesApart, WorkInOrder, JobsFollow, Final, table, slice, session
<1>1. ASSUME NEW p \in Payments, InitiatePayment(p) PROVE Goal
    BY <1>1 DEF InitiatePayment
<1>2. ASSUME NEW w \in Workers, SliceSelects(w) PROVE Goal
    BY <1>2 DEF SliceSelects
<1>3. ASSUME NEW w \in Workers, NEW p \in Payments, LoadInstruction(w, p) PROVE Goal
    <2>1. instr[p] # "none"
        BY <1>3 DEF LoadInstruction
    <2>2. SlicesApart' /\ JobsFollow'
        BY <1>3 DEF LoadInstruction
    <2>3. CASE instr[p] \in Final
        BY <1>3, <2>2, <2>3 DEF LoadInstruction, Skips
    <2>4. CASE instr[p] = "accepted"
        BY <1>3, <2>2, <2>4 DEF LoadInstruction, Skips
    <2> QED
        BY <2>1, <2>3, <2>4
<1>4. ASSUME NEW w \in Workers, CheckDebtor(w) PROVE Goal
    BY <1>4 DEF CheckDebtor
<1>5. ASSUME NEW w \in Workers, Raise(w) PROVE Goal
    BY <1>5 DEF Raise
<1>6. ASSUME NEW w \in Workers, FindCreditor(w) PROVE Goal
    BY <1>6 DEF FindCreditor
<1>7. ASSUME NEW w \in Workers, Settle(w) \/ Reject(w) PROVE Goal
    <2>1. PICK s \in Final : Conclude(w, s)
        BY <1>7 DEF Settle, Reject
    <2>2. at[w] \in held[w] /\ at[w] \in Payments /\ instr[at[w]] = "accepted"
        BY <1>7 DEF Settle, Reject
    <2>3. SlicesApart' /\ JobsFollow'
        BY <2>1, <2>2 DEF Conclude
    <2>4. \A u \in Workers \ {w} :
             at[w] \notin done[u] \cup raised[u] /\ at[u] # at[w]
        BY <2>2
    <2>5. WorkInOrder'
        BY <2>1, <2>2, <2>4 DEF Conclude
    <2> QED
        BY <2>3, <2>5
<1>8. ASSUME NEW w \in Workers, SliceCommits(w) PROVE Goal
    BY <1>8 DEF SliceCommits, Recorded
<1>9. CASE Crash
    BY <1>9 DEF Crash
<1>10. CASE UNCHANGED vars
    BY <1>10 DEF vars
<1> HIDE DEF IInv, TypeOK, SlicesApart, WorkInOrder, JobsFollow
<1> QED
    BY <1>1, <1>2, <1>3, <1>4, <1>5, <1>6, <1>7, <1>8, <1>9, <1>10 DEF Next, Step

\* Only the commit of an accepted payment leaves effects, those of its new status.
LEMMA EffectsNext == IInv /\ [Next]_vars => EffectsMatchStatus'
<1> SUFFICES ASSUME IInv, [Next]_vars, NEW q \in Payments, NEW k \in Kinds
             PROVE  effects'[<<q, k>>] = IF k \in Emitted(q, instr'[q]) THEN 1 ELSE 0
    BY DEF EffectsMatchStatus, Emitted, Owned
<1> DEFINE Goal == effects'[<<q, k>>] = IF k \in Emitted(q, instr'[q]) THEN 1 ELSE 0
<1> effects[<<q, k>>] = IF k \in Emitted(q, instr[q]) THEN 1 ELSE 0
    BY DEF IInv, EffectsMatchStatus
<1>1. ASSUME NEW p \in Payments, InitiatePayment(p) PROVE Goal
    BY <1>1 DEF InitiatePayment, Emitted, IInv, TypeOK
<1>2. ASSUME NEW w \in Workers,
             SliceSelects(w) \/ (\E p \in Payments : LoadInstruction(w, p))
                 \/ CheckDebtor(w) \/ Raise(w) \/ FindCreditor(w) \/ SliceCommits(w)
      PROVE  Goal
    <2>1. UNCHANGED <<instr, effects>>
        BY <1>2 DEF SliceSelects, LoadInstruction, CheckDebtor, Raise, FindCreditor,
                    SliceCommits, table
    <2> QED
        BY <2>1
<1>3. ASSUME NEW w \in Workers, Settle(w) \/ Reject(w) PROVE Goal
    <2>1. PICK s \in Final : Conclude(w, s)
        BY <1>3 DEF Settle, Reject, Final
    <2>2. at[w] \in Payments /\ instr[at[w]] = "accepted"
        BY <1>3 DEF Settle, Reject, IInv, TypeOK, WorkInOrder
    <2>3. CASE q = at[w]
        <3>1. effects[<<q, k>>] = 0
            BY <2>2, <2>3 DEF Emitted
        <3>2. instr'[q] = s
            BY <2>1, <2>2, <2>3 DEF Conclude, IInv, TypeOK
        <3>3. effects'[<<q, k>>] = IF k \in Emitted(q, s) THEN effects[<<q, k>>] + 1
                                   ELSE effects[<<q, k>>]
            BY <2>1, <2>3 DEF Conclude, Booked
        <3> QED
            BY <3>1, <3>2, <3>3
    <2>4. CASE q # at[w]
        <3>1. effects'[<<q, k>>] = effects[<<q, k>>]
            BY <2>1, <2>4 DEF Conclude, Booked
        <3>2. instr'[q] = instr[q]
            BY <2>1, <2>4 DEF Conclude, IInv, TypeOK
        <3> QED
            BY <3>1, <3>2
    <2> QED
        BY <2>3, <2>4
<1>4. CASE Crash \/ UNCHANGED vars
    BY <1>4 DEF Crash, vars, table
<1> QED
    BY <1>1, <1>2, <1>3, <1>4 DEF Next, Step

\* Jobs are settled by the slice that ran their handler, after the payment.
LEMMA OutcomeNext == IInv /\ [Next]_vars => JobTellsOutcome'
<1> SUFFICES ASSUME IInv, [Next]_vars, NEW q \in Payments
             PROVE  /\ job'[q] = "fired" => instr'[q] \in Final
                    /\ job'[q] = "failed" => instr'[q] = "accepted" /\ q \notin Matching
                    /\ (job'[q] = "pending" /\ instr'[q] \in Final) =>
                          crashes' > 0 \/ \E w \in Workers : q \in done'[w]
    BY DEF JobTellsOutcome, Final
<1> DEFINE Goal == /\ job'[q] = "fired" => instr'[q] \in Final
                   /\ job'[q] = "failed" => instr'[q] = "accepted" /\ q \notin Matching
                   /\ (job'[q] = "pending" /\ instr'[q] \in Final) =>
                         crashes' > 0 \/ \E w \in Workers : q \in done'[w]
<1> USE DEF IInv, TypeOK, JobTellsOutcome, table, slice, session
<1>1. ASSUME NEW p \in Payments, InitiatePayment(p) PROVE Goal
    BY <1>1 DEF InitiatePayment, JobsFollow, Final
<1>2. ASSUME NEW w \in Workers,
             SliceSelects(w) \/ CheckDebtor(w) \/ Raise(w) \/ FindCreditor(w)
      PROVE  Goal
    BY <1>2 DEF SliceSelects, CheckDebtor, Raise, FindCreditor
<1>3. ASSUME NEW w \in Workers, NEW p \in Payments, LoadInstruction(w, p) PROVE Goal
    BY <1>3 DEF LoadInstruction
<1>4. ASSUME NEW w \in Workers, Settle(w) \/ Reject(w) PROVE Goal
    <2>1. PICK s \in Final : Conclude(w, s)
        BY <1>4 DEF Settle, Reject, Final
    <2>2. at[w] \in held[w] /\ at[w] \in Payments /\ job[at[w]] = "pending"
        BY <1>4 DEF Settle, Reject, WorkInOrder, SlicesApart
    <2> QED
        BY <2>1, <2>2 DEF Conclude
<1>5. ASSUME NEW w \in Workers, SliceCommits(w) PROVE Goal
    <2>1. CASE q \in done[w]
        BY <1>5, <2>1 DEF SliceCommits, Recorded, WorkInOrder
    <2>2. CASE q \in raised[w] /\ q \notin done[w]
        BY <1>5, <2>2 DEF SliceCommits, Recorded, WorkInOrder
    <2>3. CASE q \notin done[w] \cup raised[w]
        BY <1>5, <2>3 DEF SliceCommits, Recorded
    <2> QED
        BY <2>1, <2>2, <2>3
<1>6. CASE Crash
    BY <1>6 DEF Crash
<1>7. CASE UNCHANGED vars
    BY <1>7 DEF vars
<1> HIDE DEF IInv, TypeOK, JobTellsOutcome
<1> QED
    BY <1>1, <1>2, <1>3, <1>4, <1>5, <1>6, <1>7 DEF Next, Step

\* A session settles with the funds it checked; what it writes is never negative,
\* whatever other sessions wrote in between.
LEMMA FundsNext == IInv /\ [Next]_vars => (FundsSeen /\ NoOverdraft)'
<1> SUFFICES ASSUME IInv, [Next]_vars, NonNegative
             PROVE  /\ \A w \in Workers :
                          /\ stage'[w] \in {"debiting", "crediting"} => debtor'[w] >= Amount[at'[w]]
                          /\ creditor'[w] >= 0
                    /\ \A a \in Accounts : balance'[a] >= 0
    BY DEF FundsSeen, NoOverdraft, NonNegative, NoNegativeAmount, Funded
<1> DEFINE Goal == /\ \A w \in Workers :
                          /\ stage'[w] \in {"debiting", "crediting"} => debtor'[w] >= Amount[at'[w]]
                          /\ creditor'[w] >= 0
                   /\ \A a \in Accounts : balance'[a] >= 0
<1>0. /\ TypeOK /\ WorkInOrder
      /\ \A w \in Workers : /\ stage[w] \in {"debiting", "crediting"} => debtor[w] >= Amount[at[w]]
                            /\ creditor[w] >= 0
      /\ \A a \in Accounts : balance[a] >= 0
    BY DEF IInv, FundsSeen, NoOverdraft, Funded
<1> AtWork
    BY <1>0, Working DEF IInv
<1> USE <1>0 DEF TypeOK, WorkInOrder, table, slice, session
<1>1. ASSUME NEW p \in Payments, InitiatePayment(p) PROVE Goal
    BY <1>1 DEF InitiatePayment
<1>2. ASSUME NEW w \in Workers, SliceSelects(w) \/ SliceCommits(w) PROVE Goal
    BY <1>2 DEF SliceSelects, SliceCommits
<1>3. ASSUME NEW w \in Workers, NEW p \in Payments, LoadInstruction(w, p) PROVE Goal
    <2>1. CASE Skips(instr[p])
        BY <1>3, <2>1 DEF LoadInstruction
    <2>2. CASE ~Skips(instr[p])
        BY <1>3, <2>2 DEF LoadInstruction
    <2> QED
        BY <2>1, <2>2
<1>4. ASSUME NEW w \in Workers, CheckDebtor(w) PROVE Goal
    <2>1. at[w] \in Payments /\ Debtor[at[w]] \in Accounts
        BY <1>4, PaymentsAssumption DEF CheckDebtor, AtWork
    <2>2. /\ debtor' = [debtor EXCEPT ![w] = balance[Debtor[at[w]]]]
          /\ UNCHANGED <<at, creditor, balance>>
        BY <1>4 DEF CheckDebtor
    <2>3. stage'[w] = "debiting" => balance[Debtor[at[w]]] >= Amount[at[w]]
        BY <1>4 DEF CheckDebtor, Funded
    <2>4. \A u \in Workers \ {w} : stage'[u] = stage[u]
        BY <1>4 DEF CheckDebtor
    <2>5. stage'[w] # "crediting"
        BY <1>4 DEF CheckDebtor
    <2> QED
        BY <2>2, <2>3, <2>4, <2>5
<1>5. ASSUME NEW w \in Workers, Raise(w) PROVE Goal
    BY <1>5 DEF Raise
<1>6. ASSUME NEW w \in Workers, FindCreditor(w) PROVE Goal
    BY <1>6 DEF FindCreditor, Owned
<1>7. ASSUME NEW w \in Workers, Settle(w) PROVE Goal
    <2>1. at[w] \in Payments /\ Amount[at[w]] \in Int /\ Amount[at[w]] >= 0
        BY <1>7, PaymentsAssumption DEF Settle, AtWork, NonNegative, NoNegativeAmount
    <2>2. debtor[w] >= Amount[at[w]]
        BY <1>7 DEF Settle
    <2>3. debtor[w] - Amount[at[w]] >= 0 /\ creditor[w] + Amount[at[w]] >= 0
        BY <2>1, <2>2
    <2>4. \A a \in Accounts : balance'[a] >= 0
        BY <1>7, <2>3 DEF Settle, NewBalances
    <2>5. /\ debtor' = [debtor EXCEPT ![w] = 0]
          /\ creditor' = [creditor EXCEPT ![w] = 0]
        BY <1>7 DEF Settle, Conclude
    <2>6. stage' = [stage EXCEPT ![w] = "idle"] /\ at' = [at EXCEPT ![w] = None]
        BY <1>7 DEF Settle, Conclude
    <2> QED
        BY <2>4, <2>5, <2>6
<1>8. ASSUME NEW w \in Workers, Reject(w) PROVE Goal
    BY <1>8 DEF Reject, Conclude
<1>9. CASE Crash
    BY <1>9 DEF Crash
<1>10. CASE UNCHANGED vars
    BY <1>10 DEF vars
<1> HIDE DEF TypeOK, WorkInOrder
<1> QED
    BY <1>1, <1>2, <1>3, <1>4, <1>5, <1>6, <1>7, <1>8, <1>9, <1>10 DEF Next, Step
-----------------------------------------------------------------------------
\* The inductive invariant: slices hold disjoint pending jobs, sessions work on
\* accepted payments they hold, effects and jobs follow the status.
THEOREM Invariance == Spec => []IInv
<1>1. Init => IInv
    BY InvInit
<1>2. IInv /\ [Next]_vars => IInv'
    <2> SUFFICES ASSUME IInv, [Next]_vars PROVE IInv'
        OBVIOUS
    <2>1. TypeOK'
        BY TypeNext, Working DEF IInv
    <2> QED
        BY <2>1, WorkNext, EffectsNext, OutcomeNext, FundsNext DEF IInv
<1> QED
    BY <1>1, <1>2, PTL DEF Spec

\* Every variable keeps its type: a session past the load works on a payment.
THEOREM Typing == Spec => []TypeOK
<1>1. IInv => TypeOK
    BY DEF IInv
<1> QED
    BY <1>1, Invariance, PTL

\* Exactly-once settlement, with any number of advances and crashes: a payment's
\* entries and webhooks are those of its status, each once.
THEOREM ExactlyOnce == Spec => []EffectsMatchStatus
<1>1. IInv => EffectsMatchStatus
    BY DEF IInv
<1> QED
    BY <1>1, Invariance, PTL

\* What a job's status says of its payment is true.
THEOREM Outcome == Spec => []JobTellsOutcome
<1>1. IInv => JobTellsOutcome
    BY DEF IInv
<1> QED
    BY <1>1, Invariance, PTL

\* Overlapping sessions may lose an update of a balance, never overdraw one.
THEOREM Solvency == Spec => []NoOverdraft
<1>1. IInv => NoOverdraft
    BY DEF IInv
<1> QED
    BY <1>1, Invariance, PTL
=============================================================================
