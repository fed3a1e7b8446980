---------------------------- MODULE PosDaysProofs ----------------------------
(***************************************************************************)
(* Proofs about PosDays.tla: no sale is settled twice, early or forgotten, *)
(* and the chain of days does not break, for every calendar, every number  *)
(* of sales, any number of crashes, failures, lost or overlapping slices,  *)
(* settings of the clock and calls of generate-pos.                        *)
(***************************************************************************)
EXTENDS PosDays, FiniteSetTheorems, TLAPS

\* Steps that neither sell, settle nor schedule: of the scheduler's own tables, of the
\* clock and of a request that reads it.
Clockwork ==
    \/ OpenMerchant
    \/ SetClock
    \/ \E s \in Slices : SliceStarts(s) \/ SliceSelects(s) \/ SliceCommits(s) \/ SliceFails(s)

\* The steps of the system, by what they change.
LEMMA NextCases ==
    ASSUME [Next]_vars
    PROVE  \/ Clockwork
           \/ CreateMerchant
           \/ \E s \in Slices, q \in Jobs : RunJob(s, q)
           \/ \E a \in Actors : Work(a) \/ Raise(a)
           \/ \E n \in Windows, backfill \in BOOLEAN : GeneratePos(n, backfill)
           \/ AdminCalls
           \/ Crash
           \/ UNCHANGED vars
<1>1. Slices \subseteq Actors /\ "admin" \in Actors
    BY DEF Slices, Actors
<1> QED
    BY <1>1 DEF Next, Slice, Clockwork

\* What the bookkeeping of the scheduler leaves alone.
LEMMA ClockworkKeeps ==
    ASSUME Clockwork
    PROVE  UNCHANGED <<merchant, ledger, work, admin, crashes, raises>>
BY DEF Clockwork, OpenMerchant, SetClock, SliceStarts, SliceSelects, SliceCommits,
       SliceFails, shop, luck, ledger, work, admin

\* Before the merchant exists nothing is sold, locked or paid.
LEMMA InvInit == Init => IInv
<1> SUFFICES ASSUME Init PROVE IInv
    OBVIOUS
<1>0. 1 \in Days
    BY PosDaysAssumption DEF Days
<1>1. LedgerType
    BY <1>0 DEF Init, LedgerType, Actors, Zero
<1>2. RowsInv
    BY DEF Init, RowsInv
<1>3. PaidOnce
    BY DEF Init, PaidOnce, Locked, Actors, Slices, Zero
<1> QED
    BY <1>1, <1>2, <1>3 DEF IInv

\* The sales that a date has ready for settlement, in numbers.
LEMMA SalesCounted ==
    ASSUME IInv, NEW d \in Days
    PROVE  /\ made[d] \in Nat /\ paid[d] \in Nat /\ Locked(d) \in Nat
           /\ \A a \in Actors : rows[a][d] \in Nat
           /\ paid[d] + Locked(d) <= made[d]
<1>1. made[d] \in Nat /\ paid[d] \in Nat /\ \A a \in Actors : rows[a][d] \in Nat
    BY DEF IInv, LedgerType
<1>2. Locked(d) \in Nat
    BY <1>1 DEF Locked, Actors, Slices
<1> QED
    BY <1>1, <1>2 DEF IInv, PaidOnce

\* What is locked of a date when one actor's rows change.
LEMMA LockedChange ==
    ASSUME IInv, NEW a \in Actors, NEW R \in [Days -> Nat],
           rows' = [rows EXCEPT ![a] = R], NEW d \in Days
    PROVE  Locked(d)' = Locked(d) - rows[a][d] + R[d]
<1>0. rows \in [Actors -> [Days -> Nat]] /\ Actors = {"first", "second", "admin"}
    BY DEF IInv, LedgerType, Actors, Slices
<1>1. rows'[a][d] = R[d] /\ \A b \in Actors : b # a => rows'[b][d] = rows[b][d]
    BY <1>0
<1>2. \A b \in Actors : rows[b][d] \in Nat
    BY <1>0
<1>3. R[d] \in Nat
    OBVIOUS
<1>4. CASE a = "first"
    BY <1>0, <1>1, <1>2, <1>3, <1>4 DEF Locked
<1>5. CASE a = "second"
    BY <1>0, <1>1, <1>2, <1>3, <1>5 DEF Locked
<1>6. CASE a = "admin"
    BY <1>0, <1>1, <1>2, <1>3, <1>6 DEF Locked
<1> QED
    BY <1>0, <1>4, <1>5, <1>6

\* Loading a day of sales disturbs neither sales nor locks.
LEMMA GenerateKeeps ==
    ASSUME IInv, NEW a \in Actors, NEW d \in Days, Generate(a, d), UNCHANGED ledger,
           op[a] = "idle"
    PROVE  IInv'
<1> USE DEF IInv, LedgerType
<1>1. Txns[d] \in Nat
    BY PosDaysAssumption
<1>2. LedgerType'
    BY <1>1 DEF Generate, AfterLoad, ledger
<1>3. RowsInv'
    BY DEF Generate, AfterLoad, RowsInv
<1>4. PaidOnce'
    BY DEF Generate, PaidOnce, Locked, ledger
<1> QED
    BY <1>2, <1>3, <1>4

\* What a settlement locks are pending sales that nobody else has locked.
LEMMA SettleRows ==
    ASSUME IInv, NEW a \in Actors, NEW s \in Days, Settle(a, s), op[a] = "idle"
    PROVE  \E R \in [Days -> Nat] :
              /\ R = [d \in Days |-> IF SettleDate(d) = s THEN Pending(d) ELSE 0]
              /\ rows[a] = Zero
              /\ rows' = [rows EXCEPT ![a] = R]
              /\ op' = [op EXCEPT ![a] = IF R = Zero THEN "idle" ELSE "settling"]
              /\ day' = [day EXCEPT ![a] = s]
              /\ left' = left
              /\ \A d \in Days : Locked(d)' = Locked(d) + R[d]
<1> DEFINE R == [d \in Days |-> IF SettleDate(d) = s THEN Pending(d) ELSE 0]
<1>1. rows[a] = Zero
    BY DEF IInv, RowsInv
<1>2. \A d \in Days : Pending(d) \in Nat
    BY SalesCounted DEF Pending
<1>3. R \in [Days -> Nat]
    BY <1>2
<1>4. /\ rows' = [rows EXCEPT ![a] = R]
      /\ op' = [op EXCEPT ![a] = IF R = Zero THEN "idle" ELSE "settling"]
      /\ day' = [day EXCEPT ![a] = s]
      /\ left' = left
    BY DEF Settle
<1>5. R = [d \in Days |-> IF SettleDate(d) = s THEN Pending(d) ELSE 0]
    OBVIOUS
<1> HIDE DEF R
<1>6. ASSUME NEW d \in Days PROVE Locked(d)' = Locked(d) + R[d]
    <2>1. Locked(d)' = Locked(d) - rows[a][d] + R[d]
        BY <1>3, <1>4, LockedChange
    <2>2. rows[a][d] = 0 /\ Locked(d) \in Nat /\ R[d] \in Nat
        BY <1>1, <1>3, SalesCounted DEF Zero
    <2> QED
        BY <2>1, <2>2
<1> QED
    BY <1>1, <1>3, <1>4, <1>5, <1>6

\* A settlement locks no sale that is paid or locked.
LEMMA SettleKeeps ==
    ASSUME IInv, NEW a \in Actors, NEW s \in Days, Settle(a, s), UNCHANGED ledger,
           op[a] = "idle"
    PROVE  IInv'
<1>1. PICK R \in [Days -> Nat] :
          /\ R = [d \in Days |-> IF SettleDate(d) = s THEN Pending(d) ELSE 0]
          /\ rows' = [rows EXCEPT ![a] = R]
          /\ op' = [op EXCEPT ![a] = IF R = Zero THEN "idle" ELSE "settling"]
          /\ day' = [day EXCEPT ![a] = s]
          /\ left' = left
          /\ \A d \in Days : Locked(d)' = Locked(d) + R[d]
    BY SettleRows
<1>2. LedgerType'
    BY <1>1 DEF ledger, IInv, LedgerType
<1>3. RowsInv'
    BY <1>1 DEF IInv, LedgerType, RowsInv
<1>4. PaidOnce'
    <2> SUFFICES ASSUME NEW d \in Days PROVE paid[d] + Locked(d)' <= made[d]
        BY DEF PaidOnce, ledger
    <2>1. Locked(d)' = Locked(d) + R[d] /\ (R[d] = 0 \/ R[d] = made[d] - paid[d] - Locked(d))
        BY <1>1 DEF Pending
    <2> QED
        BY <2>1, SalesCounted
<1> QED
    BY <1>2, <1>3, <1>4 DEF IInv

\* Steps that leave sales, settlements and locks alone, but for a change of op.
LEMMA QuietKeeps ==
    ASSUME IInv, UNCHANGED <<made, paid, day, left, rows>>,
           \/ op' = op
           \/ \E a \in Actors, s \in {"idle", "promising"} :
                 op[a] # "settling" /\ op' = [op EXCEPT ![a] = s]
    PROVE  IInv'
<1>1. LedgerType'
    BY DEF IInv, LedgerType
<1>2. RowsInv'
    BY DEF IInv, LedgerType, RowsInv
<1>3. PaidOnce'
    BY DEF IInv, PaidOnce, Locked
<1> QED
    BY <1>1, <1>2, <1>3 DEF IInv

\* No step of a generation, a settlement, a slice or a fault pays a sale twice.
LEMMA InvNext == IInv /\ [Next]_vars => IInv'
<1> SUFFICES ASSUME IInv, [Next]_vars PROVE IInv'
    OBVIOUS
<1> USE DEF queue, ledger, work, admin
<1>0. Zero \in [Days -> Nat]
    BY DEF Zero
<1>1. CASE CreateMerchant \/ UNCHANGED vars
    BY <1>1, QuietKeeps DEF CreateMerchant, vars
<1>2. CASE Clockwork
    BY <1>2, ClockworkKeeps, QuietKeeps
<1>3. ASSUME NEW s \in Slices, NEW q \in Jobs, RunJob(s, q) PROVE IInv'
    <2>1. s \in Actors /\ q[2] \in Days /\ op[s] = "idle" /\ UNCHANGED ledger
        BY <1>3 DEF RunJob, Jobs, Actors
    <2>2. Generate(s, q[2]) \/ Settle(s, q[2])
        BY <1>3 DEF RunJob, Begin
    <2> QED
        BY <2>1, <2>2, GenerateKeeps, SettleKeeps
<1>5. ASSUME NEW n \in Windows, NEW backfill \in BOOLEAN, GeneratePos(n, backfill) PROVE IInv'
    BY <1>5, QuietKeeps DEF GeneratePos
<1>6. CASE AdminCalls
    <2>1. CASE UNCHANGED work
        BY <1>6, <2>1, QuietKeeps DEF AdminCalls
    <2>2. CASE Begin("admin", Head(plan))
        <3>1. /\ "admin" \in Actors
              /\ Head(plan)[2] \in Days
              /\ op["admin"] = "idle"
              /\ UNCHANGED ledger
            BY <1>6 DEF AdminCalls, Jobs, Actors
        <3>2. Generate("admin", Head(plan)[2]) \/ Settle("admin", Head(plan)[2])
            BY <2>2 DEF Begin
        <3> QED
            BY <3>1, <3>2, GenerateKeeps, SettleKeeps
    <2> QED
        BY <1>6, <2>1, <2>2 DEF AdminCalls
<1>7. ASSUME NEW a \in Actors, WriteBatch(a) PROVE IInv'
    <2> DEFINE n == BatchOf(left[a])
    <2>0. left[a] \in Nat /\ day[a] \in Days
        BY DEF IInv, LedgerType
    <2>1. n \in Nat /\ n <= left[a]
        BY <2>0, PosDaysAssumption DEF BatchOf
    <2>2. /\ made' = [made EXCEPT ![day[a]] = @ + n]
          /\ left' = [left EXCEPT ![a] = @ - n]
          /\ op' = [op EXCEPT ![a] = IF n = left[a] THEN "chaining" ELSE "writing"]
          /\ op[a] = "writing"
          /\ UNCHANGED <<paid, day, rows>>
        BY <1>7 DEF WriteBatch
    <2> HIDE DEF n
    <2>3. LedgerType'
        BY <2>0, <2>1, <2>2 DEF IInv, LedgerType
    <2>4. RowsInv'
        BY <2>2 DEF IInv, LedgerType, RowsInv
    <2>5. \A d \in Days : made'[d] \in Nat /\ made'[d] >= made[d]
        BY <2>0, <2>1, <2>2 DEF IInv, LedgerType
    <2>6. PaidOnce'
        <3> SUFFICES ASSUME NEW d \in Days PROVE paid[d] + Locked(d) <= made'[d]
            BY <2>2 DEF PaidOnce, Locked
        <3> QED
            BY <2>5, SalesCounted
    <2> QED
        BY <2>3, <2>4, <2>6 DEF IInv
<1>8. ASSUME NEW a \in Actors, ChainDay(a) \/ PromiseSettlement(a) PROVE IInv'
    BY <1>8, QuietKeeps DEF ChainDay, PromiseSettlement
<1>9. ASSUME NEW a \in Actors, SettleCommits(a) PROVE IInv'
    <2>1. /\ paid' = [d \in Days |-> paid[d] + rows[a][d]]
          /\ rows' = [rows EXCEPT ![a] = Zero]
          /\ op' = [op EXCEPT ![a] = "idle"]
          /\ UNCHANGED <<made, day, left>>
        BY <1>9 DEF SettleCommits
    <2>2. LedgerType'
        BY <2>1 DEF IInv, LedgerType, Zero
    <2>3. RowsInv'
        BY <2>1 DEF IInv, LedgerType, RowsInv
    <2>4. PaidOnce'
        <3> SUFFICES ASSUME NEW d \in Days PROVE paid'[d] + Locked(d)' <= made[d]
            BY <2>1 DEF PaidOnce
        <3>1. Locked(d)' = Locked(d) - rows[a][d] + Zero[d]
            BY <1>0, <2>1, LockedChange
        <3>2. paid'[d] = paid[d] + rows[a][d] /\ Zero[d] = 0
            BY <2>1 DEF Zero
        <3>3. rows[a][d] \in Nat
            BY SalesCounted
        <3> QED
            BY <3>1, <3>2, <3>3, SalesCounted
    <2> QED
        BY <2>2, <2>3, <2>4 DEF IInv
<1>11. ASSUME NEW a \in Actors, Raise(a) PROVE IInv'
    <2>1. /\ rows' = [rows EXCEPT ![a] = Zero]
          /\ op' = [op EXCEPT ![a] = "idle"]
          /\ UNCHANGED <<made, paid, day, left>>
        BY <1>11 DEF Raise
    <2>2. LedgerType'
        BY <2>1 DEF IInv, LedgerType, Zero
    <2>3. RowsInv'
        BY <2>1 DEF IInv, LedgerType, RowsInv
    <2>4. PaidOnce'
        <3> SUFFICES ASSUME NEW d \in Days PROVE paid[d] + Locked(d)' <= made[d]
            BY <2>1 DEF PaidOnce
        <3>1. Locked(d)' = Locked(d) - rows[a][d] + Zero[d]
            BY <1>0, <2>1, LockedChange
        <3>2. Zero[d] = 0 /\ rows[a][d] \in Nat
            BY SalesCounted DEF Zero
        <3> QED
            BY <3>1, <3>2, SalesCounted
    <2> QED
        BY <2>2, <2>3, <2>4 DEF IInv
<1>12. CASE Crash
    <2>1. /\ op' = [a \in Actors |-> "idle"]
          /\ rows' = [a \in Actors |-> Zero]
          /\ UNCHANGED <<made, paid, day, left>>
        BY <1>12 DEF Crash
    <2>2. LedgerType'
        BY <2>1 DEF IInv, LedgerType, Zero
    <2>3. RowsInv'
        BY <2>1 DEF IInv, LedgerType, RowsInv
    <2>4. PaidOnce'
        <3> SUFFICES ASSUME NEW d \in Days PROVE paid[d] + Locked(d)' <= made[d]
            BY <2>1 DEF PaidOnce
        <3>1. Locked(d)' = 0
            BY <2>1 DEF Locked, Zero, Actors, Slices
        <3> QED
            BY <3>1, SalesCounted
    <2> QED
        BY <2>2, <2>3, <2>4 DEF IInv
<1> QED
    BY NextCases, <1>1, <1>2, <1>3, <1>5, <1>6, <1>7, <1>8, <1>9, <1>11, <1>12 DEF Work
-----------------------------------------------------------------------------
\* Types of the rest of the state; slices have locked jobs that exist.
RestType ==
    /\ clock \in 1 .. LastDay
    /\ merchant \in BOOLEAN
    /\ opened \in 0 .. LastDay
    /\ end \in [Slices -> 0 .. LastDay]
    /\ jobs \in [Jobs -> Nat]
    /\ taken \in [Slices -> [Jobs -> Nat]]
    /\ todo \in [Slices -> [Jobs -> Nat]]
    /\ \A q \in Jobs : taken["first"][q] + taken["second"][q] <= jobs[q]
    /\ batches \in [Days -> Nat]
    /\ plan \in Seq(Kinds \X Nat)
    /\ drawn \in Nat
    /\ <<calls, crashes, raises, sets, slips>> \in Nat \X Nat \X Nat \X Nat \X Nat

\* The jobs of one date and kind, counted in numbers.
LEMMA Counts ==
    ASSUME RestType, NEW q \in Jobs
    PROVE  /\ jobs[q] \in Nat /\ Free(q) \in Nat
           /\ \A s \in Slices : taken[s][q] \in Nat /\ todo[s][q] \in Nat
           /\ taken["first"][q] + taken["second"][q] <= jobs[q]
<1>1. /\ jobs[q] \in Nat
      /\ \A s \in Slices : taken[s][q] \in Nat /\ todo[s][q] \in Nat
      /\ taken["first"][q] + taken["second"][q] <= jobs[q]
    BY DEF RestType
<1>2. Free(q) \in Nat
    BY <1>1 DEF Free, Slices
<1> QED
    BY <1>1, <1>2

\* Nothing is ever scheduled, locked or done before its time.
LEMMA Numbers ==
    ASSUME RestType
    PROVE  /\ clock \in Nat /\ opened \in Nat /\ LastDay \in Nat /\ clock \in Days
           /\ Tomorrow \in 1 .. LastDay /\ Tomorrow \in {clock, clock + 1}
           /\ \A s \in Slices : end[s] \in Nat
           /\ drawn \in Nat /\ calls \in Nat /\ crashes \in Nat /\ raises \in Nat
           /\ sets \in Nat /\ slips \in Nat
<1>1. /\ clock \in 1 .. LastDay /\ opened \in 0 .. LastDay /\ LastDay \in Nat \ {0}
      /\ LastDay <= Horizon /\ Horizon \in Nat
    BY PosDaysAssumption DEF RestType
<1>2. clock \in Nat /\ opened \in Nat /\ clock \in Days
    BY <1>1 DEF Days
<1>3. Tomorrow \in 1 .. LastDay /\ Tomorrow \in {clock, clock + 1}
    BY <1>1 DEF Tomorrow
<1>4. \A s \in Slices : end[s] \in Nat
    <2>1. \A s \in Slices : end[s] \in 0 .. LastDay
        BY DEF RestType
    <2> QED
        BY <1>1, <2>1
<1>5. /\ drawn \in Nat /\ calls \in Nat /\ crashes \in Nat /\ raises \in Nat
      /\ sets \in Nat /\ slips \in Nat
    BY DEF RestType
<1> QED
    BY <1>1, <1>2, <1>3, <1>4, <1>5

\* Before the merchant exists nothing is scheduled.
LEMMA RestInit == Init => RestType
<1> SUFFICES ASSUME Init PROVE RestType
    OBVIOUS
<1>1. 1 \in 1 .. LastDay /\ 0 \in 0 .. LastDay
    BY PosDaysAssumption
<1>2. NoJobs \in [Jobs -> Nat] /\ \A q \in Jobs : NoJobs[q] + NoJobs[q] <= NoJobs[q]
    BY DEF NoJobs
<1>3. Zero \in [Days -> Nat] /\ <<>> \in Seq(Kinds \X Nat)
    BY DEF Zero
<1>4. /\ clock = 1 /\ merchant = FALSE /\ opened = 0 /\ end = [s \in Slices |-> 0]
      /\ jobs = NoJobs /\ taken = [s \in Slices |-> NoJobs]
      /\ todo = [s \in Slices |-> NoJobs] /\ batches = Zero /\ plan = <<>>
      /\ drawn = 0 /\ calls = 0 /\ crashes = 0 /\ raises = 0 /\ sets = 0 /\ slips = 0
    BY DEF Init
<1>5. "first" \in Slices /\ "second" \in Slices
    BY DEF Slices
<1> HIDE DEF NoJobs, Zero
<1>6. /\ end \in [Slices -> 0 .. LastDay]
      /\ taken \in [Slices -> [Jobs -> Nat]] /\ todo \in [Slices -> [Jobs -> Nat]]
    BY <1>1, <1>2, <1>4
<1>7. \A q \in Jobs : taken["first"][q] + taken["second"][q] <= jobs[q]
    BY <1>2, <1>4, <1>5
<1> QED
    BY <1>1, <1>2, <1>3, <1>4, <1>6, <1>7 DEF RestType

\* A backfill or a forward run plans dates that are numbers.
LEMMA PlanTyped ==
    ASSUME NEW n \in Nat \ {0}, NEW first \in Nat
    PROVE  /\ Generations(first, n) \in Seq(Kinds \X Nat)
           /\ Drains(first, n) \in Seq(Kinds \X Nat)
<1>1. \A i \in 1 .. n : <<"gen", first + i - 1>> \in Kinds \X Nat
    BY DEF Kinds
<1>2. Generations(first, n) \in [1 .. n -> Kinds \X Nat]
    BY <1>1 DEF Generations
<1>3. \A i \in 1 .. 3 * n : (i - 1) \div 3 \in Nat /\ (i - 1) % 3 \in Nat
    OBVIOUS
<1>4. \A i \in 1 .. 3 * n :
          <<"settle", first + ((i - 1) \div 3) + ((i - 1) % 3)>> \in Kinds \X Nat
    BY <1>3 DEF Kinds
<1>5. Drains(first, n) \in [1 .. 3 * n -> Kinds \X Nat]
    BY <1>4 DEF Drains
<1>6. n \in Nat /\ 3 * n \in Nat
    OBVIOUS
<1> QED
    BY <1>2, <1>5, <1>6

\* Steps that move neither the clock nor jobs nor the plan.
LEMMA RestKeeps ==
    ASSUME RestType, UNCHANGED <<clock, shop, end, queue, plan, crashes, sets, slips>>,
           batches' \in [Days -> Nat], drawn' \in Nat, calls' \in Nat, raises' \in Nat
    PROVE  RestType'
    BY DEF RestType, queue, shop

\* Another pending job does not make a slice lock more than there is.
LEMMA ScheduledKeeps ==
    ASSUME RestType, NEW q \in Jobs, Scheduled(q),
           UNCHANGED <<clock, end, taken, todo, plan, crashes, batches, calls, raises, sets>>,
           merchant' \in BOOLEAN, opened' \in {0, opened}, drawn' \in Nat, slips' \in Nat
    PROVE  RestType'
<1>1. jobs' = [jobs EXCEPT ![q] = @ + 1]
    BY DEF Scheduled
<1>2. jobs' \in [Jobs -> Nat] /\ \A r \in Jobs : jobs'[r] >= jobs[r]
    <2>1. jobs \in [Jobs -> Nat]
        BY DEF RestType
    <2> HIDE DEF Jobs
    <2> QED
        BY <1>1, <2>1
<1>3. \A r \in Jobs : taken["first"][r] + taken["second"][r] <= jobs'[r]
    <2> TAKE r \in Jobs
    <2>1. jobs'[r] \in Nat /\ jobs'[r] >= jobs[r]
        BY <1>2
    <2> QED
        BY <2>1, Counts DEF Slices
<1>4. opened' \in 0 .. LastDay
    <2>1. opened \in 0 .. LastDay /\ LastDay \in Nat
        BY Numbers DEF RestType
    <2>2. 0 \in 0 .. LastDay
        BY <2>1
    <2> QED
        BY <2>1, <2>2
<1> QED
    BY <1>2, <1>3, <1>4 DEF RestType

\* What a slice selects: jobs that are due and nobody has locked.
LEMMA SelectedJobs ==
    ASSUME RestType, NEW s \in Slices, SliceSelects(s)
    PROVE  \E T \in [Jobs -> Nat] :
              /\ \A q \in Jobs : T[q] = IF Due(s, q[2]) THEN Free(q) ELSE 0
              /\ taken' = [taken EXCEPT ![s] = T]
              /\ todo' = [todo EXCEPT ![s] = T]
<1> DEFINE T == [q \in Jobs |-> IF Due(s, q[2]) THEN Free(q) ELSE 0]
<1>1. T \in [Jobs -> Nat]
    BY Counts
<1>2. taken' = [taken EXCEPT ![s] = T] /\ todo' = [todo EXCEPT ![s] = T]
    BY DEF SliceSelects
<1> QED
    BY <1>1, <1>2

\* The scheduler's bookkeeping keeps the types.
LEMMA ClockworkTyped ==
    ASSUME RestType, Clockwork
    PROVE  RestType'
<1> USE DEF queue, ledger, work, admin, shop, luck
<1>0. /\ NoJobs \in [Jobs -> Nat] /\ \A q \in Jobs : NoJobs[q] = 0
      /\ "first" \in Slices /\ "second" \in Slices /\ Slices = {"first", "second"}
      /\ taken \in [Slices -> [Jobs -> Nat]] /\ todo \in [Slices -> [Jobs -> Nat]]
      /\ end \in [Slices -> 0 .. LastDay]
    BY DEF NoJobs, Slices, RestType
<1> HIDE DEF NoJobs
<1>1. CASE OpenMerchant
    BY <1>1, Numbers DEF OpenMerchant, RestType
<1>2. CASE SetClock
    <2>1. clock' \in 1 .. LastDay /\ sets' \in Nat
        BY <1>2, Numbers DEF SetClock
    <2> QED
        BY <1>2, <2>1 DEF SetClock, RestType
<1>3. ASSUME NEW s \in Slices, SliceStarts(s) PROVE RestType'
    <2>1. end' = [end EXCEPT ![s] = Tomorrow] /\ Tomorrow \in 0 .. LastDay
        BY <1>3, Numbers DEF SliceStarts
    <2>2. end' \in [Slices -> 0 .. LastDay]
        BY <1>0, <2>1
    <2>3. slips' \in Nat
        BY <1>3, Numbers DEF SliceStarts
    <2> QED
        BY <1>3, <2>2, <2>3 DEF SliceStarts, RestType
<1>4. ASSUME NEW s \in Slices, SliceSelects(s) PROVE RestType'
    <2>1. PICK T \in [Jobs -> Nat] :
             /\ \A q \in Jobs : T[q] = IF Due(s, q[2]) THEN Free(q) ELSE 0
             /\ taken' = [taken EXCEPT ![s] = T]
             /\ todo' = [todo EXCEPT ![s] = T]
        BY <1>4, SelectedJobs
    <2>2. taken' \in [Slices -> [Jobs -> Nat]] /\ todo' \in [Slices -> [Jobs -> Nat]]
        BY <1>0, <2>1
    <2>3. ASSUME NEW q \in Jobs PROVE taken'["first"][q] + taken'["second"][q] <= jobs[q]
        <3>1. T[q] \in Nat /\ T[q] <= Free(q)
            BY <2>1, Counts
        <3>2. s = "first" => taken'["first"][q] = T[q] /\ taken'["second"][q] = taken["second"][q]
            BY <1>0, <2>1
        <3>3. s = "second" => taken'["second"][q] = T[q] /\ taken'["first"][q] = taken["first"][q]
            BY <1>0, <2>1
        <3>4. /\ jobs[q] \in Nat /\ taken["first"][q] \in Nat /\ taken["second"][q] \in Nat
              /\ Free(q) = jobs[q] - taken["first"][q] - taken["second"][q]
            BY <1>0, Counts DEF Free
        <3>5. CASE s = "first"
            BY <3>1, <3>2, <3>4, <3>5
        <3>6. CASE s = "second"
            BY <3>1, <3>3, <3>4, <3>6
        <3> QED
            BY <1>0, <3>5, <3>6
    <2>4. end' \in [Slices -> 0 .. LastDay] /\ clock' \in 1 .. LastDay
        <3>1. end' = [end EXCEPT ![s] = 0] /\ clock' = Tomorrow /\ 0 \in 0 .. LastDay
            BY <1>4, Numbers DEF SliceSelects
        <3> QED
            BY <1>0, <3>1, Numbers
    <2> QED
        BY <1>4, <2>2, <2>3, <2>4 DEF SliceSelects, RestType
<1>5. ASSUME NEW s \in Slices, SliceCommits(s) PROVE RestType'
    <2>1. jobs' = [q \in Jobs |-> jobs[q] - taken[s][q]] /\ taken' = [taken EXCEPT ![s] = NoJobs]
        BY <1>5 DEF SliceCommits
    <2>2. taken' \in [Slices -> [Jobs -> Nat]]
        BY <1>0, <2>1
    <2>3. ASSUME NEW q \in Jobs
          PROVE  jobs'[q] \in Nat /\ taken'["first"][q] + taken'["second"][q] <= jobs'[q]
        <3>1. jobs'[q] = jobs[q] - taken[s][q]
            BY <2>1
        <3>2. s = "first" => taken'["first"][q] = 0 /\ taken'["second"][q] = taken["second"][q]
            BY <1>0, <2>1
        <3>3. s = "second" => taken'["second"][q] = 0 /\ taken'["first"][q] = taken["first"][q]
            BY <1>0, <2>1
        <3>4. /\ jobs[q] \in Nat /\ taken["first"][q] \in Nat /\ taken["second"][q] \in Nat
              /\ taken["first"][q] + taken["second"][q] <= jobs[q]
            BY <1>0, Counts
        <3>5. CASE s = "first"
            BY <3>1, <3>2, <3>4, <3>5
        <3>6. CASE s = "second"
            BY <3>1, <3>3, <3>4, <3>6
        <3> QED
            BY <1>0, <3>5, <3>6
    <2>4. jobs' \in [Jobs -> Nat]
        BY <2>1, <2>3
    <2> QED
        BY <1>5, <2>2, <2>3, <2>4 DEF SliceCommits, RestType
<1>6. ASSUME NEW s \in Slices, SliceFails(s) PROVE RestType'
    <2>1. /\ taken' = [taken EXCEPT ![s] = NoJobs] /\ end' = [end EXCEPT ![s] = 0]
          /\ slips' \in Nat /\ 0 \in 0 .. LastDay
        BY <1>6, Numbers DEF SliceFails
    <2>2. taken' \in [Slices -> [Jobs -> Nat]] /\ end' \in [Slices -> 0 .. LastDay]
        BY <1>0, <2>1
    <2>3. ASSUME NEW q \in Jobs PROVE taken'["first"][q] + taken'["second"][q] <= jobs[q]
        <3>1. taken'["first"][q] \in {0, taken["first"][q]}
              /\ taken'["second"][q] \in {0, taken["second"][q]}
            BY <1>0, <2>1
        <3> QED
            BY <1>0, <3>1, Counts
    <2> QED
        BY <1>6, <2>1, <2>2, <2>3 DEF SliceFails, RestType
<1> QED
    BY <1>1, <1>2, <1>3, <1>4, <1>5, <1>6 DEF Clockwork

\* Every step keeps the types.
LEMMA RestNext == IInv /\ RestType /\ [Next]_vars => RestType'
<1> SUFFICES ASSUME IInv, RestType, [Next]_vars PROVE RestType'
    OBVIOUS
<1> USE DEF queue, ledger, work, admin, shop, luck
<1>0. /\ drawn \in Nat /\ calls \in Nat /\ raises \in Nat /\ crashes \in Nat /\ slips \in Nat
      /\ clock \in Nat /\ LastDay \in Nat /\ batches \in [Days -> Nat]
    BY Numbers DEF RestType
<1>1. CASE CreateMerchant
    <2>1. opened \in Days
        BY <1>1, Numbers, PosDaysAssumption DEF CreateMerchant, RestType, Days
    <2>2. <<"gen", opened>> \in Jobs
        BY <2>1 DEF Jobs, Kinds
    <2>3. slips' \in Nat
        BY <1>0, <1>1 DEF CreateMerchant
    <2> QED
        BY <1>0, <1>1, <2>2, <2>3, ScheduledKeeps DEF CreateMerchant
<1>2. CASE Clockwork
    BY <1>2, ClockworkTyped
<1>3. ASSUME NEW s \in Slices, NEW q \in Jobs, RunJob(s, q) PROVE RestType'
    <2>1. todo' = [todo EXCEPT ![s][q] = @ - 1] /\ todo[s][q] > 0
        BY <1>3 DEF RunJob
    <2>2. todo' \in [Slices -> [Jobs -> Nat]]
        BY <2>1 DEF RestType
    <2> QED
        BY <1>3, <2>2 DEF RunJob, RestType
<1>5. ASSUME NEW n \in Windows, NEW backfill \in BOOLEAN, GeneratePos(n, backfill)
      PROVE  RestType'
    <2>1. n \in Nat \ {0}
        BY PosDaysAssumption
    <2>2. plan' \in Seq(Kinds \X Nat)
        <3>1. CASE backfill
            <4>1. clock - n + 1 \in Nat
                BY <1>0, <1>5, <2>1, <3>1 DEF GeneratePos
            <4>2. /\ Generations(clock - n + 1, n) \in Seq(Kinds \X Nat)
                  /\ Drains(clock - n + 1, n) \in Seq(Kinds \X Nat)
                BY <2>1, <4>1, PlanTyped
            <4>3. plan' = Generations(clock - n + 1, n) \o Drains(clock - n + 1, n)
                BY <1>5, <3>1 DEF GeneratePos
            <4> QED
                BY <4>2, <4>3
        <3>2. CASE ~backfill
            BY <1>0, <1>5, <2>1, <3>2, PlanTyped DEF GeneratePos
        <3> QED
            BY <3>1, <3>2
    <2>3. drawn' \in Nat /\ calls' \in Nat
        BY <1>0, <1>5 DEF GeneratePos
    <2> QED
        BY <1>5, <2>2, <2>3 DEF GeneratePos, RestType
<1>6. CASE AdminCalls
    <2>0. plan \in Seq(Kinds \X Nat) /\ plan # <<>>
        BY <1>6 DEF AdminCalls, RestType
    <2>1. plan' \in Seq(Kinds \X Nat)
        <3>1. plan' = <<>> \/ plan' = Tail(plan)
            BY <1>6 DEF AdminCalls
        <3>2. <<>> \in Seq(Kinds \X Nat)
            OBVIOUS
        <3>3. Tail(plan) \in Seq(Kinds \X Nat)
            <4> DEFINE E == Kinds \X Nat
            <4>1. plan \in Seq(E) /\ plan # <<>>
                BY <2>0
            <4> HIDE DEF E
            <4>2. Tail(plan) \in Seq(E)
                BY <4>1
            <4> QED
                BY <4>2 DEF E
        <3> QED
            BY <3>1, <3>2, <3>3
    <2> QED
        BY <1>6, <2>1 DEF AdminCalls, RestType
<1>7. ASSUME NEW a \in Actors, WriteBatch(a) PROVE RestType'
    <2>1. /\ UNCHANGED <<clock, shop, end, queue, plan, crashes, sets, slips, batches>>
          /\ UNCHANGED <<drawn, calls, raises>>
        BY <1>7 DEF WriteBatch
    <2> QED
        BY <1>0, <2>1, RestKeeps
<1>8. ASSUME NEW a \in Actors, ChainDay(a) PROVE RestType'
    <2>1. <<"gen", day[a] + 1>> \in Jobs
        BY <1>8 DEF ChainDay, Jobs, Kinds
    <2> QED
        BY <1>0, <1>8, <2>1, ScheduledKeeps DEF ChainDay, RestType
<1>9. ASSUME NEW a \in Actors, PromiseSettlement(a) PROVE RestType'
    <2>1. <<"settle", Promised(day[a])>> \in Jobs
        BY <1>9 DEF PromiseSettlement, Jobs, Kinds
    <2>2. Txns[day[a]] \in Nat
        BY PosDaysAssumption DEF IInv, LedgerType
    <2>3. drawn' \in Nat
        BY <1>0, <1>9, <2>2 DEF PromiseSettlement
    <2> QED
        BY <1>0, <1>9, <2>1, <2>3, ScheduledKeeps DEF PromiseSettlement, RestType
<1>10. ASSUME NEW a \in Actors, SettleCommits(a) PROVE RestType'
    <2>1. batches' = [batches EXCEPT ![day[a]] = @ + 1] /\ batches \in [Days -> Nat]
        BY <1>10 DEF SettleCommits, RestType
    <2>2. batches' \in [Days -> Nat]
        <3>1. day[a] \in Days
            BY DEF IInv, LedgerType
        <3> QED
            BY <2>1, <3>1
    <2>3. /\ UNCHANGED <<clock, shop, end, queue, plan, crashes, sets, slips>>
          /\ UNCHANGED <<drawn, calls, raises>>
        BY <1>10 DEF SettleCommits
    <2> QED
        BY <1>0, <2>2, <2>3, RestKeeps
<1>11. ASSUME NEW a \in Actors, Raise(a) PROVE RestType'
    BY <1>0, <1>11, RestKeeps DEF Raise
<1>12. CASE Crash
    <2>1. NoJobs \in [Jobs -> Nat] /\ \A q \in Jobs : NoJobs[q] = 0
        BY DEF NoJobs
    <2>2. 1 \in 1 .. LastDay /\ 0 \in 0 .. LastDay
        BY PosDaysAssumption
    <2>3. <<>> \in Seq(Kinds \X Nat)
        OBVIOUS
    <2>4. /\ clock' = 1 /\ opened' = 0 /\ end' = [s \in Slices |-> 0]
          /\ taken' = [s \in Slices |-> NoJobs] /\ todo' = [s \in Slices |-> NoJobs]
          /\ plan' = <<>>
          /\ crashes' \in Nat
          /\ UNCHANGED <<merchant, jobs, batches, drawn, calls, raises, sets, slips>>
        BY <1>0, <1>12 DEF Crash
    <2> HIDE DEF NoJobs
    <2>5. /\ end' \in [Slices -> 0 .. LastDay]
          /\ taken' \in [Slices -> [Jobs -> Nat]] /\ todo' \in [Slices -> [Jobs -> Nat]]
        BY <2>1, <2>2, <2>4
    <2>6. \A q \in Jobs : taken'["first"][q] + taken'["second"][q] <= jobs[q]
        <3>1. \A q \in Jobs : taken'["first"][q] = 0 /\ taken'["second"][q] = 0
            BY <2>1, <2>4 DEF Slices
        <3> QED
            BY <3>1, Counts
    <2> QED
        BY <2>2, <2>3, <2>4, <2>5, <2>6 DEF RestType
<1>13. CASE UNCHANGED vars
    BY <1>0, <1>13, RestKeeps DEF vars
<1> QED
    BY NextCases, <1>1, <1>2, <1>3, <1>5, <1>6, <1>7, <1>8, <1>9, <1>10, <1>11, <1>12, <1>13
    DEF Work
-----------------------------------------------------------------------------
\* The inductive invariant: types of the ledger, locks only while settling, and
\* nothing settled or locked that was not made.
THEOREM Invariance == Spec => []IInv
<1>1. Init => IInv
    BY InvInit
<1>2. IInv /\ [Next]_vars => IInv'
    BY InvNext
<1> QED
    BY <1>1, <1>2, PTL DEF Spec

\* No sale is settled twice, although two slices and generate-pos settle the same dates
\* at the same time.
THEOREM Settlement == Spec => []PaidOnce
<1>1. IInv => PaidOnce
    BY DEF IInv
<1> QED
    BY <1>1, Invariance, PTL

\* Every variable keeps its type, and slices never lock a job that does not exist, or
\* one job both.
THEOREM Typing == Spec => []TypeOK
<1>1. Init => IInv /\ RestType
    BY InvInit, RestInit
<1>2. (IInv /\ RestType) /\ [Next]_vars => (IInv /\ RestType)'
    BY InvNext, RestNext
<1>3. IInv /\ RestType => TypeOK
    BY DEF IInv, RestType, TypeOK
<1> QED
    BY <1>1, <1>2, <1>3, PTL DEF Spec
-----------------------------------------------------------------------------
(***************************************************************************)
(* Nothing is forgotten: the chain of days, and every sale on its way.     *)
(***************************************************************************)

\* A date and a kind make a job.
LEMMA JobOf == \A d \in Days : <<"gen", d>> \in Jobs /\ <<"settle", d>> \in Jobs
BY DEF Jobs, Kinds

\* Slices are actors, there are two of them, and nobody else is but the administrator.
LEMMA TwoSlices ==
    /\ "first" \in Slices /\ "second" \in Slices /\ Slices \subseteq Actors
    /\ "admin" \in Actors /\ Actors = {"first", "second", "admin"}
    /\ \A s \in Slices : Other(s) \in Slices /\ Other(s) # s
    /\ \A s, x \in Slices : x = s \/ x = Other(s)
BY DEF Slices, Actors, Other

\* The jobs that will still be run, seen from one slice.
LEMMA WaitingOf ==
    ASSUME RestType, NEW q \in Jobs, NEW s \in Slices
    PROVE  Waiting(q) = jobs[q] - taken[s][q] - taken[Other(s)][q]
                           + todo[s][q] + todo[Other(s)][q]
<1>1. /\ jobs[q] \in Nat /\ taken["first"][q] \in Nat /\ taken["second"][q] \in Nat
      /\ todo["first"][q] \in Nat /\ todo["second"][q] \in Nat
    BY Counts, TwoSlices
<1>2. Waiting(q) = jobs[q] - taken["first"][q] - taken["second"][q]
                      + todo["first"][q] + todo["second"][q]
    BY DEF Waiting, Free
<1>3. CASE s = "first"
    BY <1>1, <1>2, <1>3 DEF Other
<1>4. CASE s = "second"
    BY <1>1, <1>2, <1>4 DEF Other
<1> QED
    BY <1>3, <1>4 DEF Slices

\* Scheduling a job lets it wait and takes no other job away.
LEMMA ScheduledWaits ==
    ASSUME RestType, JobsHeld, NEW q \in Jobs, Scheduled(q), UNCHANGED <<taken, todo>>
    PROVE  Queued(q)' /\ \A r \in Jobs : Queued(r) => Queued(r)'
<1>1. jobs' = [jobs EXCEPT ![q] = @ + 1] /\ jobs \in [Jobs -> Nat]
    BY DEF Scheduled, RestType
<1>2. jobs'[q] = jobs[q] + 1 /\ \A r \in Jobs : r # q => jobs'[r] = jobs[r]
    BY <1>1
<1>3. \A r \in Jobs : Waiting(r)' = jobs'[r] - taken["first"][r] - taken["second"][r]
                                       + todo["first"][r] + todo["second"][r]
    BY DEF Waiting, Free
<1>4. Queued(q)'
    <2>1. /\ jobs[q] \in Nat /\ taken["first"][q] \in Nat /\ taken["second"][q] \in Nat
          /\ todo["first"][q] \in Nat /\ todo["second"][q] \in Nat
          /\ taken["first"][q] + taken["second"][q] <= jobs[q]
        BY Counts, TwoSlices
    <2>2. Waiting(q)' > 0
        BY <1>2, <1>3, <2>1
    <2> QED
        BY <2>2 DEF Queued
<1>5. ASSUME NEW r \in Jobs, Queued(r) PROVE Queued(r)'
    BY <1>2, <1>3, <1>4, <1>5 DEF Queued, Waiting, Free
<1> QED
    BY <1>4, <1>5

\* Whatever slices lock, commit or lose, no job is taken off the queue.
LEMMA ClockworkQueues ==
    ASSUME RestType, JobsHeld, Clockwork, NEW r \in Jobs, Waiting(r) > 0
    PROVE  Waiting(r)' > 0
<1> USE DEF queue
<1>1. ASSUME UNCHANGED queue PROVE Waiting(r)' > 0
    BY <1>1 DEF Waiting, Free
<1>2. CASE OpenMerchant \/ SetClock \/ \E s \in Slices : SliceStarts(s)
    BY <1>1, <1>2 DEF OpenMerchant, SetClock, SliceStarts
<1>3. ASSUME NEW s \in Slices, SliceSelects(s) \/ SliceCommits(s) \/ SliceFails(s)
      PROVE  Waiting(r)' > 0
    <2> DEFINE o == Other(s)
    <2>0. /\ o \in Slices /\ o # s
          /\ jobs[r] \in Nat /\ taken[s][r] \in Nat /\ todo[s][r] \in Nat
          /\ taken[o][r] \in Nat /\ todo[o][r] \in Nat /\ Free(r) \in Nat
        BY TwoSlices, Counts
    <2>1. RestType'
        BY <1>3, ClockworkTyped DEF Clockwork
    <2>2. /\ taken \in [Slices -> [Jobs -> Nat]] /\ todo \in [Slices -> [Jobs -> Nat]]
        BY DEF RestType
    <2>3. Waiting(r) = jobs[r] - taken[s][r] - taken[o][r] + todo[s][r] + todo[o][r]
        BY WaitingOf
    <2>4. Waiting(r)' = jobs'[r] - taken'[s][r] - taken'[o][r] + todo'[s][r] + todo'[o][r]
        <3>1. RestType' => Waiting(r)' = jobs'[r] - taken'[s][r] - taken'[o][r]
                                            + todo'[s][r] + todo'[o][r]
            <4>1. Waiting(r)' = jobs'[r] - taken'["first"][r] - taken'["second"][r]
                                   + todo'["first"][r] + todo'["second"][r]
                BY DEF Waiting, Free
            <4>2. RestType' => /\ taken'["first"][r] \in Nat /\ taken'["second"][r] \in Nat
                               /\ todo'["first"][r] \in Nat /\ todo'["second"][r] \in Nat
                               /\ jobs'[r] \in Nat
                BY DEF RestType, Slices
            <4>3. CASE s = "first"
                BY <4>1, <4>2, <4>3 DEF Other
            <4>4. CASE s = "second"
                BY <4>1, <4>2, <4>4 DEF Other
            <4> QED
                BY <4>3, <4>4 DEF Slices
        <3> QED
            BY <2>1, <3>1
    <2> HIDE DEF o
    <2>5. CASE SliceSelects(s)
        <3>1. PICK T \in [Jobs -> Nat] :
                 /\ taken' = [taken EXCEPT ![s] = T]
                 /\ todo' = [todo EXCEPT ![s] = T]
            BY <2>5, SelectedJobs
        <3>2. /\ taken'[s][r] = T[r] /\ todo'[s][r] = T[r] /\ T[r] \in Nat
              /\ taken'[o] = taken[o] /\ todo'[o] = todo[o]
            BY <2>0, <2>2, <3>1
        <3>3. jobs' = jobs /\ end[s] # 0
            BY <2>5 DEF SliceSelects
        <3>4. taken[s][r] = 0
            BY <3>3 DEF JobsHeld, HoldsJobs, NoJobs
        <3>5. todo[s][r] <= taken[s][r]
            BY DEF JobsHeld, HoldsJobs
        <3> QED
            BY <2>0, <2>3, <2>4, <3>2, <3>3, <3>4, <3>5
    <2>6. CASE SliceCommits(s)
        <3>1. /\ todo[s] = NoJobs /\ todo' = todo
              /\ jobs'[r] = jobs[r] - taken[s][r]
              /\ taken' = [taken EXCEPT ![s] = NoJobs]
            BY <2>6 DEF SliceCommits, Idle
        <3>2. taken'[s][r] = 0 /\ todo[s][r] = 0 /\ taken'[o] = taken[o]
            BY <2>0, <2>2, <3>1 DEF NoJobs
        <3> QED
            BY <2>0, <2>3, <2>4, <3>1, <3>2
    <2>7. CASE SliceFails(s)
        <3>1. /\ todo[s] = NoJobs /\ todo' = todo /\ jobs' = jobs
              /\ taken' = [taken EXCEPT ![s] = NoJobs]
            BY <2>7 DEF SliceFails, Idle
        <3>2. taken'[s][r] = 0 /\ todo[s][r] = 0 /\ taken'[o] = taken[o]
            BY <2>0, <2>2, <3>1 DEF NoJobs
        <3> QED
            BY <2>0, <2>3, <2>4, <3>1, <3>2
    <2> QED
        BY <1>3, <2>5, <2>6, <2>7
<1> QED
    BY <1>2, <1>3 DEF Clockwork

\* A job that a slice holds, or that waits, waits after a crash.
LEMMA CrashWaits ==
    ASSUME RestType, JobsHeld, Crash, NEW r \in Jobs,
           Waiting(r) > 0 \/ \E s \in Slices : Held(s, r)
    PROVE  Queued(r)'
<1>1. /\ jobs[r] \in Nat /\ taken["first"][r] \in Nat /\ taken["second"][r] \in Nat
      /\ todo["first"][r] \in Nat /\ todo["second"][r] \in Nat
      /\ taken["first"][r] + taken["second"][r] <= jobs[r]
    BY Counts, TwoSlices
<1>2. /\ jobs' = jobs /\ taken'["first"][r] = 0 /\ taken'["second"][r] = 0
      /\ todo'["first"][r] = 0 /\ todo'["second"][r] = 0
    BY DEF Crash, NoJobs, Slices
<1>3. todo["first"][r] <= taken["first"][r] /\ todo["second"][r] <= taken["second"][r]
    BY DEF JobsHeld, HoldsJobs, Slices
<1>4. jobs[r] > 0
    <2>1. CASE Waiting(r) > 0
        <3>1. jobs[r] - taken["first"][r] - taken["second"][r]
                 + todo["first"][r] + todo["second"][r] > 0
            BY <2>1 DEF Waiting, Free
        <3> QED
            BY <1>1, <1>3, <3>1
    <2>2. CASE \E s \in Slices : Held(s, r)
        <3>1. todo["first"][r] < taken["first"][r] \/ todo["second"][r] < taken["second"][r]
            BY <2>2 DEF Held, Slices
        <3> QED
            BY <1>1, <3>1
    <2> QED
        BY <2>1, <2>2
<1>5. Waiting(r)' = jobs'[r] - taken'["first"][r] - taken'["second"][r]
                       + todo'["first"][r] + todo'["second"][r]
    BY DEF Waiting, Free
<1>6. Waiting(r)' > 0
    BY <1>1, <1>2, <1>4, <1>5
<1> QED
    BY <1>6 DEF Queued

\* Only the slice that runs a job takes it off the queue.
LEMMA StillQueued ==
    ASSUME IInv, RestType, JobsHeld, [Next]_vars, NEW r, Queued(r)
    PROVE  Queued(r)' \/ \E s \in Slices : RunJob(s, r)
<1> USE DEF queue
<1>0. r \in Jobs /\ Waiting(r) > 0
    BY DEF Queued
<1>1. CASE Clockwork
    BY <1>0, <1>1, ClockworkQueues DEF Queued
<1>2. ASSUME UNCHANGED <<jobs, taken, todo>> PROVE Queued(r)'
    BY <1>0, <1>2 DEF Queued, Waiting, Free
<1>3. CASE CreateMerchant
    <2>1. <<"gen", opened>> \in Jobs
        BY <1>3, PosDaysAssumption DEF CreateMerchant, RestType, Jobs, Kinds, Days
    <2> QED
        BY <1>0, <1>3, <2>1, ScheduledWaits DEF CreateMerchant
<1>5. ASSUME NEW s \in Slices, NEW q \in Jobs, RunJob(s, q)
      PROVE  Queued(r)' \/ RunJob(s, r)
    <2>1. ASSUME q # r PROVE todo'["first"][r] = todo["first"][r]
                             /\ todo'["second"][r] = todo["second"][r]
        BY <1>0, <1>5, <2>1 DEF RunJob, RestType, Slices
    <2>2. jobs' = jobs /\ taken' = taken
        BY <1>5 DEF RunJob
    <2> QED
        BY <1>0, <1>5, <2>1, <2>2 DEF Queued, Waiting, Free
<1>7. ASSUME NEW a \in Actors, WriteBatch(a) \/ SettleCommits(a) \/ Raise(a)
      PROVE  Queued(r)'
    BY <1>2, <1>7 DEF WriteBatch, SettleCommits, Raise
<1>8. ASSUME NEW a \in Actors, ChainDay(a) PROVE Queued(r)'
    <2>1. <<"gen", day[a] + 1>> \in Jobs
        BY <1>8, JobOf DEF ChainDay
    <2> QED
        BY <1>0, <1>8, <2>1, ScheduledWaits DEF ChainDay
<1>9. ASSUME NEW a \in Actors, PromiseSettlement(a) PROVE Queued(r)'
    <2>1. <<"settle", Promised(day[a])>> \in Jobs
        BY <1>9, JobOf DEF PromiseSettlement
    <2> QED
        BY <1>0, <1>9, <2>1, ScheduledWaits DEF PromiseSettlement
<1>10. CASE Crash
    BY <1>0, <1>10, CrashWaits
<1>11. ASSUME NEW n \in Windows, NEW backfill \in BOOLEAN, GeneratePos(n, backfill)
       PROVE  Queued(r)'
    BY <1>2, <1>11 DEF GeneratePos
<1>12. CASE AdminCalls \/ UNCHANGED vars
    BY <1>2, <1>12 DEF AdminCalls, vars
<1> QED
    BY NextCases, <1>1, <1>3, <1>5, <1>7, <1>8, <1>9, <1>10, <1>11, <1>12 DEF Work

\* Steps of others, and those that leave its job running: a slice's job stays locked.
LEMMA HeldKeeps ==
    ASSUME NEW s \in Slices, HoldsJobs(s), taken'[s] = taken[s], todo'[s] = todo[s],
           end'[s] = end[s],
           \/ op'[s] = op[s] /\ day'[s] = day[s]
           \/ op'[s] = "idle"
           \/ /\ op[s] \in {"writing", "chaining"} /\ day'[s] = day[s]
              /\ op'[s] \in {"writing", "chaining", "promising"}
    PROVE  HoldsJobs(s)'
BY DEF HoldsJobs, Held, Running

\* A slice that holds no jobs runs none.
LEMMA HoldsNone ==
    ASSUME IInv, RestType, NEW s \in Slices, HoldsJobs(s), taken[s] = NoJobs
    PROVE  /\ \A q \in Jobs : todo[s][q] = 0
           /\ \A d \in Days : ~Running(s, d)
           /\ op[s] = "idle"
<1>1. \A q \in Jobs : todo[s][q] \in Nat /\ todo[s][q] <= 0
    BY Counts DEF HoldsJobs, NoJobs
<1>2. \A q \in Jobs : ~Held(s, q) /\ todo[s][q] = 0
    BY <1>1 DEF Held, NoJobs
<1>3. op[s] \in {"idle", "writing", "chaining", "promising", "settling"} /\ day[s] \in Days
    BY TwoSlices DEF IInv, LedgerType
<1>4. (\A d \in Days : ~Running(s, d)) /\ op[s] # "settling"
    BY <1>2, <1>3, JobOf DEF HoldsJobs
<1> QED
    BY <1>2, <1>3, <1>4 DEF Running

\* What a slice locks, commits and loses.
LEMMA ClockworkHolds ==
    ASSUME IInv, RestType, JobsHeld, Clockwork, NEW x \in Slices
    PROVE  HoldsJobs(x)'
<1> USE DEF queue, work
<1>0. /\ HoldsJobs(x) /\ op' = op /\ day' = day
      /\ taken \in [Slices -> [Jobs -> Nat]] /\ todo \in [Slices -> [Jobs -> Nat]]
      /\ end \in [Slices -> 0 .. LastDay] /\ "first" \in Slices
    BY ClockworkKeeps, TwoSlices DEF JobsHeld, RestType
<1>1. CASE OpenMerchant \/ SetClock
    BY <1>0, <1>1, HeldKeeps DEF OpenMerchant, SetClock
<1>2. ASSUME NEW s \in Slices,
             SliceStarts(s) \/ SliceSelects(s) \/ SliceCommits(s) \/ SliceFails(s), s # x
      PROVE  HoldsJobs(x)'
    <2>1. taken'[x] = taken[x] /\ todo'[x] = todo[x] /\ end'[x] = end[x]
        BY <1>0, <1>2 DEF SliceStarts, SliceSelects, SliceCommits, SliceFails
    <2> QED
        BY <1>0, <2>1, HeldKeeps
<1>3. CASE SliceStarts(x)
    <2>1. taken' = taken /\ todo' = todo /\ taken[x] = NoJobs
        BY <1>3 DEF SliceStarts, Busy
    <2> QED
        BY <1>0, <2>1 DEF HoldsJobs, Held, Running
<1>4. CASE SliceSelects(x)
    <2>1. PICK T \in [Jobs -> Nat] :
             /\ taken' = [taken EXCEPT ![x] = T]
             /\ todo' = [todo EXCEPT ![x] = T]
        BY <1>4, SelectedJobs
    <2>2. taken'[x] = T /\ todo'[x] = T /\ end'[x] = 0 /\ end[x] # 0
        BY <1>0, <1>4, <2>1 DEF SliceSelects
    <2>3. (\A d \in Days : ~Running(x, d)) /\ op[x] = "idle"
        BY <1>0, <2>2, HoldsNone DEF HoldsJobs
    <2> QED
        BY <1>0, <2>2, <2>3 DEF HoldsJobs, Running
<1>5. CASE SliceCommits(x) \/ SliceFails(x)
    <2>1. /\ taken'[x] = NoJobs /\ todo'[x] = NoJobs /\ op[x] = "idle"
        BY <1>0, <1>5 DEF SliceCommits, SliceFails, Idle
    <2> QED
        BY <1>0, <2>1 DEF HoldsJobs, Running, NoJobs
<1> QED
    BY <1>1, <1>2, <1>3, <1>4, <1>5 DEF Clockwork

\* What a slice is running, it has locked, and it counts among its jobs.
LEMMA HeldNext == IInv /\ RestType /\ JobsHeld /\ [Next]_vars => JobsHeld'
<1> SUFFICES ASSUME IInv, RestType, JobsHeld, [Next]_vars, NEW x \in Slices
             PROVE  HoldsJobs(x)'
    BY DEF JobsHeld
<1> USE DEF queue, work
<1>0. /\ op \in [Actors -> {"idle", "writing", "chaining", "promising", "settling"}]
      /\ day \in [Actors -> Days]
      /\ x \in Actors /\ x # "admin" /\ HoldsJobs(x)
    BY DEF IInv, LedgerType, Actors, Slices, JobsHeld
<1>1. CASE Clockwork
    BY <1>1, ClockworkHolds
<1>2. CASE CreateMerchant \/ UNCHANGED vars
    BY <1>0, <1>2, HeldKeeps DEF CreateMerchant, vars
<1>3. ASSUME NEW n \in Windows, NEW backfill \in BOOLEAN, GeneratePos(n, backfill)
      PROVE  HoldsJobs(x)'
    BY <1>0, <1>3, HeldKeeps DEF GeneratePos
<1>4. ASSUME NEW s \in Slices, NEW q \in Jobs, RunJob(s, q) PROVE HoldsJobs(x)'
    <2>0. todo' = [todo EXCEPT ![s][q] = @ - 1] /\ taken' = taken /\ end' = end /\ todo[s][q] > 0
        BY <1>4 DEF RunJob
    <2>1. CASE s # x
        <3>1. todo'[x] = todo[x] /\ taken'[x] = taken[x] /\ end'[x] = end[x]
            BY <2>0, <2>1 DEF RestType
        <3>2. op'[x] = op[x] /\ day'[x] = day[x]
            BY <1>0, <1>4, <2>1 DEF RunJob, Begin, Generate, Settle
        <3> QED
            BY <1>0, <3>1, <3>2, HeldKeeps
    <2>2. CASE s = x
        <3>1. /\ todo'[x][q] = todo[x][q] - 1 /\ taken'[x] = taken[x] /\ end'[x] = end[x]
              /\ \A r \in Jobs \ {q} : todo'[x][r] = todo[x][r]
            BY <2>0, <2>2 DEF RestType
        <3>2. ASSUME NEW r \in Jobs PROVE todo'[x][r] <= taken[x][r]
            <4>1. todo[x][r] <= taken[x][r] /\ todo[x][r] \in Nat /\ taken[x][r] \in Nat
                BY Counts DEF HoldsJobs, JobsHeld
            <4>2. todo'[x][r] \in {todo[x][r], todo[x][r] - 1}
                BY <3>1
            <4> QED
                BY <4>1, <4>2
        <3>3. Held(x, q)'
            <4>1. todo[x][q] <= taken[x][q] /\ todo[x][q] \in Nat /\ taken[x][q] \in Nat
                BY Counts DEF HoldsJobs, JobsHeld
            <4> QED
                BY <3>1, <4>1 DEF Held
        <3>4. q[2] \in Days /\ q = <<q[1], q[2]>> /\ q[1] \in {"gen", "settle"}
            BY DEF Jobs, Kinds
        <3>5. end'[x] # 0 => taken'[x] = NoJobs
            BY <3>1 DEF HoldsJobs, JobsHeld
        <3>6. CASE q[1] = "gen"
            <4>1. day'[x] = q[2] /\ op'[x] \in {"writing", "chaining"}
                BY <1>0, <1>4, <2>2, <3>6 DEF RunJob, Begin, Generate, AfterLoad
            <4> QED
                BY <3>1, <3>2, <3>3, <3>4, <3>5, <3>6, <4>1 DEF HoldsJobs, Running
        <3>7. CASE q[1] = "settle"
            <4>1. day'[x] = q[2] /\ op'[x] \in {"idle", "settling"}
                BY <1>0, <1>4, <2>2, <3>7 DEF RunJob, Begin, Settle
            <4> QED
                BY <3>1, <3>2, <3>3, <3>4, <3>5, <3>7, <4>1 DEF HoldsJobs, Running
        <3> QED
            BY <3>4, <3>6, <3>7
    <2> QED
        BY <2>1, <2>2
<1>6. CASE AdminCalls
    <2>1. UNCHANGED <<taken, todo, end>>
        BY <1>6 DEF AdminCalls
    <2>2. op'[x] = op[x] /\ day'[x] = day[x]
        BY <1>0, <1>6 DEF AdminCalls, Begin, Generate, Settle
    <2> QED
        BY <1>0, <2>1, <2>2, HeldKeeps
<1>7. ASSUME NEW a \in Actors, WriteBatch(a) PROVE HoldsJobs(x)'
    <2>1. UNCHANGED <<taken, todo, day, end>>
        BY <1>7 DEF WriteBatch
    <2>2. \/ op'[x] = op[x]
          \/ op[x] = "writing" /\ op'[x] \in {"writing", "chaining"}
        BY <1>0, <1>7 DEF WriteBatch
    <2> QED
        BY <1>0, <2>1, <2>2, HeldKeeps
<1>8. ASSUME NEW a \in Actors, ChainDay(a) PROVE HoldsJobs(x)'
    <2>1. UNCHANGED <<taken, todo, day, end>>
        BY <1>8 DEF ChainDay
    <2>2. \/ op'[x] = op[x]
          \/ op[x] = "chaining" /\ op'[x] \in {"idle", "promising"}
        BY <1>0, <1>8 DEF ChainDay
    <2> QED
        BY <1>0, <2>1, <2>2, HeldKeeps
<1>9. ASSUME NEW a \in Actors, PromiseSettlement(a) \/ SettleCommits(a) \/ Raise(a)
      PROVE  HoldsJobs(x)'
    <2>1. UNCHANGED <<taken, todo, day, end>>
        BY <1>9 DEF PromiseSettlement, SettleCommits, Raise
    <2>2. op'[x] \in {"idle", op[x]}
        BY <1>0, <1>9 DEF PromiseSettlement, SettleCommits, Raise
    <2> QED
        BY <1>0, <2>1, <2>2, HeldKeeps
<1>10. CASE Crash
    <2>1. /\ taken'[x] = NoJobs /\ todo'[x] = NoJobs /\ op'[x] = "idle"
        BY <1>0, <1>10 DEF Crash
    <2> QED
        BY <2>1 DEF HoldsJobs, Running, NoJobs
<1> QED
    BY NextCases, <1>1, <1>2, <1>3, <1>4, <1>6, <1>7, <1>8, <1>9, <1>10 DEF Work

\* Calls, crashes, failures, settings of the clock and slips are only ever counted.
LEMMA CountersGrow ==
    ASSUME RestType, [Next]_vars
    PROVE  /\ calls' >= calls /\ crashes' >= crashes /\ raises' >= raises
           /\ sets' >= sets /\ slips' >= slips
           /\ \A a \in Actors : Raise(a) => raises' > 0
           /\ Crash => crashes' > 0
           /\ SetClock => sets' > 0
<1> USE DEF admin, luck
<1>0. /\ calls \in Nat /\ crashes \in Nat /\ raises \in Nat /\ sets \in Nat /\ slips \in Nat
      /\ Other("second") = "first"
    BY Numbers DEF Other
<1>1. ASSUME calls' \in {calls, calls + 1}, crashes' \in {crashes, crashes + 1},
             raises' \in {raises, raises + 1}, sets' \in {sets, sets + 1},
             slips' \in {slips, slips + 1}
      PROVE  /\ calls' >= calls /\ crashes' >= crashes /\ raises' >= raises
             /\ sets' >= sets /\ slips' >= slips
    BY <1>0, <1>1
<1>2. /\ \A a \in Actors : Raise(a) => raises' > 0
      /\ Crash => crashes' > 0
      /\ SetClock => sets' > 0
    BY <1>0 DEF Raise, Crash, SetClock
<1>3. /\ calls' \in {calls, calls + 1} /\ crashes' \in {crashes, crashes + 1}
      /\ raises' \in {raises, raises + 1} /\ sets' \in {sets, sets + 1}
      /\ slips' \in {slips, slips + 1}
    <2>1. CASE CreateMerchant \/ AdminCalls \/ Crash \/ UNCHANGED vars
        BY <2>1 DEF CreateMerchant, AdminCalls, Crash, vars
    <2>2. CASE \E n \in Windows, backfill \in BOOLEAN : GeneratePos(n, backfill)
        BY <2>2 DEF GeneratePos
    <2>3. CASE Clockwork
        BY <2>3 DEF Clockwork, OpenMerchant, SetClock, SliceStarts, SliceSelects, SliceCommits,
                    SliceFails
    <2>4. CASE \E s \in Slices, q \in Jobs : RunJob(s, q)
        BY <2>4 DEF RunJob
    <2>5. CASE \E a \in Actors : Work(a) \/ Raise(a)
        BY <2>5 DEF Work, WriteBatch, ChainDay, PromiseSettlement, SettleCommits, Raise
    <2> QED
        BY NextCases, <2>1, <2>2, <2>3, <2>4, <2>5
<1> QED
    BY <1>1, <1>2, <1>3

\* A merchant, once created, stays.
LEMMA MerchantStays == [Next]_vars => merchant' = merchant \/ CreateMerchant
<1> SUFFICES ASSUME [Next]_vars PROVE merchant' = merchant \/ CreateMerchant
    OBVIOUS
<1> USE DEF shop
<1>1. CASE AdminCalls \/ Crash \/ UNCHANGED vars
    BY <1>1 DEF AdminCalls, Crash, vars
<1>2. CASE \E n \in Windows, backfill \in BOOLEAN : GeneratePos(n, backfill)
    BY <1>2 DEF GeneratePos
<1>3. CASE Clockwork
    BY <1>3, ClockworkKeeps
<1>4. CASE \E s \in Slices, q \in Jobs : RunJob(s, q)
    BY <1>4 DEF RunJob
<1>5. CASE \E a \in Actors : Work(a) \/ Raise(a)
    BY <1>5 DEF Work, WriteBatch, ChainDay, PromiseSettlement, SettleCommits, Raise
<1> QED
    BY NextCases, <1>1, <1>2, <1>3, <1>4, <1>5

\* What a slice is running comes back after a crash.
LEMMA CrashRequeues ==
    ASSUME RestType, JobsHeld, Crash, NEW s \in Slices
    PROVE  /\ \A d \in Days : Running(s, d) => Queued(<<"gen", d>>)'
           /\ \A d \in Days : (op[s] = "settling" /\ day[s] = d) => Queued(<<"settle", d>>)'
<1>1. ASSUME NEW d \in Days, Running(s, d) PROVE Queued(<<"gen", d>>)'
    <2>1. Held(s, <<"gen", d>>) /\ <<"gen", d>> \in Jobs
        BY <1>1, JobOf DEF JobsHeld, HoldsJobs
    <2> QED
        BY <2>1, CrashWaits
<1>2. ASSUME NEW d \in Days, op[s] = "settling", day[s] = d
      PROVE  Queued(<<"settle", d>>)'
    <2>1. Held(s, <<"settle", d>>) /\ <<"settle", d>> \in Jobs
        BY <1>2, JobOf DEF JobsHeld, HoldsJobs
    <2> QED
        BY <2>1, CrashWaits
<1> QED
    BY <1>1, <1>2

\* Until a handler raises, the chain of daily generations goes on: each one
\* schedules the next before its slice commits.
LEMMA ChainNext ==
    ASSUME IInv, RestType, JobsHeld, ChainHeld, [Next]_vars
    PROVE  ChainHeld'
<1> DEFINE Goal == \/ \E d \in Days : Queued(<<"gen", d>>)'
                   \/ \E s \in Slices : op'[s] \in {"writing", "chaining"}
<1> SUFFICES ASSUME merchant', raises' = 0 PROVE Goal
    BY DEF ChainHeld
<1> USE DEF work
<1>0. /\ op \in [Actors -> {"idle", "writing", "chaining", "promising", "settling"}]
      /\ day \in [Actors -> Days]
      /\ Slices \subseteq Actors /\ "admin" \in Actors /\ "admin" \notin Slices
    BY DEF IInv, LedgerType, Actors, Slices
<1>1. raises = 0 /\ (merchant \/ CreateMerchant) /\ \A a \in Actors : ~Raise(a)
    <2>0. raises \in Nat
        BY DEF RestType
    <2>1. raises' >= raises /\ \A a \in Actors : Raise(a) => raises' > 0
        BY CountersGrow
    <2>2. raises = 0 /\ \A a \in Actors : ~Raise(a)
        BY <2>0, <2>1
    <2> QED
        BY <2>2, MerchantStays
<1>2. CASE CreateMerchant
    <2>1. PICK d \in Days : d = opened
        BY <1>2, PosDaysAssumption DEF CreateMerchant, RestType, Days
    <2>2. Scheduled(<<"gen", d>>) /\ UNCHANGED <<taken, todo>>
        BY <1>2, <2>1 DEF CreateMerchant
    <2>3. Queued(<<"gen", d>>)'
        BY <2>2, JobOf, ScheduledWaits
    <2> QED
        BY <2>3
<1>3. ASSUME NEW d \in Days, NEW s \in Slices, RunJob(s, <<"gen", d>>) PROVE Goal
    BY <1>0, <1>3 DEF RunJob, Begin, Generate, AfterLoad
<1>4. ASSUME NEW d \in Days, Queued(<<"gen", d>>) PROVE Goal
    BY <1>3, <1>4, StillQueued
<1>5. ASSUME NEW s \in Slices, op[s] \in {"writing", "chaining"} PROVE Goal
    <2>1. CASE op'[s] = op[s]
        BY <1>5, <2>1
    <2>2. CASE Crash
        <3>1. day[s] \in Days /\ Running(s, day[s])
            BY <1>0, <1>5 DEF Running
        <3> QED
            BY <2>2, <3>1, CrashRequeues
    <2>3. ASSUME NEW a \in Actors, WriteBatch(a) PROVE Goal
        <3>1. op'[s] \in {"writing", "chaining"}
            BY <1>0, <1>5, <2>3 DEF WriteBatch
        <3> QED
            BY <3>1
    <2>4. ASSUME NEW a \in Actors, ChainDay(a) PROVE Goal
        <3>1. <<"gen", day[a] + 1>> \in Jobs /\ day[a] + 1 \in Days
            BY <2>4, JobOf DEF ChainDay
        <3>2. UNCHANGED <<taken, todo>> /\ Scheduled(<<"gen", day[a] + 1>>)
            BY <2>4 DEF ChainDay
        <3> QED
            BY <3>1, <3>2, ScheduledWaits
    <2>5. ASSUME NEW a \in Actors, PromiseSettlement(a) \/ SettleCommits(a)
          PROVE  op'[s] = op[s]
        BY <1>0, <1>5, <2>5 DEF PromiseSettlement, SettleCommits
    <2>6. ASSUME NEW x \in Slices, NEW q \in Jobs, RunJob(x, q) PROVE op'[s] = op[s]
        BY <1>0, <1>5, <2>6 DEF RunJob, Begin, Generate, Settle
    <2>7. ASSUME CreateMerchant \/ UNCHANGED vars PROVE op'[s] = op[s]
        BY <2>7 DEF CreateMerchant, vars
    <2>8. ASSUME NEW n \in Windows, NEW backfill \in BOOLEAN, GeneratePos(n, backfill)
          PROVE  op'[s] = op[s]
        BY <2>8 DEF GeneratePos
    <2>9. ASSUME AdminCalls PROVE op'[s] = op[s]
        BY <1>0, <2>9 DEF AdminCalls, Begin, Generate, Settle
    <2>10. ASSUME Clockwork PROVE op'[s] = op[s]
        BY <2>10, ClockworkKeeps
    <2> QED
        BY NextCases, <1>1, <2>1, <2>2, <2>3, <2>4, <2>5, <2>6, <2>7, <2>8, <2>9, <2>10 DEF Work
<1> QED
    BY <1>1, <1>2, <1>4, <1>5 DEF ChainHeld

\* Initially there is no merchant and nothing is scheduled, locked or sold.
LEMMA HeldInit == Init => IInv /\ RestType /\ JobsHeld
<1> SUFFICES ASSUME Init PROVE IInv /\ RestType /\ JobsHeld
    OBVIOUS
<1>1. IInv /\ RestType
    BY InvInit, RestInit
<1>2. \A s \in Slices : op[s] = "idle" /\ end[s] = 0 /\ taken[s] = NoJobs /\ todo[s] = NoJobs
    BY TwoSlices DEF Init
<1>3. JobsHeld
    BY <1>2 DEF JobsHeld, HoldsJobs, Running, NoJobs
<1> QED
    BY <1>1, <1>3

\* The chain of daily generations is never lost, whatever crashes, as long as no
\* handler raises (pos/generator.py: _schedule_next_day).
THEOREM Chain == Spec => []ChainUnbroken
<1> DEFINE Holds == IInv /\ RestType /\ JobsHeld /\ ChainHeld
<1>1. Init => Holds
    BY HeldInit DEF Init, ChainHeld
<1>2. Holds /\ [Next]_vars => Holds'
    BY InvNext, RestNext, HeldNext, ChainNext
<1>3. Holds => ChainUnbroken
    <2> SUFFICES ASSUME Holds, merchant, raises = 0
                 PROVE  \E d \in Days : \/ Waiting(<<"gen", d>>) > 0
                                        \/ \E s \in Slices : Running(s, d)
        BY DEF ChainUnbroken
    <2>1. \A s \in Slices : day[s] \in Days
        BY TwoSlices DEF IInv, LedgerType
    <2> QED
        BY <2>1 DEF ChainHeld, Queued, Running
<1> QED
    BY <1>1, <1>2, <1>3, PTL DEF Spec

-----------------------------------------------------------------------------
\* Without a call of generate-pos the administrator does nothing.
LEMMA AloneNext ==
    ASSUME IInv, RestType, [Next]_vars, calls' = 0,
           calls = 0 => op["admin"] = "idle" /\ plan = <<>>
    PROVE  calls = 0 /\ op'["admin"] = "idle" /\ plan' = <<>>
<1> USE DEF work, admin
<1>0. /\ op \in [Actors -> {"idle", "writing", "chaining", "promising", "settling"}]
      /\ Slices \subseteq Actors /\ "admin" \in Actors /\ "admin" \notin Slices
      /\ calls \in Nat
    BY DEF IInv, LedgerType, Actors, Slices, RestType
<1>1. calls = 0 /\ op["admin"] = "idle" /\ plan = <<>>
    <2>1. calls' >= calls
        BY CountersGrow
    <2> QED
        BY <1>0, <2>1
<1>2. CASE CreateMerchant \/ AdminCalls \/ UNCHANGED vars
    BY <1>1, <1>2 DEF CreateMerchant, AdminCalls, vars
<1>3. CASE \E n \in Windows, backfill \in BOOLEAN : GeneratePos(n, backfill)
    BY <1>1, <1>3 DEF GeneratePos
<1>4. CASE \E s \in Slices, q \in Jobs : RunJob(s, q)
    BY <1>0, <1>1, <1>4 DEF RunJob, Begin, Generate, Settle
<1>5. CASE \E a \in Actors : Work(a) \/ Raise(a)
    BY <1>0, <1>1, <1>5
    DEF Work, WriteBatch, ChainDay, PromiseSettlement, SettleCommits, Raise
<1>6. CASE Crash
    BY <1>0, <1>1, <1>6 DEF Crash
<1>7. CASE Clockwork
    BY <1>1, <1>7, ClockworkKeeps
<1> QED
    BY NextCases, <1>1, <1>2, <1>3, <1>4, <1>5, <1>6, <1>7

\* A settlement locks sales of its own date; nothing else locks any.
LEMMA LocksNext ==
    ASSUME IInv, [Next]_vars, NEW a \in Actors, NEW d \in Days, rows'[a][d] > 0,
           rows[a][d] > 0 => SettleDate(d) = day[a]
    PROVE  SettleDate(d) = day'[a]
<1> USE DEF work, admin
<1>0. /\ op \in [Actors -> {"idle", "writing", "chaining", "promising", "settling"}]
      /\ day \in [Actors -> Days]
      /\ rows \in [Actors -> [Days -> Nat]]
      /\ Slices \subseteq Actors /\ "admin" \in Actors
    BY TwoSlices DEF IInv, LedgerType
<1>1. CASE rows'[a] = rows[a] /\ day'[a] = day[a]
    BY <1>1
<1>2. CASE rows'[a] = Zero
    BY <1>2 DEF Zero
<1>3. ASSUME NEW b \in Actors, NEW q, Begin(b, q), op[b] = "idle"
      PROVE  SettleDate(d) = day'[a]
    <2>1. CASE b # a
        BY <1>0, <1>1, <1>3, <2>1 DEF Begin, Generate, Settle
    <2>2. CASE b = a /\ q[1] = "gen"
        <3>1. rows'[a] = Zero
            BY <1>3, <2>2 DEF Begin, Generate, IInv, RowsInv
        <3> QED
            BY <1>2, <3>1
    <2>3. CASE b = a /\ q[1] # "gen"
        BY <1>0, <1>3, <2>3 DEF Begin, Settle
    <2> QED
        BY <2>1, <2>2, <2>3
<1>4. ASSUME NEW s \in Slices, NEW q \in Jobs, RunJob(s, q) PROVE SettleDate(d) = day'[a]
    BY <1>0, <1>3, <1>4 DEF RunJob
<1>5. CASE AdminCalls
    <2>1. CASE UNCHANGED work
        BY <1>1, <2>1
    <2>2. CASE Begin("admin", Head(plan))
        BY <1>0, <1>3, <1>5, <2>2 DEF AdminCalls
    <2> QED
        BY <1>5, <2>1, <2>2 DEF AdminCalls
<1>6. ASSUME CreateMerchant \/ Clockwork \/ UNCHANGED vars
      PROVE  rows' = rows /\ day' = day
    BY <1>6, ClockworkKeeps DEF CreateMerchant, vars
<1>7. ASSUME NEW n \in Windows, NEW backfill \in BOOLEAN, GeneratePos(n, backfill)
      PROVE  rows' = rows /\ day' = day
    BY <1>7 DEF GeneratePos
<1>8. ASSUME NEW b \in Actors, WriteBatch(b) \/ ChainDay(b) \/ PromiseSettlement(b)
                               \/ SettleCommits(b) \/ Raise(b)
      PROVE  rows'[a] \in {rows[a], Zero} /\ day' = day
    BY <1>0, <1>8 DEF WriteBatch, ChainDay, PromiseSettlement, SettleCommits, Raise
<1>9. ASSUME Crash PROVE rows'[a] = Zero
    BY <1>0, <1>9 DEF Crash
<1> QED
    BY NextCases, <1>1, <1>2, <1>4, <1>5, <1>6, <1>7, <1>8, <1>9 DEF Work

\* A date is written, and its settlement promised, only if it has sales.
LEMMA DrawnNext ==
    ASSUME IInv, [Next]_vars,
           \A a \in Actors : op[a] \in {"writing", "promising"} => Txns[day[a]] > 0,
           \A d \in Days : made[d] > 0 => Txns[d] > 0
    PROVE  /\ \A a \in Actors : op'[a] \in {"writing", "promising"} => Txns[day'[a]] > 0
           /\ \A d \in Days : made'[d] > 0 => Txns[d] > 0
<1> USE DEF work, admin, ledger
<1>0. /\ op \in [Actors -> {"idle", "writing", "chaining", "promising", "settling"}]
      /\ day \in [Actors -> Days]
      /\ made \in [Days -> Nat]
      /\ Slices \subseteq Actors /\ "admin" \in Actors
      /\ Txns \in [Days -> Nat]
    BY TwoSlices, PosDaysAssumption DEF IInv, LedgerType
<1> DEFINE Goal == /\ \A a \in Actors : op'[a] \in {"writing", "promising"}
                                            => Txns[day'[a]] > 0
                   /\ \A d \in Days : made'[d] > 0 => Txns[d] > 0
<1>1. ASSUME NEW a \in Actors, NEW d \in Days, Generate(a, d), made' = made PROVE Goal
    BY <1>0, <1>1 DEF Generate, AfterLoad
<1>2. ASSUME NEW a \in Actors, NEW s \in Days, Settle(a, s), made' = made PROVE Goal
    BY <1>0, <1>2 DEF Settle
<1>3. ASSUME NEW s \in Slices, NEW q \in Jobs, RunJob(s, q) PROVE Goal
    <2>1. q[2] \in Days /\ made' = made /\ (Generate(s, q[2]) \/ Settle(s, q[2]))
        BY <1>3 DEF RunJob, Begin, Jobs
    <2> QED
        BY <1>0, <1>1, <1>2, <2>1
<1>4. CASE AdminCalls
    <2>1. CASE UNCHANGED work
        BY <1>4, <2>1 DEF AdminCalls
    <2>2. CASE Begin("admin", Head(plan))
        <3>1. Head(plan)[2] \in Days /\ made' = made
            BY <1>4 DEF AdminCalls, Jobs
        <3>2. Generate("admin", Head(plan)[2]) \/ Settle("admin", Head(plan)[2])
            BY <2>2 DEF Begin
        <3> QED
            BY <1>0, <1>1, <1>2, <3>1, <3>2
    <2> QED
        BY <1>4, <2>1, <2>2 DEF AdminCalls
<1>5. ASSUME NEW a \in Actors, WriteBatch(a) PROVE Goal
    <2>1. /\ op[a] = "writing" /\ Txns[day[a]] > 0 /\ day[a] \in Days /\ day' = day
          /\ \A d \in Days : d # day[a] => made'[d] = made[d]
          /\ \A b \in Actors : b # a => op'[b] = op[b]
        BY <1>0, <1>5 DEF WriteBatch
    <2> QED
        BY <1>0, <2>1
<1>6. ASSUME NEW a \in Actors, ChainDay(a) PROVE Goal
    <2>1. /\ day' = day /\ made' = made
          /\ op'[a] = "promising" => Txns[day[a]] # 0
          /\ op'[a] \in {"idle", "promising"}
          /\ \A b \in Actors : b # a => op'[b] = op[b]
        BY <1>0, <1>6 DEF ChainDay
    <2>2. Txns[day[a]] \in Nat
        BY <1>0
    <2> QED
        BY <1>0, <2>1, <2>2
<1>7. ASSUME NEW a \in Actors, PromiseSettlement(a) \/ SettleCommits(a) \/ Raise(a)
      PROVE  Goal
    BY <1>0, <1>7 DEF PromiseSettlement, SettleCommits, Raise
<1>8. CASE Crash
    BY <1>0, <1>8 DEF Crash
<1>9. CASE CreateMerchant \/ Clockwork \/ UNCHANGED vars
    BY <1>9, ClockworkKeeps DEF CreateMerchant, vars
<1>10. ASSUME NEW n \in Windows, NEW backfill \in BOOLEAN, GeneratePos(n, backfill)
       PROVE  Goal
    BY <1>10 DEF GeneratePos
<1> QED
    BY NextCases, <1>3, <1>4, <1>5, <1>6, <1>7, <1>8, <1>9, <1>10 DEF Work

\* A settlement job leaves no unlocked sales of its date, and touches no other.
LEMMA SettleLocksAll ==
    ASSUME IInv, NEW a \in Actors, NEW s \in Days, Settle(a, s), op[a] = "idle",
           UNCHANGED ledger, NEW d \in Days, Unlocked(d)'
    PROVE  SettleDate(d) # s /\ Unlocked(d)
<1>1. PICK R \in [Days -> Nat] :
          /\ R = [x \in Days |-> IF SettleDate(x) = s THEN Pending(x) ELSE 0]
          /\ \A x \in Days : Locked(x)' = Locked(x) + R[x]
    BY SettleRows
<1>2. /\ Locked(d)' = Locked(d) + R[d] /\ R[d] \in Nat
      /\ R[d] = IF SettleDate(d) = s THEN made[d] - paid[d] - Locked(d) ELSE 0
    BY <1>1 DEF Pending
<1>3. made[d] > paid[d] + Locked(d)'
    BY DEF Unlocked, ledger
<1>4. SettleDate(d) # s /\ made[d] > paid[d] + Locked(d)
    BY <1>2, <1>3, SalesCounted
<1> QED
    BY <1>4 DEF Unlocked

\* A step that locks and writes nothing, and runs no job, leaves a covered date
\* covered: a generation ends only once the settlement of its date is scheduled.
LEMMA CoveredStays ==
    ASSUME IInv, RestType, JobsHeld, SalesHeld, [Next]_vars, ~Crash,
           NEW d \in Days, made[d] > 0, Covered(d),
           \A a \in Actors : ~Raise(a)
    PROVE  \/ Covered(d)'
           \/ SettleDate(d) \in Days /\ \E s \in Slices : RunJob(s, <<"settle", SettleDate(d)>>)
<1> USE DEF work
<1>0. /\ op \in [Actors -> {"idle", "writing", "chaining", "promising", "settling"}]
      /\ day \in [Actors -> Days]
      /\ Slices \subseteq Actors /\ "admin" \in Actors
    BY TwoSlices DEF IInv, LedgerType
<1>1. ASSUME NEW s \in Slices, RunJob(s, <<"gen", d>>) PROVE Covered(d)'
    <2>1. op'[s] \in {"writing", "chaining"} /\ day'[s] = d
        BY <1>0, <1>1 DEF RunJob, Begin, Generate, AfterLoad
    <2> QED
        BY <1>0, <2>1 DEF Covered, Running
<1>2. CASE Queued(<<"settle", SettleDate(d)>>) \/ Queued(<<"gen", d>>)
    <2>1. Queued(<<"settle", SettleDate(d)>>) => SettleDate(d) \in Days
        BY DEF Queued, Jobs
    <2> QED
        BY <1>1, <1>2, <2>1, StillQueued DEF Covered
<1>3. ASSUME NEW a \in Actors, Running(a, d) PROVE Covered(d)'
    <2>0. op[a] \in {"writing", "chaining", "promising"} /\ day[a] = d
        BY <1>3 DEF Running
    <2>1. ASSUME op'[a] = op[a], day'[a] = day[a] PROVE Covered(d)'
        BY <2>0, <2>1 DEF Covered, Running
    <2>2. CASE \E b \in Actors : WriteBatch(b)
        <3>1. op'[a] \in {"writing", "chaining", "promising"} /\ day'[a] = d
            BY <1>0, <2>0, <2>2 DEF WriteBatch
        <3> QED
            BY <3>1 DEF Covered, Running
    <2>3. ASSUME NEW b \in Actors, ChainDay(b) PROVE Covered(d)'
        <3>1. b = a => op'[a] = "promising"
            <4>1. Txns[d] # 0
                BY PosDaysAssumption DEF SalesHeld
            <4> QED
                BY <1>0, <2>0, <2>3, <4>1 DEF ChainDay
        <3>2. op'[a] \in {"writing", "chaining", "promising"} /\ day'[a] = d
            BY <1>0, <2>0, <2>3, <3>1 DEF ChainDay
        <3> QED
            BY <3>2 DEF Covered, Running
    <2>4. ASSUME NEW b \in Actors, PromiseSettlement(b) PROVE Covered(d)'
        <3>1. CASE b = a
            <4>1. /\ SettleDate(d) \in Days
                  /\ Scheduled(<<"settle", SettleDate(d)>>)
                  /\ UNCHANGED <<taken, todo>>
                BY <2>0, <2>4, <3>1 DEF PromiseSettlement, Promised
            <4>2. Queued(<<"settle", SettleDate(d)>>)'
                BY <4>1, JobOf, ScheduledWaits
            <4> QED
                BY <4>2 DEF Covered
        <3>2. CASE b # a
            BY <1>0, <2>1, <2>4, <3>2 DEF PromiseSettlement
        <3> QED
            BY <3>1, <3>2
    <2>5. ASSUME NEW b \in Actors, SettleCommits(b) PROVE Covered(d)'
        BY <1>0, <2>0, <2>1, <2>5 DEF SettleCommits
    <2>6. ASSUME CreateMerchant \/ Clockwork \/ UNCHANGED vars
          PROVE  op'[a] = op[a] /\ day'[a] = day[a]
        BY <2>6, ClockworkKeeps DEF CreateMerchant, vars
    <2>7. ASSUME NEW n \in Windows, NEW backfill \in BOOLEAN, GeneratePos(n, backfill)
          PROVE  op'[a] = op[a] /\ day'[a] = day[a]
        BY <2>7 DEF GeneratePos
    <2>8. ASSUME NEW s \in Slices, NEW q \in Jobs, RunJob(s, q)
          PROVE  op'[a] = op[a] /\ day'[a] = day[a]
        BY <1>0, <2>0, <2>8 DEF RunJob, Begin, Generate, Settle
    <2>9. ASSUME AdminCalls PROVE op'[a] = op[a] /\ day'[a] = day[a]
        BY <1>0, <2>0, <2>9 DEF AdminCalls, Begin, Generate, Settle
    <2> QED
        BY NextCases, <2>1, <2>2, <2>3, <2>4, <2>5, <2>6, <2>7, <2>8, <2>9 DEF Work
<1> QED
    BY <1>2, <1>3 DEF Covered

\* Sales become unlocked only by being written, or by a crash.
LEMMA UnlockedBack ==
    ASSUME IInv, [Next]_vars, ~Crash, \A a \in Actors : ~Raise(a),
           NEW d \in Days, Unlocked(d)'
    PROVE  Unlocked(d) \/ \E a \in Actors : Running(a, d)'
<1> USE DEF work, ledger, admin
<1>0. /\ op \in [Actors -> {"idle", "writing", "chaining", "promising", "settling"}]
      /\ made \in [Days -> Nat] /\ Zero \in [Days -> Nat] /\ Zero[d] = 0
      /\ Slices \subseteq Actors /\ "admin" \in Actors
    BY TwoSlices DEF IInv, LedgerType, Zero
<1>1. ASSUME UNCHANGED <<made, paid, rows>> PROVE Unlocked(d)
    BY <1>1 DEF Unlocked, Locked
<1>2. ASSUME NEW a \in Actors, NEW q, Begin(a, q), q \in Jobs, op[a] = "idle",
             UNCHANGED ledger
      PROVE  Unlocked(d)
    <2>1. CASE q[1] = "gen"
        BY <1>1, <1>2, <2>1 DEF Begin, Generate
    <2>2. CASE q[1] # "gen"
        BY <1>2, <2>2, SettleLocksAll DEF Begin, Jobs
    <2> QED
        BY <2>1, <2>2
<1>3. ASSUME NEW s \in Slices, NEW q \in Jobs, RunJob(s, q) PROVE Unlocked(d)
    BY <1>0, <1>2, <1>3 DEF RunJob
<1>4. CASE AdminCalls
    <2>1. CASE UNCHANGED work
        BY <1>1, <1>4, <2>1 DEF AdminCalls
    <2>2. CASE Begin("admin", Head(plan))
        BY <1>0, <1>2, <1>4, <2>2 DEF AdminCalls
    <2> QED
        BY <1>4, <2>1, <2>2 DEF AdminCalls
<1>5. ASSUME NEW a \in Actors, WriteBatch(a)
      PROVE  Unlocked(d) \/ \E b \in Actors : Running(b, d)'
    <2>1. CASE day[a] = d
        <3>1. op'[a] \in {"writing", "chaining"} /\ day'[a] = d
            BY <1>0, <1>5, <2>1 DEF WriteBatch
        <3> QED
            BY <3>1 DEF Running
    <2>2. CASE day[a] # d
        <3>1. made'[d] = made[d] /\ UNCHANGED <<paid, rows>>
            BY <1>0, <1>5, <2>2 DEF WriteBatch
        <3> QED
            BY <3>1 DEF Unlocked, Locked
    <2> QED
        BY <2>1, <2>2
<1>6. ASSUME NEW a \in Actors, SettleCommits(a) PROVE Unlocked(d)
    <2>1. /\ paid'[d] = paid[d] + rows[a][d] /\ made' = made
          /\ rows' = [rows EXCEPT ![a] = Zero]
        BY <1>6 DEF SettleCommits
    <2>2. Locked(d)' = Locked(d) - rows[a][d] + Zero[d]
        BY <1>0, <2>1, LockedChange
    <2>3. made[d] > paid'[d] + Locked(d)'
        BY <2>1 DEF Unlocked
    <2>4. rows[a][d] \in Nat
        BY SalesCounted
    <2>5. made[d] > paid[d] + Locked(d)
        BY <1>0, <2>1, <2>2, <2>3, <2>4, SalesCounted
    <2> QED
        BY <2>5 DEF Unlocked
<1>7. ASSUME NEW a \in Actors, ChainDay(a) \/ PromiseSettlement(a) PROVE Unlocked(d)
    BY <1>1, <1>7 DEF ChainDay, PromiseSettlement
<1>8. CASE CreateMerchant \/ Clockwork \/ UNCHANGED vars
    BY <1>1, <1>8, ClockworkKeeps DEF CreateMerchant, vars
<1>9. ASSUME NEW n \in Windows, NEW backfill \in BOOLEAN, GeneratePos(n, backfill)
      PROVE  Unlocked(d)
    BY <1>1, <1>9 DEF GeneratePos
<1> QED
    BY NextCases, <1>3, <1>4, <1>5, <1>6, <1>7, <1>8, <1>9 DEF Work

\* After a crash the sales that a slice had locked, or whose generation it was
\* running, have their job again; an interrupted call of generate-pos is another
\* matter.
LEMMA CrashCovers ==
    ASSUME IInv, RestType, JobsHeld, SalesHeld, Crash, ~Interrupted', NEW d \in Days,
           Unlocked(d)'
    PROVE  Covered(d)'
<1>0. /\ rows \in [Actors -> [Days -> Nat]] /\ day \in [Actors -> Days]
      /\ Actors = {"first", "second", "admin"} /\ "first" \in Slices /\ "second" \in Slices
      /\ calls \in Nat /\ crashes \in Nat /\ raises \in Nat
    BY TwoSlices, Numbers DEF IInv, LedgerType
<1>1. calls = 0 /\ ~Interrupted
    <2>1. calls' = calls /\ crashes' = crashes + 1 /\ raises' = raises
        BY DEF Crash
    <2> QED
        BY <1>0, <2>1 DEF Interrupted
<1>2. op["admin"] = "idle"
    BY <1>1 DEF SalesHeld
<1>3. made[d] > paid[d]
    <2>1. made' = made /\ paid' = paid /\ Locked(d)' = 0
        BY <1>0 DEF Crash, ledger, Zero, Locked
    <2>2. made'[d] > paid'[d] + Locked(d)'
        BY DEF Unlocked
    <2> QED
        BY <2>1, <2>2, SalesCounted
<1>4. ASSUME NEW s \in Slices, rows[s][d] > 0 PROVE Covered(d)'
    <2>0. s \in Actors
        BY TwoSlices
    <2>1. SettleDate(d) = day[s] /\ SettleDate(d) \in Days
        BY <1>0, <1>4, <2>0 DEF SalesHeld
    <2>2. op[s] = "settling"
        BY <1>4, <2>0 DEF IInv, RowsInv, Zero
    <2>3. Queued(<<"settle", SettleDate(d)>>)'
        BY <2>1, <2>2, CrashRequeues
    <2> QED
        BY <2>3 DEF Covered
<1>5. CASE ~(\E s \in Slices : rows[s][d] > 0)
    <2>1. rows["admin"][d] = 0 /\ rows["first"][d] = 0 /\ rows["second"][d] = 0
        <3>1. rows["admin"][d] = 0
            BY <1>0, <1>2 DEF IInv, RowsInv, Zero
        <3>2. rows["first"][d] \in Nat /\ rows["second"][d] \in Nat
            BY <1>0
        <3> QED
            BY <1>0, <1>5, <3>1, <3>2
    <2>2. Unlocked(d)
        <3>1. Locked(d) = 0
            BY <2>1 DEF Locked
        <3> QED
            BY <1>3, <3>1, SalesCounted DEF Unlocked
    <2>3. Covered(d)
        BY <1>1, <2>2 DEF SalesHeld
    <2>4. ASSUME NEW q, Queued(q) PROVE Queued(q)'
        BY <2>4, CrashWaits DEF Queued
    <2>5. ASSUME NEW a \in Actors, Running(a, d) PROVE Covered(d)'
        <3>1. a \in Slices
            BY <1>0, <1>2, <2>5 DEF Running
        <3> QED
            BY <2>5, <3>1, CrashRequeues DEF Covered
    <2> QED
        BY <2>3, <2>4, <2>5 DEF Covered
<1> QED
    BY <1>4, <1>5

\* Whatever is unlocked stays on its way to a settlement.
LEMMA SalesNext ==
    ASSUME IInv, RestType, JobsHeld, SalesHeld, [Next]_vars
    PROVE  SalesHeld'
<1>0. /\ calls \in Nat /\ crashes \in Nat /\ raises \in Nat
      /\ Slices \subseteq Actors
    BY Numbers, TwoSlices
<1>1. \A a \in Actors, d \in Days : rows'[a][d] > 0 => SettleDate(d) = day'[a]
    BY LocksNext DEF SalesHeld
<1>2. calls' = 0 => op'["admin"] = "idle" /\ plan' = <<>>
    BY AloneNext DEF SalesHeld
<1>3. /\ \A a \in Actors : op'[a] \in {"writing", "promising"} => Txns[day'[a]] > 0
      /\ \A d \in Days : made'[d] > 0 => Txns[d] > 0
    BY DrawnNext DEF SalesHeld
<1>4. ASSUME ~Interrupted', NEW d \in Days, Unlocked(d)' PROVE Covered(d)'
    <2>1. ~Interrupted /\ \A a \in Actors : ~Raise(a)
        <3>1. /\ calls' >= calls /\ crashes' >= crashes /\ raises' >= raises
              /\ \A a \in Actors : Raise(a) => raises' > 0
              /\ calls' \in Nat /\ crashes' \in Nat /\ raises' \in Nat
            BY CountersGrow, RestNext DEF RestType
        <3>2. ~(raises' > 0) /\ ~(calls' > 0 /\ crashes' > 0)
            BY <1>4 DEF Interrupted
        <3> QED
            BY <1>0, <3>1, <3>2 DEF Interrupted
    <2>2. CASE Crash
        BY <1>4, <2>2, CrashCovers
    <2>3. CASE ~Crash /\ Unlocked(d)
        <3>1. made[d] > 0 /\ Covered(d)
            BY <2>1, <2>3, SalesCounted DEF SalesHeld, Unlocked
        <3>2. ASSUME NEW s \in Slices, RunJob(s, <<"settle", SettleDate(d)>>),
                     SettleDate(d) \in Days
              PROVE  FALSE
            <4>1. Settle(s, SettleDate(d)) /\ op[s] = "idle" /\ UNCHANGED ledger
                BY <3>2 DEF RunJob, Begin
            <4> QED
                BY <1>0, <1>4, <3>2, <4>1, SettleLocksAll
        <3> QED
            BY <2>1, <2>3, <3>1, <3>2, CoveredStays
    <2>4. CASE ~Crash /\ \E a \in Actors : Running(a, d)'
        BY <2>4 DEF Covered
    <2> QED
        BY <1>4, <2>1, <2>2, <2>3, <2>4, UnlockedBack
<1> QED
    BY <1>1, <1>2, <1>3, <1>4 DEF SalesHeld

\* Before the first sale nothing is locked or planned.
LEMMA SalesInit == Init => SalesHeld
<1> SUFFICES ASSUME Init PROVE SalesHeld
    OBVIOUS
<1>1. \A d \in Days : made[d] = 0 /\ paid[d] = 0 /\ Locked(d) = 0
    BY DEF Init, Locked, Zero, Actors, Slices
<1>2. \A d \in Days : ~Unlocked(d) /\ ~(made[d] > 0)
    BY <1>1 DEF Unlocked
<1>3. \A a \in Actors : op[a] = "idle" /\ rows[a] = Zero
    BY DEF Init
<1>4. \A a \in Actors, d \in Days : ~(rows[a][d] > 0)
    BY <1>3 DEF Zero
<1> QED
    BY <1>2, <1>3, <1>4, TwoSlices DEF Init, SalesHeld

\* No sale is forgotten by slices, crashes and calls of generate-pos: whatever is
\* not settled has a settlement, or a generation that will schedule one, ahead of
\* it, unless a handler raised or a crash interrupted a call.
THEOREM Custody == Spec => []NothingStranded
<1> DEFINE Holds == IInv /\ RestType /\ JobsHeld /\ SalesHeld
<1>1. Init => Holds
    BY HeldInit, SalesInit
<1>2. Holds /\ [Next]_vars => Holds'
    BY InvNext, RestNext, HeldNext, SalesNext
<1>3. Holds => NothingStranded
    <2> SUFFICES ASSUME Holds, NEW d \in Days, made[d] > paid[d], ~Interrupted
                 PROVE  \/ Waiting(<<"settle", SettleDate(d)>>) > 0
                        \/ Waiting(<<"gen", d>>) > 0
                        \/ \E a \in Actors : Running(a, d) \/ rows[a][d] > 0
        BY DEF NothingStranded
    <2>1. CASE Unlocked(d)
        BY <2>1 DEF SalesHeld, Covered, Queued
    <2>2. CASE ~Unlocked(d)
        <3>1. Locked(d) > 0
            BY <2>2, SalesCounted DEF Unlocked
        <3>2. \E a \in Actors : rows[a][d] > 0
            BY <3>1, SalesCounted, TwoSlices DEF Locked
        <3> QED
            BY <3>2
    <2> QED
        BY <2>1, <2>2
<1> QED
    BY <1>1, <1>2, <1>3, PTL DEF Spec
-----------------------------------------------------------------------------
\* A backfill plans no settlement beyond two days from its last date.
LEMMA DrainsSoon ==
    ASSUME NEW n \in Nat \ {0}, NEW today \in Nat, n <= today
    PROVE  \A i \in 1 .. 3 * n : Drains(today - n + 1, n)[i][2] <= today + 2
<1> SUFFICES ASSUME NEW i \in 1 .. 3 * n
             PROVE  Drains(today - n + 1, n)[i][2] <= today + 2
    OBVIOUS
<1>1. Drains(today - n + 1, n)[i][2]
        = today - n + 1 + ((i - 1) \div 3) + ((i - 1) % 3)
    BY DEF Drains
<1>2. (i - 1) \div 3 <= n - 1 /\ (i - 1) % 3 <= 2
      /\ (i - 1) \div 3 \in Nat /\ (i - 1) % 3 \in Nat
    OBVIOUS
<1> QED
    BY <1>1, <1>2

\* What a call plans: generations, then settlements of dates up to two days ahead.
LEMMA PlansSoon ==
    ASSUME RestType, NEW n \in Windows, NEW backfill \in BOOLEAN,
           GeneratePos(n, backfill), NEW i \in DOMAIN plan', plan'[i][1] = "settle"
    PROVE  plan'[i][2] <= clock + 2
<1>0. n \in Nat \ {0} /\ clock \in Nat
    BY PosDaysAssumption, Numbers
<1>1. \A first : /\ DOMAIN Generations(first, n) = 1 .. n
                 /\ \A j \in 1 .. n : Generations(first, n)[j][1] # "settle"
    BY DEF Generations
<1>2. CASE ~backfill
    <2>1. plan' = Generations(clock, n)
        BY <1>2 DEF GeneratePos
    <2> QED
        BY <1>1, <2>1
<1>3. CASE backfill
    <2> DEFINE g == Generations(clock - n + 1, n)
               s == Drains(clock - n + 1, n)
    <2>0. plan' = g \o s /\ n <= clock
        BY <1>0, <1>3 DEF GeneratePos
    <2>1. clock - n + 1 \in Nat
        BY <1>0, <2>0
    <2>2. g \in Seq(Kinds \X Nat) /\ s \in Seq(Kinds \X Nat)
        BY <1>0, <2>1, PlanTyped
    <2>3. DOMAIN g = 1 .. n /\ DOMAIN s = 1 .. 3 * n
        BY DEF Generations, Drains
    <2>4. \A j \in 1 .. 3 * n : s[j][2] <= clock + 2
        BY <1>0, <2>0, DrainsSoon
    <2>5. \A j \in 1 .. n : g[j][1] # "settle"
        BY <1>1
    <2> HIDE DEF g, s
    <2>6. Len(g) = n /\ Len(s) = 3 * n
        BY <1>0, <2>2, <2>3
    <2>7. i \in 1 .. (n + 3 * n)
        BY <1>0, <2>0, <2>2, <2>6
    <2>8. CASE i <= n
        <3>1. plan'[i] = g[i] /\ i \in 1 .. n
            BY <1>0, <2>0, <2>2, <2>6, <2>7, <2>8
        <3> QED
            BY <2>5, <3>1
    <2>9. CASE i > n
        <3>1. plan'[i] = s[i - n] /\ i - n \in 1 .. 3 * n
            BY <1>0, <2>0, <2>2, <2>6, <2>7, <2>9
        <3> QED
            BY <2>4, <3>1
    <2> QED
        BY <1>0, <2>7, <2>8, <2>9
<1> QED
    BY <1>2, <1>3

\* The clock goes forward, and no further than the end of a slice.
LEMMA Forward ==
    ASSUME RestType, [Next]_vars
    PROVE  clock' \in {clock, Tomorrow} \/ SetClock \/ Crash
<1> USE DEF shop
<1>1. CASE Clockwork
    BY <1>1 DEF Clockwork, OpenMerchant, SliceStarts, SliceSelects, SliceCommits, SliceFails
<1>2. ASSUME NEW a \in Actors, Work(a) \/ Raise(a) PROVE clock' = clock
    BY <1>2 DEF Work, WriteBatch, ChainDay, PromiseSettlement, SettleCommits, Raise
<1> QED
    BY NextCases, <1>1, <1>2 DEF CreateMerchant, RunJob, GeneratePos, AdminCalls, vars

\* Jobs whose date has come stay so, until the clock is set: it turns back only in a
\* crash, which leaves no slice.
LEMMA TakenDue ==
    ASSUME RestType, JobsDue, [Next]_vars, sets = 0, sets' = 0
    PROVE  /\ \A s \in Slices : end'[s] <= clock' + 1
           /\ \A s \in Slices, q \in Jobs : taken'[s][q] > 0 => q[2] <= clock'
<1> USE DEF queue, shop
<1> DEFINE Goal == /\ \A s \in Slices : end'[s] <= clock' + 1
                   /\ \A s \in Slices, q \in Jobs : taken'[s][q] > 0 => q[2] <= clock'
<1>0. /\ clock \in Nat /\ Tomorrow \in Nat /\ Tomorrow >= clock /\ ~SetClock
      /\ \A q \in Jobs : q[2] \in Nat
      /\ \A s \in Slices : end[s] \in Nat /\ end[s] <= clock + 1
      /\ \A s \in Slices, q \in Jobs : taken[s][q] > 0 => q[2] <= clock
    <2>1. /\ clock \in Nat /\ Tomorrow \in {clock, clock + 1}
          /\ \A s \in Slices : end[s] \in Nat
        BY Numbers
    <2>2. ~SetClock
        BY DEF SetClock
    <2>3. \A q \in Jobs : q[2] \in Nat
        BY PosDaysAssumption DEF Jobs, Days
    <2> QED
        BY <2>1, <2>2, <2>3 DEF JobsDue
<1>1. ASSUME UNCHANGED <<end, taken>>, clock' \in {clock, Tomorrow} PROVE Goal
    <2>1. clock' >= clock /\ clock' \in Nat
        BY <1>0, <1>1
    <2>2. \A s \in Slices : end[s] <= clock' + 1
        BY <1>0, <2>1
    <2>3. ASSUME NEW s \in Slices, NEW q \in Jobs, taken[s][q] > 0 PROVE q[2] <= clock'
        BY <1>0, <2>1, <2>3
    <2> QED
        BY <1>1, <2>2, <2>3
<1>2. CASE Crash
    <2>1. \A s \in Slices : end'[s] = 0 /\ clock' = 1
        BY <1>2 DEF Crash
    <2>2. \A s \in Slices, q \in Jobs : taken'[s][q] = 0
        BY <1>2 DEF Crash, NoJobs
    <2> QED
        BY <2>1, <2>2
<1>3. ASSUME NEW x \in Slices, SliceStarts(x) PROVE Goal
    <2>1. clock' = clock /\ taken' = taken /\ end' = [end EXCEPT ![x] = Tomorrow]
        BY <1>3 DEF SliceStarts
    <2>2. Tomorrow <= clock + 1
        BY Numbers
    <2>3. \A s \in Slices : end'[s] \in {end[s], Tomorrow}
        BY <2>1 DEF RestType
    <2> QED
        BY <1>0, <2>1, <2>2, <2>3
<1>4. ASSUME NEW x \in Slices, SliceSelects(x) PROVE Goal
    <2>1. /\ clock' = Tomorrow /\ end' = [end EXCEPT ![x] = 0]
          /\ clock \in Nat /\ LastDay \in Nat /\ clock <= LastDay
          /\ end[x] \in Nat /\ end[x] <= LastDay /\ end[x] <= clock + 1
        <3>1. clock \in 1 .. LastDay /\ end[x] \in 0 .. LastDay /\ LastDay \in Nat
            BY PosDaysAssumption DEF RestType
        <3> QED
            BY <1>0, <1>4, <3>1 DEF SliceSelects
    <2>2. end[x] <= Tomorrow
        BY <2>1 DEF Tomorrow
    <2>3. PICK T \in [Jobs -> Nat] :
             /\ \A q \in Jobs : T[q] = IF Due(x, q[2]) THEN Free(q) ELSE 0
             /\ taken' = [taken EXCEPT ![x] = T]
        BY <1>4, SelectedJobs
    <2>4. ASSUME NEW s \in Slices, NEW q \in Jobs, taken'[s][q] > 0 PROVE q[2] <= Tomorrow
        <3>1. CASE s = x
            <4>1. taken'[s][q] = T[q]
                BY <2>3, <3>1 DEF RestType
            <4>2. q[2] <= end[x]
                BY <2>3, <2>4, <4>1 DEF Due
            <4> QED
                BY <1>0, <2>1, <2>2, <4>2
        <3>2. CASE s # x
            <4>1. taken'[s] = taken[s]
                BY <2>3, <3>2 DEF RestType
            <4> QED
                BY <1>0, <2>4, <4>1
        <3> QED
            BY <3>1, <3>2
    <2>5. \A s \in Slices : end'[s] \in {end[s], 0}
        BY <2>1 DEF RestType
    <2>6. \A s \in Slices : end'[s] <= Tomorrow + 1
        BY <1>0, <2>5
    <2> QED
        BY <2>1, <2>4, <2>6
<1>5. ASSUME NEW x \in Slices, SliceCommits(x) \/ SliceFails(x) PROVE Goal
    <2>1. clock' = clock /\ taken' = [taken EXCEPT ![x] = NoJobs]
          /\ end' \in {end, [end EXCEPT ![x] = 0]}
        BY <1>5 DEF SliceCommits, SliceFails
    <2>2. \A s \in Slices : end'[s] \in {end[s], 0}
        BY <2>1 DEF RestType
    <2>3. \A s \in Slices, q \in Jobs : taken'[s][q] \in {taken[s][q], 0}
        BY <2>1 DEF RestType, NoJobs
    <2> QED
        BY <1>0, <2>1, <2>2, <2>3
<1>6. CASE OpenMerchant \/ CreateMerchant \/ AdminCalls \/ UNCHANGED vars
    BY <1>1, <1>6 DEF OpenMerchant, CreateMerchant, AdminCalls, vars
<1>7. ASSUME NEW n \in Windows, NEW backfill \in BOOLEAN, GeneratePos(n, backfill) PROVE Goal
    BY <1>1, <1>7 DEF GeneratePos
<1>8. ASSUME NEW s \in Slices, NEW q \in Jobs, RunJob(s, q) PROVE Goal
    BY <1>1, <1>8 DEF RunJob
<1>9. ASSUME NEW a \in Actors, Work(a) \/ Raise(a) PROVE Goal
    <2>1. UNCHANGED <<end, taken, clock>>
        BY <1>9 DEF Work, WriteBatch, ChainDay, PromiseSettlement, SettleCommits, Raise
    <2> QED
        BY <1>1, <2>1
<1> QED
    BY NextCases, <1>0, <1>2, <1>3, <1>4, <1>5, <1>6, <1>7, <1>8, <1>9 DEF Clockwork

\* So do the settlements that a backfill has planned or is at.
LEMMA PlannedDue ==
    ASSUME IInv, RestType, JobsDue, [Next]_vars, sets = 0, sets' = 0
    PROVE  /\ \A i \in DOMAIN plan' : plan'[i][1] = "settle" => plan'[i][2] <= clock' + 2
           /\ op'["admin"] = "settling" => day'["admin"] <= clock' + 2
<1> USE DEF work, admin
<1> DEFINE Goal == /\ \A i \in DOMAIN plan' : plan'[i][1] = "settle" => plan'[i][2] <= clock' + 2
                   /\ op'["admin"] = "settling" => day'["admin"] <= clock' + 2
<1>0. /\ op \in [Actors -> {"idle", "writing", "chaining", "promising", "settling"}]
      /\ day \in [Actors -> Days] /\ Slices \subseteq Actors
      /\ "admin" \in Actors /\ "admin" \notin Slices
      /\ clock \in Nat /\ Tomorrow \in {clock, clock + 1}
    BY Numbers DEF IInv, LedgerType, Actors, Slices
<1>1. ASSUME clock' \in {clock, Tomorrow}, plan' = plan,
             op'["admin"] = "settling" =>
                op["admin"] = "settling" /\ day'["admin"] = day["admin"]
      PROVE  Goal
    <2>1. clock' >= clock /\ clock' \in Nat
        BY <1>0, <1>1
    <2>2. ASSUME NEW i \in DOMAIN plan, plan[i][1] = "settle" PROVE plan[i][2] <= clock' + 2
        <3>1. plan[i][2] \in Nat
            BY DEF RestType
        <3>2. plan[i][2] <= clock + 2
            BY <2>2 DEF JobsDue
        <3> QED
            BY <1>0, <2>1, <3>1, <3>2
    <2>3. ASSUME op["admin"] = "settling" PROVE day["admin"] <= clock' + 2
        <3>1. day["admin"] \in Nat
            BY <1>0, PosDaysAssumption DEF Days
        <3>2. day["admin"] <= clock + 2
            BY <2>3 DEF JobsDue
        <3> QED
            BY <1>0, <2>1, <3>1, <3>2
    <2> QED
        BY <1>1, <2>2, <2>3
<1>2. CASE Crash
    <2>1. plan' = <<>> /\ op'["admin"] = "idle"
        BY <1>0, <1>2 DEF Crash
    <2> QED
        BY <2>1
<1>3. CASE Clockwork
    <2>1. UNCHANGED <<op, day, plan>>
        BY <1>3, ClockworkKeeps
    <2>2. clock' \in {clock, Tomorrow}
        BY <1>3, Forward DEF SetClock, Crash, Clockwork, OpenMerchant, SliceStarts,
                             SliceSelects, SliceCommits, SliceFails
    <2> QED
        BY <1>1, <2>1, <2>2
<1>4. CASE CreateMerchant \/ UNCHANGED vars
    BY <1>1, <1>4 DEF CreateMerchant, vars
<1>5. ASSUME NEW s \in Slices, NEW q \in Jobs, RunJob(s, q) PROVE Goal
    <2>1. clock' = clock /\ plan' = plan
        BY <1>5 DEF RunJob
    <2>2. op'["admin"] = op["admin"] /\ day'["admin"] = day["admin"]
        BY <1>0, <1>5 DEF RunJob, Begin, Generate, Settle
    <2> QED
        BY <1>1, <2>1, <2>2
<1>6. ASSUME NEW n \in Windows, NEW backfill \in BOOLEAN, GeneratePos(n, backfill) PROVE Goal
    <2>1. UNCHANGED <<clock, op, day>>
        BY <1>6 DEF GeneratePos
    <2>2. \A i \in DOMAIN plan' : plan'[i][1] = "settle" => plan'[i][2] <= clock + 2
        BY <1>6, PlansSoon
    <2> QED
        BY <2>1, <2>2 DEF JobsDue
<1>7. CASE AdminCalls
    <2> DEFINE E == Kinds \X Nat
    <2>0. /\ plan \in Seq(E) /\ plan # <<>> /\ op["admin"] = "idle"
          /\ UNCHANGED clock
        BY <1>7 DEF AdminCalls, RestType
    <2>1. CASE plan' = <<>> /\ UNCHANGED work
        BY <2>0, <2>1
    <2>2. CASE plan' = Tail(plan) /\ Begin("admin", Head(plan))
        <3>1. \A i \in DOMAIN plan' : plan'[i] = plan[i + 1] /\ i + 1 \in DOMAIN plan
            <4> HIDE DEF E
            <4> QED
                BY <2>0, <2>2
        <3>2. Head(plan) = plan[1] /\ 1 \in DOMAIN plan
            <4> HIDE DEF E
            <4> QED
                BY <2>0
        <3>3. op'["admin"] = "settling" =>
                 Head(plan)[1] # "gen" /\ day'["admin"] = Head(plan)[2]
            BY <1>0, <2>2 DEF Begin, Generate, AfterLoad, Settle
        <3>4. Head(plan)[1] # "gen" => Head(plan)[1] = "settle"
            BY <1>7 DEF AdminCalls, Jobs, Kinds
        <3>5. op'["admin"] = "settling" => day'["admin"] <= clock + 2
            BY <3>2, <3>3, <3>4 DEF JobsDue
        <3>6. \A i \in DOMAIN plan' : plan'[i][1] = "settle" => plan'[i][2] <= clock + 2
            BY <3>1 DEF JobsDue
        <3> QED
            BY <2>0, <3>5, <3>6
    <2> QED
        BY <1>7, <2>1, <2>2 DEF AdminCalls
<1>8. ASSUME NEW a \in Actors, Work(a) \/ Raise(a) PROVE Goal
    <2>1. UNCHANGED <<clock, plan, day>>
        BY <1>8 DEF Work, WriteBatch, ChainDay, PromiseSettlement, SettleCommits, Raise
    <2>2. op'["admin"] = "settling" => op["admin"] = "settling"
        BY <1>0, <1>8 DEF Work, WriteBatch, ChainDay, PromiseSettlement, SettleCommits, Raise
    <2> QED
        BY <1>1, <2>1, <2>2
<1> QED
    BY NextCases, <1>2, <1>3, <1>4, <1>5, <1>6, <1>7, <1>8

\* Nothing is locked, planned or settled too early while nobody sets the clock.
LEMMA DueNext == IInv /\ RestType /\ JobsDue /\ [Next]_vars => JobsDue'
<1> SUFFICES ASSUME IInv, RestType, JobsDue, [Next]_vars, sets' = 0 PROVE JobsDue'
    BY DEF JobsDue
<1>1. sets = 0
    <2>1. sets' >= sets /\ sets \in Nat
        BY CountersGrow, Numbers
    <2> QED
        BY <2>1
<1> QED
    BY <1>1, TakenDue, PlannedDue DEF JobsDue

\* In the beginning nothing is locked or planned.
LEMMA DueInit == Init => JobsDue
<1> SUFFICES ASSUME Init PROVE JobsDue
    OBVIOUS
<1>1. /\ \A s \in Slices : end[s] = 0
      /\ \A s \in Slices, q \in Jobs : taken[s][q] = 0
      /\ clock = 1 /\ plan = <<>> /\ op["admin"] = "idle"
    BY TwoSlices DEF Init, NoJobs
<1> QED
    BY <1>1 DEF JobsDue

\* Only the commit of a settlement pays, and only the sales of its date.
LEMMA PaysDue ==
    ASSUME IInv, RestType, JobsHeld, SalesHeld, JobsDue, [Next]_vars, sets = 0,
           NEW d \in Days, paid'[d] > paid[d]
    PROVE  \/ SettleDate(d) <= clock
           \/ op["admin"] = "settling" /\ SettleDate(d) <= clock + 2
<1> USE DEF ledger
<1>0. /\ op \in [Actors -> {"idle", "writing", "chaining", "promising", "settling"}]
      /\ day \in [Actors -> Days]
      /\ rows \in [Actors -> [Days -> Nat]] /\ paid[d] \in Nat
    BY DEF IInv, LedgerType
<1>1. paid' # paid
    BY <1>0
<1>2. PICK a \in Actors : SettleCommits(a)
    <2>1. CASE \E b \in Actors : WriteBatch(b) \/ ChainDay(b) \/ PromiseSettlement(b)
                                 \/ Raise(b)
        BY <1>1, <2>1 DEF WriteBatch, ChainDay, PromiseSettlement, Raise
    <2>2. CASE Clockwork
        BY <1>1, <2>2, ClockworkKeeps
    <2>3. CASE CreateMerchant \/ AdminCalls \/ Crash \/ UNCHANGED vars
        BY <1>1, <2>3 DEF CreateMerchant, AdminCalls, Crash, vars
    <2>4. CASE \E n \in Windows, backfill \in BOOLEAN : GeneratePos(n, backfill)
        BY <1>1, <2>4 DEF GeneratePos
    <2>5. CASE \E s \in Slices, q \in Jobs : RunJob(s, q)
        BY <1>1, <2>5 DEF RunJob
    <2> QED
        BY NextCases, <2>1, <2>2, <2>3, <2>4, <2>5 DEF Work
<1>3. rows[a][d] > 0 /\ op[a] = "settling"
    BY <1>0, <1>2 DEF SettleCommits
<1>4. SettleDate(d) = day[a]
    BY <1>3 DEF SalesHeld
<1>5. CASE a \in Slices
    <2> DEFINE q == <<"settle", day[a]>>
    <2>1. q \in Jobs
        BY <1>0, JobOf
    <2>2. todo[a][q] < taken[a][q]
        BY <1>3, <1>5 DEF JobsHeld, HoldsJobs, Held
    <2>3. taken[a][q] > 0
        BY <1>5, <2>1, <2>2, Counts
    <2>4. q[2] <= clock
        BY <1>5, <2>1, <2>3 DEF JobsDue
    <2> QED
        BY <1>4, <2>4
<1>6. CASE a = "admin"
    BY <1>3, <1>4, <1>6 DEF JobsDue
<1> QED
    BY <1>5, <1>6 DEF Actors

\* Until the clock is set nothing is settled before its settlement date, but for the
\* inline settlement of a backfill, at most two days early (admin/api.py: generate_pos).
THEOREM Punctuality == Spec => NeverEarly
<1> DEFINE Holds == IInv /\ RestType /\ JobsHeld /\ SalesHeld /\ JobsDue
           Step == \A d \in Days : (paid'[d] > paid[d] /\ sets = 0) =>
                      \/ SettleDate(d) <= clock
                      \/ op["admin"] = "settling" /\ SettleDate(d) <= clock + 2
<1>1. Init => Holds
    BY HeldInit, SalesInit, DueInit
<1>2. Holds /\ [Next]_vars => Holds'
    BY InvNext, RestNext, HeldNext, SalesNext, DueNext
<1>3. Holds /\ [Next]_vars => [Step]_vars
    BY PaysDue
<1> QED
    BY <1>1, <1>2, <1>3, PTL DEF Spec, NeverEarly
-----------------------------------------------------------------------------
(***************************************************************************)
(* Settlement dates, and one batch for each.                               *)
(***************************************************************************)

\* Every set of natural numbers that is not empty has a least element.
LEMMA LeastNatural ==
    ASSUME NEW T \in SUBSET Nat, T # {}
    PROVE  \E n \in T : \A m \in T : n <= m
<1> DEFINE F == {0 .. n : n \in T}
<1>1. F \subseteq FiniteSubsetsOf(Nat) /\ F # {}
    <2>1. ASSUME NEW n \in T PROVE 0 .. n \in SUBSET Nat /\ IsFiniteSet(0 .. n)
        <3>1. n \in Int /\ 0 \in Int
            OBVIOUS
        <3> QED
            BY <3>1, FS_Interval
    <2> QED
        BY <2>1 DEF FiniteSubsetsOf
<1>2. \E s \in F : \A t \in F : <<t, s>> \notin StrictSubsetOrdering(Nat)
    <2> HIDE DEF F
    <2> QED
        BY <1>1, FS_StrictSubsetOrderingWellFounded, WFMin
<1>3. PICK n \in T : \A t \in F : <<t, 0 .. n>> \notin StrictSubsetOrdering(Nat)
    BY <1>2
<1>4. ASSUME NEW m \in T, m < n PROVE FALSE
    <2>1. 0 .. m \in F /\ 0 .. m \subseteq 0 .. n /\ n \in 0 .. n /\ n \notin 0 .. m
        BY <1>4
    <2>2. <<0 .. m, 0 .. n>> \in StrictSubsetOrdering(Nat)
        BY <2>1 DEF StrictSubsetOrdering
    <2> QED
        BY <1>3, <2>1, <2>2
<1> QED
    BY <1>4

\* Some day of the next seven is a working day, so the next one is later.
LEMMA NextIsLater ==
    ASSUME NEW d \in Nat \ {0}
    PROVE  NextWorkDay(d) \in Nat \ {0} /\ NextWorkDay(d) >= d + 1
<1> DEFINE W == {s \in d + 1 .. d + 7 : s \notin Weekend}
<1>1. W \in SUBSET Nat
    OBVIOUS
<1>2. W # {}
    <2>1. CASE d \in Days
        <3>1. PICK s \in d + 1 .. d + 7 : s \notin Weekend
            BY <2>1, PosDaysAssumption
        <3> QED
            BY <3>1
    <2>2. CASE d \notin Days
        <3>1. d + 1 \in d + 1 .. d + 7 /\ d + 1 \notin Days
            BY <2>2, PosDaysAssumption DEF Days
        <3>2. d + 1 \notin Weekend
            BY <3>1, PosDaysAssumption
        <3> QED
            BY <3>1, <3>2
    <2> QED
        BY <2>1, <2>2
<1>3. \E n \in W : \A m \in W : n <= m
    <2> HIDE DEF W
    <2> QED
        BY <1>1, <1>2, LeastNatural
<1>4. Min(W) \in W
    <2> HIDE DEF W
    <2> QED
        BY <1>3 DEF Min
<1>5. NextWorkDay(d) \in W
    BY <1>4 DEF NextWorkDay
<1>6. NextWorkDay(d) \in d + 1 .. d + 7
    BY <1>5
<1> QED
    BY <1>6

\* The dates on the way to the settlement of d, as _expected_settlement_date finds them.
Dates(d, f) ==
    f = [n \in 0 .. SettleDays |-> IF n = 0 THEN d ELSE NextWorkDay(f[n - 1])]

\* There are such dates: each is found from the one before.
LEMMA DatesExist ==
    ASSUME NEW d \in Nat \ {0}
    PROVE  \E f : Dates(d, f)
<1> DEFINE K == 0 .. SettleDays
           P == Nat \ {0}
           Upto(m, f) == \A n \in K : n <= m =>
                            f[n] = IF n = 0 THEN d ELSE NextWorkDay(f[n - 1])
           Fails == {m \in K : ~\E f \in [K -> P] : Upto(m, f)}
<1>0. SettleDays \in Nat /\ K \subseteq Nat /\ SettleDays \in K
    BY PosDaysAssumption
<1>1. [n \in K |-> d] \in [K -> P] /\ Upto(0, [n \in K |-> d])
    <2>1. \A n \in K : n <= 0 => n = 0
        BY <1>0
    <2> QED
        BY <2>1
<1>2. ASSUME NEW m \in K, m # 0, NEW f \in [K -> P], Upto(m - 1, f)
      PROVE  \E g \in [K -> P] : Upto(m, g)
    <2> DEFINE g == [f EXCEPT ![m] = NextWorkDay(f[m - 1])]
    <2>1. m - 1 \in K /\ f[m - 1] \in P
        BY <1>0, <1>2
    <2>2. g \in [K -> P]
        BY <2>1, NextIsLater
    <2>3. ASSUME NEW n \in K, n <= m
          PROVE  g[n] = IF n = 0 THEN d ELSE NextWorkDay(g[n - 1])
        <3>1. CASE n = m
            <4>1. g[n] = NextWorkDay(f[m - 1]) /\ g[m - 1] = f[m - 1]
                BY <2>1, <3>1
            <4> QED
                BY <1>2, <3>1, <4>1
        <3>2. CASE n # m
            <4>1. n <= m - 1
                BY <1>0, <2>3, <3>2
            <4>2. g[n] = f[n]
                BY <3>2
            <4>3. n # 0 => n - 1 \in K /\ n - 1 # m
                BY <1>0, <4>1
            <4>4. n # 0 => g[n - 1] = f[n - 1]
                BY <4>3
            <4> QED
                BY <1>2, <4>1, <4>2, <4>4
        <3> QED
            BY <3>1, <3>2
    <2> QED
        BY <2>2, <2>3
<1>3. Fails = {}
    <2> SUFFICES ASSUME Fails # {} PROVE FALSE
        OBVIOUS
    <2>1. PICK m \in Fails : \A n \in Fails : m <= n
        <3>1. Fails \in SUBSET Nat
            BY <1>0
        <3> HIDE DEF Fails
        <3> QED
            BY <3>1, LeastNatural
    <2> HIDE DEF Upto
    <2>2. m \in K /\ ~\E f \in [K -> P] : Upto(m, f)
        OBVIOUS
    <2>3. m # 0
        BY <1>1, <2>2
    <2>4. m - 1 \in K /\ m - 1 \notin Fails
        <3>1. m - 1 \in K /\ m - 1 < m
            BY <1>0, <2>2, <2>3
        <3> HIDE DEF Fails
        <3> QED
            BY <1>0, <2>1, <2>2, <3>1
    <2>5. PICK f \in [K -> P] : Upto(m - 1, f)
        BY <2>4
    <2> QED
        BY <1>2, <2>2, <2>3, <2>5
<1>4. PICK f \in [K -> P] : Upto(SettleDays, f)
    BY <1>0, <1>3
<1>5. \A n \in K : f[n] = IF n = 0 THEN d ELSE NextWorkDay(f[n - 1])
    BY <1>0, <1>4
<1> QED
    BY <1>5 DEF Dates

\* The settlement of a date is later than the date, whatever the weekends.
LEMMA SettleLater ==
    ASSUME NEW d \in Days
    PROVE  SettleDate(d) \in Nat /\ SettleDate(d) > d
<1> DEFINE f == CHOOSE g : Dates(d, g)
<1>0. SettleDays \in Nat \ {0} /\ d \in Nat \ {0}
    BY PosDaysAssumption DEF Days
<1>1. SettleDate(d) = f[SettleDays]
    BY DEF SettleDate, Dates
<1>2. Dates(d, f)
    BY <1>0, DatesExist
<1> HIDE DEF f
<1>3. \A n \in 0 .. SettleDays : f[n] = IF n = 0 THEN d ELSE NextWorkDay(f[n - 1])
    BY <1>2 DEF Dates
<1> DEFINE Fails == {n \in 0 .. SettleDays : ~(f[n] \in Nat \ {0} /\ f[n] >= d + n)}
<1>4. Fails = {}
    <2> SUFFICES ASSUME Fails # {} PROVE FALSE
        OBVIOUS
    <2>1. PICK n \in Fails : \A m \in Fails : n <= m
        <3>1. Fails \in SUBSET Nat
            BY <1>0
        <3> HIDE DEF Fails
        <3> QED
            BY <3>1, LeastNatural
    <2>2. n \in 0 .. SettleDays /\ ~(f[n] \in Nat \ {0} /\ f[n] >= d + n)
        OBVIOUS
    <2>3. n # 0
        BY <1>0, <1>3, <2>2
    <2>4. n - 1 \in 0 .. SettleDays /\ n - 1 \notin Fails
        <3>1. n - 1 \in 0 .. SettleDays /\ n - 1 < n
            BY <1>0, <2>2, <2>3
        <3> HIDE DEF Fails
        <3> QED
            BY <2>1, <2>2, <3>1
    <2>5. f[n - 1] \in Nat \ {0} /\ f[n - 1] >= d + (n - 1)
        BY <2>4
    <2>6. f[n] = NextWorkDay(f[n - 1])
        BY <1>3, <2>2, <2>3
    <2>7. f[n] \in Nat \ {0} /\ f[n] >= f[n - 1] + 1
        BY <2>5, <2>6, NextIsLater
    <2> QED
        BY <1>0, <2>2, <2>5, <2>7
<1>5. SettleDays \in 0 .. SettleDays
    BY <1>0
<1>6. f[SettleDays] \in Nat \ {0} /\ f[SettleDays] >= d + SettleDays
    BY <1>4, <1>5
<1> QED
    BY <1>0, <1>1, <1>6

\* What is left of Next when nothing happens that OncePerDay excepts.
CalmStep ==
    \/ OpenMerchant
    \/ CreateMerchant /\ opened = clock
    \/ SliceStarts("first")
    \/ SliceSelects("first")
    \/ \E q \in Jobs : RunJob("first", q)
    \/ SliceCommits("first")
    \/ Work("first")
    \/ Raise("first")
    \/ UNCHANGED vars

Quiet == calls = 0 /\ crashes = 0 /\ sets = 0 /\ slips = 0

\* Until now nothing of it has happened, and one slice is the only actor.
LEMMA Calm ==
    ASSUME IInv, RestType, SalesHeld, [Next]_vars, Quiet',
           Quiet => Alone /\ GenerationsOnTime
    PROVE  /\ Quiet
           /\ op["admin"] = "idle" /\ rows["admin"] = Zero /\ rows["second"] = Zero
           /\ CalmStep
<1>0. /\ Slices = {"first", "second"} /\ Actors = {"first", "second", "admin"}
      /\ clock \in Nat /\ opened \in Nat
      /\ calls \in Nat /\ crashes \in Nat /\ sets \in Nat /\ slips \in Nat
    BY Numbers DEF Slices, Actors
<1>1. Quiet /\ ~Crash /\ ~SetClock
    <2>1. /\ calls' >= calls /\ crashes' >= crashes /\ sets' >= sets /\ slips' >= slips
          /\ (Crash => crashes' > 0) /\ (SetClock => sets' > 0)
        BY CountersGrow
    <2>2. calls' = 0 /\ crashes' = 0 /\ sets' = 0 /\ slips' = 0
        BY DEF Quiet
    <2> QED
        BY <1>0, <2>1, <2>2 DEF Quiet
<1>2. op["admin"] = "idle" /\ plan = <<>> /\ op["second"] = "idle"
    BY <1>1 DEF SalesHeld, Quiet, Alone
<1>3. rows["admin"] = Zero /\ rows["second"] = Zero
    BY <1>0, <1>2 DEF IInv, RowsInv
<1>4. ~AdminCalls /\ ~Work("admin") /\ ~Raise("admin") /\ ~Work("second") /\ ~Raise("second")
    BY <1>2 DEF AdminCalls, Work, WriteBatch, ChainDay, PromiseSettlement, SettleCommits,
                Raise
<1>5. \A n \in Windows, backfill \in BOOLEAN : ~GeneratePos(n, backfill)
    BY <1>1 DEF GeneratePos, Quiet
<1>6. slips = 0 /\ slips' = 0 /\ ~Busy("second")
    BY <1>1 DEF Quiet, Alone, Busy
<1>7. /\ ~SliceFails("first") /\ ~SliceFails("second")
      /\ ~SliceSelects("second") /\ ~SliceCommits("second")
    BY <1>6 DEF SliceFails, SliceSelects, SliceCommits, Busy
<1>8. ~SliceStarts("second")
    BY <1>6 DEF SliceStarts
<1>9. ASSUME NEW q \in Jobs PROVE ~RunJob("second", q)
    <2>1. todo["second"][q] = 0
        BY <1>1 DEF Alone, NoJobs
    <2> QED
        BY <2>1 DEF RunJob
<1>10. CreateMerchant => opened = clock
    <2> SUFFICES ASSUME CreateMerchant PROVE opened = clock
        OBVIOUS
    <2>1. ~(opened < clock)
        BY <1>6 DEF CreateMerchant
    <2>2. opened <= clock
        BY <1>1 DEF GenerationsOnTime
    <2> QED
        BY <1>0, <2>1, <2>2
<1>11. CASE Clockwork
    BY <1>0, <1>1, <1>2, <1>3, <1>7, <1>8, <1>11 DEF Clockwork, CalmStep
<1>12. CASE \E s \in Slices, q \in Jobs : RunJob(s, q)
    BY <1>0, <1>1, <1>2, <1>3, <1>9, <1>12 DEF CalmStep
<1>13. CASE \E a \in Actors : Work(a) \/ Raise(a)
    BY <1>0, <1>1, <1>2, <1>3, <1>4, <1>13 DEF CalmStep
<1> QED
    BY NextCases, <1>1, <1>2, <1>3, <1>4, <1>5, <1>10, <1>11, <1>12, <1>13 DEF CalmStep

\* The first slice leaves the second alone.
LEMMA StillAlone ==
    ASSUME IInv, RestType, Alone, CalmStep
    PROVE  Alone'
<1> USE DEF queue, work
<1>0. /\ op \in [Actors -> {"idle", "writing", "chaining", "promising", "settling"}]
      /\ "first" \in Actors /\ "second" \in Actors /\ "first" # "second"
      /\ end \in [Slices -> 0 .. LastDay] /\ "second" \in Slices
      /\ taken \in [Slices -> [Jobs -> Nat]] /\ todo \in [Slices -> [Jobs -> Nat]]
    BY TwoSlices DEF IInv, LedgerType, RestType
<1>1. ASSUME end'["second"] = end["second"], taken'["second"] = taken["second"],
             todo'["second"] = todo["second"], op'["second"] = op["second"]
      PROVE  Alone'
    BY <1>1 DEF Alone, NoJobs
<1>2. CASE OpenMerchant \/ CreateMerchant \/ UNCHANGED vars
    BY <1>1, <1>2 DEF OpenMerchant, CreateMerchant, vars
<1>3. CASE SliceStarts("first") \/ SliceSelects("first") \/ SliceCommits("first")
    <2>1. end'["second"] = end["second"] /\ op'["second"] = op["second"]
        BY <1>0, <1>3 DEF SliceStarts, SliceSelects, SliceCommits
    <2>2. taken'["second"] = taken["second"] /\ todo'["second"] = todo["second"]
        BY <1>0, <1>3 DEF SliceStarts, SliceSelects, SliceCommits
    <2> QED
        BY <1>1, <2>1, <2>2
<1>4. ASSUME NEW q \in Jobs, RunJob("first", q) PROVE Alone'
    <2>1. UNCHANGED <<end, taken>> /\ todo'["second"] = todo["second"]
        BY <1>0, <1>4 DEF RunJob
    <2>2. op'["second"] = op["second"]
        BY <1>0, <1>4 DEF RunJob, Begin, Generate, Settle
    <2> QED
        BY <1>1, <2>1, <2>2
<1>5. CASE Work("first") \/ Raise("first")
    <2>1. UNCHANGED <<end, taken, todo>>
        BY <1>5 DEF Work, WriteBatch, ChainDay, PromiseSettlement, SettleCommits, Raise
    <2>2. op'["second"] = op["second"]
        BY <1>0, <1>5 DEF Work, WriteBatch, ChainDay, PromiseSettlement, SettleCommits, Raise
    <2> QED
        BY <1>1, <2>1, <2>2
<1> QED
    BY <1>2, <1>3, <1>4, <1>5 DEF CalmStep

\* What waits when the second slice has no jobs, before a step and after it.
LEMMA AloneWaits ==
    ASSUME RestType, Alone, NEW q \in Jobs
    PROVE  /\ Free(q) = jobs[q] - taken["first"][q]
           /\ Waiting(q) = jobs[q] - taken["first"][q] + todo["first"][q]
<1>1. taken["second"][q] = 0 /\ todo["second"][q] = 0
    BY DEF Alone, NoJobs
<1>2. jobs[q] \in Nat /\ taken["first"][q] \in Nat /\ todo["first"][q] \in Nat
    BY Counts, TwoSlices
<1>3. Free(q) = jobs[q] - taken["first"][q]
    BY <1>1, <1>2 DEF Free
<1> QED
    BY <1>1, <1>2, <1>3 DEF Waiting

LEMMA AloneWaitsThen ==
    ASSUME RestType', Alone', NEW q \in Jobs
    PROVE  Waiting(q)' = jobs'[q] - taken'["first"][q] + todo'["first"][q]
<1>1. taken'["second"][q] = 0 /\ todo'["second"][q] = 0
    BY DEF Alone, NoJobs
<1>2. jobs'[q] \in Nat /\ taken'["first"][q] \in Nat /\ todo'["first"][q] \in Nat
    BY TwoSlices DEF RestType
<1>3. Free(q)' = jobs'[q] - taken'["first"][q]
    BY <1>1, <1>2 DEF Free
<1> QED
    BY <1>1, <1>2, <1>3 DEF Waiting

\* The generations to come are those there were, the merchant's first one and the one
\* after a generation that ends.
LEMMA ComingFrom ==
    ASSUME IInv, RestType, RestType', JobsHeld, Alone, Alone', CalmStep,
           NEW d \in Days, Coming(d)'
    PROVE  \/ Coming(d)
           \/ CreateMerchant /\ d = clock
           \/ \E e \in Days : Coming(e) /\ d = e + 1
<1> USE DEF queue, work
<1> DEFINE g == <<"gen", d>>
<1>0. /\ op \in [Actors -> {"idle", "writing", "chaining", "promising", "settling"}]
      /\ day \in [Actors -> Days]
      /\ "first" \in Actors /\ "first" \in Slices
      /\ g \in Jobs
    BY JobOf, TwoSlices DEF IInv, LedgerType
<1>1. /\ jobs[g] \in Nat /\ taken["first"][g] \in Nat /\ todo["first"][g] \in Nat
      /\ Waiting(g) = jobs[g] - taken["first"][g] + todo["first"][g]
      /\ Waiting(g)' = jobs'[g] - taken'["first"][g] + todo'["first"][g]
    BY <1>0, Counts, AloneWaits, AloneWaitsThen
<1>2. /\ jobs \in [Jobs -> Nat] /\ HoldsJobs("first")
      /\ taken \in [Slices -> [Jobs -> Nat]] /\ todo \in [Slices -> [Jobs -> Nat]]
    BY TwoSlices DEF RestType, JobsHeld
<1>3. ASSUME jobs'[g] = jobs[g], taken'["first"][g] = taken["first"][g],
             todo'["first"][g] = todo["first"][g],
             op'["first"] \in {"writing", "chaining"} =>
                 op["first"] \in {"writing", "chaining"} /\ day'["first"] = day["first"]
      PROVE  Coming(d)
    <2>1. Waiting(g)' = Waiting(g)
        BY <1>1, <1>3
    <2> QED
        BY <1>3, <2>1 DEF Coming
<1>4. CASE CreateMerchant /\ opened = clock
    <2>1. jobs' = [jobs EXCEPT ![<<"gen", clock>>] = @ + 1]
          /\ UNCHANGED <<taken, todo, op, day>>
        BY <1>4 DEF CreateMerchant, Scheduled
    <2>2. CASE d = clock
        BY <1>4, <2>2
    <2>3. CASE d # clock
        <3>1. g # <<"gen", clock>>
            BY <2>3
        <3>2. jobs'[g] = jobs[g]
            BY <1>0, <1>2, <2>1, <3>1
        <3> QED
            BY <1>3, <2>1, <3>2
    <2> QED
        BY <2>2, <2>3
<1>5. CASE OpenMerchant \/ SliceStarts("first") \/ UNCHANGED vars
    BY <1>3, <1>5 DEF OpenMerchant, SliceStarts, vars
<1>12. CASE SliceSelects("first")
    <2>1. PICK T \in [Jobs -> Nat] :
             /\ taken' = [taken EXCEPT !["first"] = T]
             /\ todo' = [todo EXCEPT !["first"] = T]
        BY <1>0, <1>12, SelectedJobs
    <2>2. /\ taken'["first"][g] = T[g] /\ todo'["first"][g] = T[g] /\ T[g] \in Nat
          /\ taken["first"][g] = 0 /\ todo["first"][g] = 0
        <3>1. taken["first"] = NoJobs
            BY <1>2, <1>12 DEF HoldsJobs, SliceSelects
        <3>2. taken["first"][g] = 0 /\ todo["first"][g] = 0
            BY <1>0, <1>2, <3>1, HoldsNone DEF NoJobs
        <3> QED
            BY <1>0, <1>2, <2>1, <3>2
    <2>3. jobs' = jobs /\ UNCHANGED <<op, day>>
        BY <1>12 DEF SliceSelects
    <2>4. Waiting(g)' = Waiting(g)
        <3>1. Waiting(g)' = jobs[g] - T[g] + T[g] /\ Waiting(g) = jobs[g] - 0 + 0
            BY <1>1, <2>2, <2>3
        <3> HIDE DEF g
        <3> QED
            BY <1>1, <2>2, <3>1
    <2> QED
        BY <2>3, <2>4 DEF Coming
<1>6. ASSUME NEW q \in Jobs, RunJob("first", q) PROVE Coming(d)
    <2>1. /\ jobs' = jobs /\ taken' = taken
          /\ todo'["first"] = [todo["first"] EXCEPT ![q] = @ - 1] /\ todo["first"][q] > 0
        BY <1>0, <1>2, <1>6 DEF RunJob
    <2>2. q = <<q[1], q[2]>> /\ q[2] \in Days /\ q[1] \in {"gen", "settle"}
        BY DEF Jobs, Kinds
    <2>3. CASE q = g
        <3>1. taken["first"][g] <= jobs[g] /\ todo["first"][g] > 0
            <4>1. taken["first"][g] + taken["second"][g] <= jobs[g] /\ taken["second"][g] \in Nat
                BY <1>0, TwoSlices, Counts
            <4> HIDE DEF g
            <4> QED
                BY <1>1, <2>1, <2>3, <4>1
        <3>2. Waiting(g) > 0
            <4> HIDE DEF g
            <4> QED
                BY <1>1, <3>1
        <3> QED
            BY <3>2 DEF Coming
    <2>4. CASE q # g
        <3>1. todo'["first"][g] = todo["first"][g]
            BY <1>0, <1>2, <2>1, <2>4
        <3>2. ~(op'["first"] \in {"writing", "chaining"} /\ day'["first"] = d)
            <4>1. CASE q[1] = "gen"
                <5>1. day'["first"] = q[2]
                    BY <1>0, <1>6, <4>1 DEF RunJob, Begin, Generate
                <5> QED
                    BY <2>2, <2>4, <4>1, <5>1
            <4>2. CASE q[1] # "gen"
                <5>1. op'["first"] \in {"idle", "settling"}
                    BY <1>0, <1>6, <4>2 DEF RunJob, Begin, Settle
                <5> QED
                    BY <5>1
            <4> QED
                BY <4>1, <4>2
        <3>3. Waiting(g)' = Waiting(g)
            BY <1>1, <2>1, <3>1
        <3> QED
            BY <3>2, <3>3 DEF Coming
    <2> QED
        BY <2>3, <2>4
<1>7. CASE SliceCommits("first")
    <2>1. /\ todo["first"][g] = 0 /\ todo'["first"][g] = 0 /\ taken'["first"][g] = 0
          /\ jobs'[g] = jobs[g] - taken["first"][g] /\ UNCHANGED <<op, day>>
        BY <1>0, <1>2, <1>7 DEF SliceCommits, Idle, NoJobs
    <2>2. Waiting(g)' = Waiting(g)
        BY <1>1, <2>1
    <2> QED
        BY <2>1, <2>2 DEF Coming
<1>8. CASE WriteBatch("first")
    BY <1>0, <1>3, <1>8 DEF WriteBatch
<1>9. CASE ChainDay("first")
    <2>1. /\ op["first"] = "chaining" /\ day["first"] + 1 \in Days
          /\ jobs' = [jobs EXCEPT ![<<"gen", day["first"] + 1>>] = @ + 1]
          /\ UNCHANGED <<taken, todo, day>>
          /\ op'["first"] \in {"idle", "promising"}
        BY <1>0, <1>9 DEF ChainDay, Scheduled
    <2>2. day["first"] \in Days /\ Coming(day["first"])
        BY <1>0, <2>1 DEF Coming
    <2>3. CASE d = day["first"] + 1
        BY <2>2, <2>3
    <2>4. CASE d # day["first"] + 1
        <3>1. g # <<"gen", day["first"] + 1>>
            BY <2>4
        <3>2. jobs'[g] = jobs[g]
            BY <1>0, <1>2, <2>1, <3>1
        <3> QED
            BY <1>3, <2>1, <3>2
    <2> QED
        BY <2>3, <2>4
<1>10. CASE PromiseSettlement("first")
    <2>1. /\ jobs' = [jobs EXCEPT ![<<"settle", Promised(day["first"])>>] = @ + 1]
          /\ UNCHANGED <<taken, todo>> /\ op'["first"] = "idle"
        BY <1>0, <1>10 DEF PromiseSettlement, Scheduled
    <2>2. jobs'[g] = jobs[g]
        BY <1>0, <1>2, <2>1
    <2> QED
        BY <1>3, <2>1, <2>2
<1>11. CASE SettleCommits("first") \/ Raise("first")
    <2>1. UNCHANGED <<jobs, taken, todo, day>> /\ op'["first"] \in {"idle", op["first"]}
        BY <1>0, <1>11 DEF SettleCommits, Raise
    <2> QED
        BY <1>3, <2>1
<1> QED
    BY <1>4, <1>5, <1>6, <1>7, <1>8, <1>9, <1>10, <1>11, <1>12 DEF CalmStep, Work

\* The settlement of a date begins only when its job runs.
LEMMA BegunFrom ==
    ASSUME IInv, RestType, CalmStep, NEW s \in Days, Begun(s)'
    PROVE  Begun(s) \/ RunJob("first", <<"settle", s>>)
<1> USE DEF queue, work, ledger
<1>0. /\ op \in [Actors -> {"idle", "writing", "chaining", "promising", "settling"}]
      /\ day \in [Actors -> Days] /\ batches \in [Days -> Nat]
      /\ "first" \in Actors
    BY TwoSlices DEF IInv, LedgerType, RestType
<1>1. ASSUME batches'[s] = batches[s],
             op'["first"] = "settling" =>
                 op["first"] = "settling" /\ day'["first"] = day["first"]
      PROVE  Begun(s)
    BY <1>1 DEF Begun
<1>2. CASE \/ OpenMerchant \/ CreateMerchant \/ SliceStarts("first") \/ SliceSelects("first")
           \/ SliceCommits("first") \/ UNCHANGED vars
    <2>1. UNCHANGED <<batches, op, day>>
        BY <1>2 DEF OpenMerchant, CreateMerchant, SliceStarts, SliceSelects, SliceCommits, vars
    <2> QED
        BY <1>1, <2>1
<1>3. ASSUME NEW q \in Jobs, RunJob("first", q) PROVE Begun(s) \/ RunJob("first", <<"settle", s>>)
    <2>1. q = <<q[1], q[2]>> /\ q[1] \in {"gen", "settle"} /\ batches' = batches
        BY <1>3 DEF RunJob, Jobs, Kinds
    <2>2. CASE q[1] = "gen"
        <3>1. op'["first"] \in {"writing", "chaining"}
            BY <1>0, <1>3, <2>2 DEF RunJob, Begin, Generate, AfterLoad
        <3> QED
            BY <1>1, <2>1, <3>1
    <2>3. CASE q[1] = "settle"
        <3>1. day'["first"] = q[2]
            BY <1>0, <1>3, <2>3 DEF RunJob, Begin, Settle
        <3>2. CASE q[2] = s
            BY <1>3, <2>1, <2>3, <3>2
        <3>3. CASE q[2] # s
            BY <2>1, <3>1, <3>3 DEF Begun
        <3> QED
            BY <3>2, <3>3
    <2> QED
        BY <2>1, <2>2, <2>3
<1>4. CASE WriteBatch("first") \/ ChainDay("first") \/ PromiseSettlement("first")
           \/ Raise("first")
    <2>1. batches' = batches /\ day' = day
        BY <1>4 DEF WriteBatch, ChainDay, PromiseSettlement, Raise
    <2>2. op'["first"] # "settling"
        BY <1>0, <1>4 DEF WriteBatch, ChainDay, PromiseSettlement, Raise
    <2> QED
        BY <1>1, <2>1, <2>2
<1>5. CASE SettleCommits("first")
    <2>1. /\ op["first"] = "settling" /\ op'["first"] = "idle"
          /\ \A x \in Days : x # day["first"] => batches'[x] = batches[x]
        BY <1>0, <1>5 DEF SettleCommits
    <2>2. CASE s = day["first"]
        BY <2>1, <2>2 DEF Begun
    <2>3. CASE s # day["first"]
        BY <2>1, <2>3 DEF Begun
    <2> QED
        BY <2>2, <2>3
<1> QED
    BY <1>2, <1>3, <1>4, <1>5 DEF CalmStep, Work

\* Generations come in time: the next slice locks those of yesterday.
LEMMA OnTimeNext ==
    ASSUME IInv, RestType, JobsHeld, Alone, GenerationsOnTime, CalmStep
    PROVE  GenerationsOnTime'
<1> USE DEF queue, work, shop
<1>0. /\ op \in [Actors -> {"idle", "writing", "chaining", "promising", "settling"}]
      /\ day \in [Actors -> Days]
      /\ "first" \in Actors /\ "first" \in Slices
      /\ jobs \in [Jobs -> Nat]
      /\ taken \in [Slices -> [Jobs -> Nat]] /\ todo \in [Slices -> [Jobs -> Nat]]
      /\ end \in [Slices -> 0 .. LastDay] /\ HoldsJobs("first")
    BY TwoSlices DEF IInv, LedgerType, RestType, JobsHeld
<1>10. /\ clock \in Nat /\ opened \in Nat /\ Tomorrow \in {clock, clock + 1}
       /\ clock \in Days /\ Days \subseteq Nat
    BY Numbers, PosDaysAssumption DEF Days
<1>11. /\ opened <= clock /\ end["first"] \in {0, Tomorrow}
       /\ \A d \in Days : jobs[<<"gen", d>>] > taken["first"][<<"gen", d>>] => d >= clock
       /\ \A d \in Days : todo["first"][<<"gen", d>>] > 0 => d + 1 >= clock
       /\ op["first"] \in {"writing", "chaining"} => day["first"] + 1 >= clock
    BY DEF GenerationsOnTime
<1>1. ASSUME NEW k \in Kinds, NEW e \in Days, UNCHANGED <<clock, end>>, k = "gen" => e >= clock,
             opened' \in {0, opened},
             jobs' = [jobs EXCEPT ![<<k, e>>] = @ + 1], UNCHANGED <<taken, todo>>,
             op'["first"] \in {"writing", "chaining"} =>
                 op["first"] \in {"writing", "chaining"} /\ day'["first"] = day["first"]
      PROVE  GenerationsOnTime'
    <2>1. ASSUME NEW d \in Days, jobs'[<<"gen", d>>] > taken["first"][<<"gen", d>>]
          PROVE  d >= clock
        <3>1. CASE k = "gen" /\ e = d
            BY <1>1, <3>1
        <3>2. CASE ~(k = "gen" /\ e = d)
            <4>1. jobs'[<<"gen", d>>] = jobs[<<"gen", d>>]
                BY <1>0, <1>1, <3>2, JobOf
            <4> QED
                BY <1>11, <2>1, <4>1
        <3> QED
            BY <3>1, <3>2
    <2>2. opened' <= clock /\ Tomorrow' = Tomorrow
        BY <1>1, <1>10, <1>11 DEF Tomorrow
    <2> QED
        BY <1>1, <1>11, <2>1, <2>2 DEF GenerationsOnTime
<1>2. ASSUME UNCHANGED <<clock, jobs>>, taken'["first"] = taken["first"],
             opened' \in {opened, clock}, end'["first"] \in {end["first"], Tomorrow},
             \A d \in Days : todo'["first"][<<"gen", d>>] > 0 => todo["first"][<<"gen", d>>] > 0,
             op'["first"] \in {"writing", "chaining"} => day'["first"] + 1 >= clock
      PROVE  GenerationsOnTime'
    <2>1. opened' <= clock /\ Tomorrow' = Tomorrow
        BY <1>2, <1>10, <1>11 DEF Tomorrow
    <2>2. end'["first"] \in {0, Tomorrow}
        BY <1>2, <1>11
    <2> QED
        BY <1>2, <1>11, <2>1, <2>2 DEF GenerationsOnTime
<1>3. CASE CreateMerchant /\ opened = clock
    <2>1. "gen" \in Kinds /\ clock >= clock
        BY <1>10 DEF Kinds
    <2>2. /\ jobs' = [jobs EXCEPT ![<<"gen", clock>>] = @ + 1]
          /\ UNCHANGED <<clock, end, taken, todo, op, day>> /\ opened' = 0
        BY <1>3 DEF CreateMerchant, Scheduled
    <2> QED
        BY <1>1, <1>10, <2>1, <2>2
<1>12. CASE OpenMerchant \/ UNCHANGED vars
    BY <1>2, <1>11, <1>12 DEF OpenMerchant, vars
<1>13. CASE SliceStarts("first")
    <2>1. end'["first"] = Tomorrow /\ UNCHANGED <<clock, jobs, taken, todo, opened, op, day>>
        BY <1>0, <1>13 DEF SliceStarts
    <2> QED
        BY <1>2, <1>11, <2>1
<1>4. CASE SliceSelects("first")
    <2>0. /\ end["first"] = Tomorrow /\ end'["first"] = 0 /\ clock' = Tomorrow
          /\ taken["first"] = NoJobs /\ jobs' = jobs /\ UNCHANGED <<op, day, opened>>
        BY <1>0, <1>4, <1>11 DEF SliceSelects, HoldsJobs
    <2>1. PICK T \in [Jobs -> Nat] :
             /\ \A q \in Jobs : T[q] = IF Due("first", q[2]) THEN Free(q) ELSE 0
             /\ taken' = [taken EXCEPT !["first"] = T]
             /\ todo' = [todo EXCEPT !["first"] = T]
        BY <1>0, <1>4, SelectedJobs
    <2>2. taken'["first"] = T /\ todo'["first"] = T
        BY <1>0, <2>1
    <2>3. op["first"] = "idle"
        BY <1>0, <2>0, HoldsNone
    <2>4. ASSUME NEW d \in Days
          PROVE  /\ jobs'[<<"gen", d>>] > T[<<"gen", d>>] => d >= Tomorrow
                 /\ T[<<"gen", d>>] > 0 => d + 1 >= Tomorrow
        <3> DEFINE g == <<"gen", d>>
        <3>1. g \in Jobs /\ g[2] = d /\ d \in Nat
            BY <1>10, JobOf
        <3>2. taken["first"][g] = 0 /\ jobs[g] \in Nat
            BY <1>0, <2>0, <3>1 DEF NoJobs
        <3>3. Free(g) = jobs[g]
            BY <3>1, <3>2, AloneWaits
        <3>4. T[g] = IF d <= Tomorrow THEN jobs[g] ELSE 0
            BY <2>0, <2>1, <3>1, <3>3 DEF Due
        <3>5. jobs[g] > taken["first"][g] => d >= clock
            BY <1>11
        <3> HIDE DEF g
        <3>6. (jobs[g] > T[g] => d >= Tomorrow) /\ (T[g] > 0 => d + 1 >= Tomorrow)
            BY <1>10, <3>1, <3>2, <3>4, <3>5
        <3>7. (jobs'[g] > T[g] => d >= Tomorrow) /\ (T[g] > 0 => d + 1 >= Tomorrow)
            BY <2>0, <3>6
        <3> QED
            BY <3>7 DEF g
    <2>5. opened <= Tomorrow
        BY <1>10, <1>11
    <2> QED
        BY <2>0, <2>2, <2>3, <2>4, <2>5 DEF GenerationsOnTime
<1>5. ASSUME NEW q \in Jobs, RunJob("first", q) PROVE GenerationsOnTime'
    <2>1. /\ UNCHANGED <<clock, jobs, taken, opened, end>>
          /\ todo'["first"] = [todo["first"] EXCEPT ![q] = @ - 1] /\ todo["first"][q] > 0
        BY <1>0, <1>5 DEF RunJob
    <2>2. \A r \in Jobs : todo'["first"][r] > 0 => todo["first"][r] > 0
        BY <1>0, <2>1
    <2>3. q = <<q[1], q[2]>> /\ q[2] \in Days
        BY DEF Jobs
    <2>4. CASE q[1] = "gen"
        <3>1. q[2] + 1 >= clock
            <4>1. todo["first"][<<"gen", q[2]>>] > 0
                BY <2>1, <2>3, <2>4
            <4> QED
                BY <1>11, <2>3, <4>1
        <3>2. day'["first"] = q[2]
            BY <1>0, <1>5, <2>4 DEF RunJob, Begin, Generate
        <3> QED
            BY <1>2, <2>1, <2>2, <3>1, <3>2, JobOf
    <2>5. CASE q[1] # "gen"
        <3>1. op'["first"] \in {"idle", "settling"}
            BY <1>0, <1>5, <2>5 DEF RunJob, Begin, Settle
        <3> QED
            BY <1>2, <2>1, <2>2, <3>1, JobOf
    <2> QED
        BY <2>4, <2>5
<1>6. CASE SliceCommits("first")
    <2>1. /\ jobs' = [q \in Jobs |-> jobs[q] - taken["first"][q]]
          /\ taken'["first"] = NoJobs /\ UNCHANGED <<clock, todo, op, day, opened, end>>
        BY <1>0, <1>6 DEF SliceCommits
    <2>2. ASSUME NEW q \in Jobs, jobs'[q] > taken'["first"][q]
          PROVE  jobs[q] > taken["first"][q]
        <3>1. jobs'[q] = jobs[q] - taken["first"][q] /\ taken'["first"][q] = 0
            BY <2>1 DEF NoJobs
        <3>2. jobs[q] \in Nat /\ taken["first"][q] \in Nat
            BY <1>0
        <3> QED
            BY <2>2, <3>1, <3>2
    <2>3. Tomorrow' = Tomorrow
        BY <2>1 DEF Tomorrow
    <2>4. \A d \in Days : jobs'[<<"gen", d>>] > taken'["first"][<<"gen", d>>] => d >= clock
        BY <1>11, <2>2, JobOf
    <2> QED
        BY <1>11, <2>1, <2>3, <2>4 DEF GenerationsOnTime
<1>7. CASE ChainDay("first")
    <2>1. /\ op["first"] = "chaining" /\ day["first"] + 1 \in Days
          /\ jobs' = [jobs EXCEPT ![<<"gen", day["first"] + 1>>] = @ + 1]
          /\ UNCHANGED <<clock, opened, end, taken, todo, day>>
          /\ op'["first"] \in {"idle", "promising"}
        BY <1>0, <1>7 DEF ChainDay, Scheduled
    <2>2. day["first"] + 1 >= clock
        BY <1>11, <2>1
    <2>3. "gen" \in Kinds /\ ~(op'["first"] \in {"writing", "chaining"})
        BY <2>1 DEF Kinds
    <2> QED
        BY <1>1, <2>1, <2>2, <2>3
<1>8. CASE PromiseSettlement("first")
    <2> DEFINE e == Promised(day["first"])
    <2>1. /\ e \in Days
          /\ jobs' = [jobs EXCEPT ![<<"settle", e>>] = @ + 1]
          /\ UNCHANGED <<clock, opened, end, taken, todo>> /\ op'["first"] = "idle"
        BY <1>0, <1>8 DEF PromiseSettlement, Scheduled
    <2>2. "settle" \in Kinds /\ ~(op'["first"] \in {"writing", "chaining"})
        BY <2>1 DEF Kinds
    <2> HIDE DEF e
    <2> QED
        BY <1>1, <2>1, <2>2
<1>9. CASE WriteBatch("first") \/ SettleCommits("first") \/ Raise("first")
    <2>1. UNCHANGED <<clock, opened, end, jobs, taken, todo, day>>
        BY <1>9 DEF WriteBatch, SettleCommits, Raise
    <2>2. op'["first"] \in {"writing", "chaining"} => op["first"] \in {"writing", "chaining"}
        BY <1>0, <1>9 DEF WriteBatch, SettleCommits, Raise
    <2> QED
        BY <1>2, <1>11, <2>1, <2>2
<1> QED
    BY <1>3, <1>4, <1>5, <1>6, <1>7, <1>8, <1>9, <1>12, <1>13 DEF CalmStep, Work

\* Without a crash and clock/set the clock does not turn back.
LEMMA ClockForward ==
    ASSUME RestType, CalmStep
    PROVE  clock' >= clock /\ clock' \in Nat
<1>0. clock \in Nat /\ Tomorrow \in {clock, clock + 1}
    BY Numbers
<1>1. ASSUME clock' \in {clock, Tomorrow} PROVE clock' >= clock /\ clock' \in Nat
    BY <1>0, <1>1
<1> QED
    BY <1>1 DEF CalmStep, OpenMerchant, CreateMerchant, SliceStarts, SliceSelects, RunJob,
                SliceCommits, Work, WriteBatch, ChainDay, PromiseSettlement, SettleCommits,
                Raise, vars

\* What the steps of a slice other than those of its handlers leave alone.
LEMMA CalmLedger ==
    ASSUME CalmStep
    PROVE  \/ UNCHANGED ledger
           \/ WriteBatch("first") \/ SettleCommits("first")
BY DEF CalmStep, OpenMerchant, CreateMerchant, SliceStarts, SliceSelects, RunJob,
       SliceCommits, Work, ChainDay, PromiseSettlement, Raise, vars

\* Sales are written only by the generation of their date.
LEMMA MadeFrom ==
    ASSUME IInv, CalmStep, NEW d \in Days, made'[d] # made[d]
    PROVE  WriteBatch("first") /\ day["first"] = d
<1>1. CASE WriteBatch("first")
    BY <1>1 DEF WriteBatch, IInv, LedgerType
<1>2. CASE ~WriteBatch("first")
    <2>1. made' = made
        BY <1>2, CalmLedger DEF SettleCommits, ledger
    <2> QED
        BY <2>1
<1> QED
    BY <1>1, <1>2

\* When the settlement of a date begins, the clock has reached it and no generation of
\* an earlier date is to come.
LEMMA EarlierAreDone ==
    ASSUME IInv, RestType, JobsDue, sets = 0, Alone, GenerationsOnTime, NEW s \in Days,
           RunJob("first", <<"settle", s>>), JobsHeld
    PROVE  s <= clock /\ \A d \in Days : Coming(d) => s <= d
<1> DEFINE q == <<"settle", s>>
<1>10. Days \subseteq Nat
    BY PosDaysAssumption DEF Days
<1>0. q \in Jobs /\ clock \in Nat /\ s \in Nat /\ "first" \in Slices
    BY <1>10, JobOf, Numbers, TwoSlices
<1>1. todo["first"][q] > 0 /\ First("first", q) /\ op["first"] = "idle"
    BY DEF RunJob
<1>2. q[2] <= clock
    <2>1. todo["first"][q] <= taken["first"][q]
        BY <1>0 DEF JobsHeld, HoldsJobs
    <2>2. taken["first"][q] > 0
        BY <1>0, <1>1, <2>1, Counts
    <2> QED
        BY <1>0, <2>2 DEF JobsDue
<1>3. s <= clock
    BY <1>2
<1>4. ASSUME NEW d \in Days, Coming(d) PROVE s <= d
    <2> DEFINE g == <<"gen", d>>
    <2>0. g \in Jobs /\ g[2] = d /\ d \in Nat
        BY <1>10, JobOf
    <2>1. Waiting(g) > 0
        BY <1>1, <1>4 DEF Coming
    <2>2. jobs[g] > taken["first"][g] \/ todo["first"][g] > 0
        <3>1. jobs[g] - taken["first"][g] + todo["first"][g] > 0
            BY <2>0, <2>1, AloneWaits
        <3>2. jobs[g] \in Nat /\ taken["first"][g] \in Nat /\ todo["first"][g] \in Nat
            BY <1>0, <2>0, Counts
        <3> HIDE DEF g
        <3> QED
            BY <3>1, <3>2
    <2>3. CASE jobs[g] > taken["first"][g]
        <3>1. d >= clock
            BY <2>3 DEF GenerationsOnTime
        <3> QED
            BY <1>0, <1>3, <2>0, <3>1
    <2>4. CASE todo["first"][g] > 0
        <3>1. q[2] <= g[2]
            BY <1>1, <2>0, <2>4 DEF First
        <3> QED
            BY <2>0, <3>1
    <2> QED
        BY <2>2, <2>3, <2>4
<1> QED
    BY <1>3, <1>4

\* Who settles when only the first slice does: nobody else has locked sales.
LEMMA LocksOfFirst ==
    ASSUME IInv, rows["admin"] = Zero, rows["second"] = Zero, NEW d \in Days
    PROVE  Locked(d) = rows["first"][d] /\ rows["first"][d] \in Nat
<1>1. rows["admin"][d] = 0 /\ rows["second"][d] = 0
    BY DEF Zero
<1>2. rows["first"][d] \in Nat
    BY TwoSlices, SalesCounted
<1> QED
    BY <1>1, <1>2 DEF Locked

LEMMA LocksOfFirstThen ==
    ASSUME IInv, IInv', CalmStep, rows["admin"] = Zero, rows["second"] = Zero, NEW d \in Days
    PROVE  Locked(d)' = rows'["first"][d] /\ rows'["first"][d] \in Nat
<1> USE DEF work
<1>1. rows'["admin"] = rows["admin"] /\ rows'["second"] = rows["second"]
    <2>1. rows \in [Actors -> [Days -> Nat]] /\ "admin" \in Actors /\ "second" \in Actors
        BY TwoSlices DEF IInv, LedgerType
    <2>2. rows' = rows \/ rows' = [rows EXCEPT !["first"] = rows'["first"]]
        BY <2>1 DEF CalmStep, OpenMerchant, CreateMerchant, SliceStarts, SliceSelects, RunJob,
            Begin, Generate, Settle, SliceCommits, Work, WriteBatch, ChainDay,
            PromiseSettlement, SettleCommits, Raise, vars
    <2> QED
        BY <2>1, <2>2
<1>2. rows'["admin"][d] = 0 /\ rows'["second"][d] = 0
    BY <1>1 DEF Zero
<1>3. rows'["first"][d] \in Nat
    BY TwoSlices DEF IInv, LedgerType
<1> QED
    BY <1>2, <1>3 DEF Locked

\* A sale that a step leaves unlocked was so, and the step does not run the settlement
\* of its date.
LEMMA UnlockedCalm ==
    ASSUME IInv, IInv', CalmStep, rows["admin"] = Zero, rows["second"] = Zero,
           NEW s \in Days, NEW d \in Days, SettleDate(d) = s, Unlocked(d)',
           ~Raise("first"), made'[d] = made[d]
    PROVE  Unlocked(d) /\ ~RunJob("first", <<"settle", s>>)
<1> USE DEF queue, work, ledger
<1>0. "first" \in Actors
    BY TwoSlices
<1>1. ASSUME UNCHANGED <<paid, rows>> PROVE Unlocked(d)
    BY <1>1 DEF Unlocked, Locked
<1>2. ASSUME NEW q \in Jobs, RunJob("first", q) PROVE Unlocked(d) /\ q # <<"settle", s>>
    <2>1. UNCHANGED ledger /\ op["first"] = "idle" /\ q[2] \in Days
        BY <1>2 DEF RunJob, Jobs
    <2>2. CASE q[1] = "gen"
        <3>1. UNCHANGED <<paid, rows>>
            BY <1>2, <2>2 DEF RunJob, Begin, Generate
        <3> QED
            BY <1>1, <2>2, <3>1
    <2>3. CASE q[1] # "gen"
        <3>1. Settle("first", q[2])
            BY <1>2, <2>3 DEF RunJob, Begin
        <3>2. SettleDate(d) # q[2] /\ Unlocked(d)
            BY <1>0, <2>1, <3>1, SettleLocksAll
        <3> QED
            BY <3>2
    <2> QED
        BY <2>2, <2>3
<1>3. ASSUME RunJob("first", <<"settle", s>>) PROVE FALSE
    BY <1>2, <1>3, JobOf
<1>4. ASSUME SettleCommits("first") PROVE Unlocked(d)
    <2>1. paid'[d] = paid[d] + rows["first"][d] /\ rows'["first"][d] = 0
        BY <1>0, <1>4 DEF SettleCommits, IInv, LedgerType, Zero
    <2>2. Locked(d)' = 0 /\ Locked(d) = rows["first"][d]
        BY <2>1, LocksOfFirst, LocksOfFirstThen
    <2>3. made[d] > paid[d] + rows["first"][d] + 0
        BY <2>1, <2>2 DEF Unlocked
    <2>4. made[d] > paid[d] + rows["first"][d]
        BY <2>3, SalesCounted, LocksOfFirst
    <2> QED
        BY <2>2, <2>4 DEF Unlocked
<1>5. ASSUME \/ OpenMerchant \/ CreateMerchant \/ SliceStarts("first") \/ SliceSelects("first")
             \/ SliceCommits("first") \/ WriteBatch("first") \/ ChainDay("first")
             \/ PromiseSettlement("first") \/ UNCHANGED vars
      PROVE  Unlocked(d)
    <2>1. UNCHANGED <<paid, rows>>
        BY <1>5 DEF OpenMerchant, CreateMerchant, SliceStarts, SliceSelects, SliceCommits,
                    WriteBatch, ChainDay, PromiseSettlement, vars
    <2> QED
        BY <1>1, <2>1
<1> QED
    BY <1>2, <1>3, <1>4, <1>5 DEF CalmStep, Work

\* A settlement that begins is the first of its date: all its sales were still to settle.
LEMMA FirstBatch ==
    ASSUME IInv, RestType, BatchIsLast, CalmStep,
           rows["admin"] = Zero, rows["second"] = Zero, op'["first"] = "settling"
    PROVE  batches'[day'["first"]] = 0
<1> USE DEF queue, work, ledger
<1>0. /\ op \in [Actors -> {"idle", "writing", "chaining", "promising", "settling"}]
      /\ day \in [Actors -> Days] /\ batches \in [Days -> Nat]
      /\ made \in [Days -> Nat] /\ paid \in [Days -> Nat]
      /\ "first" \in Actors /\ RowsInv
    BY TwoSlices DEF IInv, LedgerType, RestType
<1>1. ASSUME UNCHANGED <<batches, day>>, op["first"] = "settling"
      PROVE  batches'[day'["first"]] = 0
    BY <1>1 DEF BatchIsLast
<1>2. CASE \/ OpenMerchant \/ CreateMerchant \/ SliceStarts("first") \/ SliceSelects("first")
           \/ SliceCommits("first") \/ UNCHANGED vars
    <2>1. UNCHANGED <<batches, day, op>>
        BY <1>2 DEF OpenMerchant, CreateMerchant, SliceStarts, SliceSelects, SliceCommits, vars
    <2> QED
        BY <1>1, <2>1
<1>3. CASE Work("first") \/ Raise("first")
    <2>1. op'["first"] # "settling"
        BY <1>0, <1>3 DEF Work, WriteBatch, ChainDay, PromiseSettlement, SettleCommits, Raise
    <2> QED
        BY <2>1
<1>4. ASSUME NEW q \in Jobs, RunJob("first", q) PROVE batches'[day'["first"]] = 0
    <2>1. q[1] # "gen"
        <3> SUFFICES ASSUME q[1] = "gen" PROVE FALSE
            OBVIOUS
        <3>1. op'["first"] \in {"writing", "chaining"}
            BY <1>0, <1>4 DEF RunJob, Begin, Generate, AfterLoad
        <3> QED
            BY <3>1
    <2> DEFINE s == q[2]
               R == [x \in Days |-> IF SettleDate(x) = s THEN Pending(x) ELSE 0]
    <2>2. s \in Days /\ batches' = batches /\ Settle("first", s) /\ op["first"] = "idle"
        BY <1>4, <2>1 DEF RunJob, Begin, Jobs
    <2>3. R # Zero /\ day'["first"] = s
        BY <1>0, <2>2 DEF Settle
    <2>4. PICK x \in Days : R[x] # 0
        BY <2>3 DEF Zero
    <2>5. SettleDate(x) = s /\ Pending(x) # 0
        BY <2>4
    <2>6. Locked(x) = 0
        <3>1. rows["first"][x] = 0
            BY <1>0, <2>2 DEF RowsInv, Zero
        <3> QED
            BY <3>1, LocksOfFirst
    <2>7. made[x] # paid[x]
        <3>1. made[x] - paid[x] - 0 # 0 /\ made[x] \in Nat /\ paid[x] \in Nat
            BY <1>0, <2>5, <2>6 DEF Pending
        <3> QED
            BY <3>1
    <2>8. ~(batches[s] > 0)
        BY <2>2, <2>5, <2>7 DEF BatchIsLast
    <2>9. batches[s] = 0
        BY <1>0, <2>2, <2>8
    <2> QED
        BY <2>2, <2>3, <2>9
<1> QED
    BY <1>2, <1>3, <1>4 DEF CalmStep

\* Once a settlement has begun, no generation that is to come sells on a date of its own.
LEMMA LastNext ==
    ASSUME IInv, IInv', RestType, RestType', JobsHeld, SalesHeld, JobsDue, sets = 0,
           Alone, Alone', GenerationsOnTime, BatchIsLast,
           CalmStep, rows["admin"] = Zero, rows["second"] = Zero
    PROVE  BatchIsLast'
<1> USE DEF queue, work, ledger
<1>0. /\ op \in [Actors -> {"idle", "writing", "chaining", "promising", "settling"}]
      /\ day \in [Actors -> Days] /\ batches \in [Days -> Nat]
      /\ rows \in [Actors -> [Days -> Nat]]
      /\ made \in [Days -> Nat] /\ paid \in [Days -> Nat]
      /\ "first" \in Actors
    BY TwoSlices DEF IInv, LedgerType, RestType
<1>10. Days \subseteq Nat /\ clock \in Nat /\ clock' \in Nat /\ clock' >= clock
    BY Numbers, ClockForward, PosDaysAssumption DEF Days
<1>1. ASSUME NEW s \in Days, Begun(s)' PROVE s <= clock
    BY <1>1, BegunFrom, EarlierAreDone DEF BatchIsLast
<1>2. ASSUME NEW s \in Days, NEW d \in Days, Begun(s)', Coming(d)' PROVE s <= d
    <2>1. CASE Coming(d)
        BY <1>2, <2>1, BegunFrom, EarlierAreDone DEF BatchIsLast
    <2>2. CASE d = clock
        BY <1>1, <1>2, <2>2
    <2>3. ASSUME NEW e \in Days, Coming(e), d = e + 1 PROVE s <= d
        <3>1. s <= e
            BY <1>2, <2>3, BegunFrom, EarlierAreDone DEF BatchIsLast
        <3> QED
            BY <1>10, <2>3, <3>1
    <2> QED
        BY <1>2, <2>1, <2>2, <2>3, ComingFrom
<1>3. ASSUME NEW s \in Days, Begun(s), NEW d \in Days, SettleDate(d) = s
      PROVE  made'[d] = made[d]
    <2> SUFFICES ASSUME made'[d] # made[d] PROVE FALSE
        OBVIOUS
    <2>1. WriteBatch("first") /\ day["first"] = d
        BY MadeFrom
    <2>2. Coming(d)
        BY <2>1 DEF WriteBatch, Coming
    <2>3. s <= d
        BY <1>3, <2>2 DEF BatchIsLast
    <2>4. s \in Nat /\ s > d
        BY <1>3, SettleLater
    <2> QED
        BY <1>10, <2>3, <2>4
<1>5. ASSUME NEW s \in Days, NEW d \in Days, batches'[s] > 0, SettleDate(d) = s
      PROVE  made'[d] = paid'[d]
    <2>1. CASE SettleCommits("first")
        <3>1. Begun(s)
            <4>1. Begun(s)'
                BY <1>5 DEF Begun
            <4>2. ~RunJob("first", <<"settle", s>>)
                BY <2>1 DEF RunJob, SettleCommits
            <4> QED
                BY <4>1, <4>2, BegunFrom
        <3>2. ~Unlocked(d)
            BY <1>5, <3>1 DEF BatchIsLast
        <3>3. Locked(d) = rows["first"][d] /\ rows["first"][d] \in Nat
            BY LocksOfFirst
        <3>4. made' = made /\ paid'[d] = paid[d] + rows["first"][d]
            BY <2>1 DEF SettleCommits
        <3>5. ~(made[d] > paid[d] + rows["first"][d])
            BY <3>2, <3>3 DEF Unlocked
        <3>6. /\ made[d] \in Nat /\ paid[d] \in Nat
              /\ paid[d] + rows["first"][d] <= made[d]
            BY <3>3, SalesCounted
        <3>7. made[d] = paid[d] + rows["first"][d]
            BY <3>3, <3>5, <3>6
        <3> QED
            BY <3>4, <3>7
    <2>2. CASE ~SettleCommits("first")
        <3>1. batches' = batches /\ paid' = paid
            BY <2>2, CalmLedger DEF WriteBatch
        <3>2. Begun(s) /\ made[d] = paid[d]
            BY <1>5, <3>1 DEF Begun, BatchIsLast
        <3>3. made'[d] = made[d]
            BY <1>3, <1>5, <3>2
        <3> QED
            BY <3>1, <3>2, <3>3
    <2> QED
        BY <2>1, <2>2
<1>6. ASSUME NEW s \in Days, NEW d \in Days, Begun(s)', SettleDate(d) = s
      PROVE  ~Unlocked(d)'
    <2>1. CASE Raise("first")
        <3>1. batches'[s] > 0
            BY <1>0, <1>6, <2>1 DEF Raise, Begun
        <3>2. made'[d] = paid'[d] /\ rows'["first"][d] = 0
            BY <1>0, <1>5, <1>6, <2>1, <3>1 DEF Raise, Zero
        <3>3. Locked(d)' = 0 /\ made'[d] \in Nat
            BY <3>2, LocksOfFirstThen DEF IInv, LedgerType
        <3>4. ~(made'[d] > paid'[d] + 0)
            BY <3>2, <3>3
        <3> QED
            BY <3>3, <3>4 DEF Unlocked
    <2>2. CASE RunJob("first", <<"settle", s>>)
        <3>1. made' = made
            BY <2>2 DEF RunJob
        <3>2. ~Raise("first")
            BY <2>2 DEF Raise, RunJob
        <3> QED
            BY <1>6, <2>2, <3>1, <3>2, UnlockedCalm
    <2>3. CASE Begun(s) /\ ~Raise("first")
        <3>1. made'[d] = made[d] /\ ~Unlocked(d)
            BY <1>3, <1>6, <2>3 DEF BatchIsLast
        <3> QED
            BY <1>6, <2>3, <3>1, UnlockedCalm
    <2> QED
        BY <1>6, <2>1, <2>2, <2>3, BegunFrom
<1>7. op'["first"] = "settling" => batches'[day'["first"]] = 0
    BY FirstBatch
<1>8. ASSUME NEW s \in Days PROVE batches'[s] <= 1
    <2>1. CASE SettleCommits("first")
        <3>1. op["first"] = "settling" /\ batches' = [batches EXCEPT ![day["first"]] = @ + 1]
            BY <2>1 DEF SettleCommits
        <3>2. batches[day["first"]] = 0 /\ batches[s] <= 1 /\ batches[s] \in Nat
            BY <1>0, <3>1 DEF BatchIsLast
        <3>3. CASE s = day["first"]
            BY <1>0, <3>1, <3>2, <3>3
        <3>4. CASE s # day["first"]
            BY <1>0, <3>1, <3>2, <3>4
        <3> QED
            BY <3>3, <3>4
    <2>2. CASE ~SettleCommits("first")
        <3>1. batches' = batches
            BY <2>2, CalmLedger DEF WriteBatch
        <3> QED
            BY <3>1 DEF BatchIsLast
    <2> QED
        BY <2>1, <2>2
<1>9. \A s \in Days : Begun(s)' => s <= clock'
    BY <1>1, <1>10
<1> QED
    BY <1>2, <1>5, <1>6, <1>7, <1>8, <1>9 DEF BatchIsLast

\* Generations in time and settlements after them, until something happens that
\* OncePerDay excepts.
LEMMA OnceNext ==
    ASSUME IInv, IInv', RestType, RestType', JobsHeld, SalesHeld, JobsDue, SettledOnce,
           [Next]_vars
    PROVE  SettledOnce'
<1> SUFFICES ASSUME Quiet' PROVE Alone' /\ GenerationsOnTime' /\ BatchIsLast'
    BY DEF SettledOnce, Quiet
<1>1. /\ Quiet
      /\ rows["admin"] = Zero /\ rows["second"] = Zero
      /\ CalmStep
    BY Calm DEF SettledOnce, Quiet
<1>2. Alone /\ GenerationsOnTime /\ BatchIsLast /\ sets = 0
    BY <1>1 DEF SettledOnce, Quiet
<1>3. Alone' /\ GenerationsOnTime'
    BY <1>1, <1>2, StillAlone, OnTimeNext
<1> QED
    BY <1>1, <1>2, <1>3, LastNext

\* In the beginning nothing is scheduled, running or settled.
LEMMA OnceInit == Init => SettledOnce
<1> SUFFICES ASSUME Init PROVE Alone /\ GenerationsOnTime /\ BatchIsLast
    BY DEF SettledOnce
<1>0. "first" \in Slices /\ "second" \in Slices /\ "first" \in Actors /\ "second" \in Actors
    BY TwoSlices
<1>1. Alone
    BY <1>0 DEF Init, Alone
<1>2. GenerationsOnTime
    <2>1. /\ op["first"] = "idle" /\ end["first"] = 0 /\ opened = 0 /\ clock = 1
          /\ taken["first"] = NoJobs /\ todo["first"] = NoJobs /\ jobs = NoJobs
        BY <1>0 DEF Init
    <2>2. ASSUME NEW d \in Days
          PROVE  /\ ~(jobs[<<"gen", d>>] > taken["first"][<<"gen", d>>])
                 /\ ~(todo["first"][<<"gen", d>>] > 0)
        <3> DEFINE g == <<"gen", d>>
        <3>1. jobs[g] = 0 /\ taken["first"][g] = 0 /\ todo["first"][g] = 0
            BY <2>1, JobOf DEF NoJobs
        <3> HIDE DEF g
        <3>2. ~(jobs[g] > taken["first"][g]) /\ ~(todo["first"][g] > 0)
            BY <3>1
        <3> QED
            BY <3>2 DEF g
    <2> QED
        BY <2>1, <2>2 DEF GenerationsOnTime
<1>3. BatchIsLast
    <2>1. op["first"] # "settling"
        BY <1>0 DEF Init
    <2>2. \A s \in Days : ~(batches[s] > 0) /\ batches[s] <= 1
        BY DEF Init, Zero
    <2>3. \A s \in Days : ~Begun(s)
        BY <2>1, <2>2 DEF Begun
    <2> QED
        BY <2>1, <2>2, <2>3 DEF BatchIsLast
<1> QED
    BY <1>1, <1>2, <1>3

\* One settlement batch per merchant and date, as long as none of this happens:
\* generate-pos, a crash, clock/set, a slice that fails or overlaps another, a merchant
\* that commits after the clock has moved on.  Whatever the weekends, T+1 or T+2, a
\* settlement then runs after every generation of its date, and settles it completely
\* (pos/settlement.py: settle_merchant_day).  A handler that raises delays sales but
\* splits no batch.
THEOREM OneBatch == Spec => []OncePerDay
<1> DEFINE Holds == IInv /\ RestType /\ JobsHeld /\ SalesHeld /\ JobsDue /\ SettledOnce
<1>1. Init => Holds
    BY HeldInit, SalesInit, DueInit, OnceInit
<1>2. Holds /\ [Next]_vars => Holds'
    <2> SUFFICES ASSUME Holds, [Next]_vars PROVE Holds'
        OBVIOUS
    <2>1. IInv' /\ RestType' /\ JobsHeld' /\ SalesHeld' /\ JobsDue'
        BY InvNext, RestNext, HeldNext, SalesNext, DueNext
    <2>2. SettledOnce'
        BY <2>1, OnceNext
    <2> QED
        BY <2>1, <2>2
<1>3. Holds => OncePerDay
    BY DEF SettledOnce, BatchIsLast, OncePerDay
<1> QED
    BY <1>1, <1>2, <1>3, PTL DEF Spec
=============================================================================
