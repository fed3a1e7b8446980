------------------------------- MODULE PosDays -------------------------------
(***************************************************************************)
(* The sales of one merchant, day by day: pos/generator.py and             *)
(* pos/settlement.py on top of the scheduler.  A job generates the sales   *)
(* of a date, schedules the generation of the next date and the settlement *)
(* of its own, in one transaction each; a settlement job puts what is      *)
(* pending for its date into one batch.  POST /admin/generate-pos calls    *)
(* the same two functions directly, while slices run; two advances may     *)
(* overlap, so that there are two slices at most.                          *)
(*                                                                         *)
(* Sales are counted per date: draws are seeded by the date, so a date     *)
(* that is generated again has the same number of sales.  A day of the     *)
(* model is a sim date, and a slice moves the clock from one to the next.  *)
(* The jobs of a date are due at its midnight, so dates tell what is due.  *)
(***************************************************************************)
EXTENDS Integers, Sequences, FiniteSets, FiniteSetsExt

CONSTANTS
    LastDay,    \* bound: a slice that starts on this date does not end it
    Horizon,    \* bound: the last date of the calendar
    Weekend,    \* dates that are weekend days of the merchant's region
    SettleDays, \* settlement_days of the region (T+1, T+2)
    Txns,       \* number of sales drawn for each date
    BatchSize,  \* sales written per transaction
    Windows,    \* numbers of days an administrator asks generate-pos for
    MaxCalls,   \* bound: calls of generate-pos
    MaxCrashes, \* bound: process crashes
    MaxRaises,  \* bound: handlers that raise
    MaxSets,    \* bound: calls of clock/set
    MaxSlips,   \* bound: slices that overlap or are lost
    MaxMishaps  \* bound: all of these together

Days   == 1 .. Horizon
Kinds  == {"gen", "settle"}
Jobs   == Kinds \X Days
Slices == {"first", "second"}
Actors == Slices \cup {"admin"}

ASSUME PosDaysAssumption ==
    /\ LastDay \in Nat \ {0}
    /\ Horizon \in Nat
    /\ LastDay <= Horizon
    /\ Weekend \subseteq Days
    /\ \A d \in Days : \E s \in d + 1 .. d + 7 : s \notin Weekend
    /\ SettleDays \in Nat \ {0}
    /\ Txns \in [Days -> Nat]
    /\ BatchSize \in Nat \ {0}
    /\ Windows \subseteq Nat \ {0}
    /\ MaxCalls \in Nat
    /\ MaxCrashes \in Nat
    /\ MaxRaises \in Nat
    /\ MaxSets \in Nat
    /\ MaxSlips \in Nat
    /\ MaxMishaps \in Nat

VARIABLES
    clock,    \* date of the sim clock
    merchant, \* the merchant has been created
    opened,   \* date that create_merchant has read, 0 before it and after its commit
    end,      \* last date of a slice that has not yet selected its jobs, else 0
    jobs,     \* how many pending scheduler jobs of each kind and date there are
    taken,    \* those that each slice has locked
    todo,     \* ... and not yet run
    made,     \* sales written per date
    paid,     \* sales of each date that are in a settlement batch
    batches,  \* settlement batches per settlement date
    op,       \* what the slices and the administrator's call are doing
    day,      \* the date they do it for
    left,     \* sales still to write
    rows,     \* sales locked for settlement, per date
    plan,     \* what is left of the administrator's call
    drawn,    \* sales the call has generated
    calls, crashes, raises, sets,
    slips     \* overlapping and lost slices, and a merchant whose first job is late

queue  == <<jobs, taken, todo>>
ledger == <<made, paid, batches>>
work   == <<op, day, left, rows>>
admin  == <<plan, drawn, calls>>
shop   == <<merchant, opened>>
luck   == <<crashes, raises, sets, slips>>
vars   == <<clock, shop, end, queue, ledger, work, admin, luck>>

Zero == [d \in Days |-> 0]
NoJobs == [q \in Jobs |-> 0]
Mishaps == calls + crashes + raises + sets + slips
Other(s) == IF s = "first" THEN "second" ELSE "first"
Tomorrow == IF clock < LastDay THEN clock + 1 ELSE LastDay

Locked(d) == rows["first"][d] + rows["second"][d] + rows["admin"][d]
Free(q) == jobs[q] - taken["first"][q] - taken["second"][q]
Busy(s) == end[s] # 0 \/ taken[s] # NoJobs

-----------------------------------------------------------------------------
\* _expected_settlement_date: settlement_days working days later.
NextWorkDay(d) == Min({s \in d + 1 .. d + 7 : s \notin Weekend})
SettleDate(d) ==
    LET date[n \in 0 .. SettleDays] == IF n = 0 THEN d ELSE NextWorkDay(date[n - 1])
    IN date[SettleDays]

\* The date of the settlement job (mutants: it ignores weekends, or is the sales' own).
NextDay(d) == d + SettleDays
SameDay(d) == d
Promised(d) == SettleDate(d)

\* What follows the load of a merchant (mutant: a day without sales ends the chain).
ChainEnds(d)  == IF Txns[d] = 0 THEN "idle" ELSE "writing"
AfterLoad(d)  == IF Txns[d] = 0 THEN "chaining" ELSE "writing"

\* Sales of the next transaction.
BatchOf(n) == IF n < BatchSize THEN n ELSE BatchSize

\* FOR UPDATE SKIP LOCKED (mutant: no lock).
AllPending(d) == made[d] - paid[d]
Pending(d)    == made[d] - paid[d] - Locked(d)

\* Jobs of a slice (mutant: those of the day after as well).
DueSoon(s, d) == d <= end[s] + 1
Due(s, d)     == d <= end[s]

\* A slice runs its jobs in the order of their dates (mutant: in the opposite one).
Latest(s, q) == \A r \in Jobs : todo[s][r] > 0 => r[2] <= q[2]
First(s, q)  == \A r \in Jobs : todo[s][r] > 0 => q[2] <= r[2]

-----------------------------------------------------------------------------
Init ==
    /\ clock = 1
    /\ merchant = FALSE
    /\ opened = 0
    /\ end = [s \in Slices |-> 0]
    /\ jobs = NoJobs
    /\ taken = [s \in Slices |-> NoJobs]
    /\ todo = [s \in Slices |-> NoJobs]
    /\ made = Zero
    /\ paid = Zero
    /\ batches = Zero
    /\ op = [a \in Actors |-> "idle"]
    /\ day = [a \in Actors |-> 1]
    /\ left = [a \in Actors |-> 0]
    /\ rows = [a \in Actors |-> Zero]
    /\ plan = <<>>
    /\ drawn = 0
    /\ calls = 0
    /\ crashes = 0
    /\ raises = 0
    /\ sets = 0
    /\ slips = 0

Scheduled(q) == jobs' = [jobs EXCEPT ![q] = @ + 1]

\* create_merchant: the first job is for the sim date read here ...
OpenMerchant ==
    /\ ~merchant
    /\ opened = 0
    /\ opened' = clock
    /\ UNCHANGED <<clock, merchant, end, queue, ledger, work, admin, luck>>

\* ... and is there, with the merchant, once the request has committed.
CreateMerchant ==
    /\ opened # 0
    /\ merchant' = TRUE
    /\ opened' = 0
    /\ Scheduled(<<"gen", opened>>)
    /\ slips' = IF opened < clock THEN slips + 1 ELSE slips
    /\ UNCHANGED <<clock, end, taken, todo, ledger, work, admin, crashes, raises, sets>>

-----------------------------------------------------------------------------
(***************************************************************************)
(* generate_merchant_day and settle_merchant_day, whoever calls them.      *)
(***************************************************************************)

\* The merchant is loaded and the day's number of sales drawn.
Generate(a, d) ==
    /\ op' = [op EXCEPT ![a] = AfterLoad(d)]
    /\ day' = [day EXCEPT ![a] = d]
    /\ left' = [left EXCEPT ![a] = Txns[d]]
    /\ UNCHANGED rows

\* The pending sales of a settlement date are locked; there may be none.
Settle(a, s) ==
    LET R == [d \in Days |-> IF SettleDate(d) = s THEN Pending(d) ELSE 0] IN
    /\ rows' = [rows EXCEPT ![a] = R]
    /\ op' = [op EXCEPT ![a] = IF R = Zero THEN "idle" ELSE "settling"]
    /\ day' = [day EXCEPT ![a] = s]
    /\ UNCHANGED left

Begin(a, q) == IF q[1] = "gen" THEN Generate(a, q[2]) ELSE Settle(a, q[2])

WriteBatch(a) ==
    /\ op[a] = "writing"
    /\ LET n == BatchOf(left[a]) IN
        /\ made' = [made EXCEPT ![day[a]] = @ + n]
        /\ left' = [left EXCEPT ![a] = @ - n]
        /\ op' = [op EXCEPT ![a] = IF n = left[a] THEN "chaining" ELSE "writing"]
    /\ UNCHANGED <<clock, shop, end, queue, paid, batches, day, rows, admin, luck>>

\* _schedule_next_day; a day without sales needs no settlement.
ChainDay(a) ==
    /\ op[a] = "chaining"
    /\ day[a] + 1 \in Days
    /\ Scheduled(<<"gen", day[a] + 1>>)
    /\ op' = [op EXCEPT ![a] = IF Txns[day[a]] = 0 THEN "idle" ELSE "promising"]
    /\ UNCHANGED <<clock, shop, end, taken, todo, ledger, day, left, rows, admin, luck>>

\* _schedule_settlement, and the return of the number of sales.
PromiseSettlement(a) ==
    /\ op[a] = "promising"
    /\ Promised(day[a]) \in Days
    /\ Scheduled(<<"settle", Promised(day[a])>>)
    /\ op' = [op EXCEPT ![a] = "idle"]
    /\ drawn' = IF a = "admin" THEN drawn + Txns[day[a]] ELSE drawn
    /\ UNCHANGED <<clock, shop, end, taken, todo, ledger, day, left, rows, plan, calls, luck>>

\* The batch, the sales' new status and the webhook are committed together.
SettleCommits(a) ==
    /\ op[a] = "settling"
    /\ paid' = [d \in Days |-> paid[d] + rows[a][d]]
    /\ batches' = [batches EXCEPT ![day[a]] = @ + 1]
    /\ rows' = [rows EXCEPT ![a] = Zero]
    /\ op' = [op EXCEPT ![a] = "idle"]
    /\ UNCHANGED <<clock, shop, end, queue, made, day, left, admin, luck>>

\* The session fails: what was committed stays, the rest is not done.  A slice marks
\* the job failed, generate-pos goes on with the next date.
Raise(a) ==
    /\ op[a] # "idle"
    /\ raises < MaxRaises
    /\ Mishaps < MaxMishaps
    /\ raises' = raises + 1
    /\ op' = [op EXCEPT ![a] = "idle"]
    /\ rows' = [rows EXCEPT ![a] = Zero]
    /\ UNCHANGED <<clock, shop, end, queue, ledger, day, left, admin, crashes, sets, slips>>

-----------------------------------------------------------------------------
(***************************************************************************)
(* The slices of an advance, one after the other, and those of another     *)
(* advance that overlaps it.  The slice that begins while none is running  *)
(* is called the first.                                                    *)
(***************************************************************************)
\* slice_end is computed here; the session and its select come later.
SliceStarts(s) ==
    /\ ~Busy(s)
    /\ end' = [end EXCEPT ![s] = Tomorrow]
    /\ IF Busy(Other(s)) THEN /\ slips < MaxSlips
                              /\ Mishaps < MaxMishaps
                              /\ slips' = slips + 1
                         ELSE s = "first" /\ slips' = slips
    /\ UNCHANGED <<clock, shop, queue, ledger, work, admin, crashes, raises, sets>>

\* SELECT ... FOR UPDATE SKIP LOCKED, and the clock.  Who reads or sets the clock between
\* the two might as well have done so before the select.
SliceSelects(s) ==
    LET T == [q \in Jobs |-> IF Due(s, q[2]) THEN Free(q) ELSE 0] IN
    /\ end[s] # 0
    /\ end' = [end EXCEPT ![s] = 0]
    /\ taken' = [taken EXCEPT ![s] = T]
    /\ todo' = [todo EXCEPT ![s] = T]
    /\ clock' = Tomorrow
    /\ UNCHANGED <<shop, jobs, ledger, work, admin, luck>>

RunJob(s, q) ==
    /\ op[s] = "idle"
    /\ todo[s][q] > 0
    /\ First(s, q)
    /\ todo' = [todo EXCEPT ![s][q] = @ - 1]
    /\ Begin(s, q)
    /\ UNCHANGED <<clock, shop, end, jobs, taken, ledger, admin, luck>>

Idle(s) == op[s] = "idle" /\ todo[s] = NoJobs

SliceCommits(s) ==
    /\ Idle(s)
    /\ taken[s] # NoJobs
    /\ jobs' = [q \in Jobs |-> jobs[q] - taken[s][q]]
    /\ taken' = [taken EXCEPT ![s] = NoJobs]
    /\ UNCHANGED <<clock, shop, end, todo, ledger, work, admin, luck>>

\* The select or the commit raises: the jobs are pending again, whatever their handlers
\* have done, and the clock stays where it is.
SliceFails(s) ==
    /\ Idle(s)
    /\ Busy(s)
    /\ slips < MaxSlips
    /\ Mishaps < MaxMishaps
    /\ slips' = slips + 1
    /\ end' = [end EXCEPT ![s] = 0]
    /\ taken' = [taken EXCEPT ![s] = NoJobs]
    /\ UNCHANGED <<clock, shop, jobs, todo, ledger, work, admin, crashes, raises, sets>>

\* POST /admin/clock/set, to any date.
SetClock ==
    /\ sets < MaxSets
    /\ Mishaps < MaxMishaps
    /\ sets' = sets + 1
    /\ \E d \in 1 .. LastDay : d # clock /\ clock' = d
    /\ UNCHANGED <<shop, end, queue, ledger, work, admin, crashes, raises, slips>>

-----------------------------------------------------------------------------
(***************************************************************************)
(* POST /admin/generate-pos: the last n dates up to today, or n dates from *)
(* today; a backfill settles inline what is due up to two days from now    *)
(* (the code's own check of that bound never fails: its dates end today).  *)
(***************************************************************************)
Generations(first, n) == [i \in 1 .. n |-> <<"gen", first + i - 1>>]
Drains(first, n) == [i \in 1 .. 3 * n |-> <<"settle", first + ((i - 1) \div 3) + ((i - 1) % 3)>>]

GeneratePos(n, backfill) ==
    /\ merchant
    /\ op["admin"] = "idle"
    /\ plan = <<>>
    /\ calls < MaxCalls
    /\ Mishaps < MaxMishaps
    /\ calls' = calls + 1
    /\ drawn' = 0
    /\ IF backfill THEN /\ clock >= n
                        /\ plan' = Generations(clock - n + 1, n) \o Drains(clock - n + 1, n)
                   ELSE plan' = Generations(clock, n)
    /\ UNCHANGED <<clock, shop, end, queue, ledger, work, luck>>

AdminCalls ==
    /\ op["admin"] = "idle"
    /\ plan # <<>>
    /\ Head(plan) \in Jobs
    /\ IF Head(plan)[1] = "settle" /\ drawn = 0
       THEN plan' = <<>> /\ UNCHANGED work
       ELSE plan' = Tail(plan) /\ Begin("admin", Head(plan))
    /\ UNCHANGED <<clock, shop, end, queue, ledger, drawn, calls, luck>>

\* Nothing uncommitted survives, and the sim clock starts at the real date again.
Crash ==
    /\ crashes < MaxCrashes
    /\ Mishaps < MaxMishaps
    /\ crashes' = crashes + 1
    /\ clock' = 1
    /\ opened' = 0
    /\ end' = [s \in Slices |-> 0]
    /\ taken' = [s \in Slices |-> NoJobs]
    /\ todo' = [s \in Slices |-> NoJobs]
    /\ op' = [a \in Actors |-> "idle"]
    /\ rows' = [a \in Actors |-> Zero]
    /\ plan' = <<>>
    /\ UNCHANGED <<merchant, jobs, ledger, day, left, drawn, calls, raises, sets, slips>>

-----------------------------------------------------------------------------
Work(a) ==
    \/ WriteBatch(a)
    \/ ChainDay(a)
    \/ PromiseSettlement(a)
    \/ SettleCommits(a)

Slice(s) ==
    \/ SliceSelects(s)
    \/ \E q \in Jobs : RunJob(s, q)
    \/ Work(s)
    \/ SliceCommits(s)

Next ==
    \/ OpenMerchant
    \/ CreateMerchant
    \/ \E s \in Slices : SliceStarts(s) \/ Slice(s) \/ SliceFails(s)
    \/ SetClock
    \/ \E n \in Windows, backfill \in BOOLEAN : GeneratePos(n, backfill)
    \/ AdminCalls
    \/ Work("admin")
    \/ \E a \in Actors : Raise(a)
    \/ Crash

Spec == Init /\ [][Next]_vars

\* Somebody keeps advancing the clock, and the event loop runs what it has begun.
FairSpec ==
    /\ Spec
    /\ WF_vars(SliceStarts("first"))
    /\ \A s \in Slices : WF_vars(Slice(s))
    /\ WF_vars(AdminCalls \/ Work("admin"))
-----------------------------------------------------------------------------
(***************************************************************************)
(* Properties.                                                             *)
(***************************************************************************)

\* The values every variable may take.
LedgerType ==
    /\ made \in [Days -> Nat]
    /\ paid \in [Days -> Nat]
    /\ op \in [Actors -> {"idle", "writing", "chaining", "promising", "settling"}]
    /\ day \in [Actors -> Days]
    /\ left \in [Actors -> Nat]
    /\ rows \in [Actors -> [Days -> Nat]]

TypeOK ==
    /\ LedgerType
    /\ clock \in 1 .. LastDay
    /\ merchant \in BOOLEAN
    /\ opened \in 0 .. LastDay
    /\ end \in [Slices -> 0 .. LastDay]
    /\ jobs \in [Jobs -> Nat]
    /\ taken \in [Slices -> [Jobs -> Nat]]
    /\ todo \in [Slices -> [Jobs -> Nat]]
    /\ \A q \in Jobs : taken["first"][q] + taken["second"][q] <= jobs[q]
    /\ batches \in [Days -> Nat]
    /\ plan \in Seq(Kinds \X Nat)
    /\ drawn \in Nat
    /\ <<calls, crashes, raises, sets, slips>> \in Nat \X Nat \X Nat \X Nat \X Nat

\* No sale is settled twice: what is settled and what concurrent settlements
\* are about to settle never exceeds the sales made.
PaidOnce == \A d \in Days : paid[d] + Locked(d) <= made[d]

\* One settlement batch per merchant and date (DESIGN.md:307): all sales of a date,
\* the weekend's with those of the day before it, are written before its settlement
\* runs, although jobs that handlers schedule wait for the next slice.  It holds while
\* one slice follows the other.  What breaks it: a call of generate-pos, which writes and
\* settles sales at any time; a crash or a lost slice, which fires again jobs whose
\* handlers have committed; clock/set, an overlapping advance and a merchant whose
\* first job commits after the clock has moved on, which leave the chain of
\* generations behind the clock, so that the settlement of a date comes before
\* its sales.
OncePerDay ==
    (calls = 0 /\ crashes = 0 /\ sets = 0 /\ slips = 0) => \A s \in Days : batches[s] <= 1

\* Jobs that will still be run, the one that is being run not included.
Waiting(q) == Free(q) + todo["first"][q] + todo["second"][q]
Running(a, d) == op[a] \in {"writing", "chaining", "promising"} /\ day[a] = d

\* The chain of daily jobs does not break: once there is a merchant, some
\* generation is waiting or running, whatever crashes, unless a handler raised.
ChainUnbroken ==
    (merchant /\ raises = 0) =>
        \E d \in Days : Waiting(<<"gen", d>>) > 0 \/ \E s \in Slices : Running(s, d)

\* No sale is forgotten: one that is not in a batch has its settlement ahead of it,
\* or else the generation of its day, which will schedule one.  Sales and their
\* settlement job are different transactions, so a handler that raises between
\* them strands the sales, and so does a crash during generate-pos.
Interrupted == raises > 0 \/ (calls > 0 /\ crashes > 0)
NothingStranded ==
    \A d \in Days :
        (made[d] > paid[d] /\ ~Interrupted) =>
            \/ Waiting(<<"settle", SettleDate(d)>>) > 0
            \/ Waiting(<<"gen", d>>) > 0
            \/ \E a \in Actors : Running(a, d) \/ rows[a][d] > 0

\* Money is settled on its settlement date: by the scheduler when the clock has
\* reached it, by the inline settlement of a backfill at most two days early.  Only
\* clock/set turns the clock back while a slice or a backfill is going on.
NeverEarly ==
    [][\A d \in Days : (paid'[d] > paid[d] /\ sets = 0) =>
           \/ SettleDate(d) <= clock
           \/ op["admin"] = "settling" /\ SettleDate(d) <= clock + 2]_vars

\* Every sale whose settlement date the clock can reach is settled, also after the clock
\* was set, slices overlapped or were lost, and jobs fell behind the clock: again and
\* again there is none that is not.
Owed == \E d \in 1 .. LastDay : made[d] > paid[d] /\ SettleDate(d) <= LastDay
EverySaleSettles == []<>(~Owed \/ Interrupted)

\* What makes PaidOnce inductive: only a settlement that is going on locks sales.
RowsInv == \A a \in Actors : op[a] # "settling" => rows[a] = Zero

IInv == LedgerType /\ RowsInv /\ PaidOnce

\* What makes ChainUnbroken and NothingStranded inductive.  A slice runs what it has
\* locked, and the job it is running stays in the table until it commits, so that a
\* crash brings it back; once a generation has chained the next one waits.
Held(s, q) == todo[s][q] < taken[s][q]

HoldsJobs(s) ==
    /\ end[s] # 0 => taken[s] = NoJobs
    /\ \A q \in Jobs : todo[s][q] <= taken[s][q]
    /\ \A d \in Days : Running(s, d) => Held(s, <<"gen", d>>)
    /\ op[s] = "settling" => Held(s, <<"settle", day[s]>>)

JobsHeld == \A s \in Slices : HoldsJobs(s)

Queued(q) == q \in Jobs /\ Waiting(q) > 0

ChainHeld ==
    (merchant /\ raises = 0) =>
        \/ \E d \in Days : Queued(<<"gen", d>>)
        \/ \E s \in Slices : op[s] \in {"writing", "chaining"}

\* What makes NeverEarly hold, until the clock is set: a slice has locked jobs that the
\* clock has reached, and a backfill plans its settlements for dates up to two days from
\* now.
JobsDue ==
    sets = 0 =>
        /\ \A s \in Slices : end[s] <= clock + 1
        /\ \A s \in Slices, q \in Jobs : taken[s][q] > 0 => q[2] <= clock
        /\ \A i \in DOMAIN plan : plan[i][1] = "settle" => plan[i][2] <= clock + 2
        /\ op["admin"] = "settling" => day["admin"] <= clock + 2

\* A settlement locks sales of its own date only; without calls the administrator does
\* nothing; sales are written only on dates that have some; and a sale that nobody has
\* locked is to be settled by a job, or by one that its generation will schedule.
Unlocked(d) == made[d] > paid[d] + Locked(d)

Covered(d) ==
    \/ Queued(<<"settle", SettleDate(d)>>)
    \/ Queued(<<"gen", d>>)
    \/ \E a \in Actors : Running(a, d)

SalesHeld ==
    /\ \A a \in Actors, d \in Days : rows[a][d] > 0 => SettleDate(d) = day[a]
    /\ calls = 0 => op["admin"] = "idle" /\ plan = <<>>
    /\ \A a \in Actors : op[a] \in {"writing", "promising"} => Txns[day[a]] > 0
    /\ \A d \in Days : made[d] > 0 => Txns[d] > 0
    /\ ~Interrupted =>
          \A d \in Days : Unlocked(d) => Covered(d)

\* What makes OncePerDay inductive, while nothing of what it excepts has happened.  A
\* generation that waits for the next slice is of today or later, one that the slice has
\* locked of yesterday or later; so when a settlement runs, every sale of its date has
\* been written, and none is written or left over once the batch is there.
Alone ==
    /\ op["second"] = "idle"
    /\ end["second"] = 0
    /\ taken["second"] = NoJobs
    /\ todo["second"] = NoJobs

Coming(d) == Waiting(<<"gen", d>>) > 0
             \/ (op["first"] \in {"writing", "chaining"} /\ day["first"] = d)

GenerationsOnTime ==
    /\ opened <= clock
    /\ end["first"] \in {0, Tomorrow}
    /\ \A d \in Days : jobs[<<"gen", d>>] > taken["first"][<<"gen", d>>] => d >= clock
    /\ \A d \in Days : todo["first"][<<"gen", d>>] > 0 => d + 1 >= clock
    /\ op["first"] \in {"writing", "chaining"} => day["first"] + 1 >= clock

Begun(s) == batches[s] > 0 \/ (op["first"] = "settling" /\ day["first"] = s)

BatchIsLast ==
    /\ \A s \in Days : Begun(s) => s <= clock
    /\ \A s, d \in Days : Begun(s) /\ Coming(d) => s <= d
    /\ \A s, d \in Days : Begun(s) /\ SettleDate(d) = s => ~Unlocked(d)
    /\ \A s, d \in Days : batches[s] > 0 /\ SettleDate(d) = s => made[d] = paid[d]
    /\ op["first"] = "settling" => batches[day["first"]] = 0
    /\ \A s \in Days : batches[s] <= 1

SettledOnce ==
    (calls = 0 /\ crashes = 0 /\ sets = 0 /\ slips = 0) =>
        Alone /\ GenerationsOnTime /\ BatchIsLast
=============================================================================
