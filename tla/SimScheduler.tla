---------------------------- MODULE SimScheduler ----------------------------
(***************************************************************************)
(* Simulated time: the clock of clock.py and the job scheduler of          *)
(* core/sim_scheduler.py.  An advance walks the clock forward slice by     *)
(* slice; a slice selects the due jobs FOR UPDATE SKIP LOCKED, moves the   *)
(* clock, calls the handler of each job in order of fire_at and commits    *)
(* the new statuses.  Handlers commit sessions of their own, and between   *)
(* any two awaits other advances, requests and administrators run.         *)
(***************************************************************************)
EXTENDS Naturals, FiniteSets

CONSTANTS
    Jobs,         \* rows of sim_scheduler_jobs that may ever exist
    Tasks,        \* calls of advance() that may be running at one time
    Registered,   \* those whose job_type has a handler in _registry
    TenantOf,     \* mock_tenant_id of each job, NoTenant for NULL
    NoTenant,
    Caller,       \* the mock_tenant_id advance() is called with
    SliceLen,     \* sim_clock_advance_slice_days, in units of time
    AsyncLimit,   \* sim_clock_advance_async_threshold_days, in slices
    Durations,    \* durations callers ask for
    Delays,       \* how far ahead a request schedules a job
    FollowDelay,  \* how far after its own fire_at a handler schedules the next
    SetTargets,   \* datetimes the administrator sets the clock to
    MaxAdvances,  \* bound: calls of advance()
    MaxMishaps    \* bound: slices lost, and settings of the clock

ASSUME SchedulerAssumption ==
    /\ Registered \subseteq Jobs
    /\ SliceLen \in Nat \ {0}
    /\ AsyncLimit \in Nat
    /\ Durations \subseteq Nat \ {0}
    /\ Delays \subseteq Nat
    /\ FollowDelay \in Nat
    /\ SetTargets \subseteq Nat
    /\ MaxAdvances \in Nat
    /\ MaxMishaps \in Nat

VARIABLES
    clock,     \* SimClock._t
    status,    \* job status; "none" and "open" (uncommitted) added
    fireAt,    \* job fire_at
    stage,     \* where each task is
    left,      \* sim time a task has still to walk (remaining)
    end,       \* slice_end of a task's slice
    held,      \* jobs a slice has locked
    ok,        \* held jobs whose handler returned
    raised,    \* held jobs whose handler raised, or that have none
    row,       \* status of the task's clock_advance_jobs row, "none" without one
    done,      \* its slices_done
    total,     \* its slices_total
    calls,     \* history: handler calls per job
    late,      \* history: jobs the clock had passed unseen: committed too late, or due
               \* after the slice_end of the slice that moved it there
    advances,  \* advances so far
    aborts,    \* slices lost so far
    sets       \* times an administrator has set the clock

jobs  == <<status, fireAt>>
slice == <<end, held, ok, raised>>
progress == <<row, done, total>>
ghost == <<calls, late, advances, aborts, sets>>
vars  == <<clock, jobs, stage, left, slice, progress, ghost>>

Stages    == {"idle", "created", "ready", "selecting", "selected", "firing", "reporting"}
RowStatus == {"none", "pending", "running", "complete", "failed"}

\* slice_dur, before it a mutant that walks whole days only.
WholeSlice(t) == IF left[t] < SliceLen THEN 0 ELSE SliceLen
SliceOf(t)    == IF left[t] < SliceLen THEN left[t] ELSE SliceLen

\* ORDER BY fire_at (mutant: descending).
Highest(S) == {j \in S : \A k \in S : fireAt[k] <= fireAt[j]}
Lowest(S)  == {j \in S : \A k \in S : fireAt[j] <= fireAt[k]}

\* Days in a duration: begun ones as advance() counts them, and as
\* _create_advance_job is told them when the remainder goes to the background.
DaysBegun(d)      == (d + SliceLen - 1) \div SliceLen
DaysHandedOver(d) == (d \div SliceLen) + 1

\* Rows other slices have locked, which SKIP LOCKED passes over (mutant: none).
NoneLocked(t)     == {}
LockedByOthers(t) == UNION {held[u] : u \in Tasks \ {t}}

\* What a slice selects: the caller's jobs up to slice_end (mutants: short of it,
\* and beyond it).
DueBefore(t) ==
    {j \in Jobs : status[j] = "pending" /\ fireAt[j] < end[t] /\ TenantOf[j] = Caller}
DueSoon(t) ==
    {j \in Jobs : status[j] = "pending" /\ fireAt[j] <= end[t] + 1 /\ TenantOf[j] = Caller}
Due(t) ==
    {j \in Jobs : /\ status[j] = "pending"
                  /\ fireAt[j] <= end[t]
                  /\ TenantOf[j] \in {Caller, NoTenant}}

\* Some slice that has done its SELECT ends at or after f.
Passed(f) ==
    \/ f <= clock
    \/ \E t \in Tasks : stage[t] \in {"selected", "firing"} /\ f <= end[t]

-----------------------------------------------------------------------------
Init ==
    /\ clock = 0
    /\ status = [j \in Jobs |-> "none"]
    /\ fireAt = [j \in Jobs |-> 0]
    /\ stage = [t \in Tasks |-> "idle"]
    /\ left = [t \in Tasks |-> 0]
    /\ end = [t \in Tasks |-> 0]
    /\ held = [t \in Tasks |-> {}]
    /\ ok = [t \in Tasks |-> {}]
    /\ raised = [t \in Tasks |-> {}]
    /\ row = [t \in Tasks |-> "none"]
    /\ done = [t \in Tasks |-> 0]
    /\ total = [t \in Tasks |-> 0]
    /\ calls = [j \in Jobs |-> 0]
    /\ late = {}
    /\ advances = 0
    /\ aborts = 0
    /\ sets = 0

(***************************************************************************)
(* A request reads the clock to compute fire_at and commits the job, with  *)
(* its business rows, some time later.                                     *)
(***************************************************************************)
Schedule(j) ==
    /\ status[j] = "none"
    /\ \E d \in Delays : fireAt' = [fireAt EXCEPT ![j] = clock + d]
    /\ status' = [status EXCEPT ![j] = "open"]
    /\ UNCHANGED <<clock, stage, left, slice, progress, ghost>>

CommitSchedule(j) ==
    /\ status[j] = "open"
    /\ status' = [status EXCEPT ![j] = "pending"]
    /\ late' = IF Passed(fireAt[j]) THEN late \cup {j} ELSE late
    /\ UNCHANGED <<clock, fireAt, stage, left, slice, progress, calls, advances, aborts, sets>>

\* The request fails after schedule_at: its transaction is rolled back.
DropSchedule(j) ==
    /\ status[j] = "open"
    /\ status' = [status EXCEPT ![j] = "none"]
    /\ UNCHANGED <<clock, fireAt, stage, left, slice, progress, ghost>>

-----------------------------------------------------------------------------
(***************************************************************************)
(* advance(): a long one creates its row and continues in a background     *)
(* task, a short one runs in the request.                                  *)
(***************************************************************************)
\* (Mutant: a row that goes on counting from the task's last one.)
CountsOn(t, n) ==
    /\ stage' = [stage EXCEPT ![t] = "created"]
    /\ row' = [row EXCEPT ![t] = "pending"]
    /\ total' = [total EXCEPT ![t] = n]
    /\ UNCHANGED done

CreateRow(t, n) ==
    /\ stage' = [stage EXCEPT ![t] = "created"]
    /\ row' = [row EXCEPT ![t] = "pending"]
    /\ done' = [done EXCEPT ![t] = 0]
    /\ total' = [total EXCEPT ![t] = n]

StartAdvance(t) ==
    /\ stage[t] = "idle"
    /\ advances < MaxAdvances
    /\ advances' = advances + 1
    /\ \E d \in Durations :
        /\ left' = [left EXCEPT ![t] = d]
        /\ \/ /\ DaysBegun(d) > AsyncLimit
              /\ CreateRow(t, DaysBegun(d))
           \/ /\ DaysBegun(d) <= AsyncLimit
              /\ stage' = [stage EXCEPT ![t] = "ready"]
              /\ row' = [row EXCEPT ![t] = "none"]
              /\ UNCHANGED <<done, total>>
    /\ UNCHANGED <<clock, jobs, slice, calls, late, aborts, sets>>

\* The background task marks its row running.
RowRuns(t) ==
    /\ stage[t] = "created"
    /\ stage' = [stage EXCEPT ![t] = "ready"]
    /\ row' = [row EXCEPT ![t] = "running"]
    /\ UNCHANGED <<done, total, clock, jobs, left, slice, ghost>>

\* slice_end is computed from the clock as it is before the SELECT.
SliceStarts(t) ==
    /\ stage[t] = "ready"
    /\ left[t] > 0
    /\ end' = [end EXCEPT ![t] = clock + SliceOf(t)]
    /\ stage' = [stage EXCEPT ![t] = "selecting"]
    /\ UNCHANGED <<clock, jobs, left, held, ok, raised, progress, ghost>>

SliceSelects(t) ==
    /\ stage[t] = "selecting"
    /\ held' = [held EXCEPT ![t] = Due(t) \ LockedByOthers(t)]
    /\ stage' = [stage EXCEPT ![t] = "selected"]
    /\ UNCHANGED <<clock, jobs, left, end, ok, raised, progress, ghost>>

\* Back from the SELECT the slice moves the clock by its length, from wherever
\* the clock is now.
ClockMoves(t) ==
    /\ stage[t] = "selected"
    /\ clock' = clock + SliceOf(t)
    /\ stage' = [stage EXCEPT ![t] = "firing"]
    /\ late' = late \cup {j \in Jobs : status[j] = "pending" /\ fireAt[j] \in end[t] + 1 .. clock'}
    /\ UNCHANGED <<jobs, left, slice, progress, calls, advances, aborts, sets>>

(***************************************************************************)
(* The jobs in order of fire_at and ties in any order.  A handler commits  *)
(* its own sessions and may schedule one more job; or it raises, and the   *)
(* job will be marked failed, as a job is that has no handler to call.     *)
(***************************************************************************)
Turn(t, j) ==
    /\ stage[t] = "firing"
    /\ j \in Lowest(held[t] \ (ok[t] \cup raised[t]))

NoHandler(t, j) ==
    /\ Turn(t, j)
    /\ j \notin Registered
    /\ raised' = [raised EXCEPT ![t] = @ \cup {j}]
    /\ UNCHANGED <<clock, jobs, stage, left, end, held, ok, progress, ghost>>

HandlerRuns(t, j) ==
    /\ Turn(t, j)
    /\ j \in Registered
    /\ calls' = [calls EXCEPT ![j] = @ + 1]
    /\ \/ /\ ok' = [ok EXCEPT ![t] = @ \cup {j}]
          /\ \/ UNCHANGED <<status, fireAt, late>>
             \/ \E k \in Jobs :
                 LET f == fireAt[j] + FollowDelay IN
                 /\ status[k] = "none"
                 /\ TenantOf[k] = TenantOf[j]
                 /\ status' = [status EXCEPT ![k] = "pending"]
                 /\ fireAt' = [fireAt EXCEPT ![k] = f]
                 /\ late' = IF Passed(f) THEN late \cup {k} ELSE late
          /\ UNCHANGED raised
       \/ /\ raised' = [raised EXCEPT ![t] = @ \cup {j}]
          /\ UNCHANGED <<ok, status, fireAt, late>>
    /\ UNCHANGED <<clock, stage, left, end, held, progress, advances, aborts, sets>>

\* The slice's transaction commits the statuses and releases the rows.
\* (Mutant: a failure not recorded.)
ForgetsRaised(t) == [j \in Jobs |-> IF j \in ok[t] THEN "fired" ELSE status[j]]
Recorded(t) == [j \in Jobs |-> IF j \in ok[t] THEN "fired"
                               ELSE IF j \in raised[t] THEN "failed" ELSE status[j]]

SliceCommits(t) ==
    /\ stage[t] = "firing"
    /\ held[t] = ok[t] \cup raised[t]
    /\ status' = Recorded(t)
    /\ held' = [held EXCEPT ![t] = {}]
    /\ ok' = [ok EXCEPT ![t] = {}]
    /\ raised' = [raised EXCEPT ![t] = {}]
    /\ left' = [left EXCEPT ![t] = @ - SliceOf(t)]
    /\ stage' = [stage EXCEPT ![t] = "reporting"]
    /\ UNCHANGED <<clock, fireAt, end, progress, ghost>>

\* A background task then writes slices_done; a synchronous one goes on, or finds
\* its wall-clock budget spent and hands the remainder to the background.
Reports(t) ==
    /\ stage[t] = "reporting"
    /\ \/ /\ row[t] = "running"
          /\ done' = [done EXCEPT ![t] = @ + 1]
          /\ stage' = [stage EXCEPT ![t] = "ready"]
          /\ UNCHANGED <<row, total>>
       \/ /\ row[t] = "none"
          /\ stage' = [stage EXCEPT ![t] = "ready"]
          /\ UNCHANGED progress
       \/ /\ row[t] = "none"
          /\ CreateRow(t, DaysHandedOver(left[t]))
    /\ UNCHANGED <<clock, jobs, left, slice, ghost>>

FinishAdvance(t) ==
    /\ stage[t] = "ready"
    /\ left[t] = 0
    /\ stage' = [stage EXCEPT ![t] = "idle"]
    /\ row' = IF row[t] = "running" THEN [row EXCEPT ![t] = "complete"] ELSE row
    /\ UNCHANGED <<done, total, clock, jobs, left, slice, ghost>>

-----------------------------------------------------------------------------
(***************************************************************************)
(* A database error ends one advance: its slice is rolled back, but not    *)
(* the clock nor what handlers committed.  A process crash ends them all,  *)
(* and the restarted process starts its clock afresh.                      *)
(***************************************************************************)
Drop(T) ==
    /\ stage' = [t \in Tasks |-> IF t \in T THEN "idle" ELSE stage[t]]
    /\ left'  = [t \in Tasks |-> IF t \in T THEN 0 ELSE left[t]]
    /\ held'  = [t \in Tasks |-> IF t \in T THEN {} ELSE held[t]]
    /\ ok'    = [t \in Tasks |-> IF t \in T THEN {} ELSE ok[t]]
    /\ raised' = [t \in Tasks |-> IF t \in T THEN {} ELSE raised[t]]
    /\ aborts + sets < MaxMishaps
    /\ aborts' = aborts + 1
    /\ UNCHANGED <<fireAt, end, calls, late, advances, sets>>

SliceFails(t) ==
    /\ stage[t] \in {"selecting", "selected", "firing", "reporting"}
    /\ Drop({t})
    /\ row' = IF row[t] = "running" THEN [row EXCEPT ![t] = "failed"] ELSE row
    /\ UNCHANGED <<done, total, clock, status>>

Crash ==
    /\ Drop(Tasks)
    /\ clock' = 0
    /\ status' = [j \in Jobs |-> IF status[j] = "open" THEN "none" ELSE status[j]]
    /\ UNCHANGED progress

\* POST /admin/clock/set: no job is fired, and the clock may go back.
SetClock ==
    /\ aborts + sets < MaxMishaps
    /\ sets' = sets + 1
    /\ clock' \in SetTargets \ {clock}
    /\ UNCHANGED <<jobs, stage, left, slice, progress, calls, late, advances, aborts>>

-----------------------------------------------------------------------------
Step(t) ==
    \/ RowRuns(t)
    \/ SliceStarts(t)
    \/ SliceSelects(t)
    \/ ClockMoves(t)
    \/ \E j \in Jobs : HandlerRuns(t, j) \/ NoHandler(t, j)
    \/ SliceCommits(t)
    \/ Reports(t)
    \/ FinishAdvance(t)

Next ==
    \/ \E j \in Jobs : Schedule(j) \/ CommitSchedule(j) \/ DropSchedule(j)
    \/ \E t \in Tasks : StartAdvance(t) \/ Step(t) \/ SliceFails(t)
    \/ Crash
    \/ SetClock

Spec == Init /\ [][Next]_vars
-----------------------------------------------------------------------------
(***************************************************************************)
(* Properties.                                                             *)
(***************************************************************************)

\* The values every variable may take.
TypeOK ==
    /\ clock \in Nat
    /\ status \in [Jobs -> {"none", "open", "pending", "fired", "failed"}]
    /\ fireAt \in [Jobs -> Nat]
    /\ stage \in [Tasks -> Stages]
    /\ left \in [Tasks -> Nat]
    /\ end \in [Tasks -> Nat]
    /\ held \in [Tasks -> SUBSET Jobs]
    /\ ok \in [Tasks -> SUBSET Jobs]
    /\ raised \in [Tasks -> SUBSET Jobs]
    /\ row \in [Tasks -> RowStatus]
    /\ done \in [Tasks -> Nat]
    /\ total \in [Tasks -> Nat]
    /\ calls \in [Jobs -> Nat]
    /\ late \in SUBSET Jobs
    /\ advances \in Nat
    /\ aborts \in Nat
    /\ sets \in Nat

\* What FOR UPDATE SKIP LOCKED is for: two advances running at once never hold
\* the same job, and a held job stays pending until its slice commits.
HeldExclusively ==
    \A t \in Tasks :
        /\ \A j \in held[t] : status[j] = "pending"
        /\ \A u \in Tasks \ {t} : held[t] \cap held[u] = {}

\* A handler is called once for its job, and once more for each slice that was
\* lost after calling it: calls are repeated only because the handler's commit
\* and the slice's are different transactions.
CalledOnceUnlessLost == \A j \in Jobs : calls[j] <= 1 + aborts

\* What the table says of a job is what became of it: it is fired only after its
\* handler was called, failed after the call or because it has no handler to call;
\* and without lost slices no job that ran is left pending outside the slice that
\* holds it.
RecordedAsRun ==
    \A j \in Jobs :
        /\ status[j] = "fired" => calls[j] >= 1
        /\ status[j] = "failed" => (calls[j] >= 1 <=> j \in Registered)
        /\ (aborts = 0 /\ calls[j] >= 1) =>
              \/ status[j] \in {"fired", "failed"}
              \/ \E t \in Tasks : j \in held[t]

\* Unless an administrator has set the clock, no handler runs early, although
\* slice_end and the clock are read at different awaits and other advances move
\* the clock in between.
NeverEarly ==
    [][\A j \in Jobs : (calls'[j] # calls[j] /\ sets = 0)
                        => fireAt[j] <= clock]_vars

\* The order of sim time across slices and overlapping advances (the docstring of
\* sim_scheduler.py calls it deterministic): when a handler is called, every job of
\* the caller due before its own has had its turn, unless another slice holds it
\* just then, or it is late - committed, or passed by the clock, behind a SELECT.
FiredInOrder ==
    [][\A j, k \in Jobs :
        (/\ calls'[j] # calls[j]
         /\ TenantOf[k] \in {Caller, NoTenant}
         /\ fireAt[k] < fireAt[j]
         /\ status[k] = "pending"
         /\ k \notin late
         /\ aborts = 0 /\ sets = 0)
            => \E t \in Tasks : \/ k \in ok[t] \cup raised[t]
                                \/ k \in held[t] /\ j \notin held[t]]_vars

\* The promise of schedule_at: between slices no job of the caller is pending
\* whose time has come, unless a slice was lost, the clock was set, its transaction
\* committed too late for the slice that passed it, or an advance moved the clock
\* further than the slice_end it had selected for because another one had moved it
\* meanwhile.
NothingOverdue ==
    (aborts = 0 /\ sets = 0 /\ \A t \in Tasks : stage[t] \notin {"selected", "firing"}) =>
        \A j \in Jobs : status[j] = "pending" => fireAt[j] > clock \/ j \in late

\* The progress an administrator polls: slices_done never passes slices_total,
\* whichever way the row came to be.
ProgressBounded == \A t \in Tasks : done[t] <= total[t]

\* What makes these properties inductive.  Jobs are held, and run, only inside a
\* slice; a job not committed was never called; a pending job was called no more
\* often than slices were lost, unless the slice that called it still holds it;
\* and unless someone sets the clock, a slice that fires has reached its end.
RanIsHeld ==
    \A t \in Tasks :
        /\ ok[t] \cup raised[t] \subseteq held[t]
        /\ stage[t] \notin {"selected", "firing"} => held[t] = {}

CallsAccounted ==
    \A j \in Jobs :
        /\ status[j] \in {"none", "open"} => calls[j] = 0
        /\ status[j] = "pending" =>
              \/ calls[j] <= aborts
              \/ \E t \in Tasks : j \in ok[t] \cup raised[t]
        /\ \A t \in Tasks : /\ j \in ok[t] => calls[j] >= 1
                            /\ j \in raised[t] => (calls[j] >= 1 <=> j \in Registered)
        /\ j \notin Registered => calls[j] = 0

ClockReachesEnd ==
    sets = 0 =>
        \A t \in Tasks :
            /\ stage[t] \in {"selecting", "selected"} => end[t] <= clock + SliceOf(t)
            /\ stage[t] = "firing" => end[t] <= clock
            /\ \A j \in held[t] : fireAt[j] <= end[t]

\* What makes NothingOverdue (when every job is the caller's) and FiredInOrder
\* inductive: a pending job of the caller whose time some slice has passed is held
\* by a slice, or late.
AllMine == \A j \in Jobs : TenantOf[j] \in {Caller, NoTenant}

Reached(f) == f <= clock \/ \E t \in Tasks : stage[t] = "selected" /\ f <= end[t]

DueIsHeld ==
    (aborts = 0 /\ sets = 0) =>
        \A j \in Jobs :
            (/\ status[j] = "pending" /\ j \notin late
             /\ TenantOf[j] \in {Caller, NoTenant} /\ Reached(fireAt[j]))
                => \E t \in Tasks : j \in held[t]

\* What makes ProgressBounded inductive: the days still to be walked are among
\* those not yet counted as done.
InSlice(t) == stage[t] \in {"selecting", "selected", "firing"}
Counting(t) == row[t] \in {"pending", "running"}

DaysLeft(t) ==
    /\ stage[t] = "created" => row[t] = "pending"
    /\ InSlice(t) => left[t] > 0
    /\ done[t] <= total[t]
    /\ (Counting(t) /\ (stage[t] \in {"created", "ready"} \/ InSlice(t))) =>
          left[t] + done[t] * SliceLen <= total[t] * SliceLen
    /\ (row[t] = "running" /\ stage[t] = "reporting") =>
          left[t] + done[t] * SliceLen + SliceLen <= total[t] * SliceLen

DaysCounted == \A t \in Tasks : DaysLeft(t)

IInv ==
    /\ TypeOK
    /\ HeldExclusively
    /\ CalledOnceUnlessLost
    /\ RecordedAsRun
    /\ RanIsHeld
    /\ CallsAccounted
    /\ ClockReachesEnd

=============================================================================
