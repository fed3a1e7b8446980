-------------------------- MODULE SimSchedulerProofs --------------------------
(***************************************************************************)
(* Proofs about SimScheduler.tla, for every set of jobs, tenants and       *)
(* concurrent advances, every slice length and every choice of failures.   *)
(***************************************************************************)
EXTENDS SimScheduler, TLAPS

\* A slice never walks further than the advance it belongs to.
LEMMA SliceType ==
    ASSUME TypeOK, NEW t \in Tasks
    PROVE  SliceOf(t) \in Nat /\ left[t] - SliceOf(t) \in Nat
BY SchedulerAssumption DEF TypeOK, SliceOf

\* Both counts of days are naturals.
LEMMA DaysType ==
    ASSUME NEW d \in Nat
    PROVE  DaysBegun(d) \in Nat /\ DaysHandedOver(d) \in Nat
BY SchedulerAssumption DEF DaysBegun, DaysHandedOver

\* The initial scheduler is well typed.
LEMMA TypeInit == Init => TypeOK
BY DEF Init, TypeOK, Stages, RowStatus

\* Every step of an advance, a request or a fault keeps the types.
LEMMA TypeNext == TypeOK /\ [Next]_vars => TypeOK'
<1> SUFFICES ASSUME TypeOK, [Next]_vars PROVE TypeOK'
    OBVIOUS
<1> USE SchedulerAssumption DEF TypeOK, Stages, RowStatus, jobs, slice, progress, ghost
<1>1. ASSUME NEW j \in Jobs, Schedule(j) \/ CommitSchedule(j) \/ DropSchedule(j)
      PROVE  TypeOK'
    BY <1>1 DEF Schedule, CommitSchedule, DropSchedule
<1>2. ASSUME NEW t \in Tasks, StartAdvance(t) PROVE TypeOK'
    <2>1. PICK d \in Durations : /\ left' = [left EXCEPT ![t] = d]
                                 /\ \/ CreateRow(t, DaysBegun(d))
                                    \/ /\ stage' = [stage EXCEPT ![t] = "ready"]
                                       /\ row' = [row EXCEPT ![t] = "none"]
                                       /\ UNCHANGED <<done, total>>
        BY <1>2 DEF StartAdvance
    <2>2. d \in Nat /\ DaysBegun(d) \in Nat
        BY DaysType
    <2>3. /\ left' \in [Tasks -> Nat] /\ stage' \in [Tasks -> Stages]
          /\ row' \in [Tasks -> RowStatus]
          /\ done' \in [Tasks -> Nat] /\ total' \in [Tasks -> Nat]
        BY <2>1, <2>2 DEF CreateRow
    <2>4. advances' \in Nat
        BY <1>2 DEF StartAdvance
    <2> QED
        BY <1>2, <2>3, <2>4 DEF StartAdvance
<1>3. ASSUME NEW t \in Tasks, RowRuns(t) \/ SliceStarts(t) \/ ClockMoves(t) PROVE TypeOK'
    BY <1>3, SliceType DEF RowRuns, SliceStarts, ClockMoves
<1>4. ASSUME NEW t \in Tasks, SliceSelects(t) PROVE TypeOK'
    BY <1>4 DEF SliceSelects, Due
<1>0. ASSUME NEW t \in Tasks, NEW j \in Jobs, NoHandler(t, j) PROVE TypeOK'
    BY <1>0 DEF NoHandler, Turn
<1>5. ASSUME NEW t \in Tasks, NEW j \in Jobs, HandlerRuns(t, j) PROVE TypeOK'
    <2>1. calls' \in [Jobs -> Nat] /\ ok' \in [Tasks -> SUBSET Jobs]
          /\ raised' \in [Tasks -> SUBSET Jobs]
        BY <1>5 DEF HandlerRuns
    <2>2. fireAt[j] + FollowDelay \in Nat
        OBVIOUS
    <2>3. /\ status' \in [Jobs -> {"none", "open", "pending", "fired", "failed"}]
          /\ fireAt' \in [Jobs -> Nat] /\ late' \in SUBSET Jobs
        BY <1>5, <2>2 DEF HandlerRuns
    <2> QED
        BY <1>5, <2>1, <2>3 DEF HandlerRuns
<1>6. ASSUME NEW t \in Tasks, SliceCommits(t) PROVE TypeOK'
    <2>1. left' \in [Tasks -> Nat]
        BY <1>6, SliceType DEF SliceCommits
    <2>2. status' \in [Jobs -> {"none", "open", "pending", "fired", "failed"}]
        BY <1>6 DEF SliceCommits, Recorded
    <2> QED
        BY <1>6, <2>1, <2>2 DEF SliceCommits
<1>7. ASSUME NEW t \in Tasks, Reports(t) PROVE TypeOK'
    <2>1. DaysHandedOver(left[t]) \in Nat
        BY DaysType
    <2>2. /\ stage' \in [Tasks -> Stages] /\ row' \in [Tasks -> RowStatus]
          /\ done' \in [Tasks -> Nat] /\ total' \in [Tasks -> Nat]
        BY <1>7, <2>1 DEF Reports, CreateRow
    <2> QED
        BY <1>7, <2>2 DEF Reports
<1>8. ASSUME NEW t \in Tasks, FinishAdvance(t) PROVE TypeOK'
    BY <1>8 DEF FinishAdvance
<1>9. ASSUME NEW t \in Tasks, SliceFails(t) PROVE TypeOK'
    BY <1>9 DEF SliceFails, Drop
<1>10. CASE Crash
    BY <1>10 DEF Crash, Drop
<1>11. CASE SetClock
    BY <1>11 DEF SetClock
<1>12. CASE UNCHANGED vars
    BY <1>12 DEF vars
<1> QED
    BY <1>0, <1>1, <1>2, <1>3, <1>4, <1>5, <1>6, <1>7, <1>8, <1>9, <1>10, <1>11, <1>12
       DEF Next, Step

\* Every variable of the scheduler stays within its type in every behaviour.
THEOREM Typing == Spec => []TypeOK
BY TypeInit, TypeNext, PTL DEF Spec
-----------------------------------------------------------------------------
\* The initial scheduler satisfies the inductive invariant.
LEMMA InvInit == Init => IInv
<1> SUFFICES ASSUME Init PROVE IInv
    OBVIOUS
<1>1. TypeOK
    BY TypeInit
<1>2. HeldExclusively /\ CalledOnceUnlessLost /\ RecordedAsRun
    BY DEF Init, HeldExclusively, CalledOnceUnlessLost, RecordedAsRun
<1>3. RanIsHeld /\ CallsAccounted /\ ClockReachesEnd
    BY DEF Init, RanIsHeld, CallsAccounted, ClockReachesEnd
<1> QED
    BY <1>1, <1>2, <1>3 DEF IInv

\* Locks: a slice takes only pending jobs nobody holds, and gives them back when
\* it commits, fails or dies.
LEMMA HeldNext == IInv /\ [Next]_vars => (HeldExclusively /\ RanIsHeld)'
<1> SUFFICES ASSUME IInv, [Next]_vars PROVE (HeldExclusively /\ RanIsHeld)'
    OBVIOUS
<1> USE DEF IInv, TypeOK, HeldExclusively, RanIsHeld, jobs, slice, progress, ghost
<1>1. ASSUME NEW j \in Jobs, Schedule(j) \/ CommitSchedule(j) \/ DropSchedule(j)
      PROVE  (HeldExclusively /\ RanIsHeld)'
    BY <1>1 DEF Schedule, CommitSchedule, DropSchedule
<1>2. ASSUME NEW t \in Tasks, StartAdvance(t) PROVE (HeldExclusively /\ RanIsHeld)'
    BY <1>2 DEF StartAdvance, CreateRow
<1>3. ASSUME NEW t \in Tasks,
             RowRuns(t) \/ SliceStarts(t) \/ ClockMoves(t) \/ Reports(t) \/ FinishAdvance(t)
      PROVE  (HeldExclusively /\ RanIsHeld)'
    BY <1>3 DEF RowRuns, SliceStarts, ClockMoves, Reports, CreateRow, FinishAdvance
<1>4. ASSUME NEW t \in Tasks, SliceSelects(t) PROVE (HeldExclusively /\ RanIsHeld)'
    BY <1>4 DEF SliceSelects, Due, LockedByOthers
<1>5. ASSUME NEW t \in Tasks, NEW j \in Jobs, HandlerRuns(t, j) \/ NoHandler(t, j)
      PROVE  (HeldExclusively /\ RanIsHeld)'
    BY <1>5 DEF HandlerRuns, NoHandler, Turn, Lowest
<1>6. ASSUME NEW t \in Tasks, SliceCommits(t) PROVE (HeldExclusively /\ RanIsHeld)'
    BY <1>6 DEF SliceCommits, Recorded
<1>7. ASSUME NEW t \in Tasks, SliceFails(t) PROVE (HeldExclusively /\ RanIsHeld)'
    BY <1>7 DEF SliceFails, Drop
<1>8. CASE Crash
    BY <1>8 DEF Crash, Drop
<1>9. CASE SetClock \/ UNCHANGED vars
    BY <1>9 DEF SetClock, vars
<1> QED
    BY <1>1, <1>2, <1>3, <1>4, <1>5, <1>6, <1>7, <1>8, <1>9 DEF Next, Step

\* Calls: a handler is called for a job that is pending and not yet run by the
\* slice that holds it, hence called no more often than slices were lost.
LEMMA CallsNext ==
    IInv /\ [Next]_vars => (CalledOnceUnlessLost /\ CallsAccounted)'
<1> SUFFICES ASSUME IInv, [Next]_vars, NEW i \in Jobs
             PROVE  /\ calls'[i] <= 1 + aborts'
                    /\ status'[i] \in {"none", "open"} => calls'[i] = 0
                    /\ status'[i] = "pending" =>
                          \/ calls'[i] <= aborts'
                          \/ \E t \in Tasks : i \in ok'[t] \cup raised'[t]
                    /\ \A t \in Tasks : /\ i \in ok'[t] => calls'[i] >= 1
                                        /\ i \in raised'[t] => (calls'[i] >= 1 <=> i \in Registered)
                    /\ i \notin Registered => calls'[i] = 0
    BY DEF CalledOnceUnlessLost, CallsAccounted
<1> DEFINE Goal == /\ calls'[i] <= 1 + aborts'
                   /\ status'[i] \in {"none", "open"} => calls'[i] = 0
                   /\ status'[i] = "pending" =>
                         \/ calls'[i] <= aborts'
                         \/ \E t \in Tasks : i \in ok'[t] \cup raised'[t]
                   /\ \A t \in Tasks : /\ i \in ok'[t] => calls'[i] >= 1
                                       /\ i \in raised'[t] => (calls'[i] >= 1 <=> i \in Registered)
                   /\ i \notin Registered => calls'[i] = 0
<1> USE DEF IInv, TypeOK, CalledOnceUnlessLost, CallsAccounted, jobs, slice, progress, ghost
<1> calls[i] \in Nat /\ aborts \in Nat
    OBVIOUS
<1>1. ASSUME NEW j \in Jobs, Schedule(j) \/ CommitSchedule(j) \/ DropSchedule(j)
      PROVE  Goal
    BY <1>1 DEF Schedule, CommitSchedule, DropSchedule
<1>2. ASSUME NEW t \in Tasks, StartAdvance(t) PROVE Goal
    BY <1>2 DEF StartAdvance, CreateRow
<1>3. ASSUME NEW t \in Tasks,
             RowRuns(t) \/ SliceStarts(t) \/ ClockMoves(t) \/ Reports(t) \/ FinishAdvance(t)
                 \/ SliceSelects(t)
      PROVE  Goal
    BY <1>3 DEF RowRuns, SliceStarts, ClockMoves, Reports, CreateRow, FinishAdvance,
                SliceSelects
<1>5. ASSUME NEW t \in Tasks, NEW j \in Jobs, HandlerRuns(t, j) PROVE Goal
    <2>1. j \in held[t] /\ j \notin ok[t] \cup raised[t] /\ j \in Registered
        BY <1>5 DEF HandlerRuns, Turn, Lowest
    <2>2. status[j] = "pending" /\ \A u \in Tasks \ {t} : j \notin held[u]
        BY <2>1 DEF HeldExclusively
    <2>3. \A u \in Tasks : j \notin ok[u] \cup raised[u]
        BY <2>1, <2>2 DEF RanIsHeld
    <2>4. calls[j] <= aborts
        BY <2>2, <2>3
    <2>5. CASE i = j
        <3>1. calls'[i] = calls[i] + 1 /\ aborts' = aborts /\ status'[i] = "pending"
            BY <1>5, <2>2, <2>5 DEF HandlerRuns
        <3>2. i \in ok'[t] \cup raised'[t]
            BY <1>5, <2>5 DEF HandlerRuns
        <3> QED
            BY <2>1, <2>4, <2>5, <3>1, <3>2
    <2>6. CASE i # j
        <3>1. calls'[i] = calls[i] /\ aborts' = aborts
            BY <1>5, <2>6 DEF HandlerRuns
        <3>2. \A u \in Tasks : i \in ok'[u] \cup raised'[u] <=> i \in ok[u] \cup raised[u]
            BY <1>5, <2>6 DEF HandlerRuns
        <3>4. \A u \in Tasks : i \in ok'[u] => i \in ok[u]
            BY <1>5, <2>6 DEF HandlerRuns
        <3>5. \A u \in Tasks : i \in raised'[u] => i \in raised[u]
            BY <1>5, <2>6 DEF HandlerRuns
        <3>3. status'[i] = status[i] \/ (status[i] = "none" /\ status'[i] = "pending")
            BY <1>5 DEF HandlerRuns
        <3> QED
            BY <3>1, <3>2, <3>3, <3>4, <3>5
    <2> QED
        BY <2>5, <2>6
<1>4. ASSUME NEW t \in Tasks, NEW j \in Jobs, NoHandler(t, j) PROVE Goal
    <2>1. calls' = calls /\ aborts' = aborts /\ status' = status /\ ok' = ok /\ j \notin Registered
        BY <1>4 DEF NoHandler
    <2>2. raised' = [raised EXCEPT ![t] = @ \cup {j}]
        BY <1>4 DEF NoHandler
    <2>3. CASE i = j
        BY <2>1, <2>2, <2>3
    <2>4. CASE i # j
        <3>1. \A u \in Tasks : i \in raised'[u] <=> i \in raised[u]
            BY <2>2, <2>4
        <3> QED
            BY <2>1, <3>1
    <2> QED
        BY <2>3, <2>4
<1>6. ASSUME NEW t \in Tasks, SliceCommits(t) PROVE Goal
    <2>1. calls' = calls /\ aborts' = aborts
        BY <1>6 DEF SliceCommits
    <2>2. \A u \in Tasks \ {t} : ok'[u] = ok[u] /\ raised'[u] = raised[u]
        BY <1>6 DEF SliceCommits
    <2>3. ok'[t] = {} /\ raised'[t] = {}
        BY <1>6 DEF SliceCommits
    <2>4. \/ i \in ok[t] \cup raised[t] /\ status'[i] \in {"fired", "failed"}
          \/ i \notin ok[t] \cup raised[t] /\ status'[i] = status[i]
        BY <1>6 DEF SliceCommits, Recorded
    <2> QED
        BY <2>1, <2>2, <2>3, <2>4
<1>7. ASSUME NEW t \in Tasks, SliceFails(t) PROVE Goal
    BY <1>7 DEF SliceFails, Drop
<1>8. CASE Crash
    BY <1>8 DEF Crash, Drop
<1>9. CASE SetClock \/ UNCHANGED vars
    BY <1>9 DEF SetClock, vars
<1> HIDE DEF IInv, TypeOK, CalledOnceUnlessLost, CallsAccounted
<1> QED
    BY <1>1, <1>2, <1>3, <1>4, <1>5, <1>6, <1>7, <1>8, <1>9 DEF Next, Step

\* What a slice records of a job is what became of it.
SettledAsRun ==
    \A j \in Jobs : /\ status[j] = "fired" => calls[j] >= 1
                    /\ status[j] = "failed" => (calls[j] >= 1 <=> j \in Registered)

\* No step records a job as anything but what it knows of it: a settled job is
\* never called again, and the commit settles those the slice has called.
LEMMA SettledNext == IInv /\ [Next]_vars => SettledAsRun'
<1> SUFFICES ASSUME IInv, [Next]_vars, NEW i \in Jobs
             PROVE  /\ status'[i] = "fired" => calls'[i] >= 1
                    /\ status'[i] = "failed" => (calls'[i] >= 1 <=> i \in Registered)
    BY DEF SettledAsRun
<1> DEFINE Goal == /\ status'[i] = "fired" => calls'[i] >= 1
                   /\ status'[i] = "failed" => (calls'[i] >= 1 <=> i \in Registered)
<1>0. /\ status[i] = "fired" => calls[i] >= 1
      /\ status[i] = "failed" => (calls[i] >= 1 <=> i \in Registered)
    BY DEF IInv, RecordedAsRun
<1> USE DEF IInv, TypeOK, RecordedAsRun, jobs, slice, progress, ghost
<1>1. ASSUME NEW j \in Jobs, Schedule(j) \/ CommitSchedule(j) \/ DropSchedule(j)
      PROVE  Goal
    BY <1>1 DEF Schedule, CommitSchedule, DropSchedule
<1>2. ASSUME NEW t \in Tasks,
             StartAdvance(t) \/ RowRuns(t) \/ SliceStarts(t) \/ SliceSelects(t)
                 \/ ClockMoves(t) \/ Reports(t) \/ FinishAdvance(t) \/ SliceFails(t)
      PROVE  Goal
    BY <1>2 DEF StartAdvance, RowRuns, SliceStarts, SliceSelects, ClockMoves, Reports,
                FinishAdvance, SliceFails, Drop
<1>3. ASSUME NEW t \in Tasks, NEW j \in Jobs, HandlerRuns(t, j) PROVE Goal
    <2>1. status[j] = "pending"
        BY <1>3 DEF HandlerRuns, Turn, Lowest, HeldExclusively
    <2>2. status'[i] \in {"fired", "failed"} => i # j /\ status'[i] = status[i]
        BY <1>3, <2>1 DEF HandlerRuns
    <2>3. i # j => calls'[i] = calls[i]
        BY <1>3 DEF HandlerRuns
    <2> QED
        BY <2>2, <2>3
<1>4. ASSUME NEW t \in Tasks, NEW j \in Jobs, NoHandler(t, j) PROVE Goal
    <2>1. status'[i] = status[i] /\ calls'[i] = calls[i]
        BY <1>4 DEF NoHandler
    <2> QED
        BY <1>0, <2>1
<1>5. ASSUME NEW t \in Tasks, SliceCommits(t) PROVE Goal
    BY <1>5 DEF SliceCommits, Recorded, CallsAccounted
<1>6. CASE Crash
    BY <1>6 DEF Crash, Drop
<1>7. CASE SetClock \/ UNCHANGED vars
    BY <1>7 DEF SetClock, vars
<1> HIDE DEF IInv, TypeOK, RecordedAsRun
<1> QED
    BY <1>1, <1>2, <1>3, <1>4, <1>5, <1>6, <1>7 DEF Next, Step

\* The other half of RecordedAsRun is a consequence of the accounts.
LEMMA SettledFollows ==
    TypeOK /\ RanIsHeld /\ CallsAccounted /\ SettledAsRun => RecordedAsRun
<1> SUFFICES ASSUME TypeOK, RanIsHeld, CallsAccounted, SettledAsRun
             PROVE  RecordedAsRun
    OBVIOUS
<1>1. ASSUME NEW j \in Jobs, aborts = 0, calls[j] >= 1, status[j] \notin {"fired", "failed"}
      PROVE  \E t \in Tasks : j \in held[t]
    <2>1. status[j] = "pending"
        BY <1>1 DEF TypeOK, CallsAccounted
    <2>2. PICK t \in Tasks : j \in ok[t] \cup raised[t]
        BY <1>1, <2>1 DEF TypeOK, CallsAccounted
    <2> QED
        BY <2>2 DEF RanIsHeld
<1>2. ASSUME NEW j \in Jobs
      PROVE  /\ status[j] = "fired" => calls[j] >= 1
             /\ status[j] = "failed" => (calls[j] >= 1 <=> j \in Registered)
    BY DEF SettledAsRun
<1> QED
    BY <1>1, <1>2 DEF RecordedAsRun

\* The clock, once set, counts as set for ever.
LEMMA Unset == TypeOK /\ [Next]_vars /\ sets' = 0 => sets = 0 /\ ~SetClock
<1> SUFFICES ASSUME TypeOK, [Next]_vars, sets' = 0 PROVE sets = 0 /\ ~SetClock
    OBVIOUS
<1>1. sets \in Nat
    BY DEF TypeOK
<1>2. sets' = sets \/ sets' = sets + 1
    BY DEF Next, Step, Schedule, CommitSchedule, DropSchedule, StartAdvance, RowRuns,
           SliceStarts, SliceSelects, ClockMoves, HandlerRuns, NoHandler, SliceCommits,
           Reports, FinishAdvance, SliceFails, Crash, Drop, SetClock, vars, ghost
<1> QED
    BY <1>1, <1>2 DEF SetClock

\* Time: nobody moves the clock back, so a slice ends at or before the clock it
\* leaves behind, and what it holds was due by then.
LEMMA ClockNext == IInv /\ [Next]_vars => ClockReachesEnd'
<1> SUFFICES ASSUME IInv, [Next]_vars, sets' = 0, NEW u \in Tasks
             PROVE  /\ stage'[u] \in {"selecting", "selected"} => end'[u] <= clock' + SliceOf(u)'
                    /\ stage'[u] = "firing" => end'[u] <= clock'
                    /\ \A j \in held'[u] : fireAt'[j] <= end'[u]
    BY DEF ClockReachesEnd
<1> DEFINE Goal == /\ stage'[u] \in {"selecting", "selected"} => end'[u] <= clock' + SliceOf(u)'
                   /\ stage'[u] = "firing" => end'[u] <= clock'
                   /\ \A j \in held'[u] : fireAt'[j] <= end'[u]
<1>0. sets = 0 /\ ~SetClock
    BY Unset DEF IInv
<1> USE <1>0 DEF IInv, TypeOK, ClockReachesEnd, jobs, slice, progress, ghost
<1> /\ clock \in Nat /\ end[u] \in Nat
    OBVIOUS
<1>1. ASSUME NEW j \in Jobs, Schedule(j) PROVE Goal
    <2>1. j \notin held[u]
        BY <1>1 DEF Schedule, HeldExclusively
    <2> QED
        BY <1>1, <2>1 DEF Schedule, SliceOf
<1>2. ASSUME NEW j \in Jobs, CommitSchedule(j) \/ DropSchedule(j) PROVE Goal
    BY <1>2 DEF CommitSchedule, DropSchedule, SliceOf
<1>3. ASSUME NEW t \in Tasks, StartAdvance(t) PROVE Goal
    BY <1>3 DEF StartAdvance, CreateRow, SliceOf, RanIsHeld
<1>4. ASSUME NEW t \in Tasks, RowRuns(t) \/ Reports(t) \/ FinishAdvance(t) PROVE Goal
    BY <1>4 DEF RowRuns, Reports, CreateRow, FinishAdvance, SliceOf
<1>5. ASSUME NEW t \in Tasks, SliceStarts(t) PROVE Goal
    <2>1. SliceOf(t)' = SliceOf(t) /\ SliceOf(u)' = SliceOf(u)
        BY <1>5 DEF SliceStarts, SliceOf
    <2>2. clock + SliceOf(t) \in Nat
        BY SliceType
    <2>3. CASE u = t
        BY <1>5, <2>1, <2>2, <2>3 DEF SliceStarts, RanIsHeld
    <2>4. CASE u # t
        BY <1>5, <2>1, <2>4 DEF SliceStarts
    <2> QED
        BY <2>3, <2>4
<1>6. ASSUME NEW t \in Tasks, SliceSelects(t) PROVE Goal
    BY <1>6 DEF SliceSelects, Due, SliceOf
<1>7. ASSUME NEW t \in Tasks, ClockMoves(t) PROVE Goal
    <2>1. SliceOf(u)' = SliceOf(u)
        BY <1>7 DEF ClockMoves, SliceOf
    <2>2. SliceOf(t) \in Nat /\ SliceOf(u) \in Nat /\ clock' = clock + SliceOf(t)
        BY <1>7, SliceType DEF ClockMoves
    <2>3. CASE u = t
        <3>1. end[u] <= clock + SliceOf(u) /\ stage'[u] = "firing" /\ UNCHANGED <<end, held, fireAt>>
            BY <1>7, <2>3 DEF ClockMoves
        <3> QED
            BY <2>2, <2>3, <3>1
    <2>4. CASE u # t
        <3>1. stage'[u] = stage[u] /\ UNCHANGED <<end, held, fireAt>>
            BY <1>7, <2>4 DEF ClockMoves
        <3> QED
            BY <2>1, <2>2, <3>1
    <2> QED
        BY <2>3, <2>4
<1>8. ASSUME NEW t \in Tasks, NEW j \in Jobs, HandlerRuns(t, j) PROVE Goal
    <2>1. \A k \in held[u] : fireAt'[k] = fireAt[k]
        BY <1>8 DEF HandlerRuns, HeldExclusively
    <2> QED
        BY <1>8, <2>1 DEF HandlerRuns, SliceOf
<1>9. ASSUME NEW t \in Tasks, SliceCommits(t) PROVE Goal
    BY <1>9 DEF SliceCommits, SliceOf
<1>10. ASSUME NEW t \in Tasks, SliceFails(t) PROVE Goal
    BY <1>10 DEF SliceFails, Drop, SliceOf
<1>11. CASE Crash
    BY <1>11 DEF Crash, Drop
<1>12. ASSUME NEW t \in Tasks, NEW j \in Jobs, NoHandler(t, j) PROVE Goal
    BY <1>12 DEF NoHandler, SliceOf
<1>13. CASE UNCHANGED vars
    BY <1>13 DEF vars, SliceOf
<1> HIDE DEF IInv, TypeOK, ClockReachesEnd
<1> QED
    BY <1>1, <1>2, <1>3, <1>4, <1>5, <1>6, <1>7, <1>8, <1>9, <1>10, <1>11, <1>12, <1>13
       DEF Next, Step

\* The inductive invariant of the scheduler.
THEOREM Invariance == Spec => []IInv
<1>1. IInv /\ [Next]_vars => IInv'
    <2> SUFFICES ASSUME IInv, [Next]_vars PROVE IInv'
        OBVIOUS
    <2>1. TypeOK'
        BY TypeNext DEF IInv
    <2>2. (HeldExclusively /\ RanIsHeld)'
        BY HeldNext
    <2>3. (CalledOnceUnlessLost /\ CallsAccounted)'
        BY CallsNext
    <2>4. RecordedAsRun'
        BY <2>1, <2>2, <2>3, SettledNext, SettledFollows, PTL
    <2>5. ClockReachesEnd'
        BY ClockNext
    <2> QED
        BY <2>1, <2>2, <2>3, <2>4, <2>5 DEF IInv
<1> QED
    BY <1>1, InvInit, PTL DEF Spec

\* Two advances never hold the same job (FOR UPDATE SKIP LOCKED in _run_one_slice).
THEOREM Exclusion == Spec => []HeldExclusively
<1>1. IInv => HeldExclusively
    BY DEF IInv
<1> QED
    BY <1>1, Invariance, PTL

\* A handler call is repeated only after a slice was lost.
THEOREM Repetition == Spec => []CalledOnceUnlessLost
<1>1. IInv => CalledOnceUnlessLost
    BY DEF IInv
<1> QED
    BY <1>1, Invariance, PTL

\* A job is recorded fired only after its handler was called, and failed after the
\* call or because it has none; without losses one that ran is settled or held.
THEOREM Recording == Spec => []RecordedAsRun
<1>1. IInv => RecordedAsRun
    BY DEF IInv
<1> QED
    BY <1>1, Invariance, PTL

\* Only HandlerRuns calls a handler: the job's slice holds it, it is in turn, and as
\* long as nobody has set the clock its time has come.
LEMMA CalledInTurn ==
    ASSUME IInv, [Next]_vars, NEW i \in Jobs, calls'[i] # calls[i]
    PROVE  \E t \in Tasks : /\ i \in Lowest(held[t] \ (ok[t] \cup raised[t]))
                            /\ sets = 0 => fireAt[i] <= clock
<1>1. PICK t \in Tasks, j \in Jobs : HandlerRuns(t, j)
    BY DEF Next, Step, Schedule, CommitSchedule, DropSchedule, StartAdvance, RowRuns,
           SliceStarts, SliceSelects, ClockMoves, NoHandler, SliceCommits, Reports,
           FinishAdvance, SliceFails, Crash, Drop, SetClock, vars, ghost
<1>2. i = j
    BY <1>1 DEF HandlerRuns, IInv, TypeOK
<1>3. i \in Lowest(held[t] \ (ok[t] \cup raised[t])) /\ stage[t] = "firing"
    BY <1>1, <1>2 DEF HandlerRuns, Turn
<1>4. sets = 0 => fireAt[i] <= end[t] /\ end[t] <= clock
    BY <1>3 DEF Lowest, IInv, ClockReachesEnd
<1>5. fireAt[i] \in Nat /\ end[t] \in Nat /\ clock \in Nat
    BY DEF IInv, TypeOK
<1>6. sets = 0 => fireAt[i] <= clock
    BY <1>4, <1>5
<1> QED
    BY <1>3, <1>6

\* However many advances overlap, no handler runs before its sim time.
THEOREM Punctuality == Spec => NeverEarly
<1> DEFINE OnTime == \A j \in Jobs : (calls'[j] # calls[j] /\ sets = 0) => fireAt[j] <= clock
<1>1. IInv /\ [Next]_vars => [OnTime]_vars
    BY CalledInTurn
<1> QED
    BY <1>1, Invariance, PTL DEF Spec, NeverEarly

-----------------------------------------------------------------------------
\* Nobody has set the clock, and a slice that selects takes every due job of the
\* caller that no other slice has: what was reached stays held until it is settled.
LEMMA DueNext == IInv /\ DueIsHeld /\ [Next]_vars => DueIsHeld'
<1> SUFFICES ASSUME IInv, DueIsHeld, [Next]_vars, aborts' = 0, sets' = 0, NEW i \in Jobs,
                    TenantOf[i] \in {Caller, NoTenant},
                    status'[i] = "pending", i \notin late', Reached(fireAt[i])'
             PROVE  \E t \in Tasks : i \in held'[t]
    BY DEF DueIsHeld
<1> DEFINE Goal == \E t \in Tasks : i \in held'[t]
<1>a. sets = 0 /\ ~SetClock
    BY Unset DEF IInv
<1> USE <1>a DEF TypeOK, jobs, slice, progress, ghost
<1>0. /\ TypeOK
      /\ clock \in Nat /\ aborts \in Nat /\ fireAt[i] \in Nat
      /\ \A t \in Tasks : end[t] \in Nat
    BY DEF IInv
<1>1. ASSUME NEW j \in Jobs, Schedule(j) \/ DropSchedule(j) PROVE Goal
    <2>1. status[i] = "pending" /\ fireAt'[i] = fireAt[i]
        BY <1>0, <1>1 DEF Schedule, DropSchedule
    <2>2. Reached(fireAt[i])
        BY <1>1, <2>1 DEF Schedule, DropSchedule, Reached
    <2> QED
        BY <1>1, <2>1, <2>2 DEF Schedule, DropSchedule, DueIsHeld
<1>2. ASSUME NEW j \in Jobs, CommitSchedule(j) PROVE Goal
    <2>1. Reached(fireAt[i]) /\ aborts = 0
        BY <1>2 DEF CommitSchedule, Reached
    <2>2. i # j
        BY <1>2, <2>1 DEF CommitSchedule, Reached, Passed
    <2>3. status[i] = "pending" /\ i \notin late
        BY <1>0, <1>2, <2>2 DEF CommitSchedule
    <2> QED
        BY <1>2, <2>1, <2>3 DEF CommitSchedule, DueIsHeld
<1>3. ASSUME NEW t \in Tasks,
             StartAdvance(t) \/ RowRuns(t) \/ SliceStarts(t) \/ Reports(t) \/ FinishAdvance(t)
      PROVE  Goal
    <2>1. UNCHANGED <<clock, status, fireAt, held, late, aborts>>
        BY <1>3 DEF StartAdvance, RowRuns, SliceStarts, Reports, FinishAdvance
    <2>2. \A u \in Tasks : stage'[u] = "selected" => stage[u] = "selected" /\ end'[u] = end[u]
        BY <1>0, <1>3 DEF StartAdvance, RowRuns, SliceStarts, Reports, FinishAdvance, CreateRow
    <2>3. Reached(fireAt[i])
        BY <2>1, <2>2 DEF Reached
    <2> QED
        BY <2>1, <2>3 DEF DueIsHeld
<1>4. ASSUME NEW t \in Tasks, SliceSelects(t) PROVE Goal
    <2>1. UNCHANGED <<clock, status, fireAt, late, aborts, end>>
        BY <1>4 DEF SliceSelects
    <2>2. held' = [held EXCEPT ![t] = Due(t) \ LockedByOthers(t)]
        BY <1>4 DEF SliceSelects
    <2>3. CASE Reached(fireAt[i])
        <3>1. PICK u \in Tasks : i \in held[u]
            BY <2>1, <2>3 DEF DueIsHeld
        <3>2. u # t
            BY <1>4, <3>1 DEF SliceSelects, IInv, RanIsHeld
        <3> QED
            BY <1>0, <2>2, <3>1, <3>2
    <2>4. CASE ~Reached(fireAt[i])
        <3>1. fireAt[i] <= end[t]
            BY <1>0, <1>4, <2>1, <2>4 DEF SliceSelects, Reached
        <3>2. i \in Due(t)
            BY <2>1, <3>1 DEF Due
        <3>3. i \in held'[t] \/ \E u \in Tasks \ {t} : i \in held[u]
            BY <1>0, <2>2, <3>2 DEF LockedByOthers
        <3> QED
            BY <1>0, <2>2, <3>3
    <2> QED
        BY <2>3, <2>4
<1>5. ASSUME NEW t \in Tasks, ClockMoves(t) PROVE Goal
    <2>1. /\ UNCHANGED <<status, fireAt, held, aborts, end>>
          /\ clock' \in Nat /\ i \notin late
          /\ stage[t] = "selected"
        BY <1>0, <1>5, SliceType DEF ClockMoves
    <2>2. \A u \in Tasks : stage'[u] = "selected" => stage[u] = "selected"
        BY <1>0, <1>5 DEF ClockMoves
    <2>3. fireAt[i] \notin end[t] + 1 .. clock'
        BY <1>5, <2>1 DEF ClockMoves
    <2>4. Reached(fireAt[i])
        <3>1. CASE \E u \in Tasks : stage'[u] = "selected" /\ fireAt'[i] <= end'[u]
            BY <2>1, <2>2, <3>1 DEF Reached
        <3>2. CASE fireAt'[i] <= clock'
            BY <1>0, <2>1, <2>3, <3>2 DEF Reached
        <3> QED
            BY <3>1, <3>2 DEF Reached
    <2> QED
        BY <2>1, <2>4 DEF DueIsHeld
<1>6. ASSUME NEW t \in Tasks, NEW j \in Jobs, HandlerRuns(t, j) PROVE Goal
    <2>1. UNCHANGED <<clock, held, aborts, stage, end>>
        BY <1>6 DEF HandlerRuns
    <2>2. status[i] = "pending" /\ fireAt'[i] = fireAt[i] /\ i \notin late
        <3>1. CASE UNCHANGED <<status, fireAt, late>>
            BY <3>1
        <3>2. ASSUME NEW k \in Jobs, NEW f \in Nat,
                     status' = [status EXCEPT ![k] = "pending"],
                     fireAt' = [fireAt EXCEPT ![k] = f],
                     late' = IF Passed(f) THEN late \cup {k} ELSE late
              PROVE  status[i] = "pending" /\ fireAt'[i] = fireAt[i] /\ i \notin late
            <4>1. CASE i = k
                <5>1. fireAt'[i] = f
                    BY <1>0, <3>2, <4>1
                <5>2. Passed(f)
                    BY <2>1, <5>1 DEF Reached, Passed
                <5> QED
                    BY <3>2, <4>1, <5>2
            <4>2. CASE i # k
                BY <1>0, <3>2, <4>2
            <4> QED
                BY <4>1, <4>2
        <3>3. fireAt[j] + FollowDelay \in Nat
            BY <1>0, SchedulerAssumption
        <3> QED
            BY <1>6, <3>1, <3>2, <3>3 DEF HandlerRuns
    <2>3. Reached(fireAt[i])
        BY <2>1, <2>2 DEF Reached
    <2> QED
        BY <2>1, <2>2, <2>3 DEF DueIsHeld
<1>7. ASSUME NEW t \in Tasks, SliceCommits(t) PROVE Goal
    <2>1. UNCHANGED <<clock, fireAt, late, aborts, end>> /\ held' = [held EXCEPT ![t] = {}]
        BY <1>7 DEF SliceCommits
    <2>2. \A u \in Tasks : stage'[u] = "selected" => stage[u] = "selected"
        BY <1>0, <1>7 DEF SliceCommits
    <2>3. status[i] = "pending" /\ i \notin held[t]
        BY <1>0, <1>7 DEF SliceCommits, Recorded
    <2>4. Reached(fireAt[i])
        BY <2>1, <2>2 DEF Reached
    <2>5. PICK u \in Tasks : i \in held[u]
        BY <2>1, <2>3, <2>4 DEF DueIsHeld
    <2> QED
        BY <1>0, <2>1, <2>3, <2>5
<1>8. ASSUME NEW t \in Tasks, SliceFails(t) PROVE FALSE
    BY <1>0, <1>8 DEF SliceFails, Drop
<1>9. CASE Crash
    BY <1>0, <1>9 DEF Crash, Drop
<1>10. CASE UNCHANGED vars
    BY <1>10 DEF vars, DueIsHeld, Reached
<1>11. ASSUME NEW t \in Tasks, NEW j \in Jobs, NoHandler(t, j) PROVE Goal
    <2>1. UNCHANGED <<clock, status, fireAt, held, late, aborts, stage, end>>
        BY <1>11 DEF NoHandler
    <2>2. Reached(fireAt[i])
        BY <2>1 DEF Reached
    <2> QED
        BY <2>1, <2>2 DEF DueIsHeld
<1> QED
    BY <1>1, <1>2, <1>3, <1>4, <1>5, <1>6, <1>7, <1>8, <1>9, <1>10, <1>11 DEF Next, Step

\* For any number of overlapping advances, all on behalf of the jobs' tenant, and as
\* long as nobody sets the clock, no job is forgotten between slices except the late
\* ones.
THEOREM Completeness == AllMine => (Spec => []NothingOverdue)
<1> SUFFICES ASSUME AllMine PROVE Spec => []NothingOverdue
    OBVIOUS
<1>1. Init => DueIsHeld
    BY DEF Init, DueIsHeld
<1>2. IInv /\ DueIsHeld /\ [Next]_vars => DueIsHeld'
    BY DueNext
<1>3. IInv /\ DueIsHeld => NothingOverdue
    <2> SUFFICES ASSUME IInv, DueIsHeld, aborts = 0, sets = 0,
                        \A t \in Tasks : stage[t] \notin {"selected", "firing"},
                        NEW j \in Jobs, status[j] = "pending", j \notin late
                 PROVE  fireAt[j] > clock
        BY DEF NothingOverdue
    <2>1. \A t \in Tasks : held[t] = {}
        BY DEF IInv, RanIsHeld
    <2>2. ~Reached(fireAt[j])
        BY <2>1 DEF DueIsHeld, AllMine
    <2>3. fireAt[j] \in Nat /\ clock \in Nat
        BY DEF IInv, TypeOK
    <2> QED
        BY <2>2, <2>3 DEF Reached
<1> QED
    BY <1>1, <1>2, <1>3, Invariance, PTL DEF Spec

\* Handlers are called in the order of sim time, across the slices of one advance
\* and of overlapping ones: what was due before has had its turn, is in the hands of
\* another slice, or was late.
THEOREM Ordering == Spec => FiredInOrder
<1> DEFINE InOrder == \A j, k \in Jobs :
                         (/\ calls'[j] # calls[j]
                          /\ TenantOf[k] \in {Caller, NoTenant}
                          /\ fireAt[k] < fireAt[j]
                          /\ status[k] = "pending"
                          /\ k \notin late
                          /\ aborts = 0 /\ sets = 0)
                             => \E t \in Tasks : \/ k \in ok[t] \cup raised[t]
                                                 \/ k \in held[t] /\ j \notin held[t]
<1>1. IInv /\ DueIsHeld /\ [Next]_vars => [InOrder]_vars
    <2> SUFFICES ASSUME IInv, DueIsHeld, [Next]_vars, NEW i \in Jobs, NEW k \in Jobs,
                        calls'[i] # calls[i], TenantOf[k] \in {Caller, NoTenant},
                        fireAt[k] < fireAt[i], status[k] = "pending", k \notin late,
                        aborts = 0, sets = 0
                 PROVE  \E t \in Tasks : \/ k \in ok[t] \cup raised[t]
                                         \/ k \in held[t] /\ i \notin held[t]
        OBVIOUS
    <2>1. PICK t \in Tasks : /\ i \in Lowest(held[t] \ (ok[t] \cup raised[t]))
                            /\ fireAt[i] <= clock
        BY CalledInTurn
    <2>2. fireAt[i] \in Nat /\ fireAt[k] \in Nat /\ clock \in Nat
        BY DEF IInv, TypeOK
    <2>3. Reached(fireAt[k])
        BY <2>1, <2>2 DEF Reached
    <2>4. PICK u \in Tasks : k \in held[u]
        BY <2>3 DEF DueIsHeld
    <2>5. CASE u = t
        BY <2>1, <2>2, <2>4, <2>5 DEF Lowest
    <2>6. CASE u # t
        BY <2>1, <2>4, <2>6 DEF Lowest, IInv, HeldExclusively
    <2> QED
        BY <2>5, <2>6
<1>2. Init => DueIsHeld
    BY DEF Init, DueIsHeld
<1>3. IInv /\ DueIsHeld /\ [Next]_vars => DueIsHeld'
    BY DueNext
<1> QED
    BY <1>1, <1>2, <1>3, Invariance, PTL DEF Spec, FiredInOrder

-----------------------------------------------------------------------------
\* A quotient rounded down, and one more, covers the dividend.
LEMMA DivCovers ==
    ASSUME NEW d \in Nat, NEW n \in Nat \ {0}
    PROVE  d < ((d \div n) + 1) * n
OBVIOUS

\* Both ways of counting days cover the duration.
LEMMA DaysCover ==
    ASSUME NEW d \in Nat
    PROVE  d <= DaysBegun(d) * SliceLen /\ d <= DaysHandedOver(d) * SliceLen
<1> DEFINE L == SliceLen
           x == (d + L - 1) \div L
<1>1. L \in Nat \ {0} /\ d + L - 1 \in Nat
    BY SchedulerAssumption
<1>2. x \in Nat /\ (x + 1) * L = x * L + L /\ x * L \in Nat
    BY <1>1
<1>3. d + L - 1 < (x + 1) * L
    BY <1>1, DivCovers
<1>4. d <= x * L
    BY <1>1, <1>2, <1>3
<1>5. d < ((d \div L) + 1) * L /\ ((d \div L) + 1) * L \in Nat
    BY <1>1, DivCovers
<1> QED
    BY <1>4, <1>5 DEF DaysBegun, DaysHandedOver

\* While something is left, a day is still uncounted, and a slice uses up one.
LEMMA DaysArithmetic ==
    ASSUME NEW a \in Nat, NEW b \in Nat, NEW r \in Nat,
           r + a * SliceLen <= b * SliceLen
    PROVE  /\ a <= b
           /\ r > 0 => a < b
           /\ r >= SliceLen => a < b /\ (r - SliceLen) + a * SliceLen + SliceLen <= b * SliceLen
           /\ a < b => a * SliceLen + SliceLen <= b * SliceLen
           /\ a * SliceLen \in Nat /\ b * SliceLen \in Nat
           /\ (a + 1) * SliceLen = a * SliceLen + SliceLen
BY SchedulerAssumption

\* The days left never exceed the days uncounted.
LEMMA DaysNext == TypeOK /\ DaysCounted /\ [Next]_vars => DaysCounted'
<1> SUFFICES ASSUME TypeOK, DaysCounted, [Next]_vars, NEW u \in Tasks PROVE DaysLeft(u)'
    BY DEF DaysCounted
<1> DEFINE Same == UNCHANGED <<stage[u], left[u], row[u], done[u], total[u]>>
<1> USE SchedulerAssumption DEF TypeOK, jobs, slice, progress, ghost
<1>a. DaysLeft(u)
    BY DEF DaysCounted
<1>b. /\ left[u] \in Nat /\ done[u] \in Nat /\ total[u] \in Nat
      /\ SliceLen \in Nat \ {0} /\ SliceOf(u) \in Nat /\ left[u] - SliceOf(u) \in Nat
    BY SliceType
<1>0. ASSUME Same PROVE DaysLeft(u)'
    BY <1>0, <1>a DEF DaysLeft, InSlice, Counting
<1>1. ASSUME NEW n \in Nat, left'[u] \in Nat, left'[u] <= n * SliceLen,
             CreateRow(u, n)
      PROVE  DaysLeft(u)'
    <2>1. stage'[u] = "created" /\ row'[u] = "pending" /\ done'[u] = 0 /\ total'[u] = n
        BY <1>1 DEF CreateRow
    <2>2. 0 * SliceLen = 0
        OBVIOUS
    <2> QED
        BY <1>1, <2>1, <2>2 DEF DaysLeft, InSlice, Counting
<1>2. ASSUME NEW t \in Tasks, StartAdvance(t) PROVE DaysLeft(u)'
    <2>1. PICK d \in Durations : /\ left' = [left EXCEPT ![t] = d]
                                 /\ \/ CreateRow(t, DaysBegun(d))
                                    \/ /\ stage' = [stage EXCEPT ![t] = "ready"]
                                       /\ row' = [row EXCEPT ![t] = "none"]
                                       /\ UNCHANGED <<done, total>>
        BY <1>2 DEF StartAdvance
    <2>2. d \in Nat /\ DaysBegun(d) \in Nat /\ d <= DaysBegun(d) * SliceLen
        BY DaysType, DaysCover
    <2>3. CASE u # t
        BY <1>0, <2>1, <2>3 DEF CreateRow
    <2>4. CASE u = t /\ CreateRow(t, DaysBegun(d))
        BY <1>1, <2>1, <2>2, <2>4
    <2>5. CASE u = t /\ row' = [row EXCEPT ![t] = "none"]
                     /\ stage' = [stage EXCEPT ![t] = "ready"] /\ UNCHANGED <<done, total>>
        BY <2>5, <1>a DEF DaysLeft, InSlice, Counting
    <2> QED
        BY <2>1, <2>3, <2>4, <2>5
<1>3. ASSUME NEW t \in Tasks, RowRuns(t) PROVE DaysLeft(u)'
    <2>1. CASE u # t
        BY <1>0, <1>3, <2>1 DEF RowRuns
    <2>2. CASE u = t
        BY <1>3, <1>a, <2>2 DEF RowRuns, DaysLeft, InSlice, Counting
    <2> QED
        BY <2>1, <2>2
<1>4. ASSUME NEW t \in Tasks, SliceStarts(t) \/ SliceSelects(t) \/ ClockMoves(t)
      PROVE  DaysLeft(u)'
    <2>1. CASE u # t
        BY <1>0, <1>4, <2>1 DEF SliceStarts, SliceSelects, ClockMoves
    <2>2. CASE u = t
        BY <1>4, <1>a, <2>2 DEF SliceStarts, SliceSelects, ClockMoves, DaysLeft, InSlice, Counting
    <2> QED
        BY <2>1, <2>2
<1>5. ASSUME NEW t \in Tasks, SliceCommits(t) PROVE DaysLeft(u)'
    <2>1. CASE u # t
        BY <1>0, <1>5, <2>1 DEF SliceCommits
    <2>2. CASE u = t
        <3>1. /\ stage[u] = "firing" /\ stage'[u] = "reporting"
              /\ left'[u] = left[u] - SliceOf(u)
              /\ UNCHANGED <<row, done, total>>
            BY <1>5, <2>2 DEF SliceCommits
        <3>2. left[u] > 0 /\ done[u] <= total[u]
            BY <1>a, <3>1 DEF DaysLeft, InSlice
        <3>3. ASSUME row[u] = "running"
              PROVE  left'[u] + done[u] * SliceLen + SliceLen <= total[u] * SliceLen
            <4>1. left[u] + done[u] * SliceLen <= total[u] * SliceLen
                BY <1>a, <3>1, <3>3 DEF DaysLeft, InSlice, Counting
            <4>2. CASE left[u] < SliceLen
                <5>1. left'[u] = 0
                    BY <1>b, <3>1, <4>2 DEF SliceOf
                <5>2. done[u] < total[u]
                    BY <1>b, <3>2, <4>1, DaysArithmetic
                <5>3. done[u] * SliceLen + SliceLen <= total[u] * SliceLen
                    BY <1>b, <4>1, <5>2, DaysArithmetic
                <5>4. done[u] * SliceLen \in Nat
                    BY <1>b
                <5> QED
                    BY <1>b, <5>1, <5>3, <5>4
            <4>3. CASE ~(left[u] < SliceLen)
                <5>1. left'[u] = left[u] - SliceLen /\ left[u] >= SliceLen
                    BY <1>b, <3>1, <4>3 DEF SliceOf
                <5>2. (left[u] - SliceLen) + done[u] * SliceLen + SliceLen <= total[u] * SliceLen
                    BY <1>b, <4>1, <5>1, DaysArithmetic
                <5> QED
                    BY <5>1, <5>2
            <4> QED
                BY <4>2, <4>3
        <3> QED
            BY <3>1, <3>2, <3>3 DEF DaysLeft, InSlice, Counting
    <2> QED
        BY <2>1, <2>2
<1>6. ASSUME NEW t \in Tasks, Reports(t) PROVE DaysLeft(u)'
    <2>1. CASE u # t
        BY <1>0, <1>6, <2>1 DEF Reports, CreateRow
    <2>2. CASE u = t /\ CreateRow(t, DaysHandedOver(left[t]))
        <3>1. left'[u] = left[u]
            BY <1>6 DEF Reports
        <3> QED
            BY <1>1, <1>b, <2>2, <3>1, DaysType, DaysCover
    <2>3. CASE u = t /\ row[t] = "none" /\ stage' = [stage EXCEPT ![t] = "ready"]
                     /\ UNCHANGED progress
        BY <1>6, <1>a, <2>3 DEF Reports, DaysLeft, InSlice, Counting
    <2>4. CASE u = t /\ row[t] = "running" /\ done' = [done EXCEPT ![t] = @ + 1]
                     /\ stage' = [stage EXCEPT ![t] = "ready"] /\ UNCHANGED <<row, total>>
        <3>1. /\ stage[u] = "reporting" /\ stage'[u] = "ready" /\ done'[u] = done[u] + 1
              /\ left'[u] = left[u] /\ total'[u] = total[u] /\ row'[u] = "running"
            BY <1>6, <2>4 DEF Reports
        <3>2. left[u] + done[u] * SliceLen + SliceLen <= total[u] * SliceLen
            BY <1>a, <2>4, <3>1 DEF DaysLeft
        <3>3. (done[u] + 1) * SliceLen = done[u] * SliceLen + SliceLen /\ done[u] * SliceLen \in Nat
            BY <1>b
        <3>4. left'[u] + done'[u] * SliceLen <= total'[u] * SliceLen
            BY <1>b, <3>1, <3>2, <3>3
        <3>5. done'[u] <= total'[u]
            BY <1>b, <3>1, <3>4, DaysArithmetic
        <3> QED
            BY <3>1, <3>4, <3>5 DEF DaysLeft, InSlice, Counting
    <2> QED
        BY <1>6, <2>1, <2>2, <2>3, <2>4 DEF Reports
<1>7. ASSUME NEW t \in Tasks, FinishAdvance(t) \/ SliceFails(t) PROVE DaysLeft(u)'
    <2>1. CASE u # t
        BY <1>0, <1>7, <2>1 DEF FinishAdvance, SliceFails, Drop
    <2>2. CASE u = t
        BY <1>7, <1>a, <2>2 DEF FinishAdvance, SliceFails, Drop, DaysLeft, InSlice, Counting
    <2> QED
        BY <2>1, <2>2
<1>8. CASE Crash
    BY <1>8, <1>a DEF Crash, Drop, DaysLeft, InSlice, Counting
<1>9. ASSUME NEW t \in Tasks, NEW j \in Jobs, HandlerRuns(t, j) PROVE DaysLeft(u)'
    BY <1>0, <1>9 DEF HandlerRuns
<1>10. ASSUME NEW j \in Jobs, Schedule(j) \/ CommitSchedule(j) \/ DropSchedule(j)
       PROVE  DaysLeft(u)'
    BY <1>0, <1>10 DEF Schedule, CommitSchedule, DropSchedule
<1>11. CASE SetClock \/ UNCHANGED vars
    BY <1>0, <1>11 DEF SetClock, vars
<1>12. ASSUME NEW t \in Tasks, NEW j \in Jobs, NoHandler(t, j) PROVE DaysLeft(u)'
    BY <1>0, <1>12 DEF NoHandler
<1> QED
    BY <1>2, <1>3, <1>4, <1>5, <1>6, <1>7, <1>8, <1>9, <1>10, <1>11, <1>12 DEF Next, Step

\* The progress an administrator sees never passes its total, for advances of any
\* length that are counted when they begin or handed over later.
THEOREM Progress == Spec => []ProgressBounded
<1>1. Init => DaysCounted
    <2> SUFFICES ASSUME Init, NEW t \in Tasks PROVE DaysLeft(t)
        BY DEF DaysCounted
    <2> QED
        BY DEF Init, DaysLeft, InSlice, Counting
<1>2. DaysCounted => ProgressBounded
    BY DEF DaysCounted, DaysLeft, ProgressBounded
<1> QED
    BY <1>1, <1>2, DaysNext, Typing, PTL DEF Spec
=============================================================================
