---------------------------- MODULE SeedingProofs ----------------------------
(***************************************************************************)
(* Proofs about Seeding.tla, for any merchants, accounts, subscriptions    *)
(* and SMEs, any number of concurrent script runs, resets and restarts.    *)
(***************************************************************************)
EXTENDS Seeding, TLAPS

\* Nothing exists before the first run.
LEMMA InvInit == Init => IInv
<1> SUFFICES ASSUME Init PROVE IInv
    OBVIOUS
<1>1. TypeOK
    BY SeedingAssumption DEF Init, TypeOK
<1>2. ResetInv
    BY DEF Init, ResetInv, Recorded
<1>3. PlansKnown
    BY DEF Init, PlansKnown
<1>4. Forgotten
    BY DEF Init, Forgotten
<1>5. TwiceOnlyIfForgotten /\ RecordsTellTruth
    BY DEF Init, TwiceOnlyIfForgotten, RecordsTellTruth
<1>6. TrazmoKnowsFirst /\ BothSides
    BY DEF Init, TrazmoKnowsFirst, BothSides, Merchants, Items
<1> QED
    BY <1>1, <1>2, <1>3, <1>4, <1>5, <1>6 DEF IInv

\* Mirrored merchants are posted by the mirror script only, and are unique.
LEMMA Kinds ==
    /\ Mirrored \cap Default = {}
    /\ Mirrored \subseteq Items /\ Mirrored \subseteq Unique
    /\ Early \cap Merchants = {} /\ Early \subseteq Items /\ Merchants \subseteq Items
    /\ Default \subseteq Items
BY SeedingAssumption DEF Default, Items, Merchants, Early, Unique

\* Steps that touch neither rows nor a reset's work.
LEMMA QuietKeeps ==
    ASSUME IInv, TypeOK', PlansKnown',
           UNCHANGED <<copies, record, expired, reset, orphaned, raced, told>>,
           known \subseteq known'
    PROVE  IInv'
<1> USE DEF reset
<1>1. ResetInv'
    BY DEF IInv, ResetInv, Recorded, Mine
<1>2. Forgotten' /\ TwiceOnlyIfForgotten' /\ RecordsTellTruth'
    BY DEF IInv, Forgotten, TwiceOnlyIfForgotten, RecordsTellTruth
<1>3. TrazmoKnowsFirst' /\ BothSides'
    BY DEF IInv, TrazmoKnowsFirst, BothSides
<1> QED
    BY <1>1, <1>2, <1>3 DEF IInv

\* A day passes, and with it the protection of every record.
LEMMA DayKeeps == IInv /\ DayPasses => IInv'
<1> SUFFICES ASSUME IInv, DayPasses PROVE IInv'
    OBVIOUS
<1> USE DEF DayPasses, runs, reset, ghost
<1>1. TypeOK'
    BY DEF IInv, TypeOK, Recorded
<1>2. ResetInv'
    BY DEF IInv, ResetInv, Recorded, Mine
<1>3. PlansKnown' /\ Forgotten' /\ TwiceOnlyIfForgotten' /\ RecordsTellTruth'
    BY DEF IInv, PlansKnown, Forgotten, TwiceOnlyIfForgotten, RecordsTellTruth
<1>4. TrazmoKnowsFirst' /\ BothSides'
    BY DEF IInv, TrazmoKnowsFirst, BothSides
<1> QED
    BY <1>1, <1>2, <1>3, <1>4 DEF IInv

\* The garbage collector makes orphans of the repeatable things it forgets.
LEMMA PruneKeeps == IInv /\ Prune => IInv'
<1> SUFFICES ASSUME IInv, Prune PROVE IInv'
    OBVIOUS
<1> USE DEF Prune, runs, reset
<1>1. TypeOK'
    BY DEF IInv, TypeOK, Items
<1>2. ResetInv'
    BY DEF IInv, TypeOK, ResetInv, Recorded, Mine
<1>3. PlansKnown'
    BY DEF IInv, PlansKnown
<1>4. Forgotten'
    BY DEF IInv, TypeOK, Forgotten
<1>5. TwiceOnlyIfForgotten' /\ RecordsTellTruth'
    BY DEF IInv, TypeOK, TwiceOnlyIfForgotten, RecordsTellTruth
<1>6. TrazmoKnowsFirst' /\ BothSides'
    BY DEF IInv, TrazmoKnowsFirst, BothSides
<1> QED
    BY <1>1, <1>2, <1>3, <1>4, <1>5, <1>6 DEF IInv

\* What a run starts with is known to Trazmo, as far as it mirrors anything.
LEMMA BeginsKeeps ==
    ASSUME IInv, NEW r \in Runs, SeedsDefault(r) \/ SeedsE2E(r)
    PROVE  IInv'
<1> USE DEF SeedsDefault, SeedsE2E, Begins, rows, reset, ghost
<1>1. PICK plan \in {Default, known \cup Feeds} : todo' = [todo EXCEPT ![r] = plan]
    OBVIOUS
<1>2. plan \in SUBSET Items /\ plan \cap Mirrored \subseteq known
    BY Kinds, SeedingAssumption DEF IInv, TypeOK, Items, Merchants, Early
<1>3. TypeOK'
    BY <1>1, <1>2 DEF IInv, TypeOK
<1>4. PlansKnown'
    BY <1>1, <1>2 DEF IInv, TypeOK, PlansKnown
<1> QED
    BY <1>3, <1>4, QuietKeeps

\* Answers from the records, refusals, and the end or death of a run.
LEMMA ShortensKeeps ==
    ASSUME IInv, NEW r \in Runs,
           \/ \E i \in Items : Replays(r, i) \/ Fails(r, i)
           \/ Ends(r)
           \/ Dies(r)
    PROVE  IInv'
<1> USE DEF Replays, Fails, Ends, Dies, rows, reset, ghost
<1>1. PICK T \in SUBSET Items : todo' = [todo EXCEPT ![r] = T] /\ T \subseteq todo[r]
    <2>1. todo[r] \in SUBSET Items /\ todo = [todo EXCEPT ![r] = todo[r]]
        BY DEF IInv, TypeOK
    <2>2. CASE \E i \in Items : Replays(r, i) \/ Fails(r, i)
        BY <2>1, <2>2
    <2>3. CASE Ends(r)
        BY <2>1, <2>3
    <2>4. CASE Dies(r)
        BY <2>1, <2>4
    <2> QED
        BY <2>2, <2>3, <2>4
<1>2. stage' \in [Runs -> {"idle", "seeding"}]
    BY DEF IInv, TypeOK
<1>3. UNCHANGED <<rows, known, call, reset, ghost>>
    OBVIOUS
<1>4. TypeOK'
    BY <1>1, <1>2, <1>3 DEF IInv, TypeOK
<1>5. PlansKnown'
    BY <1>1, <1>3 DEF IInv, TypeOK, PlansKnown
<1> QED
    BY <1>3, <1>4, <1>5, QuietKeeps

\* A POST that creates something: a second one is possible only of an orphan.
LEMMA CreatesKeeps ==
    ASSUME IInv, NEW r \in Runs, NEW i \in Items, Creates(r, i)
    PROVE  IInv'
<1> USE DEF Creates
<1>0. /\ i \in todo[r] /\ record[i] = "none" /\ i \notin locked
      /\ ~(i \in Unique /\ copies[i] > 0)
    BY DEF Due, Waits, Seen, Clashes
<1>1. TypeOK'
    BY Kinds DEF IInv, TypeOK, OneMore, Tenants, TenantOf
<1>2. ResetInv'
    <2>1. born' \subseteq born \cup {i} /\ (i \in born' => i \in born \/ Wiping(i))
        OBVIOUS
    <2>2. /\ wipe' = wipe /\ scope' = scope /\ locked' = locked /\ expired' = expired
          /\ record' = [record EXCEPT ![i] = "live"]
        OBVIOUS
    <2>3. record \in [Items -> {"none", "live", "stale"}] /\ born \subseteq Items
        BY Kinds DEF IInv, TypeOK
    <2>4. i \notin born /\ i \notin expired
        BY <1>0 DEF IInv, ResetInv, Recorded
    <2>5. Wiping(i) => i \in Mine /\ wipe # "no"
        BY DEF Wiping, Mine
    <2>6. Mine' = Mine /\ Recorded' = Recorded \cup {i}
        BY <2>2, <2>3 DEF Mine, Recorded
    <2>7. /\ wipe' = "no" => born' = {} /\ locked' = {}
          /\ wipe' = "early" => locked' = {}
          /\ born' \cup locked' \subseteq Mine'
        BY <2>1, <2>2, <2>4, <2>5, <2>6 DEF IInv, ResetInv
    <2>8. expired' \subseteq Recorded'
        BY <2>2, <2>6 DEF IInv, ResetInv
    <2>9. \A j \in born' : record'[j] = "live" /\ j \notin expired'
        BY <2>1, <2>2, <2>3, <2>4 DEF IInv, ResetInv
    <2>10. wipe' = "records" =>
              \A j \in (Mine' \cap Recorded') \ locked' : j \in raced' \cup born'
        <3> SUFFICES ASSUME wipe = "records", NEW j \in (Mine \cap (Recorded \cup {i})) \ locked
                     PROVE  j \in raced' \cup born'
            BY <2>2, <2>6
        <3>1. raced \subseteq raced' /\ born \subseteq born'
            OBVIOUS
        <3>2. CASE j = i
            <4>1. Wiping(i)
                BY <3>2 DEF Wiping, Mine
            <4> QED
                BY <3>2, <4>1 DEF Items
        <3>3. CASE j # i
            BY <3>1, <3>3 DEF IInv, ResetInv
        <3> QED
            BY <3>2, <3>3
    <2> QED
        BY <2>7, <2>8, <2>9, <2>10 DEF ResetInv
<1>3. PlansKnown'
    BY DEF IInv, TypeOK, PlansKnown
<1>4. Forgotten'
    BY DEF IInv, TypeOK, Forgotten
<1>5. TwiceOnlyIfForgotten'
    <2>1. copies[i] # 0 => i \in orphaned
        BY <1>0 DEF IInv, TypeOK, Forgotten
    <2>2. copies[i] = 0 => copies'[i] = 1
        BY DEF OneMore, IInv, TypeOK
    <2> QED
        BY <2>1, <2>2 DEF IInv, TypeOK, TwiceOnlyIfForgotten
<1>6. RecordsTellTruth'
    BY DEF IInv, TypeOK, RecordsTellTruth, OneMore
<1>7. TrazmoKnowsFirst'
    BY <1>0 DEF IInv, TypeOK, TrazmoKnowsFirst, PlansKnown
<1>8. BothSides'
    <2>1. \A s \in told : Slug[s] \in Unique /\ copies[Slug[s]] = 1
        BY Kinds, SeedingAssumption DEF IInv, TypeOK, BothSides
    <2>2. \A s \in told : Slug[s] # i
        BY <1>0, <2>1
    <2> QED
        BY <2>2 DEF IInv, TypeOK, BothSides
<1> QED
    BY <1>1, <1>2, <1>3, <1>4, <1>5, <1>6, <1>7, <1>8 DEF IInv

\* Trazmo is asked first: whatever becomes of the answer, the merchant is known there.
LEMMA OnboardKeeps ==
    ASSUME IInv, NEW s \in Smes, TrazmoIsLate(s) \/ TrazmoAnswers(s) \/ Looks(s)
    PROVE  IInv'
<1> USE DEF TrazmoIsLate, TrazmoAnswers, Looks, rows, runs, reset, ghost
<1>0. Slug[s] \in Mirrored /\ Slug[s] \in Items /\ Slug[s] \in Unique
    BY Kinds, SeedingAssumption
<1>1. TypeOK'
    BY <1>0 DEF IInv, TypeOK
<1>2. PlansKnown'
    BY <1>0 DEF IInv, TypeOK, PlansKnown
<1>3. CASE TrazmoIsLate(s) \/ TrazmoAnswers(s)
    BY <1>1, <1>2, <1>3, QuietKeeps
<1>4. CASE Looks(s)
    <2>1. ResetInv'
        BY <1>4 DEF IInv, ResetInv, Recorded, Mine
    <2>2. Forgotten' /\ TwiceOnlyIfForgotten' /\ RecordsTellTruth'
        BY <1>4 DEF IInv, Forgotten, TwiceOnlyIfForgotten, RecordsTellTruth
    <2>3. TrazmoKnowsFirst'
        BY <1>4 DEF IInv, TrazmoKnowsFirst
    <2>4. copies[Slug[s]] \in {0, 1} /\ Slug[s] \in known
        BY <1>0, <1>4 DEF IInv, TypeOK, TwiceOnlyIfForgotten, PlansKnown
    <2>5. BothSides'
        BY <1>4, <2>4 DEF IInv, TypeOK, BothSides
    <2> QED
        BY <1>1, <1>2, <2>1, <2>2, <2>3, <2>5 DEF IInv
<1> QED
    BY <1>3, <1>4

\* The insert of an onboarding finds no row, or fails.
LEMMA InsertsKeeps ==
    ASSUME IInv, NEW s \in Smes, Inserts(s)
    PROVE  IInv'
<1> USE DEF Inserts, runs, reset
<1>0. Slug[s] \in Mirrored /\ Slug[s] \in Items /\ Slug[s] \in Unique
    BY Kinds, SeedingAssumption
<1>1. TypeOK'
    BY <1>0 DEF IInv, TypeOK
<1>2. ResetInv'
    BY DEF IInv, ResetInv, Recorded, Mine
<1>3. PlansKnown'
    BY DEF IInv, TypeOK, PlansKnown
<1>4. /\ record' = record /\ orphaned' = orphaned /\ raced' = raced /\ known' = known
      /\ \A i \in Items : copies'[i] = copies[i] \/ (i = Slug[s] /\ copies'[i] = 1)
    BY <1>0 DEF IInv, TypeOK
<1>5. Forgotten'
    BY <1>0, <1>4 DEF IInv, Forgotten
<1>6. TwiceOnlyIfForgotten' /\ RecordsTellTruth'
    BY <1>4 DEF IInv, TypeOK, TwiceOnlyIfForgotten, RecordsTellTruth
<1>7. Slug[s] \in known
    BY DEF IInv, PlansKnown
<1>8. TrazmoKnowsFirst'
    BY <1>0, <1>7, <1>4, Kinds DEF IInv, TrazmoKnowsFirst
<1>9. BothSides'
    <2> SUFFICES ASSUME NEW u \in told' PROVE Slug[u] \in known /\ copies'[Slug[u]] = 1
        BY <1>4 DEF BothSides
    <2>1. CASE u \in told
        <3>1. Slug[u] \in Items /\ Slug[u] \in known /\ copies[Slug[u]] = 1
            BY <2>1, Kinds, SeedingAssumption DEF IInv, TypeOK, BothSides
        <3> QED
            BY <1>4, <3>1
    <2>2. CASE u \notin told
        <3>1. u = s /\ copies'[Slug[s]] = 1
            BY <1>0, <2>2 DEF IInv, TypeOK
        <3> QED
            BY <1>7, <3>1
    <2> QED
        BY <2>1, <2>2
<1> QED
    BY <1>1, <1>2, <1>3, <1>5, <1>6, <1>8, <1>9 DEF IInv

\* A reset starts with nothing deleted, and locks the records it finds.
LEMMA ResetKeeps == IInv /\ (ResetBegins \/ ResetDeletesRecords) => IInv'
<1> SUFFICES ASSUME IInv, ResetBegins \/ ResetDeletesRecords PROVE IInv'
    OBVIOUS
<1> USE DEF ResetBegins, ResetDeletesRecords, rows, runs, ghost
<1>1. TypeOK'
    BY Kinds DEF IInv, TypeOK, Mine, Recorded
<1>2. ResetInv'
    <2>1. CASE ResetBegins
        BY <2>1 DEF IInv, ResetInv, Recorded, Mine
    <2>2. CASE ResetDeletesRecords
        BY <2>2 DEF IInv, ResetInv, Recorded, Mine
    <2> QED
        BY <2>1, <2>2
<1>3. PlansKnown' /\ Forgotten' /\ TwiceOnlyIfForgotten' /\ RecordsTellTruth'
    BY DEF IInv, PlansKnown, Forgotten, TwiceOnlyIfForgotten, RecordsTellTruth
<1>4. TrazmoKnowsFirst' /\ BothSides'
    BY DEF IInv, TrazmoKnowsFirst, BothSides
<1> QED
    BY <1>1, <1>2, <1>3, <1>4 DEF IInv

\* When it commits, each thing of the tenant is gone, or was posted behind the
\* DELETE of its table and is an orphan if its record was older.
LEMMA CommitKeeps == IInv /\ ResetCommits => IInv'
<1> SUFFICES ASSUME IInv, ResetCommits PROVE IInv'
    OBVIOUS
<1> USE DEF ResetCommits, runs
<1>0. /\ record \in [Items -> {"none", "live", "stale"}] /\ copies \in [Items -> 0..2]
      /\ born \subseteq Early /\ born \subseteq Items /\ orphaned \subseteq Items \ Unique
      /\ wipe = "records"
    BY Kinds DEF IInv, TypeOK
<1>1. TypeOK'
    <2>1. \A i \in Items : Left(i) \in {"none", "live", "stale"}
        BY <1>0 DEF Left
    <2>2. orphaned' \subseteq Items \ Unique
        BY <1>0
    <2> QED
        BY <2>1, <2>2 DEF IInv, TypeOK
<1>2. ResetInv'
    <2>1. expired' \subseteq Recorded'
        <3> SUFFICES ASSUME NEW i \in expired \ locked
                     PROVE  i \in Items /\ Left(i) # "none"
            BY <1>0 DEF Recorded
        <3>1. i \in Items /\ record[i] # "none"
            BY DEF IInv, ResetInv, Recorded
        <3> QED
            BY <3>1 DEF Left
    <2> QED
        BY <2>1 DEF ResetInv
<1>3. PlansKnown'
    BY DEF IInv, PlansKnown
<1>4. \A i \in Items \ born : i \in Mine => copies'[i] = 0
    OBVIOUS
<1>5. \A i \in Items \ born : i \notin Mine => copies'[i] = copies[i] /\ record'[i] = record[i]
    BY <1>0 DEF Left, IInv, ResetInv
<1>6. \A i \in born : copies'[i] = 1
    BY <1>0
<1>7. Forgotten'
    <2> SUFFICES ASSUME NEW i \in Items \ Unique, copies'[i] > 0, record'[i] = "none"
                 PROVE  i \in orphaned'
        BY DEF Forgotten
    <2>1. CASE i \in born
        <3>1. record[i] = "live" /\ i \notin Merchants
            BY <1>0, <2>1, Kinds DEF IInv, ResetInv
        <3>2. i \in locked
            BY <1>0, <3>1 DEF Left
        <3> QED
            BY <2>1, <3>2
    <2>2. CASE i \notin born
        <3>1. i \notin Mine
            BY <1>4, <2>2
        <3>2. i \in orphaned
            BY <1>5, <2>2, <3>1 DEF IInv, Forgotten
        <3> QED
            BY <3>1, <3>2
    <2> QED
        BY <2>1, <2>2
<1>8. TwiceOnlyIfForgotten'
    <2> SUFFICES ASSUME NEW i \in Items, copies'[i] = 2 PROVE i \in orphaned'
        BY DEF TwiceOnlyIfForgotten
    <2>1. i \notin born /\ i \notin Mine
        BY <1>4, <1>6
    <2>2. i \in orphaned
        BY <1>5, <2>1 DEF IInv, TwiceOnlyIfForgotten
    <2> QED
        BY <2>1, <2>2
<1>9. RecordsTellTruth'
    <2> SUFFICES ASSUME NEW i \in Items
                 PROVE  /\ record'[i] = "live" => copies'[i] > 0
                        /\ record'[i] = "stale" => i \in raced'
        BY DEF RecordsTellTruth
    <2>0. record'[i] = Left(i)
        OBVIOUS
    <2>1. CASE i \notin Mine
        <3>1. i \notin born /\ i \notin locked
            BY <2>1 DEF IInv, ResetInv
        <3> QED
            BY <1>5, <2>1, <3>1 DEF IInv, RecordsTellTruth
    <2>2. CASE i \in Mine /\ i \in locked
        BY <2>0, <2>2 DEF Left
    <2>3. CASE i \in Mine /\ i \notin locked /\ record[i] = "none"
        BY <2>0, <2>3 DEF Left
    <2>4. CASE i \in Mine /\ i \notin locked /\ record[i] # "none"
        <3>1. i \in raced \cup born
            BY <1>0, <2>4 DEF IInv, ResetInv, Recorded
        <3>2. CASE i \in born
            <4>1. record[i] = "live" /\ i \notin Merchants
                BY <1>0, <3>2, Kinds DEF IInv, ResetInv
            <4> QED
                BY <1>6, <2>0, <2>4, <3>2, <4>1 DEF Left
        <3>3. CASE i \in raced
            <4>1. i \in Merchants /\ i \in raced'
                BY <2>4, <3>3 DEF IInv, TypeOK
            <4>2. record'[i] = "stale"
                BY <1>0, <2>0, <2>4, <4>1 DEF Left
            <4> QED
                BY <4>1, <4>2
        <3> QED
            BY <3>1, <3>2, <3>3
    <2> QED
        BY <2>1, <2>2, <2>3, <2>4
<1>10. \A m \in Mirrored : copies'[m] > 0 => m \notin Mine /\ copies'[m] = copies[m]
    <2> SUFFICES ASSUME NEW m \in Mirrored, copies'[m] > 0
                 PROVE  m \notin Mine /\ copies'[m] = copies[m]
        OBVIOUS
    <2>1. m \in Items /\ m \notin born
        BY <1>0, Kinds DEF Merchants
    <2> QED
        BY <1>4, <1>5, <2>1
<1>11. TrazmoKnowsFirst'
    BY <1>10 DEF IInv, TrazmoKnowsFirst
<1>12. BothSides'
    <2> SUFFICES ASSUME NEW s \in told, scope # "e2e"
                 PROVE  Slug[s] \in known /\ copies'[Slug[s]] = 1
        BY DEF BothSides
    <2>1. /\ Slug[s] \in Mirrored /\ Slug[s] \in Items \ born
          /\ Slug[s] \in known /\ copies[Slug[s]] = 1
        BY <1>0, Kinds, SeedingAssumption DEF IInv, TypeOK, BothSides, Merchants
    <2>2. Slug[s] \notin Mine
        BY <2>1, Kinds DEF Mine, TenantOf
    <2> QED
        BY <1>5, <2>1, <2>2
<1> QED
    BY <1>1, <1>2, <1>3, <1>7, <1>8, <1>9, <1>11, <1>12 DEF IInv

\* A restart undoes what a reset has not committed and forgets requests.
LEMMA RestartKeeps == IInv /\ Restart => IInv'
<1> SUFFICES ASSUME IInv, Restart PROVE IInv'
    OBVIOUS
<1> USE DEF Restart, rows, runs, ghost
<1>1. TypeOK'
    BY DEF IInv, TypeOK
<1>2. ResetInv'
    BY DEF IInv, ResetInv, Recorded
<1>3. PlansKnown' /\ Forgotten' /\ TwiceOnlyIfForgotten' /\ RecordsTellTruth'
    BY DEF IInv, PlansKnown, Forgotten, TwiceOnlyIfForgotten, RecordsTellTruth
<1>4. TrazmoKnowsFirst' /\ BothSides'
    BY DEF IInv, TrazmoKnowsFirst, BothSides
<1> QED
    BY <1>1, <1>2, <1>3, <1>4 DEF IInv

\* No step of a run, a request, a reset or time breaks the invariant.
LEMMA InvNext == IInv /\ [Next]_vars => IInv'
<1> SUFFICES ASSUME IInv, [Next]_vars PROVE IInv'
    OBVIOUS
<1>1. CASE NextWindow
    <2>1. TypeOK' /\ PlansKnown'
        BY <1>1 DEF NextWindow, IInv, TypeOK, PlansKnown, runs, reset, ghost
    <2> QED
        BY <1>1, <2>1, QuietKeeps DEF NextWindow, runs, reset, ghost
<1>2. CASE DayPasses \/ Prune
    BY <1>2, DayKeeps, PruneKeeps
<1>3. ASSUME NEW r \in Runs, SeedsDefault(r) \/ SeedsE2E(r) \/ Post(r) \/ Ends(r) \/ Dies(r)
      PROVE  IInv'
    <2>1. CASE SeedsDefault(r) \/ SeedsE2E(r)
        BY <2>1, BeginsKeeps
    <2>2. CASE Post(r)
        BY <2>2, ShortensKeeps, CreatesKeeps DEF Post
    <2>3. CASE Ends(r) \/ Dies(r)
        BY <2>3, ShortensKeeps
    <2> QED
        BY <1>3, <2>1, <2>2, <2>3
<1>4. CASE TrazmoSeeds
    <2>1. TypeOK' /\ PlansKnown'
        BY <1>4 DEF TrazmoSeeds, IInv, TypeOK, PlansKnown, rows, runs, reset, ghost
    <2> QED
        BY <1>4, <2>1, QuietKeeps DEF TrazmoSeeds, rows, reset, ghost
<1>5. ASSUME NEW s \in Smes, TrazmoIsLate(s) \/ Onboards(s) PROVE IInv'
    BY <1>5, OnboardKeeps, InsertsKeeps DEF Onboards
<1>6. CASE ResetBegins \/ ResetDeletesRecords \/ ResetCommits
    BY <1>6, ResetKeeps, CommitKeeps
<1>7. CASE Restart
    BY <1>7, RestartKeeps
<1>8. CASE UNCHANGED vars
    <2>1. TypeOK' /\ PlansKnown'
        BY <1>8 DEF vars, IInv, TypeOK, PlansKnown, rows, runs, reset, ghost
    <2> QED
        BY <1>8, <2>1, QuietKeeps DEF vars, rows, reset, ghost
<1> QED
    BY <1>1, <1>2, <1>3, <1>4, <1>5, <1>6, <1>7, <1>8 DEF Next
-----------------------------------------------------------------------------
\* The inductive invariant behind the results about seeding.
THEOREM Invariance == Spec => []IInv
<1>1. Init => IInv
    BY InvInit
<1>2. IInv /\ [Next]_vars => IInv'
    BY InvNext
<1> QED
    BY <1>1, <1>2, PTL DEF Spec

\* Every variable of the module keeps its type.
THEOREM Typing == Spec => []TypeOK
<1>1. IInv => TypeOK
    BY DEF IInv
<1> QED
    BY <1>1, Invariance, PTL

\* Nothing a script creates exists twice, unless its record went before its row.
THEOREM NoDuplicates == Spec => []TwiceOnlyIfForgotten
<1>1. IInv => TwiceOnlyIfForgotten
    BY DEF IInv
<1> QED
    BY <1>1, Invariance, PTL

\* A stored response names a row that exists, unless a reset raced with the POST.
THEOREM TruthfulRecords == Spec => []RecordsTellTruth
<1>1. IInv => RecordsTellTruth
    BY DEF IInv
<1> QED
    BY <1>1, Invariance, PTL

\* No merchant is mirrored that Trazmo does not know.
THEOREM MirrorFollows == Spec => []TrazmoKnowsFirst
<1>1. IInv => TrazmoKnowsFirst
    BY DEF IInv
<1> QED
    BY <1>1, Invariance, PTL

\* An onboarded SME has exactly one merchant, known on both sides.
THEOREM Onboarded == Spec => []BothSides
<1>1. IInv => BothSides
    BY DEF IInv
<1> QED
    BY <1>1, Invariance, PTL
=============================================================================
