------------------------------ MODULE Seeding -------------------------------
(***************************************************************************)
(* How a tenant's world comes to be: scripts/seed_default.py and           *)
(* scripts/seed_e2e.py POST one thing after the other under stable         *)
(* idempotency keys, POST /admin/onboard-sme creates a merchant at Trazmo  *)
(* first and here second, and /admin/reset wipes what there is.            *)
(*                                                                         *)
(* Each POST is one transaction here: that the endpoints serve a key       *)
(* atomically is what Idempotency.tla shows.  Time has two grains.  A      *)
(* window is the 1.024 s in which every merchant created by POST gets the  *)
(* same id, cut from the first eight characters of a ULID; a day is the    *)
(* 24 h after which an idempotency record may be deleted.                  *)
(***************************************************************************)
EXTENDS Naturals

CONSTANTS
    Templates,  \* merchants of seed_default.py, one per region
    Mirrored,   \* merchants of Trazmo that MockSim may mirror (acquirer_merchant_id)
    Pools,      \* pool accounts, whose IBAN is derived from a seed
    Vans,       \* virtual accounts of the pools, likewise
    Hooks,      \* webhook subscriptions of seed_default.py
    Feeds,      \* the settlement subscription of seed_e2e.py
    Rank,       \* the order in which a script posts things
    Smes,       \* SMEs an operator onboards
    Slug,       \* the merchant Trazmo finds or creates for an SME's sme_code
    Runs,       \* runs of the scripts that may be going on at one time
    MaxResets   \* bound: resets

Merchants == Templates \cup Mirrored
Early     == Pools \cup Vans \cup Hooks \cup Feeds  \* deleted before the records
Items     == Merchants \cup Early
Unique    == Mirrored \cup Pools \cup Vans           \* under a unique constraint
Default   == Templates \cup Pools \cup Vans \cup Hooks
Tenants   == {"default", "e2e"}                      \* each script has its own
TenantOf(i) == IF i \in Default THEN "default" ELSE "e2e"

ASSUME SeedingAssumption ==
    /\ Merchants \cap Early = {}
    /\ Templates \cap Mirrored = {}
    /\ (Hooks \cup Feeds) \cap (Pools \cup Vans) = {}
    /\ Rank \in [Items -> Nat]
    /\ Slug \in [Smes -> Mirrored]
    /\ MaxResets \in Nat

VARIABLES
    copies,    \* rows of each item: none, one, or two and more
    record,    \* its idempotency record: none, naming a row, or naming a deleted one
    expired,   \* items whose record is older than 24 h
    minted,    \* the tenant of the merchant whose id was cut from the present window, if any
    known,     \* merchants Trazmo has a mapping for
    stage,     \* where each run is
    todo,      \* what a run has still to post
    call,      \* where the onboard-sme request for each SME is
    wipe,      \* how far a reset has come
    scope,     \* whose tenant it wipes, or none
    doomed,    \* items whose rows it has deleted and not committed
    born,      \* items posted after it deleted their table's rows
    locked,    \* items whose records it has deleted and not committed
    orphaned,  \* history: repeatable items that lost their record and kept a row
    raced,     \* history: merchants whose record was made while a reset was past the records
    told,      \* history: SMEs whose onboarding was answered, since the last reset
    resets     \* resets so far

rows  == <<copies, record, expired, minted>>
runs  == <<stage, todo>>
reset == <<wipe, scope, doomed, born, locked, resets>>
ghost == <<orphaned, raced, told>>
vars  == <<rows, known, runs, call, reset, ghost>>

OneMore(n) == IF n = 0 THEN 1 ELSE 2

-----------------------------------------------------------------------------
Init ==
    /\ copies = [i \in Items |-> 0]
    /\ record = [i \in Items |-> "none"]
    /\ expired = {}
    /\ minted = {}
    /\ known \in SUBSET Mirrored
    /\ stage = [r \in Runs |-> "idle"]
    /\ todo = [r \in Runs |-> {}]
    /\ call = [s \in Smes |-> "idle"]
    /\ wipe = "no"
    /\ scope = "none"
    /\ doomed = {}
    /\ born = {}
    /\ locked = {}
    /\ orphaned = {}
    /\ raced = {}
    /\ told = {}
    /\ resets = 0

-----------------------------------------------------------------------------
(***************************************************************************)
(* Time and the hourly garbage collection of expired records.              *)
(***************************************************************************)
NextWindow ==
    /\ minted # {}
    /\ minted' = {}
    /\ UNCHANGED <<copies, record, expired, known, runs, call, reset, ghost>>

Recorded == {i \in Items : record[i] # "none"}

\* Runs, requests and resets take seconds.
DayPasses ==
    /\ expired # Recorded
    /\ wipe = "no"
    /\ \A r \in Runs : stage[r] = "idle"
    /\ \A s \in Smes : call[s] = "idle"
    /\ expired' = Recorded
    /\ minted' = {}
    /\ UNCHANGED <<copies, record, known, runs, call, reset, ghost>>

\* A DELETE that meets a record the reset has deleted waits for the reset.
Prune ==
    /\ expired # {}
    /\ expired \cap locked = {}
    /\ record' = [i \in Items |-> IF i \in expired THEN "none" ELSE record[i]]
    /\ expired' = {}
    /\ orphaned' = orphaned \cup {i \in expired \ Unique : copies[i] > 0}
    /\ raced' = raced \ expired
    /\ UNCHANGED <<copies, minted, known, runs, call, reset, told>>

-----------------------------------------------------------------------------
(***************************************************************************)
(* The two scripts.  A run of seed_default.py has a fixed plan; one of     *)
(* seed_e2e.py reads the merchants Trazmo has at that moment, and stops    *)
(* when there are none.                                                    *)
(***************************************************************************)
Begins(r, plan) ==
    /\ stage[r] = "idle"
    /\ stage' = [stage EXCEPT ![r] = "seeding"]
    /\ todo' = [todo EXCEPT ![r] = plan]
    /\ UNCHANGED <<rows, known, call, reset, ghost>>

\* (mutant: a list of merchants that Trazmo does not have)
SeedsDefault(r) == Begins(r, Default)
SeedsStale(r)   == Begins(r, Mirrored \cup Feeds)
SeedsE2E(r)     == known # {} /\ Begins(r, known \cup Feeds)

\* A POST that must not be answered from the record nor insert its row: the id of
\* this window is taken, or the row is there and must be unique (mutant: without the
\* constraint).
ClashesById(i) == i \in Merchants /\ minted # {}
Clashes(i) ==
    \/ i \in Merchants /\ minted # {}
    \/ i \in Unique /\ copies[i] > 0

\* It waits for a reset that has deleted its record, or the row it would repeat.
Waits(i) == i \in locked \/ (i \in Unique \cap doomed /\ record[i] = "none")

Wiping(i) == wipe # "no" /\ TenantOf(i) = scope

\* Without a pool account there are no virtual accounts to hang off it.
Without(i) == IF i \in Pools THEN {i} \cup Vans ELSE {i}

Due(r, i) ==
    /\ i \in todo[r]
    /\ \A k \in todo[r] : Rank[i] <= Rank[k]
    /\ ~Waits(i)

\* The key's response is stored: nothing is done, whatever became of the row.
\* (mutant: an endpoint that forgets to look the key up)
NeverSeen(i) == FALSE
Seen(i)      == record[i] # "none"

Replays(r, i) ==
    /\ Due(r, i)
    /\ Seen(i)
    /\ todo' = [todo EXCEPT ![r] = @ \ {i}]
    /\ UNCHANGED <<rows, known, stage, call, reset, ghost>>

Creates(r, i) ==
    /\ Due(r, i)
    /\ ~Seen(i)
    /\ ~Clashes(i)
    /\ copies' = [copies EXCEPT ![i] = OneMore(@)]
    /\ record' = [record EXCEPT ![i] = "live"]
    /\ minted' = IF i \in Merchants THEN {TenantOf(i)} ELSE minted
    /\ born' = IF Wiping(i) /\ i \in Early THEN born \cup {i} ELSE born
    /\ raced' = IF Wiping(i) /\ wipe = "records" /\ i \in Merchants THEN raced \cup {i}
                ELSE raced
    /\ todo' = [todo EXCEPT ![r] = @ \ {i}]
    /\ UNCHANGED <<expired, known, stage, call, wipe, scope, doomed, locked, resets, orphaned,
                   told>>

\* The INSERT fails, everything is rolled back, and the script goes on with a warning.
Fails(r, i) ==
    /\ Due(r, i)
    /\ ~Seen(i)
    /\ Clashes(i)
    /\ todo' = [todo EXCEPT ![r] = @ \ Without(i)]
    /\ UNCHANGED <<rows, known, stage, call, reset, ghost>>

Post(r) == \E i \in Items : Replays(r, i) \/ Creates(r, i) \/ Fails(r, i)

Ends(r) ==
    /\ stage[r] = "seeding"
    /\ todo[r] = {}
    /\ stage' = [stage EXCEPT ![r] = "idle"]
    /\ UNCHANGED <<rows, known, todo, call, reset, ghost>>

\* A time-out, a Ctrl-C: nothing in the scripts catches it.
Dies(r) ==
    /\ todo[r] # {}
    /\ stage' = [stage EXCEPT ![r] = "idle"]
    /\ todo' = [todo EXCEPT ![r] = {}]
    /\ UNCHANGED <<rows, known, call, reset, ghost>>

\* Trazmo's own seeds add a merchant (run_trazmo_seeds, or somebody there).
TrazmoSeeds ==
    /\ \E m \in Mirrored \ known : known' = known \cup {m}
    /\ UNCHANGED <<rows, runs, call, reset, ghost>>

-----------------------------------------------------------------------------
(***************************************************************************)
(* POST /admin/onboard-sme: one call to Trazmo, which creates whatever of  *)
(* the SME it does not have yet, and then, in a session of its own, the    *)
(* merchant here.  Its id comes from the random part of a ULID.            *)
(***************************************************************************)
TrazmoAnswers(s) ==
    /\ call[s] = "idle"
    /\ known' = known \cup {Slug[s]}
    /\ call' = [call EXCEPT ![s] = "answered"]
    /\ UNCHANGED <<rows, runs, reset, ghost>>

\* Trazmo does everything and answers after the ten seconds the client waits.
\* (When it refuses or cannot be reached nothing happens on either side.)
TrazmoIsLate(s) ==
    /\ call[s] = "idle"
    /\ known' = known \cup {Slug[s]}
    /\ UNCHANGED <<rows, runs, call, reset, ghost>>

\* The merchant with the acquirer id Trazmo answered is reused if it is there.
Looks(s) ==
    LET m == Slug[s] IN
    /\ call[s] = "answered"
    /\ IF copies[m] > 0
       THEN /\ call' = [call EXCEPT ![s] = "idle"]
            /\ told' = told \cup {s}
       ELSE /\ call' = [call EXCEPT ![s] = "missing"]
            /\ UNCHANGED told
    /\ UNCHANGED <<rows, known, runs, reset, orphaned, raced>>

\* If another request has inserted it meanwhile, the unique constraint fails this one.
Inserts(s) ==
    LET m == Slug[s] IN
    /\ call[s] = "missing"
    /\ call' = [call EXCEPT ![s] = "idle"]
    /\ IF copies[m] = 0
       THEN /\ copies' = [copies EXCEPT ![m] = 1]
            /\ told' = told \cup {s}
       ELSE UNCHANGED <<copies, told>>
    /\ UNCHANGED <<record, expired, minted, known, runs, reset, orphaned, raced>>

Onboards(s) == TrazmoAnswers(s) \/ Looks(s) \/ Inserts(s)

-----------------------------------------------------------------------------
(***************************************************************************)
(* A reset deletes accounts and subscriptions, then the idempotency        *)
(* records, then the merchants, each DELETE taking what is committed when  *)
(* it starts, and commits.                                                 *)
(***************************************************************************)
Mine == {i \in Items : TenantOf(i) = scope}

ResetBegins ==
    /\ wipe = "no"
    /\ resets < MaxResets
    /\ resets' = resets + 1
    /\ scope' \in Tenants
    /\ wipe' = "early"
    /\ doomed' = {i \in Early : TenantOf(i) = scope' /\ copies[i] > 0}
    /\ UNCHANGED <<rows, known, runs, call, born, locked, ghost>>

ResetDeletesRecords ==
    /\ wipe = "early"
    /\ wipe' = "records"
    /\ locked' = Mine \cap Recorded
    /\ UNCHANGED <<rows, known, runs, call, scope, doomed, born, resets, ghost>>

\* What is left of a record (mutant: all of them).
KeepsRecords(i) == IF i \in Mine \cap Merchants /\ record[i] = "live" THEN "stale" ELSE record[i]
Left(i) == IF i \in locked THEN "none"
           ELSE IF i \in Mine \cap Merchants /\ record[i] = "live" THEN "stale"
           ELSE record[i]

ResetCommits ==
    LET Kept == (Items \ Mine) \cup born IN
    /\ wipe = "records"
    /\ wipe' = "no"
    /\ scope' = "none"
    /\ copies' = [i \in Items |-> IF i \in born THEN 1 ELSE IF i \in Mine THEN 0 ELSE copies[i]]
    /\ record' = [i \in Items |-> Left(i)]
    /\ expired' = expired \ locked
    /\ minted' = minted \ {scope}
    /\ orphaned' = (orphaned \cap Kept) \cup ((born \cap locked) \ Unique)
    /\ told' = IF scope = "e2e" THEN {} ELSE told
    /\ raced' = raced \ locked
    /\ doomed' = {}
    /\ born' = {}
    /\ locked' = {}
    /\ UNCHANGED <<known, runs, call, resets>>

\* The process dies: requests end where they are, and the reset is rolled back.
Restart ==
    /\ wipe # "no" \/ \E s \in Smes : call[s] # "idle"
    /\ wipe' = "no"
    /\ scope' = "none"
    /\ doomed' = {}
    /\ born' = {}
    /\ locked' = {}
    /\ call' = [s \in Smes |-> "idle"]
    /\ UNCHANGED <<rows, known, runs, resets, ghost>>

-----------------------------------------------------------------------------
Next ==
    \/ NextWindow
    \/ DayPasses
    \/ Prune
    \/ \E r \in Runs : SeedsDefault(r) \/ SeedsE2E(r) \/ Post(r) \/ Ends(r) \/ Dies(r)
    \/ TrazmoSeeds
    \/ \E s \in Smes : TrazmoIsLate(s) \/ Onboards(s)
    \/ ResetBegins
    \/ ResetDeletesRecords
    \/ ResetCommits
    \/ Restart

Spec == Init /\ [][Next]_vars

\* Requests that are being served go on, time passes, and somebody runs the
\* scripts again.
FairSpec ==
    /\ Spec
    /\ WF_vars(NextWindow)
    /\ WF_vars(ResetDeletesRecords)
    /\ WF_vars(ResetCommits)
    /\ \A r \in Runs : /\ SF_vars(SeedsDefault(r)) /\ SF_vars(SeedsE2E(r))
                        /\ WF_vars(Post(r)) /\ WF_vars(Ends(r))
-----------------------------------------------------------------------------
(***************************************************************************)
(* Properties.                                                             *)
(***************************************************************************)

\* The values every variable may take.
TypeOK ==
    /\ copies \in [Items -> 0..2]
    /\ record \in [Items -> {"none", "live", "stale"}]
    /\ expired \subseteq Items
    /\ minted \subseteq Tenants
    /\ known \subseteq Mirrored
    /\ stage \in [Runs -> {"idle", "seeding"}]
    /\ todo \in [Runs -> SUBSET Items]
    /\ call \in [Smes -> {"idle", "answered", "missing"}]
    /\ wipe \in {"no", "early", "records"}
    /\ scope \in Tenants \cup {"none"}
    /\ doomed \subseteq Early
    /\ born \subseteq Early
    /\ locked \subseteq Items
    /\ orphaned \subseteq Items \ Unique
    /\ raced \subseteq Merchants
    /\ told \subseteq Smes
    /\ resets \in Nat

\* A thing the scripts create exists twice only if its idempotency record went
\* while its row stayed: collected after 24 h, or deleted by a reset that had
\* already passed the row's table.
TwiceOnlyIfForgotten ==
    \A i \in Items : copies[i] = 2 => i \in orphaned

\* A stored response that says a thing was created tells the truth: it names a row
\* that is gone only if the merchant was posted while a reset was between the
\* records and the merchants.
RecordsTellTruth ==
    \A i \in Items :
        /\ record[i] = "live" => copies[i] > 0
        /\ record[i] = "stale" => i \in raced

\* Onboarding creates at Trazmo first and here second: no failure, time-out or
\* repetition leaves a mirrored merchant here that Trazmo does not know.
TrazmoKnowsFirst == \A m \in Mirrored : copies[m] > 0 => m \in known

\* An SME whose onboarding was answered has its merchant on both sides, exactly
\* one, until the tenant is reset.
BothSides == \A s \in told : Slug[s] \in known /\ copies[Slug[s]] = 1

\* Repeated often enough, the scripts complete the tenants although a run creates
\* at most one merchant per window: provided that from some time on no run dies
\* and no record is collected under a row that exists, everything planned exists
\* in the end.  A stored response that names a deleted row counts as done; and the
\* virtual accounts are lost once the record of their pool is collected.
Complete(i) ==
    \/ copies[i] > 0
    \/ record[i] = "stale"
    \/ i \notin Default /\ known = {}
    \/ i \in Mirrored \ known
    \/ i \in Vans /\ \E p \in Pools : copies[p] > 0 /\ record[p] = "none"

Disturbed ==
    \/ \E r \in Runs : Dies(r)
    \/ Prune /\ \E i \in expired : copies[i] > 0

Heals == (<>[][~Disturbed]_vars) => \A i \in Items : <>[]Complete(i)

\* What makes the safety properties inductive.  Only a reset that is going on has
\* deleted anything; what was posted behind it has a fresh record; of the records
\* it did not delete, each is of something posted behind it; scripts and requests
\* mirror only what Trazmo has; and a repeatable item without a record is known to
\* be an orphan.
ResetInv ==
    /\ wipe = "no" => born = {} /\ locked = {}
    /\ wipe = "early" => locked = {}
    /\ born \cup locked \subseteq Mine
    /\ expired \subseteq Recorded
    /\ \A i \in born : record[i] = "live" /\ i \notin expired
    /\ wipe = "records" =>
          \A i \in (Mine \cap Recorded) \ locked : i \in raced \cup born

PlansKnown ==
    /\ \A r \in Runs : todo[r] \cap Mirrored \subseteq known
    /\ \A s \in Smes : call[s] # "idle" => Slug[s] \in known

Forgotten == \A i \in Items \ Unique : (copies[i] > 0 /\ record[i] = "none") => i \in orphaned

IInv ==
    /\ TypeOK
    /\ ResetInv
    /\ PlansKnown
    /\ Forgotten
    /\ TwiceOnlyIfForgotten
    /\ RecordsTellTruth
    /\ TrazmoKnowsFirst
    /\ BothSides
=============================================================================
