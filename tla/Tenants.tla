------------------------------ MODULE Tenants ------------------------------
(***************************************************************************)
(* Tenants and their data: creation of a tenant with its API key, requests *)
(* that resolve the key and insert rows, the background transactions that  *)
(* work on those rows, and the administrator's reset, which deletes them   *)
(* table by table.                                                         *)
(*                                                                         *)
(* The database runs READ COMMITTED: each DELETE sees what is committed    *)
(* when it starts, waits for rows another transaction has locked, and      *)
(* fails if a foreign key still points at what it deletes.  A deleted row  *)
(* stays visible to others until the reset commits; a row whose            *)
(* transaction commits behind the DELETE of its table survives.            *)
(***************************************************************************)
EXTENDS Integers, Sequences, FiniteSets

CONSTANTS
    Requests,   \* requests of tenants that create something
    Wants,      \* the kinds of thing each request may ask for
    Virtual,    \* requests whose account is a virtual one, in a pool account
    Callers,    \* calls of create_tenant, all with the one API key; also tenant ids
    None,       \* no request and no caller
    MaxResets   \* bound: calls of reset

Kinds    == {"accounts", "payments", "mandates", "merchants", "subscriptions"}
Entities == Requests \cup Callers
Tables   == Kinds \cup {"entries", "sales", "batches", "outbox", "records", "jobs",
                        "keys", "tenants"}
Rows     == Entities \X Tables

ASSUME TenantsAssumption ==
    /\ None \notin Entities
    /\ Requests \cap Callers = {}
    /\ Wants \in [Requests -> SUBSET Kinds]
    /\ Virtual \subseteq Requests
    /\ MaxResets \in Nat

VARIABLES
    rows,    \* committed rows: what they belong to, and their table
    caller,  \* how far a call of create_tenant is
    req,     \* how far a request is
    owner,   \* the tenant its key was resolved to
    kind,    \* the table of what it creates
    on,      \* the account or mandate it names, or None
    work,    \* the background transaction on what a request created
    status,  \* payment_instructions.status
    step,    \* the table the reset is deleting from; 0 when there is no reset
    scope,   \* the tenant being reset, or None
    purge,   \* does the reset delete the tenant as well?
    begun,   \* has the DELETE of the current table taken its snapshot?
    target,  \* rows of that snapshot it has not deleted yet
    doomed,  \* rows the reset has deleted and not committed
    old,     \* rows of the tenant that were committed when the reset began
    resets   \* resets so far

reset   == <<step, scope, purge, begun, target, doomed, old, resets>>
request == <<req, owner, kind, on>>
vars    == <<rows, caller, request, work, status, reset>>

-----------------------------------------------------------------------------
Init ==
    /\ rows = {}
    /\ caller = [c \in Callers |-> "new"]
    /\ req = [r \in Requests |-> "new"]
    /\ owner = [r \in Requests |-> None]
    /\ kind = [r \in Requests |-> "none"]
    /\ on = [r \in Requests |-> None]
    /\ work = [r \in Requests |-> "idle"]
    /\ status = [r \in Requests |-> "accepted"]
    /\ step = 0
    /\ scope = None
    /\ purge = FALSE
    /\ begun = FALSE
    /\ target = {}
    /\ doomed = {}
    /\ old = {}
    /\ resets = 0

Visible(e, t) == <<e, t>> \in rows
Free(e, t)    == <<e, t>> \notin doomed

\* What the database's foreign keys say: row q refers to row p.
Refers(q, p) ==
    \/ q[2] = "entries" /\ p = <<on[q[1]], "accounts">>
    \/ q[2] = "accounts" /\ p = <<on[q[1]], "accounts">>
    \/ q[2] \in {"sales", "batches"} /\ p = <<q[1], "merchants">>
    \/ q[2] = "keys" /\ p = <<q[1], "tenants">>

\* Rows the open transactions about a request hold locks on.
Holds(r) ==
    (IF req[r] = "flushed" /\ kind[r] = "accounts" /\ on[r] # None
     THEN {<<on[r], "accounts">>} ELSE {})
    \cup CASE work[r] \in {"locked", "rejecting", "settling"} -> {<<r, "payments">>}
           [] work[r] = "posted"   -> {<<r, "payments">>, <<on[r], "accounts">>}
           [] work[r] = "sold"     -> {<<r, "merchants">>}
           [] work[r] = "batching" -> {<<r, "sales">>}
           [] work[r] = "batched"  -> {<<r, "sales">>, <<r, "merchants">>}
           [] OTHER                -> {}

\* The row its next statement waits for while somebody else holds it.
Needs(r) == CASE work[r] = "settling"               -> {<<on[r], "accounts">>}
              [] work[r] \in {"selling", "batching"} -> {<<r, "merchants">>}
              [] OTHER                               -> {}

-----------------------------------------------------------------------------
(***************************************************************************)
(* create_tenant.  Tenant and key are inserted in one transaction; the     *)
(* primary key on the hash makes a second insert wait for the first, or    *)
(* for the reset that deletes the key, and fail if the key is still there. *)
(***************************************************************************)
KeyIssued == \E c \in Callers : Visible(c, "keys")

\* The existing tenant is returned, or a new one is inserted, not committed.
LookUpKey(c) ==
    /\ caller[c] = "new"
    /\ caller' = [caller EXCEPT ![c] = IF KeyIssued THEN "ended" ELSE "flushed"]
    /\ UNCHANGED <<rows, request, work, status, reset>>

\* (mutant: nobody checks the key)
NeverTaken == FALSE
KeyTaken   == KeyIssued

InsertKey(c) ==
    /\ caller[c] = "flushed"
    /\ \A d \in Callers : caller[d] # "keyed" /\ Free(d, "keys")
    /\ caller' = [caller EXCEPT ![c] = IF KeyTaken THEN "ended" ELSE "keyed"]
    /\ UNCHANGED <<rows, request, work, status, reset>>

CommitTenant(c) ==
    /\ caller[c] = "keyed"
    /\ caller' = [caller EXCEPT ![c] = "ended"]
    /\ rows' = rows \cup {<<c, "tenants">>, <<c, "keys">>}
    /\ UNCHANGED <<request, work, status, reset>>

-----------------------------------------------------------------------------
(***************************************************************************)
(* Requests.  The middleware resolves the key in a session of its own; the *)
(* endpoint reads what it refers to and inserts rows, its idempotency      *)
(* record among them, and they are committed together.                     *)
(***************************************************************************)
Authenticate(r) ==
    /\ req[r] = "new"
    /\ \E c \in Callers :
        /\ Visible(c, "keys")
        /\ owner' = [owner EXCEPT ![r] = c]
    /\ req' = [req EXCEPT ![r] = "known"]
    /\ UNCHANGED <<rows, caller, kind, on, work, status, reset>>

Flushes(r, k, a) ==
    /\ req[r] = "known" /\ k \in Wants[r]
    /\ req' = [req EXCEPT ![r] = "flushed"]
    /\ kind' = [kind EXCEPT ![r] = k]
    /\ on' = [on EXCEPT ![r] = a]
    /\ UNCHANGED <<rows, caller, owner, work, status, reset>>

\* The tenant filter of the session lets a request see its tenant's rows only.
Sees(r, e, t) == Visible(e, t) /\ owner[e] = owner[r]

CreateAccount(r) == r \notin Virtual /\ Flushes(r, "accounts", None)

\* A virtual account names its pool account, which only the foreign key checks.
CreateVirtualAccount(r, a) ==
    /\ r \in Virtual
    /\ Visible(a, "accounts") /\ Free(a, "accounts")
    /\ Flushes(r, "accounts", a)

InitiatePayment(r, a) == Sees(r, a, "accounts") /\ Flushes(r, "payments", a)

InstantTransfer(r, a) == Sees(r, a, "accounts") /\ Flushes(r, "payments", a)

CreateMandate(r, a) == Sees(r, a, "accounts") /\ Flushes(r, "mandates", a)

\* A collection reads the mandate and not the accounts it names.
CollectMandate(r, m) == Sees(r, m, "mandates") /\ Flushes(r, "payments", on[m])

CreateSubscription(r) == Flushes(r, "subscriptions", None)

CreateMerchant(r) == Flushes(r, "merchants", None)

\* (mutant: the record goes to a table that does not exist)
Misspelt(r) == {<<r, kind[r]>>, <<r, "idempotency">>}
Inserted(r) == {<<r, kind[r]>>, <<r, "records">>}
               \cup (IF kind[r] \in {"payments", "merchants"} THEN {<<r, "jobs">>} ELSE {})

CommitRequest(r) ==
    /\ req[r] = "flushed"
    /\ req' = [req EXCEPT ![r] = "done"]
    /\ rows' = rows \cup Inserted(r)
    /\ UNCHANGED <<caller, owner, kind, on, work, status, reset>>

-----------------------------------------------------------------------------
(***************************************************************************)
(* Background work: process_payment, generate_merchant_day and             *)
(* settle_merchant_day.  A "jobs" row is the pending scheduler job, which  *)
(* the reset does not delete.  The webhook goes to subscriptions that were *)
(* loaded when the work began and may be gone by now.                      *)
(***************************************************************************)
Webhook(r) ==
    {{}} \cup IF \E s \in Requests : /\ kind[s] = "subscriptions" /\ req[s] = "done"
                                     /\ owner[s] = owner[r]
              THEN {{<<r, "outbox">>}} ELSE {}

Becomes(r, w) == work' = [work EXCEPT ![r] = w]
Others        == UNCHANGED <<caller, request, reset>>

\* A job whose row is gone finds nothing to do.
JobFindsNothing(r) ==
    /\ work[r] = "idle" /\ Visible(r, "jobs") /\ ~Visible(r, kind[r])
    /\ rows' = rows \ {<<r, "jobs">>}
    /\ UNCHANGED <<work, status>> /\ Others

LockPayment(p) ==
    /\ work[p] = "idle" /\ Visible(p, "jobs") /\ kind[p] = "payments"
    /\ Visible(p, "payments") /\ Free(p, "payments")
    /\ Becomes(p, "locked")
    /\ UNCHANGED <<rows, status>> /\ Others

\* A missing account rejects the payment, and so may its funds.
CheckDebtor(p) ==
    /\ work[p] = "locked"
    /\ \/ Becomes(p, "rejecting")
       \/ Visible(on[p], "accounts") /\ Becomes(p, "settling")
    /\ UNCHANGED <<rows, status>> /\ Others

Reject(p) ==
    /\ work[p] = "rejecting"
    /\ \E W \in Webhook(p) : rows' = (rows \cup W) \ {<<p, "jobs">>}
    /\ status' = [status EXCEPT ![p] = "rejected"]
    /\ Becomes(p, "idle") /\ Others

\* The flush updates the balance, once nobody else has the row.
AccountFree(p) == /\ Free(on[p], "accounts")
                  /\ \A q \in Requests : ~(work[q] = "posted" /\ on[q] = on[p])

PostEntries(p) ==
    /\ work[p] = "settling"
    /\ Visible(on[p], "accounts")
    /\ AccountFree(p)
    /\ Becomes(p, "posted")
    /\ UNCHANGED <<rows, status>> /\ Others

SettlePayment(p) ==
    /\ work[p] = "posted"
    /\ \E W \in Webhook(p) : rows' = (rows \cup {<<p, "entries">>} \cup W) \ {<<p, "jobs">>}
    /\ status' = [status EXCEPT ![p] = "settled"]
    /\ Becomes(p, "idle") /\ Others

GenerateDay(m) ==
    /\ work[m] = "idle" /\ Visible(m, "jobs") /\ kind[m] = "merchants"
    /\ Visible(m, "merchants")
    /\ Becomes(m, "selling")
    /\ UNCHANGED <<rows, status>> /\ Others

\* Sales another transaction has deleted are locked, and skipped.
SettleDay(m) ==
    /\ work[m] = "idle"
    /\ Visible(m, "sales") /\ Free(m, "sales")
    /\ Visible(m, "merchants")
    /\ Becomes(m, "batching")
    /\ UNCHANGED <<rows, status>> /\ Others

\* The insert locks the merchant it refers to.
InsertForMerchant(m) ==
    /\ work[m] \in {"selling", "batching"}
    /\ Visible(m, "merchants") /\ Free(m, "merchants")
    /\ Becomes(m, IF work[m] = "selling" THEN "sold" ELSE "batched")
    /\ UNCHANGED <<rows, status>> /\ Others

CommitForMerchant(m) ==
    /\ work[m] \in {"sold", "batched"}
    /\ \E W \in Webhook(m) :
        rows' = rows \cup W \cup {<<m, IF work[m] = "sold" THEN "sales" ELSE "batches">>}
    /\ Becomes(m, "idle")
    /\ UNCHANGED status /\ Others

\* What the flush updates or refers to is gone: the handler raises, its job fails.
WorkRaises(r) ==
    /\ work[r] \in {"settling", "selling", "batching"}
    /\ \A x \in Needs(r) : x \notin rows
    /\ rows' = IF work[r] = "batching" THEN rows ELSE rows \ {<<r, "jobs">>}
    /\ Becomes(r, "idle")
    /\ UNCHANGED status /\ Others

-----------------------------------------------------------------------------
(***************************************************************************)
(* reset_tenant.                                                           *)
(***************************************************************************)
\* The order of the DELETEs (mutants: records first, merchants before sales,
\* payments before entries, subscriptions forgotten).
RecordsFirst  == <<"records", "entries", "accounts", "payments", "mandates", "sales",
                   "batches", "outbox", "subscriptions", "merchants", "keys", "tenants">>
ParentsFirst  == <<"entries", "accounts", "payments", "mandates", "merchants", "sales",
                   "batches", "outbox", "subscriptions", "records", "keys", "tenants">>
PaymentsFirst == <<"payments", "entries", "accounts", "mandates", "sales", "batches",
                   "outbox", "subscriptions", "records", "merchants", "keys", "tenants">>
Forgetful     == <<"entries", "accounts", "payments", "mandates", "sales", "batches",
                   "outbox", "records", "merchants", "keys", "tenants">>
Order         == <<"entries", "accounts", "payments", "mandates", "sales", "batches",
                   "outbox", "subscriptions", "records", "merchants", "keys", "tenants">>

\* The last two only if the tenant is to go as well.
Last    == IF purge THEN Len(Order) ELSE Len(Order) - 2
Current == Order[step]

TenantOf(e) == IF e \in Callers THEN e ELSE owner[e]
OfTenant(c) == {x \in rows : TenantOf(x[1]) = c}

Ends == /\ step' = 0 /\ scope' = None /\ purge' = FALSE /\ begun' = FALSE
        /\ target' = {} /\ doomed' = {} /\ old' = {}
        /\ UNCHANGED resets

ResetStarts(c) ==
    /\ step = 0 /\ resets < MaxResets
    /\ Visible(c, "tenants")
    /\ step' = 1 /\ scope' = c /\ purge' \in BOOLEAN
    /\ old' = OfTenant(c)
    /\ resets' = resets + 1
    /\ UNCHANGED <<rows, caller, request, work, status, begun, target, doomed>>

DeleteStarts ==
    /\ step \in 1..Last /\ ~begun
    /\ LET T == {x \in OfTenant(scope) : x[2] = Current} IN
        /\ target' = T
        /\ begun' = (T # {})
        /\ step' = IF T = {} THEN step + 1 ELSE step
    /\ UNCHANGED <<rows, caller, request, work, status, scope, purge, doomed, old, resets>>

\* A row somebody has locked is waited for.
DeleteRow(x) ==
    /\ x \in target
    /\ \A r \in Requests : x \notin Holds(r)
    /\ doomed' = doomed \cup {x}
    /\ target' = target \ {x}
    /\ UNCHANGED <<rows, caller, request, work, status, step, scope, purge, begun, old, resets>>

\* At its end a DELETE checks the foreign keys to what it deleted.
StillReferred == \E x \in doomed, q \in rows \ doomed : x[2] = Current /\ Refers(q, x)

DeleteEnds ==
    /\ begun /\ target = {} /\ ~StillReferred
    /\ begun' = FALSE
    /\ step' = step + 1
    /\ UNCHANGED <<rows, caller, request, work, status, scope, purge, target, doomed, old, resets>>

ResetFails ==
    /\ begun /\ target = {} /\ StillReferred
    /\ Ends
    /\ UNCHANGED <<rows, caller, request, work, status>>

ResetCommits ==
    /\ step = Last + 1
    /\ rows' = rows \ doomed
    /\ Ends
    /\ UNCHANGED <<caller, request, work, status>>

\* The reset waits for a payment whose work waits for its account: Postgres
\* makes one of them fail.
Deadlocked(r) ==
    /\ \E x \in target : x \in Holds(r)
    /\ Needs(r) \cap doomed # {}

ResetIsVictim ==
    /\ \E r \in Requests : Deadlocked(r)
    /\ Ends
    /\ UNCHANGED <<rows, caller, request, work, status>>

WorkIsVictim(r) ==
    /\ Deadlocked(r)
    /\ rows' = rows \ {<<r, "jobs">>}
    /\ Becomes(r, "idle")
    /\ UNCHANGED status /\ Others

-----------------------------------------------------------------------------
CreateTenant == \E c \in Callers : LookUpKey(c) \/ InsertKey(c) \/ CommitTenant(c)

Request(r) ==
    \/ Authenticate(r)
    \/ CreateAccount(r) \/ CreateSubscription(r) \/ CreateMerchant(r)
    \/ \E a \in Requests : \/ CreateVirtualAccount(r, a) \/ InitiatePayment(r, a)
                           \/ InstantTransfer(r, a) \/ CreateMandate(r, a)
                           \/ CollectMandate(r, a)
    \/ CommitRequest(r)

Work(r) ==
    \/ JobFindsNothing(r) \/ LockPayment(r) \/ CheckDebtor(r) \/ Reject(r)
    \/ PostEntries(r) \/ SettlePayment(r)
    \/ GenerateDay(r) \/ SettleDay(r) \/ InsertForMerchant(r) \/ CommitForMerchant(r)
    \/ WorkRaises(r) \/ WorkIsVictim(r)

Reset ==
    \/ \E c \in Callers : ResetStarts(c)
    \/ DeleteStarts \/ \E x \in target : DeleteRow(x)
    \/ DeleteEnds \/ ResetFails \/ ResetCommits \/ ResetIsVictim

Next ==
    \/ CreateTenant
    \/ \E r \in Requests : Request(r) \/ Work(r)
    \/ Reset

Spec == Init /\ [][Next]_vars
-----------------------------------------------------------------------------
(***************************************************************************)
(* Properties.                                                             *)
(***************************************************************************)

\* The values every variable may take.
TypeOK ==
    /\ rows \subseteq Rows
    /\ caller \in [Callers -> {"new", "flushed", "keyed", "ended"}]
    /\ req \in [Requests -> {"new", "known", "flushed", "done"}]
    /\ owner \in [Requests -> Callers \cup {None}]
    /\ kind \in [Requests -> Kinds \cup {"none"}]
    /\ on \in [Requests -> Requests \cup {None}]
    /\ work \in [Requests -> {"idle", "locked", "rejecting", "settling", "posted",
                              "selling", "sold", "batching", "batched"}]
    /\ status \in [Requests -> {"accepted", "settled", "rejected"}]
    /\ step \in Nat
    /\ scope \in Callers \cup {None}
    /\ purge \in BOOLEAN
    /\ begun \in BOOLEAN
    /\ target \subseteq Rows
    /\ doomed \subseteq Rows
    /\ old \subseteq Rows
    /\ resets \in Nat

\* However many bootstrap scripts race with each other and with purges, the key
\* names one tenant, and no tenant is left without its key.
KeyNamesTenant ==
    /\ \A c \in Callers : Visible(c, "keys") <=> Visible(c, "tenants")
    /\ \A c, d \in Callers : Visible(c, "keys") /\ Visible(d, "keys") => c = d

\* A reset that runs beside a request may leave some of its rows, but never an
\* idempotency record whose replayed answer names what was wiped - except a
\* merchant, whose table comes after that of the records.
RepliesHaveSubjects ==
    \A r \in Requests :
        Visible(r, "records") /\ kind[r] # "merchants" => Visible(r, kind[r])

\* A settled payment that survives a reset has its entries: deleting entries before
\* payments makes sure of that, also for what is created and settled meanwhile.
SettledKeepsEntries ==
    \A p \in Requests :
        status[p] = "settled" /\ Visible(p, "payments") => Visible(p, "entries")

\* A reset that commits has deleted every row that was there when it began, in
\* every table it deletes from.
Wiped == {x \in old : x[2] # "jobs" /\ (x[2] \in {"keys", "tenants"} => purge)}
ResetWipesThePast == [][step # 0 /\ rows' # rows /\ step' = 0 => rows' \cap Wiped = {}]_vars

\* A virtual account of another tenant in a pool that the reset deletes: parent_iban
\* is stored as it comes, and the foreign key does not ask whose account it names.
ForeignVan ==
    \E v \in Requests :
        Visible(v, "accounts") /\ TenantOf(v) # scope /\ <<on[v], "accounts">> \in doomed

\* A reset fails only because somebody else was at work (a transaction that is open, or
\* rows that were not there when it began), or has a virtual account in the way: what
\* the tenant itself had at rest never makes the order of the DELETEs fail.
ResetFailsOnlyIfDisturbed ==
    [][step # 0 /\ step' = 0 /\ rows' = rows =>
          \/ rows = rows \ doomed
          \/ OfTenant(scope) \ old # {}
          \/ \E r \in Requests : work[r] # "idle"
          \/ ForeignVan]_vars
=============================================================================
