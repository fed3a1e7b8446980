--------------------------- MODULE TenantsProofs ---------------------------
(***************************************************************************)
(* Theorems about Tenants.tla, for any number of requests, create_tenant   *)
(* calls and resets.                                                       *)
(***************************************************************************)
EXTENDS Tenants, TLAPS

(***************************************************************************)
(* What makes the properties inductive.                                    *)
(***************************************************************************)

\* While an insert of the key is open, it is the only one, and there is no key.
OneKeyed ==
    \A c \in Callers : caller[c] = "keyed" =>
        /\ ~KeyIssued
        /\ \A d \in Callers : caller[d] = "keyed" => d = c

\* Rows come from requests that were committed, and keys and tenants from callers.
RowsHaveOrigin ==
    \A x \in rows :
        /\ x[1] \in Callers <=> x[2] \in {"keys", "tenants"}
        /\ x[1] \in Requests => req[x[1]] = "done"

\* A request that inserts has chosen what, and work is about committed requests.
RequestsInOrder ==
    \A r \in Requests :
        /\ req[r] \in {"flushed", "done"} => kind[r] \in Kinds
        /\ work[r] # "idle" => req[r] = "done"

\* Between two resets nothing of a reset is left; during one the tenant is there.
ResetTidy ==
    /\ step = 0 => ~begun /\ doomed = {} /\ old = {}
    /\ ~begun => target = {}
    /\ begun => step \in 1..Last
    /\ step # 0 =>
          /\ step \in 1..(Last + 1)
          /\ scope \in Callers
          /\ <<scope, "keys">> \in old /\ <<scope, "tenants">> \in old

\* The reset touches committed rows of its tenant, in tables it has come to.
Touched(x) == \E i \in 1..Last : i <= step /\ x[2] = Order[i]
TouchesOwn ==
    \A x \in doomed \cup target : x \in rows /\ TenantOf(x[1]) = scope /\ Touched(x)

\* What was there when it began and is in a table it has been through is deleted.
OldGoes ==
    \A x \in old :
        /\ TenantOf(x[1]) = scope
        /\ x[1] \in Requests => req[x[1]] = "done"
        /\ x[2] # "jobs" => x \in rows
        /\ \A i \in 1..Last : x[2] = Order[i] =>
              /\ i < step => x \in doomed
              /\ i = step /\ begun => x \in doomed \cup target

IInv ==
    /\ TypeOK
    /\ KeyNamesTenant
    /\ OneKeyed
    /\ RowsHaveOrigin
    /\ RequestsInOrder
    /\ ResetTidy
    /\ TouchesOwn
    /\ OldGoes

-----------------------------------------------------------------------------
(***************************************************************************)
(* Typing.                                                                 *)
(***************************************************************************)
\* The order of deletion names tables, and there are twelve of them.
LEMMA OrderFacts ==
    /\ Len(Order) = 12
    /\ \A i \in 1..12 : Order[i] \in Tables \ {"jobs"}
    /\ \A t \in Tables \ {"jobs"} : \E i \in 1..12 : Order[i] = t
    /\ \A i \in 1..12 : Order[i] \in {"keys", "tenants"} <=> i > 10
    /\ Last = IF purge THEN 12 ELSE 10
BY DEF Order, Tables, Kinds, Last

\* The initial states have the inductive invariant.
LEMMA InitIInv == Init => IInv
<1> SUFFICES ASSUME Init PROVE IInv
    OBVIOUS
<1> USE DEF Init
<1>1. TypeOK
    BY TenantsAssumption DEF TypeOK, Rows
<1>2. KeyNamesTenant /\ OneKeyed /\ RowsHaveOrigin
    BY DEF KeyNamesTenant, OneKeyed, RowsHaveOrigin, Visible
<1>3. RequestsInOrder /\ ResetTidy /\ TouchesOwn /\ OldGoes
    BY DEF RequestsInOrder, ResetTidy, TouchesOwn, OldGoes
<1> QED
    BY <1>1, <1>2, <1>3 DEF IInv

-----------------------------------------------------------------------------
(***************************************************************************)
(* create_tenant.                                                          *)
(***************************************************************************)

\* A call of create_tenant keeps the invariant.
LEMMA CreateNext == ASSUME IInv, CreateTenant PROVE IInv'
<1> USE TenantsAssumption
<1>0. PICK c \in Callers : LookUpKey(c) \/ InsertKey(c) \/ CommitTenant(c)
    BY DEF CreateTenant
<1>1. UNCHANGED <<request, work, status, reset>>
    BY <1>0 DEF LookUpKey, InsertKey, CommitTenant
<1> USE <1>1 DEF request, reset
<1>2. TypeOK'
    <2>1. caller' \in [Callers -> {"new", "flushed", "keyed", "ended"}]
        BY <1>0 DEF IInv, TypeOK, LookUpKey, InsertKey, CommitTenant
    <2>2. rows' \subseteq Rows
        BY <1>0 DEF IInv, TypeOK, LookUpKey, InsertKey, CommitTenant, Rows, Entities, Tables
    <2> QED
        BY <2>1, <2>2 DEF IInv, TypeOK
<1>3. CASE LookUpKey(c) \/ InsertKey(c)
    <2> rows' = rows
        BY <1>3 DEF LookUpKey, InsertKey
    <2>a. ASSUME LookUpKey(c) PROVE OneKeyed'
        BY <2>a DEF IInv, TypeOK, OneKeyed, KeyIssued, Visible, LookUpKey
    <2>b. ASSUME InsertKey(c) PROVE OneKeyed'
        <3>1. \A d \in Callers : caller[d] # "keyed"
            BY <2>b DEF InsertKey
        <3>2. \A d \in Callers : caller'[d] = "keyed" => d = c /\ ~KeyIssued
            BY <2>b, <3>1 DEF InsertKey, KeyTaken, IInv, TypeOK
        <3> QED
            BY <3>2 DEF OneKeyed, KeyIssued, Visible
    <2>1. OneKeyed'
        BY <2>a, <2>b, <1>3
    <2>2. (KeyNamesTenant /\ RowsHaveOrigin /\ RequestsInOrder)'
        BY <1>3 DEF IInv, KeyNamesTenant, RowsHaveOrigin, RequestsInOrder, Visible
    <2>3. (ResetTidy /\ TouchesOwn /\ OldGoes)'
        BY <1>3 DEF IInv, ResetTidy, TouchesOwn, OldGoes, Touched, TenantOf, Last
    <2> QED
        BY <1>2, <2>1, <2>2, <2>3 DEF IInv
<1>4. CASE CommitTenant(c)
    <2> USE <1>4 DEF CommitTenant
    <2>1. ~KeyIssued /\ \A d \in Callers : caller[d] = "keyed" => d = c
        BY DEF IInv, OneKeyed
    <2>2. \A d \in Callers : ~Visible(d, "keys") /\ ~Visible(d, "tenants")
        BY <2>1 DEF KeyIssued, IInv, KeyNamesTenant
    <2>3. KeyNamesTenant'
        BY <2>2 DEF KeyNamesTenant, Visible
    <2>4. OneKeyed'
        BY <2>1 DEF OneKeyed, IInv, TypeOK
    <2>5. RowsHaveOrigin'
        BY DEF RowsHaveOrigin, IInv
    <2>6. RequestsInOrder'
        BY DEF RequestsInOrder, IInv
    <2>7. (ResetTidy /\ TouchesOwn /\ OldGoes)'
        BY DEF IInv, ResetTidy, TouchesOwn, OldGoes, Touched, TenantOf, Last
    <2> QED
        BY <1>2, <2>3, <2>4, <2>5, <2>6, <2>7 DEF IInv
<1> QED
    BY <1>0, <1>3, <1>4

-----------------------------------------------------------------------------
(***************************************************************************)
(* Requests.                                                               *)
(***************************************************************************)

\* What owns a row does not change hands any more.
LEMMA OwnerStays ==
    ASSUME IInv, NEW r \in Requests, req[r] # "done",
           owner' = owner \/ \E c \in Callers : owner' = [owner EXCEPT ![r] = c],
           NEW x \in rows \cup old
    PROVE  TenantOf(x[1])' = TenantOf(x[1])
<1>1. x[1] \in Requests => req[x[1]] = "done"
    BY DEF IInv, RowsHaveOrigin, OldGoes
<1>2. x[1] \in Requests \cup Callers
    BY TenantsAssumption DEF IInv, TypeOK, Rows, Entities
<1> QED
    BY <1>1, <1>2 DEF TenantOf, IInv, TypeOK

\* A request that commits nothing keeps the invariant.
LEMMA QuietRequest ==
    ASSUME IInv, NEW r \in Requests, req[r] # "done",
           UNCHANGED <<rows, caller, work, status, reset>>,
           owner' = owner \/ \E c \in Callers : owner' = [owner EXCEPT ![r] = c],
           \E q \in {"known", "flushed"} : req' = [req EXCEPT ![r] = q],
           kind' \in [Requests -> Kinds \cup {"none"}],
           on' \in [Requests -> Requests \cup {None}],
           \A s \in Requests \ {r} : kind'[s] = kind[s],
           req'[r] = "flushed" => kind'[r] \in Kinds
    PROVE  IInv'
<1> USE DEF reset
<1>1. TypeOK'
    <2>1. owner' \in [Requests -> Callers \cup {None}]
        BY DEF IInv, TypeOK
    <2>2. req' \in [Requests -> {"new", "known", "flushed", "done"}]
        BY DEF IInv, TypeOK
    <2> QED
        BY <2>1, <2>2 DEF IInv, TypeOK
<1>2. (KeyNamesTenant /\ OneKeyed)'
    BY DEF IInv, KeyNamesTenant, OneKeyed, KeyIssued, Visible
<1>3. RowsHaveOrigin'
    BY DEF IInv, TypeOK, RowsHaveOrigin
<1>4. RequestsInOrder'
    BY DEF IInv, TypeOK, RequestsInOrder
<1>5. ResetTidy'
    BY DEF IInv, ResetTidy, Last
<1>6. TouchesOwn'
    <2> SUFFICES ASSUME NEW x \in doomed \cup target
                 PROVE (x \in rows /\ TenantOf(x[1]) = scope /\ Touched(x))'
        BY DEF TouchesOwn
    <2>1. x \in rows /\ TenantOf(x[1]) = scope /\ Touched(x)
        BY DEF IInv, TouchesOwn
    <2>2. TenantOf(x[1])' = TenantOf(x[1])
        BY <2>1, OwnerStays
    <2> QED
        BY <2>1, <2>2 DEF Touched, Last
<1>7. OldGoes'
    <2> SUFFICES ASSUME NEW x \in old
                 PROVE (/\ TenantOf(x[1]) = scope
                        /\ x[1] \in Requests => req[x[1]] = "done"
                        /\ x[2] # "jobs" => x \in rows
                        /\ \A i \in 1..Last : x[2] = Order[i] =>
                              /\ i < step => x \in doomed
                              /\ i = step /\ begun => x \in doomed \cup target)'
        BY DEF OldGoes
    <2>1. TenantOf(x[1])' = TenantOf(x[1])
        BY OwnerStays
    <2>2. x[1] \in Requests => req'[x[1]] = "done"
        BY DEF IInv, TypeOK, OldGoes
    <2> QED
        BY <2>1, <2>2 DEF IInv, OldGoes, Last
<1> QED
    BY <1>1, <1>2, <1>3, <1>4, <1>5, <1>6, <1>7 DEF IInv

\* The endpoints insert in memory only.
LEMMA FlushNext ==
    ASSUME IInv, NEW r \in Requests, NEW k \in Kinds, NEW a \in Requests \cup {None},
           Flushes(r, k, a)
    PROVE  IInv'
<1>1. /\ req[r] # "done"
      /\ kind' \in [Requests -> Kinds \cup {"none"}]
      /\ on' \in [Requests -> Requests \cup {None}]
      /\ \A s \in Requests \ {r} : kind'[s] = kind[s]
      /\ kind'[r] \in Kinds
    BY DEF Flushes, IInv, TypeOK
<1> QED
    BY <1>1, QuietRequest DEF Flushes

\* Adding rows of a committed request, or removing its job, disturbs no reset.
LEMMA RowsChange ==
    ASSUME IInv, NEW r \in Requests,
           NEW T \in SUBSET (Tables \ {"keys", "tenants"}),
           req'[r] = "done", \A s \in Requests : req[s] = "done" => req'[s] = "done",
           UNCHANGED <<caller, owner, kind, on, reset>>,
           rows' \subseteq rows \cup {<<r, t>> : t \in T},
           rows \ {<<r, "jobs">>} \subseteq rows'
    PROVE  /\ rows' \subseteq Rows
           /\ (KeyNamesTenant /\ OneKeyed /\ RowsHaveOrigin)'
           /\ (ResetTidy /\ TouchesOwn /\ OldGoes)'
<1> USE TenantsAssumption DEF reset
<1>1. rows' \subseteq Rows
    BY DEF IInv, TypeOK, Rows, Entities
<1>2. \A c \in Callers, t \in {"keys", "tenants"} : <<c, t>> \in rows' <=> <<c, t>> \in rows
    OBVIOUS
<1>3. (KeyNamesTenant /\ OneKeyed)'
    BY <1>2 DEF IInv, KeyNamesTenant, OneKeyed, KeyIssued, Visible
<1>4. RowsHaveOrigin'
    BY DEF IInv, RowsHaveOrigin
<1>5. ResetTidy'
    BY DEF IInv, ResetTidy, Last
<1>6. TouchesOwn'
    <2> SUFFICES ASSUME NEW x \in doomed \cup target
                 PROVE (x \in rows /\ TenantOf(x[1]) = scope /\ Touched(x))'
        BY DEF TouchesOwn
    <2>1. x \in rows /\ TenantOf(x[1]) = scope /\ Touched(x)
        BY DEF IInv, TouchesOwn
    <2>2. x[2] # "jobs"
        BY <2>1, OrderFacts DEF Touched
    <2> QED
        BY <2>1, <2>2 DEF Touched, Last, TenantOf
<1>7. OldGoes'
    BY DEF IInv, OldGoes, TenantOf, Last
<1> QED
    BY <1>1, <1>3, <1>4, <1>5, <1>6, <1>7

\* A request keeps the invariant.
LEMMA RequestNext == ASSUME IInv, NEW r \in Requests, Request(r) PROVE IInv'
<1>1. CASE Authenticate(r)
    <2>1. req[r] # "done"
        BY <1>1 DEF Authenticate
    <2>2. req'[r] # "flushed" /\ UNCHANGED <<kind, on>>
        BY <1>1 DEF Authenticate, IInv, TypeOK
    <2> QED
        BY <1>1, <2>1, <2>2, QuietRequest DEF Authenticate, IInv, TypeOK
<1>2. CASE CreateAccount(r) \/ CreateSubscription(r) \/ CreateMerchant(r)
    BY <1>2, FlushNext DEF CreateAccount, CreateSubscription, CreateMerchant, Kinds
<1>3. ASSUME NEW a \in Requests,
             \/ CreateVirtualAccount(r, a) \/ InitiatePayment(r, a) \/ InstantTransfer(r, a)
             \/ CreateMandate(r, a) \/ CollectMandate(r, a)
      PROVE  IInv'
    <2>1. on[a] \in Requests \cup {None}
        BY DEF IInv, TypeOK
    <2> QED
        BY <1>3, <2>1, FlushNext DEF CreateVirtualAccount, InitiatePayment, InstantTransfer,
           CreateMandate, CollectMandate, Kinds
<1>4. CASE CommitRequest(r)
    <2> USE <1>4 DEF CommitRequest
    <2>1. kind[r] \in Kinds
        BY DEF IInv, RequestsInOrder
    <2>2. Inserted(r) \subseteq {<<r, t>> : t \in Kinds \cup {"records", "jobs"}}
        BY <2>1 DEF Inserted
    <2>3. Kinds \cup {"records", "jobs"} \in SUBSET (Tables \ {"keys", "tenants"})
        BY DEF Kinds, Tables
    <2>4. req' \in [Requests -> {"new", "known", "flushed", "done"}]
        BY DEF IInv, TypeOK
    <2>5. req'[r] = "done" /\ \A s \in Requests : req[s] = "done" => req'[s] = "done"
        BY DEF IInv, TypeOK
    <2>6. /\ rows' \subseteq Rows
          /\ (KeyNamesTenant /\ OneKeyed /\ RowsHaveOrigin)'
          /\ (ResetTidy /\ TouchesOwn /\ OldGoes)'
        BY <2>2, <2>3, <2>5, RowsChange
    <2>7. TypeOK'
        BY <2>4, <2>6 DEF IInv, TypeOK, reset
    <2>8. RequestsInOrder'
        BY <2>1, <2>5 DEF IInv, TypeOK, RequestsInOrder
    <2> QED
        BY <2>6, <2>7, <2>8 DEF IInv
<1> QED
    BY <1>1, <1>2, <1>3, <1>4 DEF Request

-----------------------------------------------------------------------------
(***************************************************************************)
(* Background work.                                                        *)
(***************************************************************************)
Made == {"entries", "outbox", "sales", "batches"}

\* What a step of the work on a request may change.
LEMMA WorkShape ==
    ASSUME IInv, NEW r \in Requests, Work(r)
    PROVE  /\ req[r] = "done"
           /\ Others
           /\ rows' \subseteq rows \cup {<<r, t>> : t \in Made}
           /\ rows \ {<<r, "jobs">>} \subseteq rows'
<1> USE DEF Others
<1>1. Visible(r, "jobs") \/ Visible(r, "sales") => req[r] = "done"
    BY DEF IInv, RowsHaveOrigin, Visible
<1>2. work[r] # "idle" => req[r] = "done"
    BY DEF IInv, RequestsInOrder
<1>3. \A W \in Webhook(r) : W \subseteq {<<r, "outbox">>}
    BY DEF Webhook
<1>4. CASE JobFindsNothing(r) \/ LockPayment(r) \/ CheckDebtor(r) \/ GenerateDay(r) \/ SettleDay(r)
    BY <1>1, <1>2, <1>4 DEF JobFindsNothing, LockPayment, CheckDebtor, GenerateDay, SettleDay
<1>5. CASE PostEntries(r) \/ InsertForMerchant(r) \/ WorkRaises(r)
    BY <1>2, <1>5 DEF PostEntries, InsertForMerchant, WorkRaises
<1>6. CASE Reject(r) \/ SettlePayment(r) \/ CommitForMerchant(r)
    BY <1>2, <1>3, <1>6 DEF Reject, SettlePayment, CommitForMerchant, Made
<1>7. CASE WorkIsVictim(r)
    <2>1. Needs(r) # {}
        BY <1>7 DEF WorkIsVictim, Deadlocked
    <2>2. work[r] # "idle"
        BY <2>1 DEF Needs
    <2> QED
        BY <1>2, <1>7, <2>2 DEF WorkIsVictim
<1> QED
    BY <1>4, <1>5, <1>6, <1>7 DEF Work

\* Work and status keep their types, and only the work on r changes.
LEMMA WorkType ==
    ASSUME IInv, NEW r \in Requests, Work(r)
    PROVE  /\ work' \in [Requests -> {"idle", "locked", "rejecting", "settling", "posted",
                                      "selling", "sold", "batching", "batched"}]
           /\ status' \in [Requests -> {"accepted", "settled", "rejected"}]
           /\ \A q \in Requests \ {r} : work'[q] = work[q]
<1> USE DEF IInv, TypeOK, Becomes
<1>1. CASE JobFindsNothing(r) \/ LockPayment(r) \/ GenerateDay(r) \/ SettleDay(r)
    BY <1>1 DEF JobFindsNothing, LockPayment, GenerateDay, SettleDay
<1>2. CASE CheckDebtor(r) \/ PostEntries(r) \/ InsertForMerchant(r)
    BY <1>2 DEF CheckDebtor, PostEntries, InsertForMerchant
<1>3. CASE Reject(r) \/ SettlePayment(r)
    BY <1>3 DEF Reject, SettlePayment
<1>4. CASE CommitForMerchant(r) \/ WorkRaises(r) \/ WorkIsVictim(r)
    BY <1>4 DEF CommitForMerchant, WorkRaises, WorkIsVictim
<1> QED
    BY <1>1, <1>2, <1>3, <1>4 DEF Work

\* Background work keeps the invariant.
LEMMA WorkNext == ASSUME IInv, NEW r \in Requests, Work(r) PROVE IInv'
<1>1. /\ req[r] = "done" /\ Others
      /\ rows' \subseteq rows \cup {<<r, t>> : t \in Made}
      /\ rows \ {<<r, "jobs">>} \subseteq rows'
    BY WorkShape
<1>2. UNCHANGED <<caller, req, owner, kind, on, reset>>
    BY <1>1 DEF Others, request
<1>3. Made \in SUBSET (Tables \ {"keys", "tenants"})
    BY DEF Made, Tables
<1>4. /\ rows' \subseteq Rows
      /\ (KeyNamesTenant /\ OneKeyed /\ RowsHaveOrigin)'
      /\ (ResetTidy /\ TouchesOwn /\ OldGoes)'
    BY <1>1, <1>2, <1>3, RowsChange
<1>5. TypeOK'
    BY <1>2, <1>4, WorkType DEF IInv, TypeOK, reset
<1>6. RequestsInOrder'
    BY <1>1, <1>2, WorkType DEF IInv, RequestsInOrder
<1> QED
    BY <1>4, <1>5, <1>6 DEF IInv

-----------------------------------------------------------------------------
(***************************************************************************)
(* The reset.                                                              *)
(***************************************************************************)

\* When it commits, everything that was there when it began is deleted.
LEMMA CommitWipes == ASSUME IInv, ResetCommits PROVE Wiped \subseteq doomed
<1> SUFFICES ASSUME NEW x \in Wiped PROVE x \in doomed
    OBVIOUS
<1>1. x \in old /\ x[2] \in Tables \ {"jobs"} /\ (x[2] \in {"keys", "tenants"} => purge)
    BY DEF Wiped, IInv, TypeOK, Rows
<1>2. PICK i \in 1..12 : Order[i] = x[2]
    BY <1>1, OrderFacts
<1>3. i \in 1..Last /\ i < step
    BY <1>1, <1>2, OrderFacts DEF ResetCommits
<1> QED
    BY <1>1, <1>2, <1>3 DEF IInv, OldGoes

\* The tenant and its key are deleted together, by a purge only.
LEMMA CommitIdentity ==
    ASSUME IInv, ResetCommits
    PROVE  \A c \in Callers, t \in {"keys", "tenants"} :
               <<c, t>> \in doomed <=> purge /\ c = scope
<1> SUFFICES ASSUME NEW c \in Callers, NEW t \in {"keys", "tenants"}
             PROVE <<c, t>> \in doomed <=> purge /\ c = scope
    OBVIOUS
<1>0. step # 0
    BY OrderFacts DEF ResetCommits
<1>1. ASSUME purge, c = scope PROVE <<c, t>> \in doomed
    <2>1. <<scope, t>> \in Wiped
        BY <1>0, <1>1 DEF IInv, ResetTidy, Wiped
    <2> QED
        BY <2>1, <1>1, CommitWipes
<1>2. ASSUME <<c, t>> \in doomed PROVE purge /\ c = scope
    <2>1. TenantOf(c) = scope /\ \E i \in 1..Last : t = Order[i]
        BY <1>2 DEF IInv, TouchesOwn, Touched
    <2> QED
        BY <2>1, OrderFacts DEF TenantOf
<1> QED
    BY <1>1, <1>2

\* A reset that ends without a commit leaves the invariant.
LEMMA EndsNext ==
    ASSUME IInv, Ends, UNCHANGED <<rows, caller, request, work, status>> PROVE IInv'
<1> USE DEF Ends, request
<1>1. TypeOK'
    BY DEF IInv, TypeOK
<1>2. (KeyNamesTenant /\ OneKeyed /\ RowsHaveOrigin /\ RequestsInOrder)'
    BY DEF IInv, KeyNamesTenant, OneKeyed, KeyIssued, Visible, RowsHaveOrigin, RequestsInOrder
<1>3. (ResetTidy /\ TouchesOwn /\ OldGoes)'
    BY DEF ResetTidy, TouchesOwn, OldGoes
<1> QED
    BY <1>1, <1>2, <1>3 DEF IInv

\* A step of the reset that leaves the tables keeps what is said about them.
LEMMA TablesStay ==
    ASSUME IInv, UNCHANGED <<rows, caller, request, work, status>>
    PROVE  (KeyNamesTenant /\ OneKeyed /\ RowsHaveOrigin /\ RequestsInOrder)'
BY DEF request, IInv, KeyNamesTenant, OneKeyed, KeyIssued, Visible, RowsHaveOrigin,
   RequestsInOrder

\* One table further, in a list of ten or twelve.
LEMMA OneFurther ==
    ASSUME NEW n \in {10, 12}, NEW s \in 1..n
    PROVE  /\ s \in 1..(n + 1) /\ s + 1 \in 1..(n + 1) /\ s + 1 \in Nat
           /\ s # 0 /\ s + 1 # 0
           /\ \A i \in 1..n : i < s + 1 => i < s \/ i = s
OBVIOUS

\* Every step of the reset keeps the invariant.
LEMMA ResetNext == ASSUME IInv, Reset PROVE IInv'
<1> USE TenantsAssumption
<1>1. ASSUME NEW c \in Callers, ResetStarts(c) PROVE IInv'
    <2> USE <1>1 DEF ResetStarts
    <2>1. doomed = {} /\ target = {} /\ ~begun /\ step = 0
        BY DEF IInv, ResetTidy
    <2>2. old' \subseteq Rows /\ \A x \in old' : x \in rows /\ TenantOf(x[1]) = c
        BY DEF IInv, TypeOK, OfTenant
    <2>3. TypeOK'
        BY <2>2 DEF IInv, TypeOK, request
    <2>4. <<c, "keys">> \in old' /\ <<c, "tenants">> \in old'
        BY DEF IInv, KeyNamesTenant, Visible, OfTenant, TenantOf
    <2>5. Last' \in {10, 12}
        BY <2>3, OrderFacts DEF Last, TypeOK
    <2>6. ResetTidy'
        <3>1. step' = 1 /\ scope' = c /\ ~begun' /\ target' = {}
            BY <2>1
        <3>2. 1 \in 1..(Last' + 1)
            <4>1. \A n \in {10, 12} : 1 \in 1..(n + 1)
                OBVIOUS
            <4> QED
                BY <2>5, <4>1
        <3> QED
            BY <2>4, <3>1, <3>2 DEF ResetTidy
    <2>7. TouchesOwn'
        BY <2>1 DEF TouchesOwn
    <2>8. OldGoes'
        <3> SUFFICES ASSUME NEW x \in old'
                     PROVE (/\ TenantOf(x[1]) = scope
                            /\ x[1] \in Requests => req[x[1]] = "done"
                            /\ x[2] # "jobs" => x \in rows
                            /\ \A i \in 1..Last : x[2] = Order[i] =>
                                  /\ i < step => x \in doomed
                                  /\ i = step /\ begun => x \in doomed \cup target)'
            BY DEF OldGoes
        <3>1. x \in rows /\ TenantOf(x[1])' = c
            BY <2>2 DEF TenantOf, request
        <3>2. x[1] \in Requests => req[x[1]] = "done"
            BY <3>1 DEF IInv, RowsHaveOrigin
        <3> QED
            BY <2>1, <2>5, <3>1, <3>2 DEF request
    <2> QED
        BY <2>3, <2>6, <2>7, <2>8, TablesStay DEF IInv
<1>2. CASE DeleteStarts
    <2> DEFINE T == {x \in OfTenant(scope) : x[2] = Current}
    <2>0. /\ step \in 1..Last /\ ~begun /\ target = {}
          /\ target' = T /\ begun' = (T # {})
          /\ step' = IF T = {} THEN step + 1 ELSE step
          /\ UNCHANGED <<rows, caller, req, owner, kind, on, work, status,
                         scope, purge, doomed, old, resets>>
        BY <1>2 DEF DeleteStarts, request, IInv, ResetTidy
    <2>1. T \subseteq rows /\ \A x \in T : TenantOf(x[1]) = scope /\ x[2] = Order[step]
        BY DEF OfTenant, Current
    <2>2. \A x \in old : x[2] = Order[step] => x \in T
        BY <2>0, OrderFacts DEF IInv, OldGoes, OfTenant, Current
    <2>3. Last' = Last /\ Last \in {10, 12}
        BY <2>0, OrderFacts DEF Last
    <2> HIDE DEF T
    <2>4. \/ T = {} /\ step' = step + 1 /\ ~begun'
          \/ T # {} /\ step' = step /\ begun'
        BY <2>0
    <2>5. /\ step \in 1..(Last + 1) /\ step + 1 \in 1..(Last + 1) /\ step + 1 \in Nat
          /\ step # 0 /\ step + 1 # 0
          /\ \A i \in 1..Last : i < step + 1 => i < step \/ i = step
        BY <2>0, <2>3, OneFurther
    <2>6. TypeOK'
        <3>1. step' \in Nat
            BY <2>4, <2>5 DEF IInv, TypeOK
        <3>2. target' \subseteq Rows
            BY <2>0, <2>1 DEF IInv, TypeOK
        <3>3. begun' \in BOOLEAN
            BY <2>0
        <3> QED
            BY <2>0, <3>1, <3>2, <3>3 DEF IInv, TypeOK
    <2>7. ResetTidy'
        <3>1. step' \in 1..(Last' + 1) /\ step' # 0 /\ (begun' => step' \in 1..Last')
            BY <2>0, <2>3, <2>4, <2>5
        <3>2. ~begun' => target' = {}
            BY <2>0
        <3>3. scope \in Callers /\ <<scope, "keys">> \in old /\ <<scope, "tenants">> \in old
            BY <2>5 DEF IInv, ResetTidy
        <3> QED
            BY <2>0, <3>1, <3>2, <3>3 DEF ResetTidy
    <2>8. TouchesOwn'
        <3> SUFFICES ASSUME NEW x \in doomed \cup T
                     PROVE  (x \in rows /\ TenantOf(x[1]) = scope /\ Touched(x))'
            BY <2>0 DEF TouchesOwn
        <3>1. x \in rows /\ TenantOf(x[1]) = scope /\ \E i \in 1..Last : i <= step /\ x[2] = Order[i]
            <4>1. step <= step
                BY <2>0, <2>3
            <4> QED
                BY <2>0, <2>1, <4>1 DEF IInv, TouchesOwn, Touched
        <3>2. \A i \in 1..Last : i <= step => i <= step'
            BY <2>0, <2>3, <2>4
        <3> QED
            BY <2>0, <2>3, <3>1, <3>2 DEF Touched, TenantOf
    <2>9. OldGoes'
        <3>1. ASSUME NEW x \in old, NEW i \in 1..Last, x[2] = Order[i]
              PROVE  /\ i < step' => x \in doomed
                     /\ i = step' /\ begun' => x \in doomed \cup target'
            <4>1. i < step => x \in doomed
                BY <3>1 DEF IInv, OldGoes
            <4>2. i = step => x \in T
                BY <2>2, <3>1
            <4>3. CASE T = {}
                BY <2>4, <2>5, <4>1, <4>2, <4>3
            <4>4. CASE T # {}
                BY <2>0, <2>4, <4>1, <4>2, <4>4
            <4> QED
                BY <4>3, <4>4
        <3> SUFFICES ASSUME NEW x \in old
                     PROVE (/\ TenantOf(x[1]) = scope
                            /\ x[1] \in Requests => req[x[1]] = "done"
                            /\ x[2] # "jobs" => x \in rows
                            /\ \A i \in 1..Last : x[2] = Order[i] =>
                                  /\ i < step => x \in doomed
                                  /\ i = step /\ begun => x \in doomed \cup target)'
            BY <2>0 DEF OldGoes
        <3>2. (\A i \in 1..Last : x[2] = Order[i] =>
                                  /\ i < step => x \in doomed
                                  /\ i = step /\ begun => x \in doomed \cup target)'
            BY <2>0, <2>3, <3>1
        <3>3. (TenantOf(x[1]) = scope)'
            BY <2>0 DEF IInv, OldGoes, TenantOf
        <3>4. (x[1] \in Requests => req[x[1]] = "done")' /\ (x[2] # "jobs" => x \in rows)'
            BY <2>0 DEF IInv, OldGoes
        <3> QED
            BY <3>2, <3>3, <3>4
    <2>10. UNCHANGED <<rows, caller, request, work, status>>
        BY <2>0 DEF request
    <2> QED
        BY <2>6, <2>7, <2>8, <2>9, <2>10, TablesStay DEF IInv
<1>3. ASSUME NEW x \in target, DeleteRow(x) PROVE IInv'
    <2> USE <1>3 DEF DeleteRow, request
    <2>1. begun /\ Last' = Last /\ doomed' \cup target' = doomed \cup target
        BY DEF IInv, ResetTidy, Last
    <2>2. TypeOK'
        BY DEF IInv, TypeOK
    <2>3. ResetTidy'
        BY <2>1 DEF IInv, ResetTidy
    <2>4. TouchesOwn'
        BY <2>1 DEF IInv, TouchesOwn, Touched, TenantOf
    <2>5. OldGoes'
        BY <2>1 DEF IInv, OldGoes, TenantOf
    <2> QED
        BY <2>2, <2>3, <2>4, <2>5, TablesStay DEF IInv
<1>4. CASE DeleteEnds
    <2>0. /\ begun /\ target = {} /\ ~begun' /\ step' = step + 1
          /\ UNCHANGED <<rows, caller, req, owner, kind, on, work, status,
                         scope, purge, target, doomed, old, resets>>
        BY <1>4 DEF DeleteEnds, request
    <2>1. step \in 1..Last /\ Last' = Last /\ Last \in {10, 12}
        BY <2>0, OrderFacts DEF IInv, ResetTidy, Last
    <2>2. /\ step + 1 \in 1..(Last + 1) /\ step + 1 \in Nat
          /\ step # 0 /\ step + 1 # 0
          /\ \A i \in 1..Last : i < step + 1 => i < step \/ i = step
        BY <2>1, OneFurther
    <2>3. TypeOK'
        <3>1. step' \in Nat /\ begun' \in BOOLEAN
            BY <1>4, <2>0, <2>2 DEF DeleteEnds
        <3> QED
            BY <2>0, <3>1 DEF IInv, TypeOK
    <2>4. ResetTidy'
        <3>1. scope \in Callers /\ <<scope, "keys">> \in old /\ <<scope, "tenants">> \in old
            BY <2>2 DEF IInv, ResetTidy
        <3> QED
            BY <2>0, <2>1, <2>2, <3>1 DEF ResetTidy
    <2>5. TouchesOwn'
        <3>1. \A i \in 1..Last : i <= step => i <= step'
            BY <2>0, <2>1
        <3> QED
            BY <2>0, <2>1, <3>1 DEF IInv, TouchesOwn, Touched, TenantOf
    <2>6. OldGoes'
        <3>1. \A x \in old, i \in 1..Last : x[2] = Order[i] /\ i < step' => x \in doomed
            BY <2>0, <2>2 DEF IInv, OldGoes
        <3> SUFFICES ASSUME NEW x \in old
                     PROVE (/\ TenantOf(x[1]) = scope
                            /\ x[1] \in Requests => req[x[1]] = "done"
                            /\ x[2] # "jobs" => x \in rows
                            /\ \A i \in 1..Last : x[2] = Order[i] =>
                                  /\ i < step => x \in doomed
                                  /\ i = step /\ begun => x \in doomed \cup target)'
            BY <2>0 DEF OldGoes
        <3>2. (\A i \in 1..Last : x[2] = Order[i] =>
                                  /\ i < step => x \in doomed
                                  /\ i = step /\ begun => x \in doomed \cup target)'
            BY <2>0, <2>1, <3>1
        <3>3. (TenantOf(x[1]) = scope)'
            BY <2>0 DEF IInv, OldGoes, TenantOf
        <3>4. (x[1] \in Requests => req[x[1]] = "done")' /\ (x[2] # "jobs" => x \in rows)'
            BY <2>0 DEF IInv, OldGoes
        <3> QED
            BY <3>2, <3>3, <3>4
    <2>7. UNCHANGED <<rows, caller, request, work, status>>
        BY <2>0 DEF request
    <2> QED
        BY <2>3, <2>4, <2>5, <2>6, <2>7, TablesStay DEF IInv
<1>5. CASE ResetFails \/ ResetIsVictim
    BY <1>5, EndsNext DEF ResetFails, ResetIsVictim
<1>6. CASE ResetCommits
    <2> USE <1>6 DEF ResetCommits, Ends, request
    <2>1. \A c \in Callers, t \in {"keys", "tenants"} :
              <<c, t>> \in rows' <=> <<c, t>> \in rows /\ ~(purge /\ c = scope)
        BY CommitIdentity
    <2>2. TypeOK'
        <3>1. rows' \subseteq Rows
            BY DEF IInv, TypeOK
        <3> QED
            BY <3>1 DEF IInv, TypeOK
    <2>3. KeyNamesTenant'
        BY <2>1 DEF IInv, KeyNamesTenant, Visible
    <2>4. OneKeyed'
        BY <2>1 DEF IInv, OneKeyed, KeyIssued, Visible
    <2>5. RowsHaveOrigin' /\ RequestsInOrder'
        BY DEF IInv, RowsHaveOrigin, RequestsInOrder
    <2>6. ResetTidy' /\ TouchesOwn' /\ OldGoes'
        BY DEF ResetTidy, TouchesOwn, OldGoes
    <2> QED
        BY <2>2, <2>3, <2>4, <2>5, <2>6 DEF IInv
<1> QED
    BY <1>1, <1>2, <1>3, <1>4, <1>5, <1>6 DEF Reset

-----------------------------------------------------------------------------
(***************************************************************************)
(* Theorems.                                                               *)
(***************************************************************************)

\* Every step keeps the invariant.
LEMMA InvKeeps == IInv /\ [Next]_vars => IInv'
<1> SUFFICES ASSUME IInv, [Next]_vars PROVE IInv'
    OBVIOUS
<1>1. CASE Next
    BY <1>1, CreateNext, RequestNext, WorkNext, ResetNext DEF Next
<1>2. CASE UNCHANGED vars
    <2> USE <1>2 DEF vars, reset
    <2>1. TypeOK'
        BY DEF IInv, TypeOK, request
    <2>2. (KeyNamesTenant /\ OneKeyed /\ RowsHaveOrigin /\ RequestsInOrder)'
        BY TablesStay
    <2>3. (ResetTidy /\ TouchesOwn)'
        BY DEF IInv, ResetTidy, TouchesOwn, Touched, TenantOf, Last, request
    <2>4. OldGoes'
        BY DEF IInv, OldGoes, TenantOf, Last, request
    <2> QED
        BY <2>1, <2>2, <2>3, <2>4 DEF IInv
<1> QED
    BY <1>1, <1>2

\* The inductive invariant holds in every reachable state.
THEOREM Invariance == Spec => []IInv
BY InitIInv, InvKeeps, PTL DEF Spec

\* Every variable keeps its type.
THEOREM Typing == Spec => []TypeOK
<1>1. IInv => TypeOK
    BY DEF IInv
<1> QED
    BY <1>1, Invariance, PTL

\* One key, one tenant, whatever create_tenant and purges race for.
THEOREM Identification == Spec => []KeyNamesTenant
<1>1. IInv => KeyNamesTenant
    BY DEF IInv
<1> QED
    BY <1>1, Invariance, PTL

\* Nobody but the reset moves from table to table.
LEMMA ResetOnly == ASSUME IInv, Next, step' # step PROVE Reset
<1>1. ~CreateTenant
    BY DEF CreateTenant, LookUpKey, InsertKey, CommitTenant, reset
<1>2. \A r \in Requests : ~Request(r)
    BY DEF Request, Authenticate, Flushes, CreateAccount, CreateSubscription, CreateMerchant,
       CreateVirtualAccount, InitiatePayment, InstantTransfer, CreateMandate, CollectMandate,
       CommitRequest, reset
<1>3. \A r \in Requests : ~Work(r)
    BY WorkShape DEF Others, reset
<1> QED
    BY <1>1, <1>2, <1>3 DEF Next

\* A reset that commits deletes all that was there when it began.
THEOREM Cleanliness == Spec => ResetWipesThePast
<1> DEFINE Clean == step # 0 /\ rows' # rows /\ step' = 0 => rows' \cap Wiped = {}
<1>1. IInv /\ [Next]_vars => [Clean]_vars
    <2> SUFFICES ASSUME IInv, Next, step # 0, rows' # rows, step' = 0
                 PROVE  rows' \cap Wiped = {}
        OBVIOUS
    <2>1. ResetCommits
        BY ResetOnly DEF Reset, ResetStarts, DeleteStarts, DeleteRow, DeleteEnds, ResetFails,
           ResetIsVictim
    <2> QED
        BY <2>1, CommitWipes DEF ResetCommits
<1> HIDE DEF Clean
<1>2. Spec => [][Clean]_vars
    BY <1>1, Invariance, PTL DEF Spec
<1> QED
    BY <1>2 DEF ResetWipesThePast, Clean

-----------------------------------------------------------------------------
(***************************************************************************)
(* What belongs together.  The order of the DELETEs puts a record after    *)
(* what it answers for, except merchants, and a payment after its entries: *)
(* when the first of two is deleted, the second is not past its turn.      *)
(***************************************************************************)
Follows(x, y) ==
    /\ x[1] \in Requests /\ y[1] = x[1]
    /\ \/ x[2] = kind[x[1]] /\ x[2] # "merchants" /\ y[2] = "records"
       \/ x[2] = "entries" /\ y[2] = "payments"

FollowersGo ==
    \A x \in doomed \cup target, y \in rows : Follows(x, y) =>
        \A i \in 1..Last : y[2] = Order[i] =>
            /\ i < step => y \in doomed
            /\ i = step /\ begun => y \in doomed \cup target

SettledIsDone == \A p \in Requests : status[p] = "settled" => req[p] = "done"

Together == RepliesHaveSubjects /\ SettledKeepsEntries /\ SettledIsDone /\ FollowersGo

\* Followers come later in the order.
LEMMA FollowersAreLater ==
    ASSUME TypeOK, NEW x, NEW y, Follows(x, y),
           NEW i \in 1..12, Order[i] = x[2], NEW j \in 1..12, Order[j] = y[2]
    PROVE  i < j
<1>1. \A n \in 1..12 : /\ Order[n] = "records" => n = 9
                       /\ Order[n] = "payments" => n = 3
                       /\ Order[n] = "entries" => n = 1
                       /\ Order[n] \in Kinds \ {"merchants"} => n < 9
    BY DEF Order, Kinds
<1>2. CASE x[2] = kind[x[1]] /\ x[2] # "merchants" /\ y[2] = "records"
    <2>1. x[2] \in Kinds \cup {"none"}
        BY <1>2 DEF TypeOK, Follows
    <2>2. \A n \in 1..12 : Order[n] # "none"
        BY DEF Order
    <2>3. x[2] \in Kinds \ {"merchants"}
        BY <1>2, <2>1, <2>2
    <2> QED
        BY <1>1, <1>2, <2>3
<1>3. CASE x[2] = "entries" /\ y[2] = "payments"
    BY <1>1, <1>3
<1> QED
    BY <1>2, <1>3 DEF Follows

\* A follower is a row of its own request, in a table that has a turn.
LEMMA FollowersTurn ==
    ASSUME IInv, NEW x \in doomed \cup target, NEW y \in rows, Follows(x, y)
    PROVE  /\ x \in rows
           /\ y[2] \in {"records", "payments"}
           /\ TenantOf(y[1]) = scope
           /\ \E j \in 1..10 : Order[j] = y[2]
<1>1. x \in rows /\ TenantOf(x[1]) = scope
    BY DEF IInv, TouchesOwn
<1>2. y[1] = x[1] /\ y[2] \in {"records", "payments"}
    BY DEF Follows
<1>3. Order[3] = "payments" /\ Order[9] = "records"
    BY DEF Order
<1> QED
    BY <1>1, <1>2, <1>3

\* Nothing is together at the beginning.
LEMMA InitTogether == Init => Together
BY DEF Init, Together, RepliesHaveSubjects, SettledKeepsEntries, SettledIsDone, FollowersGo, Visible

\* Steps of others cannot make a follower of what the reset has touched.
LEMMA FollowersStay ==
    ASSUME IInv, FollowersGo, UNCHANGED reset,
           \A x \in rows : x[1] \in Requests => kind'[x[1]] = kind[x[1]],
           \A y \in rows' \ rows :
               y[2] \in {"records", "payments"} => y[1] \in Requests /\ req[y[1]] # "done"
    PROVE  FollowersGo'
<1> SUFFICES ASSUME NEW x \in doomed \cup target, NEW y \in rows', Follows(x, y)',
                    NEW i \in 1..Last, y[2] = Order[i]
             PROVE  /\ i < step => y \in doomed
                    /\ i = step /\ begun => y \in doomed \cup target
    BY DEF FollowersGo, reset, Last
<1>1. x \in rows /\ x[1] \in Requests /\ y[1] = x[1] /\ y[2] \in {"records", "payments"}
    BY DEF IInv, TouchesOwn, Follows
<1>2. req[x[1]] = "done"
    BY <1>1 DEF IInv, RowsHaveOrigin
<1>3. y \in rows
    BY <1>1, <1>2
<1>4. Follows(x, y)
    BY <1>1 DEF Follows
<1> QED
    BY <1>3, <1>4 DEF FollowersGo

\* create_tenant does not touch what belongs together.
LEMMA CreateTogether == ASSUME IInv, Together, CreateTenant PROVE Together'
<1>1. PICK c \in Callers : LookUpKey(c) \/ InsertKey(c) \/ CommitTenant(c)
    BY DEF CreateTenant
<1>2. /\ UNCHANGED <<req, kind, status, reset>>
      /\ rows \subseteq rows' /\ rows' \subseteq rows \cup {<<c, "tenants">>, <<c, "keys">>}
    BY <1>1 DEF LookUpKey, InsertKey, CommitTenant, request
<1>3. FollowersGo'
    BY <1>2, FollowersStay DEF Together
<1>4. \A r \in Requests : <<r, "records">> \in rows' => <<r, "records">> \in rows
    BY <1>2
<1>5. \A r \in Requests : <<r, "payments">> \in rows' => <<r, "payments">> \in rows
    BY <1>2
<1>6. RepliesHaveSubjects'
    BY <1>2, <1>4 DEF Together, RepliesHaveSubjects, Visible
<1>7. SettledKeepsEntries' /\ SettledIsDone'
    BY <1>2, <1>5 DEF Together, SettledKeepsEntries, SettledIsDone, Visible
<1> QED
    BY <1>3, <1>6, <1>7 DEF Together

\* A request inserts its record together with what it is about.
LEMMA RequestTogether ==
    ASSUME IInv, Together, NEW r \in Requests, Request(r) PROVE Together'
<1>1. CASE CommitRequest(r)
    <2> USE <1>1 DEF CommitRequest
    <2>1. req[r] = "flushed" /\ kind[r] \in Kinds /\ status[r] # "settled"
        BY DEF IInv, RequestsInOrder, Together, SettledIsDone
    <2>2. FollowersGo'
        <3>1. \A y \in rows' \ rows : y[1] = r
            BY DEF Inserted
        <3> QED
            BY <2>1, <3>1, FollowersStay DEF Together
    <2>3. \A q \in Requests \ {r} : \A t \in Tables : <<q, t>> \in rows' <=> <<q, t>> \in rows
        BY DEF Inserted
    <2>4. <<r, kind[r]>> \in rows'
        BY DEF Inserted
    <2>5. RepliesHaveSubjects'
        <3> SUFFICES ASSUME NEW q \in Requests, <<q, "records">> \in rows',
                            kind[q] # "merchants"
                     PROVE  <<q, kind[q]>> \in rows'
            BY DEF RepliesHaveSubjects, Visible
        <3>1. CASE q = r
            BY <2>4, <3>1
        <3>2. CASE q # r
            <4>1. <<q, "records">> \in rows
                BY <2>3, <3>2 DEF Tables
            <4> QED
                BY <4>1 DEF Together, RepliesHaveSubjects, Visible
        <3> QED
            BY <3>1, <3>2
    <2>6. SettledKeepsEntries'
        <3> SUFFICES ASSUME NEW q \in Requests, status[q] = "settled",
                            <<q, "payments">> \in rows'
                     PROVE  <<q, "entries">> \in rows'
            BY DEF SettledKeepsEntries, Visible
        <3>1. <<q, "payments">> \in rows
            BY <2>1, <2>3 DEF Tables, Kinds
        <3> QED
            BY <3>1 DEF Together, SettledKeepsEntries, Visible
    <2>7. SettledIsDone'
        BY <2>1 DEF Together, SettledIsDone, IInv, TypeOK
    <2> QED
        BY <2>2, <2>5, <2>6, <2>7 DEF Together
<1>2. CASE ~CommitRequest(r)
    <2>1. /\ req[r] \in {"new", "known"} /\ UNCHANGED <<rows, status, reset>>
          /\ \A q \in Requests \ {r} : kind'[q] = kind[q] /\ req'[q] = req[q]
        <3>1. CASE Authenticate(r)
            BY <3>1 DEF Authenticate, IInv, TypeOK
        <3>2. ASSUME NEW k, NEW a, Flushes(r, k, a)
              PROVE  /\ req[r] \in {"new", "known"} /\ UNCHANGED <<rows, status, reset>>
                     /\ \A q \in Requests \ {r} : kind'[q] = kind[q] /\ req'[q] = req[q]
            BY <3>2 DEF Flushes, IInv, TypeOK
        <3> QED
            BY <1>2, <3>1, <3>2 DEF Request, CreateAccount, CreateVirtualAccount, InitiatePayment,
               InstantTransfer, CreateMandate, CollectMandate, CreateSubscription, CreateMerchant
    <2>2. \A x \in rows : x[1] \in Requests => x[1] # r
        BY <2>1 DEF IInv, RowsHaveOrigin
    <2>3. FollowersGo'
        BY <2>1, <2>2, FollowersStay DEF Together
    <2>4. RepliesHaveSubjects'
        BY <2>1, <2>2 DEF Together, RepliesHaveSubjects, Visible
    <2>5. SettledKeepsEntries'
        BY <2>1 DEF Together, SettledKeepsEntries, Visible
    <2>6. SettledIsDone'
        BY <2>1 DEF Together, SettledIsDone
    <2> QED
        BY <2>3, <2>4, <2>5, <2>6 DEF Together
<1> QED
    BY <1>1, <1>2

\* Work that settles a payment books its entries in the same transaction.
LEMMA WorkTogether ==
    ASSUME IInv, Together, NEW r \in Requests, Work(r) PROVE Together'
<1>1. /\ req[r] = "done"
      /\ UNCHANGED <<req, kind, reset>>
      /\ rows' \subseteq rows \cup {<<r, t>> : t \in Made}
      /\ rows \ {<<r, "jobs">>} \subseteq rows'
    BY WorkShape DEF Others, request
<1>2. \A q \in Requests : status'[q] = "settled" =>
          status[q] = "settled" \/ (q = r /\ <<q, "entries">> \in rows')
    <2>1. CASE SettlePayment(r)
        <3>1. <<r, "entries">> \in rows'
            BY <2>1 DEF SettlePayment
        <3> QED
            BY <2>1, <3>1 DEF SettlePayment, IInv, TypeOK
    <2>2. CASE Reject(r)
        BY <2>2 DEF Reject, IInv, TypeOK
    <2>3. CASE ~SettlePayment(r) /\ ~Reject(r)
        <3>1. status' = status
            BY <2>3 DEF Work, JobFindsNothing, LockPayment, CheckDebtor, PostEntries, GenerateDay,
               SettleDay, InsertForMerchant, CommitForMerchant, WorkRaises, WorkIsVictim
        <3> QED
            BY <3>1
    <2> QED
        BY <2>1, <2>2, <2>3
<1>3. FollowersGo'
    <2>1. \A y \in rows' \ rows : y[2] \notin {"records", "payments"}
        BY <1>1 DEF Made
    <2> QED
        BY <1>1, <2>1, FollowersStay DEF Together
<1>4. \A q \in Requests, t \in {"records", "payments"} : <<q, t>> \in rows' => <<q, t>> \in rows
    BY <1>1 DEF Made
<1>5. \A q \in Requests, t \in Kinds \cup {"entries"} : <<q, t>> \in rows => <<q, t>> \in rows'
    BY <1>1 DEF Kinds
<1>6. RepliesHaveSubjects'
    <2> SUFFICES ASSUME NEW q \in Requests, <<q, "records">> \in rows', kind[q] # "merchants"
                 PROVE  <<q, kind[q]>> \in rows'
        BY <1>1 DEF RepliesHaveSubjects, Visible
    <2>1. <<q, "records">> \in rows
        BY <1>4
    <2>2. req[q] = "done" /\ kind[q] \in Kinds
        BY <2>1 DEF IInv, RowsHaveOrigin, RequestsInOrder
    <2>3. <<q, kind[q]>> \in rows
        BY <2>1 DEF Together, RepliesHaveSubjects, Visible
    <2> QED
        BY <1>5, <2>2, <2>3
<1>7. SettledKeepsEntries'
    BY <1>2, <1>4, <1>5 DEF Together, SettledKeepsEntries, Visible
<1>8. SettledIsDone'
    BY <1>1, <1>2 DEF Together, SettledIsDone
<1> QED
    BY <1>3, <1>6, <1>7, <1>8 DEF Together

\* A step of the reset that is not its end keeps what is committed.
LEMMA TablesStayTogether ==
    ASSUME Together, UNCHANGED <<rows, caller, request, work, status>>
    PROVE  (RepliesHaveSubjects /\ SettledKeepsEntries /\ SettledIsDone)'
BY DEF request, Together, RepliesHaveSubjects, SettledKeepsEntries, SettledIsDone, Visible

\* The reset deletes neither the subject of a record it keeps nor the entries of a
\* payment it keeps.
LEMMA ResetTogether == ASSUME IInv, Together, Reset PROVE Together'
<1>1. ASSUME NEW c \in Callers, ResetStarts(c) PROVE Together'
    <2>1. doomed' = {} /\ target' = {} /\ UNCHANGED <<rows, caller, request, work, status>>
        BY <1>1 DEF ResetStarts, IInv, ResetTidy
    <2> QED
        BY <2>1, TablesStayTogether DEF Together, FollowersGo
<1>2. CASE DeleteStarts
    <2> DEFINE T == {x \in OfTenant(scope) : x[2] = Current}
    <2>0. /\ step \in 1..Last /\ target = {} /\ target' = T /\ begun' = (T # {})
          /\ step' = IF T = {} THEN step + 1 ELSE step
          /\ UNCHANGED <<rows, caller, req, owner, kind, on, work, status, scope, purge, doomed>>
        BY <1>2 DEF DeleteStarts, request, IInv, ResetTidy
    <2>1. T \subseteq rows /\ \A x \in T : x[2] = Order[step]
        BY DEF OfTenant, Current
    <2>2. \A y \in rows : TenantOf(y[1]) = scope /\ y[2] = Order[step] => y \in T
        BY DEF OfTenant, Current
    <2>3. Last' = Last /\ Last \in {10, 12}
        BY <2>0, OrderFacts DEF Last
    <2> HIDE DEF T
    <2>4. \/ T = {} /\ step' = step + 1 /\ ~begun'
          \/ T # {} /\ step' = step /\ begun'
        BY <2>0
    <2>5. \A i \in 1..Last : i < step + 1 => i < step \/ i = step
        BY <2>0, <2>3, OneFurther
    <2>6. ASSUME NEW x \in doomed \cup T, NEW y \in rows, Follows(x, y),
                 NEW i \in 1..Last, y[2] = Order[i]
          PROVE  /\ i < step' => y \in doomed
                 /\ i = step' /\ begun' => y \in doomed \cup T
        <3>1. CASE x \in doomed
            <4>1. i < step => y \in doomed
                BY <2>6, <3>1 DEF Together, FollowersGo
            <4>2. i = step => y \in T
                BY <2>2, <2>6, <3>1, FollowersTurn
            <4>3. CASE T = {}
                BY <2>4, <2>5, <4>1, <4>2, <4>3
            <4>4. CASE T # {}
                BY <2>4, <4>1, <4>2, <4>4
            <4> QED
                BY <4>3, <4>4
        <3>2. CASE x \in T
            <4>1. i \in 1..12 /\ step \in 1..12 /\ TypeOK /\ Order[step] = x[2]
                BY <2>0, <2>1, <2>3, <3>2 DEF IInv
            <4>2. step < i
                BY <2>6, <4>1, FollowersAreLater
            <4>3. step' = step
                BY <2>4, <3>2
            <4> QED
                BY <4>1, <4>2, <4>3
        <3> QED
            BY <3>1, <3>2
    <2>7. FollowersGo'
        <3> SUFFICES ASSUME NEW x \in doomed \cup T, NEW y \in rows, Follows(x, y)',
                            NEW i \in 1..Last, y[2] = Order[i]
                     PROVE  /\ i < step' => y \in doomed
                            /\ i = step' /\ begun' => y \in doomed \cup T
            BY <2>0, <2>3 DEF FollowersGo
        <3>1. Follows(x, y)
            BY <2>0 DEF Follows
        <3> QED
            BY <2>6, <3>1
    <2>8. UNCHANGED <<rows, caller, request, work, status>>
        BY <2>0 DEF request
    <2> QED
        BY <2>7, <2>8, TablesStayTogether DEF Together
<1>3. ASSUME NEW x \in target, DeleteRow(x) PROVE Together'
    <2>1. /\ UNCHANGED <<rows, caller, request, work, status>>
          /\ UNCHANGED <<step, begun, purge, kind>>
          /\ doomed \subseteq doomed' /\ doomed' \cup target' = doomed \cup target
        BY <1>3 DEF DeleteRow, request
    <2>2. FollowersGo'
        BY <2>1 DEF Together, FollowersGo, Follows, Last
    <2> QED
        BY <2>1, <2>2, TablesStayTogether DEF Together
<1>4. CASE DeleteEnds
    <2>1. /\ begun /\ target = {} /\ ~begun' /\ step' = step + 1
          /\ UNCHANGED <<rows, kind, doomed, target, purge>>
          /\ UNCHANGED <<rows, caller, request, work, status>>
        BY <1>4 DEF DeleteEnds, request
    <2>2. step \in 1..Last /\ Last' = Last /\ Last \in {10, 12}
        BY <2>1, OrderFacts DEF IInv, ResetTidy, Last
    <2>3. \A i \in 1..Last : i < step + 1 => i < step \/ i = step
        BY <2>2, OneFurther
    <2>4. FollowersGo'
        <3> SUFFICES ASSUME NEW x \in doomed \cup target, NEW y \in rows, Follows(x, y)',
                            NEW i \in 1..Last, y[2] = Order[i], i < step'
                     PROVE  y \in doomed
            BY <2>1, <2>2 DEF FollowersGo
        <3>1. Follows(x, y)
            BY <2>1 DEF Follows
        <3> QED
            BY <2>1, <2>3, <3>1 DEF Together, FollowersGo
    <2> QED
        BY <2>1, <2>4, TablesStayTogether DEF Together
<1>5. CASE ResetFails \/ ResetIsVictim
    <2>1. doomed' = {} /\ target' = {} /\ UNCHANGED <<rows, caller, request, work, status>>
        BY <1>5 DEF ResetFails, ResetIsVictim, Ends
    <2> QED
        BY <2>1, TablesStayTogether DEF Together, FollowersGo
<1>6. CASE ResetCommits
    <2>1. /\ step = Last + 1 /\ rows' = rows \ doomed /\ doomed' = {} /\ target' = {}
          /\ UNCHANGED <<req, kind, status>>
        BY <1>6 DEF ResetCommits, Ends, request
    <2>2. ASSUME NEW x \in doomed, NEW y \in rows, Follows(x, y) PROVE y \in doomed
        <3>1. PICK j \in 1..10 : Order[j] = y[2]
            BY <2>2, FollowersTurn
        <3>2. j \in 1..Last /\ j < step
            BY <2>1, OrderFacts
        <3> QED
            BY <2>2, <3>1, <3>2 DEF Together, FollowersGo
    <2>3. RepliesHaveSubjects'
        <3> SUFFICES ASSUME NEW r \in Requests, <<r, "records">> \in rows \ doomed,
                            kind[r] # "merchants"
                     PROVE  <<r, kind[r]>> \in rows \ doomed
            BY <2>1 DEF RepliesHaveSubjects, Visible
        <3>1. <<r, kind[r]>> \in rows
            BY DEF Together, RepliesHaveSubjects, Visible
        <3>2. Follows(<<r, kind[r]>>, <<r, "records">>)
            BY DEF Follows
        <3> QED
            BY <2>2, <3>1, <3>2
    <2>4. SettledKeepsEntries'
        <3> SUFFICES ASSUME NEW p \in Requests, status[p] = "settled",
                            <<p, "payments">> \in rows \ doomed
                     PROVE  <<p, "entries">> \in rows \ doomed
            BY <2>1 DEF SettledKeepsEntries, Visible
        <3>1. <<p, "entries">> \in rows
            BY DEF Together, SettledKeepsEntries, Visible
        <3>2. Follows(<<p, "entries">>, <<p, "payments">>)
            BY DEF Follows
        <3> QED
            BY <2>2, <3>1, <3>2
    <2>5. SettledIsDone' /\ FollowersGo'
        BY <2>1 DEF Together, SettledIsDone, FollowersGo
    <2> QED
        BY <2>3, <2>4, <2>5 DEF Together
<1> QED
    BY <1>1, <1>2, <1>3, <1>4, <1>5, <1>6 DEF Reset

\* What belongs together stays together.
LEMMA Togetherness == Spec => []Together
<1>1. IInv /\ Together /\ [Next]_vars => Together'
    <2> SUFFICES ASSUME IInv, Together, [Next]_vars PROVE Together'
        OBVIOUS
    <2>1. CASE Next
        BY <2>1, CreateTogether, RequestTogether, WorkTogether, ResetTogether DEF Next
    <2>2. CASE UNCHANGED vars
        <3>1. UNCHANGED reset /\ UNCHANGED <<rows, caller, request, work, status>>
            BY <2>2 DEF vars
        <3>2. FollowersGo'
            BY <3>1, FollowersStay DEF request, Together
        <3> QED
            BY <3>1, <3>2, TablesStayTogether DEF Together
    <2> QED
        BY <2>1, <2>2
<1> QED
    BY InitTogether, Invariance, <1>1, PTL DEF Spec

\* However a reset and requests interleave, a record that is left has its subject, unless
\* that is a merchant: merchants are deleted after the records (admin/api.py:
\* reset_tenant), so what is posted between the two loses its merchant only.
THEOREM Replies == Spec => []RepliesHaveSubjects
<1>1. Together => RepliesHaveSubjects
    BY DEF Together
<1> QED
    BY <1>1, Togetherness, PTL

\* However a reset and settlements interleave, a settled payment has its entries.
THEOREM Bookkeeping == Spec => []SettledKeepsEntries
<1>1. Together => SettledKeepsEntries
    BY DEF Together
<1> QED
    BY <1>1, Togetherness, PTL

-----------------------------------------------------------------------------
(***************************************************************************)
(* Why a reset fails.  A payment names an account of its own tenant, so    *)
(* its entries go before that account; what the tenant has at rest goes    *)
(* children first.  Only an account of another tenant can stay and refer   *)
(* to what is deleted.                                                     *)
(***************************************************************************)

\* What a payment or a mandate names is committed and of its tenant; entries and
\* mandates are what their requests created, and only payments are processed.
NamesOwn ==
    /\ \A r \in Requests :
          req[r] \in {"flushed", "done"} /\ kind[r] \in {"payments", "mandates"} =>
              on[r] \in Requests /\ req[on[r]] = "done" /\ owner[on[r]] = owner[r]
    /\ \A r \in Requests :
          /\ <<r, "mandates">> \in rows => kind[r] = "mandates"
          /\ <<r, "entries">> \in rows => kind[r] = "payments"
          /\ work[r] \in {"locked", "rejecting", "settling", "posted"} => kind[r] = "payments"

\* Nothing is named at the beginning.
LEMMA InitNames == Init => NamesOwn
BY DEF Init, NamesOwn

\* An insert in memory keeps it, if what it names is committed and of its tenant.
LEMMA FlushNames ==
    ASSUME IInv, NamesOwn, NEW r \in Requests, NEW k \in Kinds, NEW a, Flushes(r, k, a),
           k \in {"payments", "mandates"} =>
               a \in Requests /\ req[a] = "done" /\ owner[a] = owner[r]
    PROVE  NamesOwn'
<1>1. /\ req[r] = "known" /\ UNCHANGED <<rows, work, owner>>
      /\ req'[r] = "flushed" /\ kind'[r] = k /\ on'[r] = a
      /\ \A s \in Requests \ {r} : req'[s] = req[s] /\ kind'[s] = kind[s] /\ on'[s] = on[s]
    BY DEF Flushes, IInv, TypeOK
<1>2. ASSUME NEW s \in Requests, req'[s] \in {"flushed", "done"},
             kind'[s] \in {"payments", "mandates"}
      PROVE  on'[s] \in Requests /\ req'[on'[s]] = "done" /\ owner'[on'[s]] = owner'[s]
    <2>1. on'[s] \in Requests /\ req[on'[s]] = "done" /\ owner[on'[s]] = owner[s]
        BY <1>1, <1>2 DEF NamesOwn
    <2> QED
        BY <1>1, <2>1
<1>3. work[r] = "idle" /\ <<r, "mandates">> \notin rows /\ <<r, "entries">> \notin rows
    BY <1>1 DEF IInv, RowsHaveOrigin, RequestsInOrder
<1>4. ASSUME NEW s \in Requests
      PROVE  /\ <<s, "mandates">> \in rows' => kind'[s] = "mandates"
             /\ <<s, "entries">> \in rows' => kind'[s] = "payments"
             /\ work'[s] \in {"locked", "rejecting", "settling", "posted"} =>
                    kind'[s] = "payments"
    <2>1. CASE s = r
        BY <1>1, <1>3, <2>1
    <2>2. CASE s # r
        BY <1>1, <2>2 DEF NamesOwn
    <2> QED
        BY <2>1, <2>2
<1> QED
    BY <1>2, <1>4 DEF NamesOwn

\* A row a request sees belongs to a committed request of its tenant.
LEMMA SeenIsDone ==
    ASSUME IInv, NEW r \in Requests, NEW a \in Requests, NEW t \in Tables, Sees(r, a, t)
    PROVE  req[a] = "done" /\ owner[a] = owner[r]
BY DEF Sees, Visible, IInv, RowsHaveOrigin

\* Requests name what they see, and a collection what its mandate names.
LEMMA RequestNames ==
    ASSUME IInv, NamesOwn, NEW r \in Requests, Request(r) PROVE NamesOwn'
<1>1. CASE Authenticate(r)
    <2>1. /\ req[r] = "new" /\ req'[r] = "known" /\ UNCHANGED <<rows, work, kind, on>>
          /\ \A s \in Requests \ {r} : req'[s] = req[s] /\ owner'[s] = owner[s]
        BY <1>1 DEF Authenticate, IInv, TypeOK
    <2> QED
        BY <2>1 DEF NamesOwn
<1>2. CASE CreateAccount(r) \/ CreateSubscription(r) \/ CreateMerchant(r)
    BY <1>2, FlushNames DEF CreateAccount, CreateSubscription, CreateMerchant, Kinds
<1>3. ASSUME NEW a \in Requests, CreateVirtualAccount(r, a) PROVE NamesOwn'
    BY <1>3, FlushNames DEF CreateVirtualAccount, Kinds
<1>4. ASSUME NEW a \in Requests, InitiatePayment(r, a) \/ InstantTransfer(r, a)
                                 \/ CreateMandate(r, a)
      PROVE  NamesOwn'
    <2>1. Sees(r, a, "accounts")
        BY <1>4 DEF InitiatePayment, InstantTransfer, CreateMandate
    <2>2. req[a] = "done" /\ owner[a] = owner[r]
        BY <2>1, SeenIsDone DEF Tables, Kinds
    <2> QED
        BY <1>4, <2>2, FlushNames DEF InitiatePayment, InstantTransfer, CreateMandate, Kinds
<1>5. ASSUME NEW m \in Requests, CollectMandate(r, m) PROVE NamesOwn'
    <2>1. Sees(r, m, "mandates") /\ Flushes(r, "payments", on[m])
        BY <1>5 DEF CollectMandate
    <2>2. req[m] = "done" /\ owner[m] = owner[r]
        BY <2>1, SeenIsDone DEF Tables, Kinds
    <2>3. kind[m] = "mandates"
        BY <2>1 DEF Sees, Visible, NamesOwn
    <2>4. on[m] \in Requests /\ req[on[m]] = "done" /\ owner[on[m]] = owner[r]
        BY <2>2, <2>3 DEF NamesOwn
    <2> QED
        BY <2>1, <2>4, FlushNames DEF Kinds
<1>6. CASE CommitRequest(r)
    <2>1. /\ req[r] = "flushed" /\ req'[r] = "done" /\ UNCHANGED <<owner, kind, on, work>>
          /\ \A s \in Requests \ {r} : req'[s] = req[s]
          /\ rows' = rows \cup Inserted(r)
        BY <1>6 DEF CommitRequest, IInv, TypeOK
    <2>2. \A s \in Requests : <<s, "entries">> \in rows' => <<s, "entries">> \in rows
        <3>1. kind[r] # "entries"
            BY DEF IInv, TypeOK, Kinds
        <3> QED
            BY <2>1, <3>1 DEF Inserted
    <2>3. \A s \in Requests : <<s, "mandates">> \in rows' =>
              <<s, "mandates">> \in rows \/ kind[s] = "mandates"
        BY <2>1 DEF Inserted
    <2> QED
        BY <2>1, <2>2, <2>3 DEF NamesOwn
<1> QED
    BY <1>1, <1>2, <1>3, <1>4, <1>5, <1>6 DEF Request

\* Work on anything but a payment books no entries.
LEMMA WorkNames ==
    ASSUME IInv, NamesOwn, NEW r \in Requests, Work(r) PROVE NamesOwn'
<1>1. /\ req[r] = "done"
      /\ UNCHANGED <<req, owner, kind, on>>
      /\ rows' \subseteq rows \cup {<<r, t>> : t \in Made}
    BY WorkShape DEF Others, request
<1>2. \A q \in Requests \ {r} : work'[q] = work[q]
    BY WorkType
<1>3. work'[r] \in {"locked", "rejecting", "settling", "posted"} => kind[r] = "payments"
    <2> USE DEF IInv, TypeOK, Becomes
    <2>1. CASE LockPayment(r)
        BY <2>1 DEF LockPayment
    <2>2. CASE CheckDebtor(r) \/ PostEntries(r)
        BY <2>2 DEF CheckDebtor, PostEntries, NamesOwn
    <2>3. CASE JobFindsNothing(r)
        BY <2>3 DEF JobFindsNothing
    <2>4. CASE Reject(r) \/ SettlePayment(r)
        BY <2>4 DEF Reject, SettlePayment
    <2>5. CASE GenerateDay(r) \/ SettleDay(r) \/ InsertForMerchant(r)
        BY <2>5 DEF GenerateDay, SettleDay, InsertForMerchant
    <2>6. CASE CommitForMerchant(r) \/ WorkRaises(r) \/ WorkIsVictim(r)
        BY <2>6 DEF CommitForMerchant, WorkRaises, WorkIsVictim
    <2> QED
        BY <2>1, <2>2, <2>3, <2>4, <2>5, <2>6 DEF Work
<1>4. <<r, "entries">> \in rows' => <<r, "entries">> \in rows \/ kind[r] = "payments"
    <2>1. \A W \in Webhook(r) : W \subseteq {<<r, "outbox">>}
        BY DEF Webhook
    <2>2. CASE SettlePayment(r)
        BY <2>2 DEF SettlePayment, NamesOwn
    <2>3. CASE Reject(r) \/ CommitForMerchant(r)
        BY <2>1, <2>3 DEF Reject, CommitForMerchant
    <2>4. CASE ~SettlePayment(r) /\ ~Reject(r) /\ ~CommitForMerchant(r)
        BY <2>4 DEF Work, JobFindsNothing, LockPayment, CheckDebtor, PostEntries, GenerateDay,
           SettleDay, InsertForMerchant, WorkRaises, WorkIsVictim
    <2> QED
        BY <2>2, <2>3, <2>4
<1>5. \A s \in Requests : /\ <<s, "mandates">> \in rows' => <<s, "mandates">> \in rows
                          /\ s # r /\ <<s, "entries">> \in rows' => <<s, "entries">> \in rows
    BY <1>1 DEF Made
<1> QED
    BY <1>1, <1>2, <1>3, <1>4, <1>5 DEF NamesOwn

\* create_tenant and the reset insert nothing that names anything.
LEMMA OthersName ==
    ASSUME NamesOwn, UNCHANGED <<request, work>>,
           \A s \in Requests, t \in {"mandates", "entries"} :
               <<s, t>> \in rows' => <<s, t>> \in rows
    PROVE  NamesOwn'
BY DEF NamesOwn, request

\* Every step keeps it.
LEMMA NamesNext == IInv /\ NamesOwn /\ [Next]_vars => NamesOwn'
<1> SUFFICES ASSUME IInv, NamesOwn, [Next]_vars PROVE NamesOwn'
    OBVIOUS
<1>1. CASE CreateTenant
    <2>1. PICK c \in Callers : LookUpKey(c) \/ InsertKey(c) \/ CommitTenant(c)
        BY <1>1 DEF CreateTenant
    <2>2. /\ UNCHANGED <<request, work>>
          /\ rows' \subseteq rows \cup {<<c, "tenants">>, <<c, "keys">>}
        BY <2>1 DEF LookUpKey, InsertKey, CommitTenant
    <2> QED
        BY <2>2, OthersName
<1>2. ASSUME NEW r \in Requests, Request(r) \/ Work(r) PROVE NamesOwn'
    BY <1>2, RequestNames, WorkNames
<1>3. CASE Reset
    <2>1. UNCHANGED <<request, work>> /\ rows' \subseteq rows
        BY <1>3 DEF Reset, ResetStarts, DeleteStarts, DeleteRow, DeleteEnds, ResetFails,
           ResetCommits, ResetIsVictim
    <2> QED
        BY <2>1, OthersName
<1>4. CASE UNCHANGED vars
    BY <1>4, OthersName DEF vars
<1> QED
    BY <1>1, <1>2, <1>3, <1>4 DEF Next

\* Where the tables are that others refer to or that refer to them.
LEMMA OrderPlaces ==
    /\ Order[1] = "entries" /\ Order[2] = "accounts" /\ Order[5] = "sales"
    /\ Order[6] = "batches" /\ Order[11] = "keys"
    /\ \A i \in 1..12 : /\ Order[i] = "accounts" => i = 2
                        /\ Order[i] = "merchants" => i = 10
                        /\ Order[i] = "tenants" => i = 12
BY DEF Order

\* When nobody is at work and the tenant has nothing new, the DELETE that ends is only
\* in the way of an account of another tenant.
LEMMA NothingRefers ==
    ASSUME IInv, NamesOwn, begun, target = {}, OfTenant(scope) \subseteq old,
           NEW x \in doomed, NEW q \in rows \ doomed, x[2] = Current, Refers(q, x)
    PROVE  /\ q[1] \in Requests /\ q[2] = "accounts"
           /\ TenantOf(q[1]) # scope /\ x = <<on[q[1]], "accounts">>
<1> USE TenantsAssumption
<1>1. /\ step \in 1..Last /\ Last \in {10, 12} /\ x[2] = Order[step]
      /\ TenantOf(x[1]) = scope /\ x \in rows
    BY OrderFacts DEF IInv, ResetTidy, TouchesOwn, Current
<1>2. step \in 1..12 /\ 1 \in 1..Last /\ 2 \in 1..Last /\ 5 \in 1..Last /\ 6 \in 1..Last
    BY <1>1
<1>3. q \in Rows /\ q[1] \in Requests \cup Callers /\ q = <<q[1], q[2]>>
    BY DEF IInv, TypeOK, Rows, Entities
<1>4. ASSUME NEW i \in 1..Last, q[2] = Order[i], i <= step, TenantOf(q[1]) = scope
      PROVE  FALSE
    <2>1. q \in old
        BY <1>4 DEF OfTenant
    <2>2. i < step \/ i = step
        BY <1>1, <1>2, <1>4
    <2>3. q \in doomed \cup target
        BY <1>4, <2>1, <2>2 DEF IInv, OldGoes
    <2> QED
        BY <2>3
<1>5. CASE q[2] = "entries" /\ x = <<on[q[1]], "accounts">>
    <2>1. q[1] \in Requests
        BY <1>3, <1>5 DEF IInv, RowsHaveOrigin
    <2>2. kind[q[1]] = "payments" /\ req[q[1]] = "done"
        <3>1. <<q[1], "entries">> \in rows
            BY <1>3, <1>5
        <3>2. kind[q[1]] = "payments"
            BY <2>1, <3>1 DEF NamesOwn
        <3>3. req[q[1]] = "done"
            BY <2>1 DEF IInv, RowsHaveOrigin
        <3> QED
            BY <3>2, <3>3
    <2>3. on[q[1]] \in Requests /\ owner[on[q[1]]] = owner[q[1]]
        BY <2>1, <2>2 DEF NamesOwn
    <2>4. TenantOf(q[1]) = scope
        BY <1>1, <1>5, <2>1, <2>3 DEF TenantOf
    <2>5. step = 2
        BY <1>1, <1>2, <1>5, OrderPlaces
    <2> QED
        BY <1>2, <1>4, <1>5, <2>4, <2>5, OrderPlaces
<1>6. CASE q[2] = "accounts" /\ x = <<on[q[1]], "accounts">>
    <2>1. q[1] \in Requests
        BY <1>3, <1>6 DEF IInv, RowsHaveOrigin
    <2>2. step = 2
        BY <1>1, <1>2, <1>6, OrderPlaces
    <2>3. TenantOf(q[1]) # scope
        BY <1>2, <1>4, <1>6, <2>2, OrderPlaces
    <2> QED
        BY <1>6, <2>1, <2>3
<1>7. CASE q[2] \in {"sales", "batches"} /\ x = <<q[1], "merchants">>
    <2>1. step = 10
        BY <1>1, <1>2, <1>7, OrderPlaces
    <2>2. TenantOf(q[1]) = scope
        BY <1>1, <1>7
    <2> QED
        BY <1>2, <1>4, <1>7, <2>1, <2>2, OrderPlaces
<1>8. CASE q[2] = "keys" /\ x = <<q[1], "tenants">>
    <2>1. step = 12
        BY <1>1, <1>2, <1>8, OrderPlaces
    <2>2. TenantOf(q[1]) = scope /\ 11 \in 1..Last
        BY <1>1, <1>8, <2>1
    <2> QED
        BY <1>4, <1>8, <2>1, <2>2, OrderPlaces
<1> QED
    BY <1>5, <1>6, <1>7, <1>8 DEF Refers

\* The order of the DELETEs fails on nothing the tenant has at rest.
LEMMA FailureHasCause ==
    ASSUME IInv, NamesOwn, Next, step # 0, step' = 0, rows' = rows,
           rows # rows \ doomed, OfTenant(scope) \ old = {},
           \A r \in Requests : work[r] = "idle"
    PROVE  ForeignVan
<1>1. Reset
    BY ResetOnly
<1>2. ~ResetIsVictim
    BY DEF ResetIsVictim, Deadlocked, Needs
<1>3. ~ResetCommits /\ \A c \in Callers : ~ResetStarts(c)
    BY DEF ResetCommits, ResetStarts
<1>4. ~DeleteStarts
    <2> SUFFICES ASSUME DeleteStarts PROVE FALSE
        OBVIOUS
    <2>1. step \in 1..Last /\ (step' = step \/ step' = step + 1)
        BY DEF DeleteStarts
    <2>2. Last \in {10, 12}
        BY OrderFacts DEF IInv, TypeOK
    <2> QED
        BY <2>1, <2>2
<1>5. ~DeleteEnds
    <2> SUFFICES ASSUME DeleteEnds PROVE FALSE
        OBVIOUS
    <2>1. step \in 1..Last /\ step' = step + 1
        BY DEF DeleteEnds, IInv, ResetTidy
    <2>2. Last \in {10, 12}
        BY OrderFacts DEF IInv, TypeOK
    <2> QED
        BY <2>1, <2>2
<1>6. \A x \in target : ~DeleteRow(x)
    BY DEF DeleteRow
<1>7. ResetFails
    BY <1>1, <1>2, <1>3, <1>4, <1>5, <1>6 DEF Reset
<1>8. PICK x \in doomed, q \in rows \ doomed : x[2] = Current /\ Refers(q, x)
    BY <1>7 DEF ResetFails, StillReferred
<1>9. /\ q[1] \in Requests /\ q[2] = "accounts"
      /\ TenantOf(q[1]) # scope /\ x = <<on[q[1]], "accounts">>
    BY <1>7, <1>8, NothingRefers DEF ResetFails
<1>10. q = <<q[1], "accounts">>
    BY <1>9 DEF IInv, TypeOK, Rows
<1> QED
    BY <1>9, <1>10 DEF ForeignVan, Visible

\* A reset fails for nothing but open work, new rows, or another tenant's virtual account.
THEOREM Failures == Spec => ResetFailsOnlyIfDisturbed
<1> DEFINE Held == IInv /\ NamesOwn
           Why  == step # 0 /\ step' = 0 /\ rows' = rows =>
                       \/ rows = rows \ doomed
                       \/ OfTenant(scope) \ old # {}
                       \/ \E r \in Requests : work[r] # "idle"
                       \/ ForeignVan
<1>1. Init => Held
    BY InitIInv, InitNames
<1>2. Held /\ [Next]_vars => Held'
    BY InvKeeps, NamesNext
<1>3. Held /\ [Next]_vars => [Why]_vars
    <2> SUFFICES ASSUME Held, Next PROVE Why
        OBVIOUS
    <2> QED
        BY FailureHasCause
<1> HIDE DEF Held, Why
<1>4. Spec => [][Why]_vars
    BY <1>1, <1>2, <1>3, PTL DEF Spec
<1> QED
    BY <1>4 DEF ResetFailsOnlyIfDisturbed, Why
=============================================================================
