# MockSim verification

TLA+ models of MockSim, the simulator of banks and point-of-sale acquirers in
`src/`, with the TLC runs that check them on small instances and TLAPS proofs
of theorems about them for every value of the constants. Every definition is
read off the Python code; `PROJECT.json` maps each one to its lines, each
property to a hazard of the code and to a mutation of the model that breaks it.

## 1. The system and its parts

MockSim is one asyncio process (FastAPI, uvicorn) on one Postgres database.
Three kinds of activity interleave at every `await`: request handlers, the
APScheduler jobs of `core/scheduler.py` (outbox poller, garbage collectors) and
background tasks that walk the simulated clock. They share the database, whose
transactions and row locks are the only synchronisation, and two process-wide
variables that are not persisted: the clock and the kill switch.

| Part | State it keeps | Operations | Hard about it | What makes it correct |
|---|---|---|---|---|
| Webhook outbox (`core/outbox.py`, `core/scheduler.py`, replay/reset in `admin/api.py`) | `webhook_outbox` rows; the batch in memory | enqueue, claim, POST, record, back off, replay, archive, reset | the claim, the POST and the outcome are three steps; administrators write rows the dispatcher holds; crash between any two | a row is owned or settled; delivered means acknowledged; retry budget; per-partition order; every row is settled |
| Sim clock and job scheduler (`clock.py`, `core/sim_scheduler.py`) | the clock (memory), `sim_scheduler_jobs`, `clock_advance_jobs` | schedule_at, advance (inline or background), slices, set | handlers commit on their own, the clock is moved outside the transaction, advances overlap | one handler call per job and committed slice, in order, never early, none forgotten; progress never above the total |
| Bank payments (`bank/payments.py`, `core/accounts.py`) | `payment_instructions`, `accounts`, `account_entries` | initiate, settle, reject | stale reads and absolute writes; a job fired again after a crash | exactly-once effects, no overdraft, balance = opening + entries |
| Idempotency keys (`core/idempotency.py`) | `idempotency_records` | get_or_start, complete, prune | there is no row to lock for a first request; commit in a dependency after the endpoint | one effect per key, replays of originals, success means committed |
| POS sales and settlement (`pos/generator.py`, `pos/settlement.py`, generate-pos) | `merchants`, `pos_transactions`, `settlement_batches` | create merchant, generate a day, chain the next, settle | sales, next day and settlement are committed one after the other; two settlers | no sale settled twice or early, none stranded, the chain never breaks |
| Mandates (`bank/mandates.py`) | `mandates` | create, collect | a collection reads the mandate, not its accounts; expiry is written in a request that then fails | what a mandate names may be gone, the payment is then rejected |
| Statement (`bank/api.py`) | none of its own: `accounts`, `account_entries` | a page, the next page | a cursor on a timestamp that is not unique; two reads per page, payments between them and between pages | what was there is read, or tied with a page's end; balance = entries |
| Seed scripts (`scripts/seed_default.py`, `scripts/seed_e2e.py`) | a plan of POSTs (memory of the script) | run, post, fail with a warning, die, run again | keys are forgotten after a day, ids are cut from the time, resets in the middle | nothing twice, answers true, complete in the end |
| SME onboarding (`trazmo/client.py`, `admin/api.py`) | `merchants`, and Trazmo's own | call Trazmo, look up, insert | two systems, no transaction; Trazmo answers too late; scripts mirror the same merchant | an answered onboarding exists on both sides, once; nothing here that Trazmo lacks |
| Scenario engine and kill switch (`core/scenarios.py`, `main.py`) | one process flag and its persisted row | toggle, status | the flag and the row are written one after the other | not modelled (section 8): nothing reads the flag |
| Tenants and their data (`core/tenancy.py`, `persistence/database.py`, `admin/api.py`, the creating endpoints of `bank/` and `pos/`) | `mock_tenants`, `api_keys`, every tenant's rows | create, resolve a key, create things, reset, purge | the reset deletes table by table, each DELETE with a view of its own, while requests and jobs insert, lock and wait | a key names one tenant; a reset removes what was there when it began; what slips through is whole |
| Operator login, documents, ISO 20022, money, errors, configuration, dashboard, smoke test | little or none | - | - | not modelled (section 8) |

How they interact: a request handler writes its business rows, outbox rows and
scheduler jobs in one transaction (`get_session` commits it after the endpoint
returns); a slice of a clock advance calls the handlers registered for its jobs
(payments, POS generation, POS settlement), which open sessions of their own
and write more outbox rows and jobs; the poller turns outbox rows into POSTs.
The scripts and Trazmo's operators are clients from outside, whose POSTs meet
each other and the resets of an administrator.

## 2. Modules

| Module | Models | EXTENDS / INSTANCE |
|---|---|---|
| `WebhookContract` | abstract: what the outbox promises about one event's life | - |
| `Outbox` | the outbox, its dispatcher and everybody who writes its rows | INSTANCE `WebhookContract` |
| `SimScheduler` | clock, jobs, overlapping advances | - |
| `SerialBank` | abstract: payments decided one at a time in one step | - |
| `Payments` | payments on top of slices, with session snapshots | INSTANCE `SerialBank` |
| `Statement` | composition: a client reads a statement page by page while payments go on and the clock moves | EXTENDS `Payments` |
| `IdempotentService` | abstract: perform, replay or refuse in one step | - |
| `Idempotency` | requests, records, the unique index, the collector | INSTANCE `IdempotentService` |
| `PosDays` | one merchant's days on top of slices, beside generate-pos | - |
| `Tenants` | tenants, keys, requests that create rows, background work on them, the reset | - |
| `Seeding` | the seed scripts, SME onboarding, resets and the collector, acting on the same rows and records | - |
| `MC*` | the instances TLC checks | the module |
| `*Proofs` | theorems and proofs | the module and TLAPS |

Slices appear in three modules: `SimScheduler` has them in full; `Payments` and
`PosDays` keep of a slice what matters above it - jobs selected under lock, run
one by one, their statuses committed last - and add what the handlers do.

### How state and actions correspond to the code

- **Outbox.** `status`, `attempts`, `waiting`, `stamp` are the row's columns
  (`waiting` says `next_attempt_at > now`); `batch`, `sending`, `answer` are the
  local variables of `dispatch_batch` and `_deliver`; `replay` is the session of
  the replay endpoint. `Enqueue` / `CommitBusiness` / `RollbackBusiness` are the
  caller's transaction; `PollerSelects`, `DeliverStarts`, `DeliverPosts`,
  `DeliverCommits` the dispatcher from one database access to the next;
  `ReplayReads`, `ReplayFlushes`, `ReplayCommits` the replay, whose ORM flush
  writes only columns that differ from the version it read. `TickAborts` is an
  exception in a tick, `Crash` a dead process. `visible`, `tried`, `acked` and
  `lost` are history variables for the properties.
- **SimScheduler.** One task per running `advance()`. `SliceStarts` reads the
  clock and computes `slice_end`, `SliceSelects` locks the due jobs,
  `ClockMoves` moves the clock by the slice's length from wherever it is by then,
  `HandlerRuns` calls one handler (which may schedule a job and commits by itself),
  `NoHandler` passes over a job whose type is not `Registered`, `SliceCommits`
  writes the statuses: such a job is failed, and nothing was called. `SetClock` is
  the administrator's. `sets` counts its calls; `late` remembers jobs committed
  when the clock, or a slice that has selected, had passed their time, and jobs the
  clock passed beyond the `slice_end` of the slice that moved it.
- **Payments.** A worker is an advance. `LoadInstruction`, `CheckDebtor`,
  `FindCreditor`, `Settle`/`Reject`/`Raise` follow `process_payment`; `debtor`
  and `creditor` are the balances the session read, from which the absolute
  values it writes are computed. An entry carries `EntryAmount`, the absolute value
  that `write_entry` stores; its side says whether it was a debit or a credit.
- **Statement.** `Processes(w)` is a step of `Payments` with the clock beside it:
  a slice moves `now` before it selects, `write_entry` stamps the debit when the
  creditor is looked up and the credit when the payment settles. `Opens` reads
  the balance, `ReadsPage` the entries of a page (the handler's second SELECT);
  `cursor` is the time the client sends back, `seen` what it has read, `there`
  what existed at the first page. `Restarts` sets the clock back and leaves a
  client between two pages alone. `stale` is a history variable: some payment
  settled while another session held balances it had read. `Sum` is the client's: it
  adds credits and subtracts debits.
- **Idempotency.** A request is `new`, `working` (past get_or_start),
  `inserted` (its record is flushed), `returned`/`completed` (past `complete()`,
  without or with a record found) or `ended`. `AnswerFirst` chooses between
  FastAPI versions: before 0.118 a dependency with `yield` is finished before
  the response is sent, since then after it, and pyproject.toml allows both.
  TLC checks the former; the theorems cover both.
- **PosDays.** Three actors execute the same `generate_merchant_day` (`Generate`,
  `WriteBatch`, `ChainDay`, `PromiseSettlement`) and `settle_merchant_day` (`Settle`,
  `SettleCommits`): the slices "first" and "second" of two advances that may overlap,
  and an administrator's generate-pos call. A sale is a unit in a per-date counter,
  because draws are seeded by the date, and `jobs` counts equal jobs, because two
  chains schedule equal ones. `SliceStarts` computes the end of a slice;
  `SliceSelects` locks the due jobs that the other slice has not, and moves the clock
  (one step, because who reads or sets the clock between the two might as well have
  done so before); `SliceCommits` takes what was run off the queue, `SliceFails` leaves
  it there, with what handlers have committed. `OpenMerchant` and `CreateMerchant` are the read of the
  clock in `create_merchant` and its commit, which may come late; `SetClock` is the
  administrator's. `slips` counts overlapping and lost slices and late merchants.
- **Seeding.** An item is one thing a script posts; `copies` are its rows, and
  `record` its idempotency record, which goes `stale` when the row it names is
  deleted. A POST is one step (`Creates`, `Replays`, `Fails`), which
  `Idempotency` justifies. `minted` is the id window: `MID_` plus the first eight
  characters of a ULID is the same for 1.024 s. `TrazmoAnswers`, `TrazmoIsLate`,
  `Looks`, `Inserts` are `onboard_sme`. A reset is cut where it matters here:
  `ResetBegins` (accounts and subscriptions), `ResetDeletesRecords`,
  `ResetCommits` (merchants, commit); `doomed`, `born` and `locked` are what it
  has deleted, what was posted behind it, and the records it holds. `orphaned`,
  `raced` and `told` are history variables.
- **Tenants.** A row is a pair of what it belongs to (a request or a call of
  `create_tenant`) and its table; `rows` is what is committed. A request is
  `new`, `known` (its key is resolved, in a session that is over), `flushed`
  (its rows are in the open transaction) or `done`; one action per creating
  endpoint says what it must see. `work` is the transaction of a background
  handler, cut where it waits for or takes a row lock: `locked` (FOR UPDATE of the
  payment), `settling`/`posted` (before and after the UPDATE of the account),
  `selling`/`sold`, `batching`/`batched` (before and after the INSERT that
  refers to the merchant). The reset goes through `Order`, the list of models in
  the source: `DeleteStarts` takes the snapshot of one DELETE, `DeleteRow`
  deletes a row nobody has locked, `DeleteEnds` checks the foreign keys.
  `doomed` rows are deleted and not committed, so others still see them.

## 3. Runs

| Run | Asks | Bounds, and why they are enough |
|---|---|---|
| `outbox` | all Outbox properties, safety, refinement and liveness | two events of one partition, two attempts, two replays, three kinds of answer (accepted, refused with a 4xx, failed), each fault: order needs two events, the budget one failure below the limit and one at it, RetryBudget's exception two replays |
| `outbox_crash` | is every committed event settled, crash or not? **no** | the smallest instance with a crash |
| `outbox_refused` | is an event that the consumer refuses (4xx) dead-lettered at once? **no** | no fault at all |
| `scheduler_overlap` | safety of overlapping advances, bounded progress | two advances of a slice or a slice and a half, inline and in the background, with two tasks; two jobs, one of them without a handler and perhaps scheduled by the other's; one mishap (a crash, a database error, or the clock set back); a slice of two units so that a job falls inside, on and beyond its end; symmetric in tasks |
| `scheduler_tenant` | does an advance by the admin endpoint fire what is due? **no** | no fault at all |
| `payments` | exactly-once, truthful jobs, no overdraft; refinement of the serial bank until a session settles over stale balances; every payment ends; what a reading of a statement misses and that its balance is the sum of its entries | three payments: one in the wrong currency, one that needs the money of another, one the other way; two workers, one crash, a clock of two times, pages of one entry: the smallest with a tie across a page boundary, a payment between two pages, and two sessions over one balance |
| `payments_lost` | do balances follow entries with two workers? **no** | two payments from one account |
| `idempotency` | safety, refinement, liveness | two equal payments, a different body under their key, two equal requests not about money, one mandate; failing work, the collector, a crash |
| `idempotency_mandate` | is a pending record a request in flight? **no** | two keys, no fault |
| `pos_days` | safety and liveness of a merchant's days | four days; one sale before a weekend of two days, none on the first of these and a batch and a half on the second, so that two dates settle together; any two of a call of generate-pos, a crash, a handler that raises, the clock set to any date, and up to two slips (a lost or an overlapping slice, a merchant that commits late). With two mishaps, a weekend of two days is the smallest with which a generation that has fallen behind the clock comes after the settlement of its date |
| `seeding` | nothing twice unless forgotten, stored answers true, both sides of an onboarding agree, and repetition completes the tenants | two merchants that compete for one id window, a pool with a virtual account, one merchant that Trazmo's seeds, the mirror script and an operator bring into being; one script at a time, one reset, any number of days, deaths and time-outs (the theorems are about any number of runs) |
| `tenants` | one tenant per key; what a reset removes, what it leaves, when it fails | two `create_tenant` calls with one key, three requests (an account or merchant; a virtual account, payment, mandate or subscription; a payment) with their background work, two resets with or without purge: the smallest numbers with which a payment names an account, a virtual account its pool, a webhook its subscription, a second script may recreate a purged tenant, and a virtual account may be of another tenant than its pool |

Deadlock is checked in `payments`, `seeding` and `pos_days`, where somebody can
always act again. The other instances stop by design when their bounded inputs are
used up (each cfg says why).

### What the violations say

Each is a disagreement between the code and its own documentation; the finding
in `PROJECT.json` quotes the line.

- **A crash strands rows in `in_flight`** (`outbox_crash`): the claim is
  committed before the POST and no query selects `in_flight` rows again, against
  the at-least-once promise of `models.py:143`.
- **A refused event is retried** (`outbox_refused`): `_deliver` asks only whether the
  POST succeeded (`outbox.py:139`), so a 4xx spends the whole budget before it is
  dead-lettered. DESIGN.md:534 ("On 4xx (non-retryable)") and the comment at
  `webhook.py:117` have it dead-lettered at once. `RetryBudget` states what the code
  does.
- **The admin endpoint's advance fires nothing** (`scheduler_tenant`): it passes
  the zero UUID, jobs are filtered by tenant. The other runs therefore call
  `advance` with the jobs' tenant.
- **Lost updates of balances** (`payments_lost`): read without lock, absolute
  write.
- **Mandate records stay pending** (`idempotency_mandate`): the endpoint never
  flushes, `complete()` finds no record, every retry is refused.

Other disagreements met while modelling, visible in the conditions of the
properties although no run is spent on them:

- A POST that fails lets the next event of its partition overtake it
  (`outbox.py:7` promises order of arrival). `FirstTriesInOrder` states the order
  the code does provide: of first attempts.
- Replay resets rows of any status (`admin/api.py:352` speaks of dead-lettered
  ones); with two replays even the budget is lost, hence `replays <= 1` in
  `RetryBudget`.
- Two overlapping advances move the clock further than either of them has
  selected; the jobs in between are the `late` of `NothingOverdue`. Jobs whose
  transaction commits after the slice of their time are late as well.
- `_run_one_slice` says "all in one Postgres txn", but handlers commit by
  themselves: `CalledOnceUnlessLost` counts one more call per lost slice.
- A payment in the wrong currency raises in its handler and stays accepted for
  ever with a failed job: hence `p \in Matching` in `PaymentEnds`.
- Two concurrent first requests do not serialise on the lock (DESIGN.md:474),
  the second fails on the unique index.
- Some dates get several settlement batches, against DESIGN.md:307
  (`pos.batch.settled`: "Once per merchant per day"). generate-pos settles inline and leaves
  `schedule_next` at its default, so that every generated date starts another chain of
  daily jobs; a crash or a lost slice fires again jobs whose handlers have committed;
  and `clock/set`, an overlapping advance (which moves the clock by its own length on
  top) or a merchant whose transaction commits after the clock has moved on leave the
  chain of generations behind the clock, so that a date is settled before all its sales
  are written, and once more when they are. Hence the conditions of `OncePerDay`.
- `core/money.py:45-46` accepts a negative amount. `write_entry` then moves the balances
  the other way, but stores the absolute value and the same side (`accounts.py:86`), so
  the statement does not add up: `NoNegativeAmount` in `Reconciles`.
- A reset deletes idempotency records before merchants, so a merchant created
  between the two is wiped and its record stays; a retry is then answered with a
  merchant that is gone. Hence the exception in `RepliesHaveSubjects`.
- A virtual account stores the `parent_iban` it is given (`bank/api.py:140`), and
  the foreign key does not ask whose account that is. While a virtual account of
  another tenant is in a pool, the reset of the pool's tenant fails on it, every
  time, although nobody is at work: `ForeignVan` in `ResetFailsOnlyIfDisturbed`.
- A reset leaves `sim_scheduler_jobs` (`admin/api.py:198`: "Wipe all data"). The
  orphaned job finds nothing (`JobFindsNothing`).
- Requests and jobs that commit behind a DELETE survive a reset in part: entries
  of a payment made meanwhile, or an account without its payments.
- The inline settlement of a backfill settles up to two days early
  (`admin/api.py:703` says all dates are past): the second case of `NeverEarly`.
- The next page of a statement has the entries strictly before the time of the
  last one read. The clock stands still while a slice books, so entries tied with
  a page's end are never shown: the exception in `MissedOnlyIfTied`.
- seed_default.py promises "One merchant per enabled region" (line 7): all five
  POSTs fall into one id window, so a run creates one and gets HTTP 500 for the
  others. Only repetition heals it (`Heals`).
- seed_default.py says that it "detects existing rows (by name)" (line 12) and
  scripts/README.md:21 that "re-running just returns the cached response"; no
  code detects a row, and the response is cached for a day. A later run posts
  merchants and subscriptions again: `orphaned` in `TwiceOnlyIfForgotten`.
  Mirrored merchants and accounts have a unique constraint and are refused with an
  internal error instead.
- A run that dies between the pool account and its virtual accounts cannot be
  made good once the pool's record is collected: the pool's POST then fails and
  the script goes no further (the last case of `Complete`).
- Trazmo may create an SME and answer after the client's ten seconds. The SME
  then exists there only, until somebody repeats the onboarding or a script
  mirrors it. The slug of a name is cut to 24 characters, so two SMEs may be one
  merchant for Trazmo (`Slug` need not be injective).
- A handler that raises between sales and their settlement job, or a crash in
  the middle of generate-pos, strands the sales: `Interrupted`.

## 4. Fairness

Safety runs use `Spec`, liveness runs `FairSpec`.

- Outbox: the poller tick (an interval job), a replay that has begun, and the
  passing of each back-off are weakly fair. Enqueueing, faults and
  administrators are not.
- SimScheduler: none, its runs check safety.
- Payments: the steps of an advance that has begun. A worker's `Step` includes the
  selection of due jobs, which says that somebody keeps advancing the clock: without
  that no payment is ever settled, by design of a simulator.
- Idempotency: the steps of a request that has begun.
- PosDays: the start of a slice while there is none (somebody keeps advancing the
  clock, up to the model's last day), the steps of each slice that has begun, and the
  administrator's call. A second, overlapping slice, faults and `clock/set` are not.
- Statement: the payments' steps, as in `Payments`; nobody need read anything.
- Seeding: a reset that has begun, the passing of time, and the posts of a run
  that has begun are weakly fair. That a script is run again is strongly fair,
  because each run of the other script, and a Trazmo without merchants, makes it wait
  again: it stands for an operator who keeps trying. Days, collection, deaths,
  time-outs and resets are not fair; `Heals` says what must stop for the rest to
  follow.

Weak fairness is what an event loop gives to a task that stays runnable.

## 5. Abstract specifications

`ImplementsContract`, `ImplementsUnlessStale` and `ImplementsService` are checked
by TLC and proved (theorems `Refinement` of three modules). The mapping of the
outbox forgets `in_flight` and `retrying` (both are "owed"); that of payments
forgets sessions, jobs, crashes and the clock; that of idempotency makes a
request's commit the step at which it is performed. The second holds up to the
first step that settles a payment while another session holds balances it has
read; `payments_lost` shows what happens then.

## 6. Proofs

Each `*Proofs` module proves an inductive invariant `IInv` and derives the
safety properties from it. TLC found nothing against them first.

- **OutboxProofs**: `Typing`, `Invariance`, `Ownership`, `Delivery`, `Budget`,
  `Settlement`, `FirstTries`, `Refinement`. The budget needs `FirstReplay`: while only one replay has begun
  no pending row has used attempts, so a replay that clears the count also
  overwrites the status. Ownership needs `RowsHeld`: what a claimed row can have
  become meanwhile. Settlement needs `OneWriter`: a replay and a delivery never
  hold one row. The order of first tries needs `QueuedInOrder`: while an older
  committed row has not been POSTed it is pending or with the poller, and the
  younger one is claimed only behind it. That is where the ORDER BY of the claim
  and of the batch is used, and that a row not yet tried is never waiting.
- **SimSchedulerProofs**: `Typing`, `Invariance`, `Exclusion`, `Repetition`,
  `Recording`, `Ordering`, `Completeness`, `Progress`, `Punctuality`. Punctuality
  rests on `ClockReachesEnd`: a slice computes `end` from a clock that only grows
  unless someone sets it, so when it has moved the clock it has reached `end`,
  however many advances overlap. Completeness and Ordering need `DueIsHeld` (a pending
  job of the caller whose time a slice has passed is held by a slice, or late), and
  Ordering `ClockReachesEnd` as well: a job due before one that is called has been
  reached by the clock, so some slice holds it, and if it is the same slice it has had
  its turn. The three hold until somebody sets the clock, Completeness and
  Ordering only while no slice is lost either. Completeness also assumes that every job is the caller's
  (`AllMine`); the run `scheduler_tenant` shows what happens when a job is another
  tenant's. Recording is `SettledAsRun` and `CallsAccounted`: a job without a handler is
  never called, and failed all the same. Progress needs `DaysCounted`: the days still to
  walk are among those not yet counted as done.
- **PaymentsProofs**: `Typing`, `Invariance`, `ExactlyOnce`, `Outcome`,
  `Solvency`. Exactly-once needs that sessions work on accepted payments they
  hold and that slices are disjoint; solvency needs `FundsSeen`: what is written
  was computed from a snapshot that covered the amount. So lost updates never
  overdraw an account.
- **StatementProofs**: `Composition`, `Paging`, `Refinement`, `Ledger`,
  `Reconciliation`. `Composition` says that every step of `Statement` is one of
  `Payments` or leaves it alone, so the theorems above hold in it. Paging needs `ReadingInv`: an entry that was there
  and has not been read is booked before the cursor, or at a time some page ended
  with. Refinement needs `Fresh`: as long as nothing is stale, what a session
  decided is what the current balances lead to. `Ledger` is the other side of
  `payments_lost`: the balance of an account (any one: `Account` is a constant) is
  its opening balance and the sum of its entries as long as nothing is stale. A sum
  is a recursion over a set, which the provers cannot unfold by themselves:
  `SumsExist` and `SumsAgree` show by a least counterexample that there is one
  running sum along any way of taking a finite set apart, so `SumAdds` may add one
  entry to it. Reconciliation needs `Reconciled` (that balance) and `FirstPage`
  (what the first page showed went with the entries it was read beside). Both claim a
  sum only if no payment has a negative amount, for `abs` loses the sign.
- **SeedingProofs**: `Invariance`, `Typing`, `NoDuplicates`, `TruthfulRecords`,
  `MirrorFollows`, `Onboarded`, for any number of scripts, SMEs and resets. They
  need `ResetInv` (what a reset in progress has deleted, and that what was posted
  behind it has a fresh record), `PlansKnown` (a plan or a request names only
  merchants Trazmo has) and `Forgotten` (a repeatable row without a record is an
  orphan).
- **IdempotencyProofs**: `Typing`, `Invariance`, `Once`, `Atomicity`,
  `Originality`, `Durability`, `Refinement`. The key is `OneInserter`: the unique
  index admits one transaction per key, and none beside a committed record.
- **TenantsProofs**: `Invariance`, `Typing`, `Identification`, `Cleanliness`,
  `Replies`, `Bookkeeping`, `Failures`.
  Identification needs `OneKeyed`: while the key is being inserted there is no
  other insert of it and no committed key, which purges preserve because
  `TouchesOwn` lets them delete a tenant and its key only together. Cleanliness
  needs `OldGoes`: what was committed when the reset began stays committed (only
  jobs disappear otherwise) and is deleted when its table's turn is over; every
  table has a turn (`OrderFacts`). Replies and Bookkeeping need `FollowersGo`: the
  order deletes a reply's subject before the reply and the entries before their
  payment, so of two rows that belong together, when the first is gone the
  second was there at the start and its table's turn is still to come. Failures
  needs `NamesOwn`: what a payment or mandate names is committed and of its own
  tenant, because requests see only their tenant's rows and a collection takes over
  what the mandate named. Then everything of the tenant that refers to a row of the
  current table is gone already (`NothingRefers`), and with nobody at work there is
  no deadlock. An account names its pool without being checked: hence the exception
  `ForeignVan`, which an instance needs two resets to show.
- **PosDaysProofs**: `Invariance`, `Typing`, `Settlement`, `Chain`, `Custody`,
  `Punctuality`, `OneBatch`. No sale is paid twice: what two settlers have locked
  plus what is paid never exceeds what was made. The chain and the custody of sales need
  `JobsHeld` (the job that a slice is running stays in the table until it commits,
  so a crash brings it back) and `SalesHeld` (a sale that nobody has locked is
  covered by a waiting settlement, a waiting generation or a running one).
  Punctuality needs `JobsDue`: until the clock is set, a slice locks only what the clock
  will have reached when it runs, and a backfill plans at most two days ahead. What a
  slice, a merchant's creation or `clock/set` does to the queue beside a handler is
  treated once for all of them (`Clockwork...`). OneBatch needs `SettledOnce`: while
  there is no call of generate-pos, no crash, no `clock/set`, no overlapping or lost
  slice and no late merchant, one slice works at a time (`Alone`), no generation is
  behind the clock (`GenerationsOnTime`), and once the settlement of a date has begun, no
  generation of an earlier day is to come and no sale of the date is left for
  another settlement (`BatchIsLast`). It rests on `SettleLater`, that a settlement
  date is later than its day whatever the weekends: the dates are defined by
  recursion, so `DatesExist` first finds them one by one, by a least counterexample.

Four proved properties are not checked by a run of their own: `DeliveredIsAcked`,
`HeldExclusively`, `RepliesAreOriginals` and `SuccessIsCommitted` are parts of
their modules' inductive invariants, and consequences of `ImplementsContract`,
`CalledOnceUnlessLost` and `ImplementsService`, which the runs check.

Assumptions are the named `ASSUME`s of the constants; TLC evaluates them in the
runs. They are ranges and types, and for `PosDays` that every seven days have one
that is not a weekend's, without which `_next_business_day` would not return: each
region of `pos/regions.py:42` has a weekend of two days.

Every safety invariant, action property and refinement that a passing run checks
is proved. Only model-checked: liveness (out of the prover's reach, as is ENABLED),
so `ResolvedUnlessLost`, `PaymentEnds`, `EveryRequestAnswered`,
`EverySaleSettles` and `Heals`, and what the violations show.
`TypeOK` of each module is proved, and no run spends time on it.

## 7. Abstractions

- Amounts, identifiers, payloads, signatures, card data and wording are left
  out or are model values. Sales are counted, not listed.
- Time in `SimScheduler` is a natural number with a slice of `SliceLen` units;
  in `PosDays` it is the date, and a slice moves it by one. In `PosDays` at most
  two slices overlap; in `SimScheduler` any number.
- A crash discards whatever is in memory and every open transaction; the clock
  restarts at its initial value, as `SimClock.__init__` reads the real time.
- Postgres: a commit is atomic, `FOR UPDATE` excludes, `SKIP LOCKED` skips, an
  insert on a unique key waits for the transaction that inserted it. One process
  (docker-compose starts one).
- In `Tenants`, a DELETE is READ COMMITTED: a snapshot when it starts, row locks
  waited for, foreign keys checked at its end; of a deadlock either side may be
  the victim. Resets do not overlap. A request that fails has inserted nothing, and
  is one that takes no further step. Amounts, balances and the currency are
  `Payments`' business; whether a webhook is enqueued is left to chance where a
  subscription exists. A settlement's sales are one row.
- In `Statement`, the date filters, formatting and the balance after each entry
  are left out, and one client reads one account. A time is a natural number.
- In `Seeding`, a POST is one transaction, and whatever two requests do to each
  other within one is `Idempotency`'s and `Tenants`' business. What is deleted
  when a day is over takes a day: a reset, a request or a run never lasts so long.
  The onboarding is of the tenant and partner seed_e2e.py mirrors, the case in
  which the two meet; an id it draws from the random part of a ULID never
  collides. A script that posts a changed body under its stable key (a renamed
  SME) is refused with 409 and a warning, as `Idempotency` has it, and is left out.
- `Amount` is any integer: `core/money.py:46` accepts a negative one, and the
  proofs of `Payments` hold for it too; `Ledger` and `Reconciliation` are conditioned on amounts
  that are not negative.
- Opening balances and existing accounts are inputs. No code changes the
  status of an account or a merchant: `Blocked` is empty in the instances and
  the inactive merchant is left out.
- Every bound (`MaxAttempts` excepted, a setting) is a constant whose comment
  begins with "bound".

## 8. Not modelled

Listed in `PROJECT.json` with their reasons: pure data and layout (documents,
ISO 20022, signing, configuration, errors, fees and check digits), the dashboard
and the smoke test, login sessions (and with them an operator acting as a
tenant), migrations. Pools and `internal_transfer` have no caller.

The kill switch is a flag in memory, set after its row is written, and read only
by its own status endpoint: no scenario is implemented, so nothing it could be
wrong about exists yet. (DESIGN.md:572 says that the flag short-circuits
evaluations and line 575 that toggling writes an audit log; the code has neither.)
The limits of a mandate compare one request with one row that is never changed,
and its lazy expiry is rolled back by the error that reports it.

## 9. Plan

1. *Done*: Outbox, SimScheduler, Payments, Statement, Idempotency, PosDays,
   Tenants and Seeding with their abstract specifications, runs and theorems.
2. *Extend*: the kill switch, once a scenario reads it; the calendar of
   `_next_business_day` and `_expected_settlement_date`; a composition of the
   scheduler with payments that fires jobs through the outbox; two partners and
   two e2e tenants in `Seeding`.
3. *Prove*: what is added. Of what there is, only liveness is left to TLC.
