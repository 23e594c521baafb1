# Flash Cashback: TLA+ verification project

Flash Cashback is a Go service (`flash-cashback-service`) with a React Native client
(`flash-cashback-mobile`).  Users make payments; each payment of at least
Rp 20,000 earns 5 % cashback, limited by a daily cap per user (Rp 50,000 per
Jakarta day) and by one shared campaign budget.  Cashback is kept as a balance
users redeem.  Everything authoritative is in PostgreSQL; Redis only counts
requests for the rate limiter.

The project models the service from its source, checks small instances with TLC,
and proves the safety properties for every instance with TLAPS.

## 1. Inventory

Paths are relative to `flash-cashback-service/` unless they say otherwise.

| Part | State | Operations | What makes it correct |
|---|---|---|---|
| Domain rules, `internal/domain` | none | `GrossCashback`, `DailyRemaining`, `AwardableCashback`, `EarnStatus`, `JakartaDay` | the award is the largest whole amount the rate, the cap and the budget allow; the status names the limit that bound it |
| Schema, `internal/store/migrations/0001_init.sql` | six tables with UNIQUE and CHECK constraints | seed of the budget row | constraints are a backstop: no statement runs into one |
| Store, `internal/store/repo.go` | the tables; per transaction what it read and wrote, and its row locks | `ProcessPayment`, `Redeem` (reads: `Balance`, `History`, `CampaignStatus`) | each operation atomic, once per (user, key); no lost update, no deadlock; ledger, tallies, budget and balances always add up |
| Pool, `internal/store/db.go` | 20 connections | `Begin` waits for one | waiting transactions do not starve those they wait for |
| Use cases, `internal/usecase` | none of its own | validation, clock, counting of first-time results, gauge | counters follow the tables |
| Metrics, `internal/observability` | nine counters, one gauge | `RecordEarn`, `RecordRedeem`, `RecordRateLimited`, `SetBudgetRemaining`, `WritePrometheus` | no counter ahead of the tables; a scrape has all that was answered before it; a scrape that read the budget writes one that is recent; none writes less than what remains, but the 0 of a fresh process |
| HTTP, `internal/httpapi` | the request in progress | `requireUser`, `rateLimit`, handlers, error mapping | order of refusals; each answer fits what was done |
| Limiter, `internal/redisx` | Redis: a count and an expiry per user | `Allow` | at most limit calls per window; fails open |
| Configuration, `config/config.go` | the settings of a process | `Load` | only a positive total budget starts a process |
| Startup, `internal/store/migrate.go`, `cmd/server` | `schema_migrations`; phases of the process | `Migrate`, serve, graceful shutdown | applied once; the budget seeded once, whatever the settings |
| Mobile, `../flash-cashback-mobile/App.js`, `src/api.js` | the user, the write in progress, the message, balance and history on the screen, refreshes in progress | `pay`, `redeem`, `refresh`, another user typed in | what the screen says is what the service did; the buttons come back; a repeated tap pays once (it does not) |

How they interact: a request passes the middleware (`requireUser`, then
`rateLimit`, which calls Redis), a handler, a use case and the store.  Goroutines
of one server share the pool, the metrics and nothing else; servers share the
database and Redis.  Transactions meet in the database only, through row locks.

What is hard: transactions interleave statement by statement under READ
COMMITTED; a duplicate of a request runs beside the original; COMMIT can take
effect while its answer is lost; statements fail and clients disconnect between any
two writes; a payment reads its clock before it waits and may write after
midnight; two connections can be taken by transactions that wait for each other's
rows; the gauge is read and stored by several requests at once, and counters are added to
one by one while a scrape reads them one by one; replicas race to migrate; the limiter's
expiry is renewed by each call.  `PROJECT.json` lists each such hazard at its line.

## 2. Modules

    Cashback ── Rules
       │
    Campaign ── Store        (Store implements Campaign)
       ├─────── Service      (calls Campaign's operations)
       └─────── Mobile       (calls Campaign's operations)
    RateLimiter
    Migration ── Startup    (Startup implements Migration)

**Cashback** translates the pure rules.  The product `amount * 5` keeps its width:
`Int64` wraps as Go does.

**Rules** runs the decision of `ProcessPayment` for one user, payment after
payment, and compares it with the rule as the documents state it.

**Campaign** is the abstract specification: the committed contents of the six
tables and two atomic operations, `Pay` and `RedeemCash`.  Rows of `payments`,
`redemptions` and `cashback_ledger` are sets, so the UNIQUE constraints are
properties.  A missing `user_balance` or `user_daily_cashback` row is a zero,
which is how each statement reads it.  Ledger ids of one user increase; across
users they need not follow commit order.

**Store** is `repo.go` statement by statement.  A worker is a goroutine serving one
write request.

| Action | Code (`repo.go`) |
|---|---|
| `Receive` | the use case fixes `Now` and calls the store |
| `Begin` | `pool.Begin` (waits for a connection) |
| `InsertPayment`, `InsertRedemption` | `INSERT ... ON CONFLICT DO NOTHING`; waits for an uncommitted row under the same key |
| `LoadPayment`, `LoadRedemption` | the replay path |
| `ReadBalance` | the answer of a payment with no award |
| `LockDaily` | ensure the daily row, `SELECT earned ... FOR UPDATE` |
| `LockBudget` | `SELECT remaining ... FOR UPDATE`, award and status |
| `ApplyAward` | the three relative updates |
| `Debit`, `RejectRedeem` | `UPDATE user_balance ... WHERE balance >= amount`, with one row or none |
| `InsertLedger` | the ledger entry, whose id comes from a sequence |
| `Commit` | finalize and COMMIT, whose answer may be lost |
| `Fail` | a statement or a wait fails or is cancelled; deferred Rollback |
| `Crash` | server or database stops |
| `Return`, `Tick` | the answer leaves; the clock moves |

Uncommitted row versions live in `loc`, row locks in `held`; the tables change in
`Commit` only.  A statement that finds no qualifying row (`RejectRedeem`) does
not wait for the row's lock, as in PostgreSQL.  Consecutive statements are one
action when at most the last of them can wait or see another transaction.

**Service** is one server process above the store: the refusals in the order of the
middleware (401, 429, 400), the reads of one user, the two writes as steps of
`Campaign`, first-time counting, `GET /v1/campaign` and `/metrics`, failed calls, lost
commit answers, panics caught by the recoverer, and restarts.  It uses `Campaign` for
the store, which Store is proved to implement.  A request gets as far as its first access
to shared state in one step.  From there each access is a step: each atomic addition of
`RecordEarn` and `RecordRedeem` (`Record`), each store of the gauge (`SetGauge`), and each
load of `WritePrometheus` that a property looks at (`WriteMetrics`: payments, awards, and
the gauge last).  `told`, `result.before` and `result.budgets` are history and guard nothing.
`told` is what this process has answered to payments it made (201, not a replay), as a number
and a sum, and is empty again after a restart, like the counters.  For a scrape, `before` is
`told` when it came in, and `budgets` the values it may write if its own read of the budget
succeeded: the one it read and those other handlers had read by then and not stored.  One
simplification: ledger ids are consecutive (nothing here reads them).

**RateLimiter** is `Allow` with the middleware: `INCR` and `EXPIRE` in one
`MULTI/EXEC`, failures before and after Redis ran it, a Redis that loses its keys, and
limits that are no limit.

**Migration** is the abstract specification of a start: one step creates the schema with the
whole budget, only then may anybody serve, and then the budget is only spent.

**Startup** is the life of the server processes around one database: `config.Load` with the
environment each process is given, the pool, `Migrate` with its check, its transaction and its record, then serving, then the graceful shutdown
with requests still inside transactions.  `Migrate` takes no lock of its own.  What
keeps migrators apart is PostgreSQL, modelled from how the code uses it: creating an
object that an open transaction has created waits for it and fails if it commits
(`Free`), and `IF NOT EXISTS` looks before it waits, hence the two steps of each
`CREATE`.  The tables of the one migration are created by one transaction and are one
object here; an award is one unit of the budget, since only its direction matters.

| Action | Code |
|---|---|
| `Start`, `Connect` | `config.Load`; `NewPool` and its ping |
| `LookForVersions`, `CreateVersions` | `CREATE TABLE IF NOT EXISTS schema_migrations` |
| `Check` | `SELECT EXISTS (... version = $1)` |
| `LookForTables`, `Build`, `Seed` | the statements of `0001_init.sql` inside the transaction |
| `Record`, `Commit` | the version's row; COMMIT, whose answer may be lost |
| `Accept`, `Finish` | a request's transaction begins and ends |
| `Signal`, `ShutdownTimeout` | `srv.Shutdown` with its timeout |
| `ListenError` | the listener fails while serving, and `run` returns |
| `Exit` | the deferred `pool.Close` has every connection back |
| `Fail`, `Kill`, `DatabaseRestart` | `run` returns an error; the process or PostgreSQL dies |

**Mobile** is the app of one user, the network and the service (as the steps of
`Campaign`), beside other clients.  A write is one `fetch`; `Break` makes it fail with
its request lost, still under way, or processed, and the network may bring a request
twice.  `uuid()` never repeats a key here.  `Tap` is a new wish, `TapAgain` the
same wish after an error: `intents` remembers which writes were sent for one wish.
A refresh reads the balance and the newest page of the history at two moments, in either
order, for the user of the moment it began, and shows both when both have arrived.
`Reload` and pull-to-refresh are not disabled while a write waits, and the field with the
user is always open (`ChangeUser`), so refreshes overlap, of different users too; the one
a write waits for is `Own`, and it is for the user who tapped.  The campaign card, which
delays a refresh and shows one number of its own, and the field with the service's
address are left out.

The MC modules name the bounded sets and the symmetry.  The definitions commented
"Mutant" are deliberately wrong variants of the code next to them; each property is
known to fail when the one listed for it in `PROJECT.json` takes the place of
the real definition.

## 3. What TLC checks

Amounts in the Store, Service and Mobile runs are scaled so that every limit is reached in
two or three payments: rate 1/2, minimum 2, cap 3, a clock whose day is 2 units
with an offset of 1.  `Rules` uses the real rate, minimum and cap.

| Run | Question |
|---|---|
| `store_one_user` | three workers, one user, two keys, two connections, one failure: every interleaving of duplicates, keys reused with another amount, payments below the minimum and redemptions is a behaviour of `Campaign` (`CampaignSpec` checked as a property); the cap, the running balance, lock order, no wait cycle, all counters sums of the ledger, also after a failure between any two statements, answers that match rows, and balances told, to replays too, that the user had since the award |
| `store_two_users` | without failures, two users race for a budget of 5 with awards of 3, across midnight, where payments read the clock on one day and write on the next: the budget lands on zero; each day's cap holds; all counters are sums of the ledger; CHECK constraints never fire; ledger and sources agree; every step is one of `Campaign`'s |
| `store_liveness` | every request that begins is answered or dies with the server |
| `rules_awards` | amounts around each boundary (minimum, cap, width) and budgets around each |
| `rules_overflow` | finding, see section 5 |
| `limiter_window` | every pattern of five calls of two users over two windows, with limit 2 and limit 0: never more than the limit allowed in any window; exactly which call is refused, and none without a limit |
| `limiter_fixed_window` | finding |
| `service_metrics` | two handlers, two keys, awards full, partial and none, one failure, panic or restart between any two accesses: counters never ahead of the tables and, without failures, short of them by exactly what is still to be added; a scrape has every payment this process answered before it, with its award, whatever failed; a scrape whose own read of the budget succeeded writes no less than what remains and no more than the largest budget read and not yet stored when it came in; one whose read failed writes the 0 of a fresh process or no less than what remains |
| `service_uncounted` | finding |
| `startup` | three replicas, their budget configured, defaulted or refused, start, migrate, serve, stop and start again in every order, with two failures at any points: every step is one of `Migration` (`MigrationSpec` checked as a property); tables, seed and version appear together; nobody serves without them; spent budget never comes back; starting and stopping end, also when a listener fails under a server with open requests |
| `mobile_app` | one app and another client, two users, two keys, a history page of one entry, one lost or repeated request or answer, one refresh beside the write's own: "earned" on the screen is what the tables hold; balance and history on the screen are one user's, as they once were; after the write's refresh its entry is shown; the buttons come back |
| `mobile_retry` | finding |

Why the bounds are enough.  Locks conflict pairwise, and a chain of waits needs a
holder, a waiter and a bystander: three workers; two connections make the pool a
resource they compete for.  Keys: a duplicate needs one, a second operation a
second.  One failure at each point covers each partial write and the
retry after it; it is in `store_one_user`, `store_liveness` and the service's and the app's
runs.  `store_two_users` has none (with one it does not end in minutes), so a failure beside
*two* users is covered by the proofs only, which bound neither.  `ReadsStayTrue`, checked there and proved, speaks of a
transaction that has decided, at its updates and at its ledger entry; that the decision still
holds at COMMIT is part of `CampaignSpec`, for there the published rows must be one `Pay`.  The proofs of section 4 remove these bounds for every safety property.  The limiter's history holds five calls with limit 2, so a refused call can
keep a window open for a later one.  In `startup` three replicas give a winner, one that
waits for it and one that arrives later, and two failures are enough for a half-done
migration whose repetition fails as well.  The environments are none, a positive number and
zero, and what they configure differs from the seed, so that a seed taken from it would show.
In `service_metrics` the amounts 1 and 4 and the budget 3 give payments without cashback, in
full, in part and after the end.  In `mobile_app` two keys give a write and its
repetition or a write of another client, and a page of one entry is filled by the first, so
that the second pushes it out; the ledger ends at two entries there.  Symmetry is used over workers, keys, users,
days and handlers, in safety runs only.

Deadlock is checked in every run: a worker can always take the next request, a
replica that is down can start, a user can reload.

Fairness.  `store_liveness` assumes strong fairness of each worker's `Serve` step:
the runtime runs every goroutine, and a wait for a row or a connection is granted if
it can be granted again and again, because PostgreSQL and the pool queue their
waiters.  No fairness is assumed for arriving requests, failures or the clock.
`startup` assumes that a process which runs goes on with `Migrate` and with its
shutdown, whose timeout is a timer, and that transactions end; no process has to
start, and none has to stop or fail.  `mobile_app` assumes that the service processes a
write that reached it, that an answer on its way arrives or its fetch fails, and that
reads are served and shown; the user and the other clients have no fairness.

## 4. What TLAPS proves

Every invariant and action property the passing runs check, and both refinements, for all values of
the constants: any number of users, keys, workers, connections, replicas, handlers, overlapping
refreshes and calls, every rate, cap, budget, limit, window, page size and width.  The assumptions
are named in the modules:

* `Cashback`, `Campaign`, `Store`: amounts are positive and fit the width, limits are natural
  numbers, the clock stays within the campaign's days, and those are finitely many
  (`DaysAssumption`: a `DATE` column has finitely many values; only the sums need it).
* `RateLimiter`: the window is at least one unit; a limit may be any integer.
* `Service`: finitely many handlers (goroutines of one process), a missing user or body is
  none of those there are, and no request is the mark of an idle handler
  (`NoCallAssumption`).
* `Mobile`: `Nothing`, the code's `null`, is neither a write nor a refresh.

| Module | Theorems |
|---|---|
| `CashbackProofs`, `RulesProofs` | `AlwaysLargest`, `AlwaysExplained`, from lemmas on the division, the width and the three-way minimum |
| `CampaignProofs` | tables stay well typed; the cap; `CampaignAlwaysConsistent` (one row per key, ledger matching its sources, running balance, cap, short awards); `CampaignReconciles` |
| `StoreProofs` | `StoreImplementsCampaign`, which carries the campaign's results over (`KeysWorkOnce`, `CapHolds`, `LedgerComplete`, `BalanceRuns`, `ShortAwardsExplained`, `StoreReconciles`, `StoreRowsAreFinal`); `TypeCorrect`, `DecisionsStayTrue`, `ChecksAlwaysHold`, `AnswersAreDurable`, `BalancesToldWereTrue`, `LocksAreOrdered`, `NeverDeadlocked` |
| `StartupProofs` | `StartupImplementsMigration`, `TypeCorrect`, `MigrationIsAtomic`, `OnlyMigratedServe`, `BudgetIsSeededOnce` |
| `RateLimiterProofs` | `LimiterTypes`, `LimitHolds`, `RefusalsExplained` |
| `ServiceProofs` | `ServiceTypes`, `CountersAreTrue`, `ScrapesCoverAnswers`, `ScrapedBudgetsAreRecent` |
| `MobileProofs` | `AppTypes`, `NoticesAreTrue`, `ScreensWereTrue`, `WritesAreShown` |

Few of the properties are inductive alone.  The strengthenings:

**Store** (`IInv`).  `TypeOK`; `Exclusive`, a row has one holder; `Owns`, which
rows a transaction holds at each statement; `Knows`, what a transaction read
or wrote relative to the committed tables (key still free, tally as read, decision
as `Campaign` would take it, versions equal to committed value moved by the
award); and `Ids`, reserved ledger ids are unused and above all ids of their user.
A commit changes rows its transaction holds; by `Exclusive` and `Owns`, what
others know is about other rows, so `Knows` survives (`PublishKeepsOthers`).  For
refinement, `Knows` at the commit is exactly what makes the published rows one
`Pay` or `RedeemCash`.  `NeverDeadlocked` follows a chain of waits upwards through the
four ranks of `LockOrder`.  For the balances told, `BalanceInv` adds that the latest ledger
entry of a user has the balance (`LatestIsBalance`) and that what a transaction has heard
was a balance at or after the award of its key; the balance of now is always one of those.

**Sums** (`CampaignProofs`).  `CountersReconcile` is about sums over sets, and no induction
over data is available.  A sum is characterised instead by one equation (`IsSum`: the
sum of a non-empty set is the term of its first member plus the sum of the rest), and each
fact about it (`SumUnique`, `SumExists`, `TotalAdd`, `TotalWithout`, `TotalMoved`,
`TotalAtMost`) is proved from a smallest counterexample: a finite set has a
smallest subset that violates it (`SmallestSubset`, from the well-foundedness of strict inclusion),
and taking out one member contradicts that.  The reconciliation is then inductive together
with `TablesOK` and `TablesFinite`, since each operation adds the same amount to every side.

**Startup**.  The inductive invariant says what each migrator has written at each statement,
that two never hold the same part, and that an uncommitted seed means the budget has none.

**RateLimiter** (`IInv`).  `KeyTellsBurst`: a user's counter is the number of
that user's counted calls since the last pause of a whole window, in the history kept since
Redis last lost its keys, and the key expires one window after the latest of the user's counted
calls (it has no expiry when there is none).  From it and from the
order of time, a call within the limit finds fewer than limit calls in its burst, and every
call less than a window old is in the burst.

**Service** (`Typed`, `Follows`, `AllRecent`, `Stale`, `ToldCounted`, `AllCovered`).  `Typed` adds to the
types what a handler serves at each of its steps, and the campaign's invariant for the tables.
`CountersFollowTables` is inductive with it, by what each step does to one handler's share of
`Pending` (`LeftOf`): a commit puts into it exactly what it adds to the tables
(`PaidTruth`, `EarnLeft`), an addition moves one item of it to a counter, a failure or a replay
leaves nothing in it, and a restart empties all of it together with the counters.
For the scrapes, a payment that is stored has a share of what is told at its answer (`Share`), of
which it has added some (`Added`).  What has been told, with what payments in progress have
added, is never more than the counters (`ToldCounted`): an addition raises both sides alike, an
answer moves a share that was added in full (`LeftOfShare`) from one summand to the other, a panic
takes one away, and a restart empties everything.  So `before` is counted when the scrape
comes in, counters only grow until it has read them, and they are never above the tables
(`AllCovered`).  No part of this asks that nothing has failed.
For the gauge, `Recent` says that a budget read and not stored yet was the budget once, and that
from the moment a scrape has stored its own budget the gauge holds nothing older than what
was unstored when it came in.  `Stale` says that the gauge, and what a scrape wrote, is the 0 of a
fresh process or not below what remains, whatever failed; the budget only falls.

**Mobile** (`IInv`).  A key in a row or on its way belongs to one write (`KeysUsed`,
`KeyPerWrite`, `RowsAsSent`), so the row an answer speaks of is the write's (`AnswerIsTrue`,
`OwnIsRecorded`); every refresh holds a balance and a page its user had (`ReadsWereTrue`); and
the page of the own refresh was read after the write was recorded (`OwnHasEntry`).

Model-checked only: liveness (`EveryRequestEnds`, `StartupEnds`, `ShutdownEnds`, `LoadingEnds`),
since fairness and ENABLED are outside the prover's reach.

## 5. Findings

* `rules_overflow`: amounts above MaxInt64/5 overflow; the payment is reported as
  `earned` with an award of 0.
* `limiter_fixed_window`: `EXPIRE` is renewed by every call, so the limiter is
  not the fixed window its comment describes: a user who keeps calling, however slowly, is
  refused until a full window of silence.
* `service_uncounted`: a payment committed without an acknowledgement is never counted, since
  its retry is a replay.
* `mobile_retry`: the key of a write is generated inside the call that sends it, so
  "retries are safe" holds for nobody: the user who taps again after a lost answer
  pays, or redeems, twice.

Observations that need no run:

* The comment on `ProcessPayment` (`internal/store/repo.go:86-88`) derives deadlock freedom
  from the budget row being locked last.  The balance row is locked after it (line 198).
  The conclusion holds all the same (`NoWaitCycle`, proved): the order is key, daily row,
  budget, balance, and nothing waits after the balance.
* `internal/observability/observability.go:40-41` calls the gauge always accurate.  A scrape whose
  read of the budget fails goes on and writes whatever the gauge holds
  (`internal/httpapi/handler.go:117-121`): 0 in a process that has read no budget yet, a
  value from before later awards in another.  `ScrapedBudgetIsRecent` says that, but for that 0, it is never less than what remains.
* Even a scrape that reads the budget may write an older, larger one: a `GET /v1/campaign`, or
  another scrape, that read the budget before an award can store it between this scrape's own
  refresh and its output.  `ScrapedBudgetIsRecent` bounds how old: no older than what was read and
  still to be stored when the scrape came in.
* `CAMPAIGN_TOTAL_BUDGET` is documented as the seed of the budget row
  (`config/config.go:22-24`), and nothing reads it: the seed is the constant of
  `0001_init.sql:88-90`, whoever migrates (`MigrationSpec`).  A value that is not positive
  still keeps a process from starting; one that is not a number is replaced by the default
  without a word.
* A reload that read the history before a write can be shown after the write's own
  refresh and hide it until the next one; `OwnWriteShown` speaks of the own refresh.
* When the user in the app's field is changed, a refresh of the former user that ends last
  stays on the screen beside the new name.  `ScreenWasTrue` says no more than that balance
  and history are then both the former user's.
* A replay answers with the stored award and the balance of now (`repo.go:240`).
  `BalanceToldWasTrue` bounds what now means: a balance the user had at or after that award.
* A payment that panics, or whose server dies, between two additions of `RecordEarn` stays
  counted by half; `CountersFollowTables` holds all the same, on the low side.

## 6. Not modelled, and the plan

Not modelled: CORS, request ids, logging, health probes (they change no state); JSON
syntax (a body is readable or not); timestamps and indexes; the settings of `config.Load`
that only pass through; idle times of pooled connections; the app's rendering, number
parsing, campaign card and service address; tests, container set-up and the Postman
collection, which hold no program logic.  A second server whose clock lags behind needs no
model of its own: its payment is one that read the clock before midnight and began after
it, which Store allows.

Order of the work: rules, campaign, store and their proofs; limiter, service, startup with
its proofs, and the app; the reads, the metrics addition by addition, configuration, the
abstract migration and its refinement proof; the reconciliation, the balances told, and the proofs of
limiter, service and app (done).  Next:

1. An abstract specification of the metrics (a counter that lags behind the tables) which
   Service implements, so that a module above it need not look at single additions.
2. Proofs: shorter arguments for `FollowOwn` and `ReconciledStep`, the two longest steps.
