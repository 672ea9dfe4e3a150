# Kushim: TLA+ models, checks and proofs

Kushim keeps investment portfolios. Users record *operations* (deposits, buys,
sells, corrections ...) through `kushim-api`; posted operations are immutable
and are the only business truth. Everything users look at (current summary,
holdings, daily snapshots) is *derived* from them by `kushim-worker`. This
directory models the parts of the system whose correctness depends on the order
in which several processes touch one database, on what a browser tab knows of
it, or on arithmetic; checks them with TLC on small instances; and proves the
central invariants with TLAPS for every value of the constants.

Contents: [Inventory](#inventory) - [Modules](#modules) -
[Runs](#runs) - [Bounds](#bounds) - [Fairness](#fairness) -
[Proofs](#proofs) - [Findings](#findings) - [Not modelled](#not-modelled) -
[Plan](#plan)

## Inventory

| Component | State it keeps | Operations | Interacts through | Hard behaviour |
|---|---|---|---|---|
| Refresh queue and consumer (`kushim-api/src/repositories/portfolio_refresh_requests.rs`, `kushim-worker/src/jobs/process_portfolio_refresh_requests.rs`, `kushim-worker/src/repositories/refresh_requests.rs`, `kushim-worker/src/worker/runner.rs`) | `portfolio_refresh_requests`; the batch a worker process has claimed | enqueue or coalesce, fail exhausted, claim, complete, retry, fail | table shared by API and workers; `FOR UPDATE SKIP LOCKED`; partial unique index | crash between claim and close, lock timeout, several workers, coalescing while processing |
| Rebuild and daily snapshot (`rebuild_current_read_models.rs`, `generate_daily_snapshots.rs`, `refresh_current_portfolio_state.rs`) | `rm_portfolio_summary`, `rm_portfolio_holdings`, `portfolio_snapshots_daily`, `portfolio_holding_snapshot_daily` | read the ledger, replay, replace the read models, copy them into today's snapshot | called by the consumer, or run as jobs of their own | one step of two failing, two refreshes of one portfolio, torn reads |
| Operation lifecycle (`kushim-api/src/services/portfolio_operations.rs`, `repositories/portfolio_operations.rs`) | `portfolio_operations` | create, update, cancel, post, correct | posting enqueues a refresh in the same transaction; the trigger `prevent_posted_operation_mutation` | validation of a row that changes before the write |
| Idempotent creation (same service, `repositories/portfolio_operation_idempotency.rs`, `services/operation_fingerprint.rs`) | `portfolio_operation_idempotency` | look up, claim, insert and finalise, replay | unique `(id_user, idempotency_key)` | duplicate and concurrent requests, crash before commit |
| Payload rules (`validate_*` of the service, the CHECKs of `001_init.sql`) | none | accept or refuse a request | what they let through is what the replay reads | two sets of rules, in two languages, and a reader that relies on both |
| Replay (`kushim-worker/src/domain/portfolio_state.rs`) | none: a fold over the ledger | apply per operation type, finalise | called by the rebuild and by the backfill | rounding, missing prices and rates, weights |
| Backfill (`jobs/backfill_daily_snapshots.rs`) | the daily snapshots | one transaction per date | same tables as the refreshes | partial failure, same date as a refresh |
| Market data (`kushim-market-data`) | `asset_market_data`, `asset_price_history_cache`, `fx_rate_history_cache` | refresh quotes, fill missing closes, fill missing rates | read by the replay; two processes may run one job | out-of-order quotes, gaps, locks on rows that do not exist yet |
| FX rates (`domain/fx_rate.rs`, `providers/mock_fx_history.rs`) | none | canonical pair, rate of a day, lookup with carry-forward | used by the FX job | weekends, rounding of quotients and inverses |
| Authentication (`kushim-auth/api`) | `users`, `user_recovery_phrases`, `revoked_tokens`, hand-off codes in Redis | sign up, refresh, log out, set up recovery, reset, exchange a code | JWTs verified by `kushim-api` | handlers without transactions, concurrent rotation |
| Session of the application (`sessionGate.ts`, `stores/auth.ts`, `authenticatedRequest.ts`, `routes.tsx`) | the pair in localStorage, the gate's generation and in-flight refresh, the auth store | validate, ask, refresh once for all, log out, load | HTTP to the auth service | answers after logout or reload, tokens arriving while the page is open |
| Refresh tracking (`stores/refreshTracking.ts`, `portfolioReadModels.ts`, `CreateOperationModal.tsx`) | the request followed, its timer, sessionStorage, the read models on show | submit, follow, give up, resume, select a portfolio | idempotency keys, the status of refresh requests | late, lost and reordered answers, reloads |
| Rate limiter (`services/rate_limit.rs`) | Redis counters | count within a window | one Lua script | window boundaries |
| Read-only API, configuration, health, UI, website | none worth modelling | queries, parsing, presentation | - | - |

What makes each correct, in one line:

* queue: nothing posted is ever silently missing from what users see; a request ends, in an outcome that stays;
* rebuild and snapshot: read models never go back, summary and holdings tell of the same ledger;
* lifecycle: posted operations never change and enqueue exactly one refresh; what is posted satisfies the rules it was validated against; cancelled means never posted;
* idempotency: one key, one operation, and an answer that is about the request that was sent;
* rules and replay: a row that was accepted can always be replayed; cash is the
  sum of the flows, weights add up, and a figure that is not marked estimated is exact;
* snapshots: a day's snapshot is one run's work, a backfilled one is the ledger as of its day, and no date of the range is missing;
* market data: no late write takes a newer quote away, and no gap goes unreported;
* rates: both directions of every pair are found on every day, and agree with each other;
* authentication: a refresh token is exchanged once, but for calls already under way; completed means there is a phrase;
* session: what the browser keeps is of the last session, and nothing once it was cleared;
* tracking: one operation for one form, one poll for one refresh, an end for every notice, and the read models of the portfolio on show.

`PROJECT.json` lists the hazards at their lines, with the properties that cover
them.

## Modules

| Module | Role |
|---|---|
| `RefreshQueue` | the API's posting transaction, the queue table, the worker processes |
| `RefreshContract` | what the refresh promises a portfolio's users, with no queue and no workers |
| `OperationLedger` | concurrent handlers over the rows of `portfolio_operations` |
| `PostedLedger` | what the rest builds on: an append-only ledger of posted operations |
| `IdempotentCreate` | creation and correction under an `Idempotency-Key` |
| `CreateOnce` | what the key promises a client, with no table of keys and no transactions |
| `OperationRules` | which requests the service and the CHECKs of the table accept |
| `PortfolioReplay` | what a rebuild computes from a ledger of accepted operations (EXTENDS `OperationRules`) |
| `DailySnapshots` | refreshes and backfills replacing read models and snapshots statement by statement |
| `PublishedReplays` | what users are shown, with no workers and no rows: one replay at a time |
| `FxRates` | pairs, daily rates, lookups |
| `MarketDataCaches` | the three jobs of `kushim-market-data` in several processes (EXTENDS `FxRates`) |
| `AuthService` | the handlers of `kushim-auth-api`, one statement at a time |
| `AuthSessions` | the user's browser against them: auth front, hand-off, the application's session (EXTENDS `AuthService`) |
| `RefreshTracking` | a dashboard tab: modal, tracking, read models |
| `MC*` | instances for TLC |
| `*Proofs` | theorems |

### RefreshQueue

One action is one committed statement or transaction. The state:

* `posted[p]` - posted operations are append-only, so the ledger of a portfolio
  is a *number*; a derived table is the length of the ledger prefix it was
  computed from (`readModel`, and `snapshot.summary` / `snapshot.holdings`,
  which two different statements read);
* `replayable[p]` - whether `rebuild_portfolio_state` accepts the ledger. A sell
  beyond the position is accepted by the API and rejected by the replay; an
  operation with an earlier `executed_at` may repair it, so every posting
  chooses the value anew;
* `request[r]` - the row: status, attempts, `completed_at` set or not, the
  triggering operation, and the two deadlines the SQL tests (`due`:
  `next_attempt_at <= now()`; `stale`: `processing_started_at` older than the
  lock timeout). `tried` is history: claimed since the last posting coalesced
  onto the row;
* `pc`, `batch`, `job`, `view` - where a worker process is, the claims returned
  and not started, the one in hand, and what it has read.

| Action | Code |
|---|---|
| `PostOperation` / `EnqueueRefreshRequest` | `set_status_posted_with_refresh`, `create_with_optional_refresh`; `INSERT ... ON CONFLICT ... DO UPDATE` on the partial index |
| `MarkExhaustedFailed`, `ClaimBatch` | the two statements at the start of a pass; any subset of the eligible rows within the limit, because `SKIP LOCKED` may pass over any of them |
| `StartRequest`, `EndPass` | the `for request in claimed` loop |
| `ReadLedger`, `ReplaceReadModels` | the rebuild job for the target portfolio |
| `ReadSummary`, `ReadHoldings`, `WriteSnapshot` | the snapshot transaction: two reads, each with its own snapshot in READ COMMITTED, then the writes |
| `RefreshFails` | any `?` of the two jobs; forced when the ledger does not replay |
| `MarkCompleted`, `MarkFailed`, `ScheduleRetry` | the closing statements, `WHERE id = $1` only |
| `ExitOnRetryConflict` | the retry violates the index; the error ends the process |
| `Crash`, `Start` | kill, shutdown that drops the job, an error of a queue statement; a process is started |
| `RetryDelayElapses`, `LockTimeoutElapses` | the clock |

The posting transaction is one action although its statements are several:
nobody else sees its row before the commit, and the claim query tests
`next_attempt_at <= now()` against a value taken at the start of that
transaction, so a claim cannot slip between its statements. Market prices are
not modelled: a refresh reads whatever price is current. The date is fixed:
a snapshot is "today's". `SlowWorkers` says whether the time from a claim to the
end of its work may exceed the lock timeout. A batch of ten is claimed at once
and processed one by one, so 300 seconds are for the whole batch: slow is a real
case, and `SlowWorkers = FALSE` is an assumption, named wherever it is used.

### RefreshContract

`posted`, `visible` and `promise`. Posting makes the promise *owed*; what is
visible moves forward, and only while a refresh is owed; the promise ends *kept*
(everything posted is visible) or *broken* (a failed request says so). The
mapping is `visible <- readModel`, `promise <- Promise`, where `Promise` reads
the request rows; a portfolio with something missing, nothing open and no
failed request of its last operation maps to `"lost"`, which no step of the
contract reaches. One step may end several promises (`mark_exhausted_failed`).

### OperationLedger

A handler *reads and accepts* a row (`BeginUpdate`, `BeginCancel`, `BeginPost`,
`BeginCorrection`) and later *writes by primary key* (`CommitUpdate`,
`CommitCancel`, `CommitPost`, `CommitCorrection`), gets the trigger's exception
(`Rejected`) or never writes (`Abandoned`). Anything may commit in between. Of
the payload the model keeps what the modelled rules tell apart: currency
different from the base currency, FX rate present, corrected operation. Every
operation is taken to have a monetary leg, so that the cross-currency rule
applies; which operation types may carry a correction link is a rule on fields
that each request may set, so it restricts nothing here. The HTTP handlers use
the idempotent variants of create and correct; idempotency itself is in
`IdempotentCreate`.

### PostedLedger

What the worker, and with it `RefreshQueue` and `PortfolioReplay`, takes for
granted: `posted`, a function from the operations posted so far to what they say,
and `refreshes`. The one action posts an operation that does not correct itself,
together with one refresh. The mapping is `posted <- PostedRows`, the posted rows
without their status; pending and cancelled rows do not exist for it.

### IdempotentCreate

`Lookup`, `Validate`, `Claim`, `Insert`, `Reread` are the steps of
`create_operation_idempotent` and `create_correction_idempotent`. `claimant[k]`
is the open transaction that has inserted the key: `INSERT ... ON CONFLICT DO
NOTHING` waits for it. `Insert` is the rest of that transaction, committed.
`Abort` is any failure before the commit and rolls the claim back. A request
is a key, a body (every field that is fingerprinted), whether it went to the
corrections route, and `id_corrected_operation`, which is fingerprinted for
corrections only. `ToggleAsset` is the mutable state validation depends on.

### CreateOnce

A client asks and is answered in one step: its key creates an operation, is
replayed, is refused for another request, or the request is rejected, which
happens to no request sent after its key was used. Assets, transactions and the
table of keys are not there: what a key has created is read off the ledger. The
mapping shows of a call whether it waits or how it was answered (`Client`); a
lost race that found no record maps to an answer no step of the contract gives.

### OperationRules and PortfolioReplay

`Accepted(q)` is the way of one request: `Candidate` (a correction becomes an
adjustment), `ServiceAccepts` (`validate_operation_payload`,
`validate_correction_payload`, `validate_asset_references`,
`validate_cross_currency_posting`), the rounding of `numeric(30,10)` on the way
to the column (`Stored`), and the table's CHECKs (`TableAccepts`). Strings are
parsed already; a decimal is a number of fractions of the column's last digit, so
that a quantity the service finds positive may be stored as 0.

`PortfolioReplay` posts accepted events at any place of the ledger
(`executed_at` is the client's) and evaluates the replay on it: `Apply` is one
event of `PortfolioState::apply`, `Replayed` the fold, `Finalized` the valuation,
`Outcome` how the rebuild ends. Scaled integers stay scaled; the powers of ten
and the limits of `i64` and `numeric(10,4)` are constants. Because an update may
remove the rate of a validated operation before it is posted
([Findings](#findings)), `PostedEvents` also has every event without its rate.

### DailySnapshots

One portfolio. `header[t]` and `rows[t]` are the committed header and holdings of
a *target*: the current read models (`Current`) or the snapshot of a day. What
the rows hold is the set of operations they come from, and who wrote them.

| Action | Code |
|---|---|
| `BeginRefresh`, `ReadLedger` | `process_one` takes the date first; `list_posted_operations_for_portfolio` has no upper bound |
| `ReadSummary`, `ReadHoldings` | the two reads of `generate_daily_snapshots`, each with a snapshot of its own |
| `BeginBackfill`, `SkipDate`, `ReplayDate` | the loop over dates; days before `created_at` are skipped, the others replay `executed_at < next day` |
| `UpsertHeader`, `BeginDelete`, `EndDelete`, `InsertHolding`, `EndInserts` | the statements of a replacement: `INSERT ... ON CONFLICT DO UPDATE`, `DELETE`, one `INSERT` per holding in the order of a `HashMap`, `COMMIT` |
| `BreakDeadlock` | PostgreSQL ends one of a circle of transactions, each waiting for the next |
| `Post`, `Midnight`, `Fail` | clients, the clock, any error: the transaction is undone |

The waits are the heart of the module (`WaitsFor`): a DELETE sees the rows
committed when it began, waits for rivals that are deleting one of them and does
not see what they inserted (`Deleters`); an INSERT waits for a rival that wrote or
is deleting its key (`KeyHolders`); an upsert of the header waits for the rival
that holds the row (`HeaderHolders`). Snapshots write the header first, read
models last, and that is the whole difference between `SnapshotsAreOfOneRun`,
which holds, and `ReadModelsAreWhole`, which does not (see
[Findings](#findings)).

### PublishedReplays

`shown[t]`: the operations of the one replay that a target shows, or none. The
read models are replayed from a posted ledger and move forward (`Rebuild`), a
refresh copies to its day what they show at that moment (`Copy`), a backfill
replays a ledger up to the end of the day (`Recompute`). The mapping (`Shown`)
takes the header's operations when all the holdings are theirs and no others; a
mixture maps to what no action writes. One worker that runs refreshes implements
it, which is proved and which no run checks, since the run `SnapshotsShared` has
two such workers; with two, TLC refutes it as it refutes `ReadModelsAreWhole`.

### FxRates and MarketDataCaches

`FxRates` is pure: the canonical pair (the currency of the higher rank is the
quote), the deterministic rate of a day, weekends without rates, the inverse of a
stored rate, and `LookupLatest`, which carries the last rate forward over at most
`MaxCarryDays`.

`MarketDataCaches` runs the jobs. A quote is fetched (`AskQuote`) and then written
by one guarded upsert (`UpsertQuote`), with anything in between; `answers` is
history, what the run was given. A close is one `INSERT ... ON CONFLICT DO NOTHING`
(`FillClose`). The rates of a pair are one transaction: `FindMissing`,
`FetchRates` (the missing dates, and those present, to correct them), then for
each rate of the set `todo`, the missing dates first and each kind by date
(`NextDate`), `SelectRate` (`SELECT ... FOR UPDATE`: it locks a row
that exists and nothing otherwise; an update if it differs) and `InsertRate` (no
`ON CONFLICT`: a rival's committed row is an error, an uncommitted one a wait),
and `CommitBatch`. `BreakDeadlock` ends one of a circle of batches that wait for
each other, which may happen because missing dates come before present ones.
`CloseUnavailable` is a date the provider does not know: the loop of the asset
ends. `lost` and `skipped` are what the run reports as failed or left early.

### AuthService and AuthSessions

No handler of `kushim-auth-api` runs in a transaction, so each statement is an
action: `RefreshChecks`, `RefreshRevokes`, `RefreshIssues`; `SetupChecks`,
`SetupStoresPhrase`, `SetupCompletes`; and so on. `Breaks` ends a handler after
any of them. A *pair* is an access and a refresh token issued together;
`parent` and `login` record where a pair comes from.

`AuthSessions` is one user with one tab. JavaScript runs from one await to the
next, so an action is what happens between an answer or a click and the next
await: `RefreshSettles` is the continuation of the shared promise *and* of every
caller that awaits it, in the order of the code. `gate` is the generation and the
in-flight refresh of `sessionGate.ts`; `store` the auth store; `storage`
localStorage, which outlives a page. `Hears` is how the browser learns of a
call: its answer, or an error while the handler goes on. `LeavePage`, `OpenApp`,
`ReloadHandoff` start new runtimes; calls under way go on unheard.

### RefreshTracking

The modal (`OpenModal`, `Edit`, `Submit`, `CloseModal`, `CreationAnswered`,
`CreationFails`) with the rule of `attemptRef`: the same form keeps its key. The
tracking store: `StartTracking` takes a new generation, `PollEnds` drops answers
of another one, `PollLater` sets the timer, `TimerFires` polls, gives up
(`TimedOut`) or clears the notice; `ResumeFromStorage` goes on with the request
in sessionStorage. The read models: `Watch` is what the dashboard's effects do
with the state they are given, `LoadEnds` a load that ends. Of the services only
what a tab can tell is there: a known key is answered with what was recorded
(`IdempotentCreate` shows why), a request is settled some time or never
(`RefreshQueue`). A logout clears everything, and so does any call that is
refused afterwards (`ClearAgain`). The generation is a counter in the code; the
model takes a number that no poll remembers, which is as good, since
generations are only compared for equality.

## Runs

Passing runs, with what each shows:

| Run | Instance | Shows |
|---|---|---|
| `RefreshOneWorker` | 1 worker (slow), 2 portfolios sharing batches, 2 operations each, 2 attempts | as deployed: completed requests cover their trigger (`CompletedCoversTrigger`), no posting is lost (`NoLostPosting`), snapshots are coherent (`SnapshotCoherent`), no request fails without a try that could see its last operation (`NotFailedUntried`), read models never regress (`ReadModelNeverRegresses`), and the whole implements the contract (`ImplementsContract`) |
| `RefreshManyWorkers` | 2 workers, prompt, fair | no request has two workers (`ExclusiveClaims`), no posting is refused (`PendingAcceptsPostings`), outcomes stay (`TerminalIsFinal`), every request ends if a worker stays up in the end (`EveryRequestSettles`) |
| `LedgerConcurrentCalls` | 2 rows, 2 handlers | the rows implement the append-only ledger of `PostedLedger` (`ImplementsPostedLedger`: a posted row never changes), exactly one refresh each (`OneRefreshPerPosting`), corrections correct posted rows (`CorrectsAPostedOriginal`) |
| `IdempotentRaces` | 1 key, 2 handlers, 2 bodies, 2 primary keys, fair | one operation per key (`OneOperationPerKey`), successes name it (`SuccessNamesItsOperation`), recorded requests replay although the asset is gone (`RecordedRequestReplays`), the whole implements the creation in one step of `CreateOnce` (`ImplementsCreateOnce`; for it a race loser has to find the winner's record), nobody waits for ever on a key (`EveryRequestEnds`) |
| `ReplayLedgers` | every ledger of 3 operations out of all types, 3 markets | accepted rows are never malformed to the replay (`AcceptedIsWellFormed`), cash, weights and the estimated flag mean what they say (`CashIsTheSumOfFlows`, `WeightsAddUp`, `ExactMeansExact`) |
| `SnapshotsShared` | 2 refreshes and a backfill; 3 operations: purchases of two assets and a sale that removes a holding; 3 days | `SnapshotsAreOfOneRun`, `LastRebuildIsThere`, `BackfillIsAsOf`, `BackfillCoversItsRange`; no run waits for ever on another (`SomeRunAdvances`) |
| `MarketDataFills` | 2 processes of one job, 3 runs, 2 data sets, 3 known currencies and an unknown one, a weekend | a late upsert takes no newer quote away (`NoAnswerIsLost`), `NoUnreportedGap`, `BatchLandsWhole`, `LookupsCarryForward`, `CrossRatesAgree` |
| `AuthSessions` | 2 calls at once, 2 readers and the validation, 3 pairs or 2 resets | `StorageIsOfTheLastSession`, `RotationIsOneWay`, `CompletedHasPhrase` |
| `OperationTracking` | 2 users, 2 portfolios, 2 forms, fair | `OneOperationPerAttempt`, `UnsettledIsPolledOnce`, `UnsettledIsPersisted`, `EveryTrackingEnds`, `LoadedIsActive` |

Violation runs are listed under [Findings](#findings). Each property of a
passing run has a mutant in `PROJECT.json`: a plausible bug, written next to the
definition it replaces as `Mutation of ...`, under which TLC finds the property
violated.

`CHECK_DEADLOCK FALSE` is set where the bounded instance runs out of things to
do (every key used, every run done, the budget of clicks spent):
`OperationLedger`, `PortfolioReplay`, `DailySnapshots`, `MarketDataCaches`,
`AuthSessions`, `RefreshTracking`. Where processes wait for each other's locks a
property says what a deadlock check could not: `SomeRunAdvances`.

## Bounds

* `MaxAttempts = 2` (5 deployed): one retry, and the last attempt, are the two
  cases the code tells apart.
* `BatchSize = 2` (10 deployed): a worker that holds one request and has another
  in its batch; with two portfolios the two are of different portfolios.
* `MaxPosted = 2`: the operation that opens a request and one that comes before,
  between or after its claim, its read and its close. `Requests` are primary
  keys; the first portfolio has as many as postings, so none of its postings is
  blocked for lack of one. The second portfolio of `RefreshOneWorker` has one
  row: it is there to share batches with the first.
* two workers, two handlers: every conflict in the code is between two parties.
* one key in `IdempotentCreate`: keys do not interact, which
  `KeyCreatesOneOperation` proves without the bound.
* `MaxAttempts = 1` appears nowhere: the code then never retries.
* `PortfolioReplay`: three operations, so that a cost can be built up, partly
  sold and moved; units of 2 instead of 10^10 and of 1 instead of 10^4, with
  amounts that do not divide evenly, so that every division rounds both ways;
  `MaxMinor = 300` and `MaxPct = 900` make the limits of the columns bite.
* `DailySnapshots`: `LastDay = 3` and `CreatedOn = 2` give a day before the
  portfolio, its first day and a day to move on to; one run for each of three
  workers, since the rows of a fourth conflict with nobody new; two assets are
  enough for two insertions in opposite orders, and the sale of one makes the
  holdings shrink, so that a DELETE has something to leave behind.
* `MarketDataCaches`: `MaxRuns = 3` is two rivals and one that comes after; a
  range from Friday to Sunday and one to Monday; carry-forward of 2 days, so that
  a weekend just fits; units of 1000 instead of 10^4 and 10^10.
* `AuthSessions`: a behaviour has three pairs (a sign-in, its rotation, and a
  second sign-in or rotation) or one pair and two resets, because the handlers
  of tokens read nothing that those of passwords write (`AppOrRecovery`);
  `MaxGeneration = 2` is an end of a session and a new one within one page load.
* `RefreshTracking`: a behaviour has one of three budgets
  (`EditsReloadsOrSwitches`): two forms and a reload without read models; one
  form sent twice with a reload and a switch of the portfolio; a switch with both
  read models. `MaxPolls = 2` stands for 40: one poll that is followed by
  another and one that is the last.

## Fairness

`FairSpec` of `RefreshQueue`: a running worker goes on (`tokio` runs the loop,
statements end), and the clock makes retry delays and lock timeouts elapse:
weak fairness. Claims are strongly fair *per request*: the query takes rows in
the order of `next_attempt_at`, and a row that stays eligible only gets older
than the others, while the locks that make `SKIP LOCKED` pass over it are held
for one statement. Neither `Start` nor `PostOperation` is fair: nothing in the
repository restarts a worker (`docker-compose.yml` has no restart policy), so
`EveryRequestSettles` assumes that some worker stays up in the end, and says so
in its statement. `Crash`, failures and conflicts have no fairness and no bound.

`FairSpec` of `IdempotentCreate`: handlers go on, and a transaction that waits
for a key is woken when the holder ends (strong fairness on `Claim`).

`Spec` of `RefreshTracking`: a timer that is set fires, and some poll under way
ends, because `apiRequest` aborts every call after a timeout. Nothing is assumed
of users, services or workers: a notice ends although no worker ever runs.

The other modules state no fairness and no liveness.

## Proofs

Everything below is checked by TLAPS to the last leaf.

* `RefreshQueueProofs`. `TypeCorrect` (`Spec => []TypeOK`) includes that attempts
  stay within the maximum and that a worker at work has a claim. The theorems
  `ClaimsExclusive`, `PostingsAccepted` and `TerminalForGood` assume
  `SlowWorkers = FALSE` and hold for any number of workers, portfolios, rows
  and attempts. They rest on one invariant, `ClaimInv`: a claim a worker holds
  and the row agree (processing, not stale, same attempts), two claims never
  name the same row, and pending or processing rows have no `completed_at`. It
  is needed because the closing statements write by key: that they close a row
  which is still processing follows only from nobody having taken it.
  The promises to the users of a portfolio assume `OneWorker` instead (as
  `docker-compose.yml` runs it) and nothing of its speed: it may outlive the lock
  timeout, fail and crash anywhere. `PromiseInv`: some row carries the last
  operation of each portfolio (`LatestOK`); a pending row has attempts left, and a
  claimed or failed one was tried since the last posting on it (`RowOK`); the
  claims in the worker's hands are the rows they were taken from (`HandsOK`); what
  the worker has read covers the operation that triggered the request and is not
  older than what is visible (`ViewOK`); and snapshot, read models and ledger are
  prefixes of each other in that order (`DerivedOK`). None of the five properties
  is inductive: that a completed request covers its operation needs to know what
  the worker had read when it closed the row. `QueueImplementsContract` is the
  refinement: every step of the queue posts, publishes or settles in
  `RefreshContract`, or changes nothing of it.
  Several workers do not keep these promises ([Findings](#findings) has the
  behaviour); what they do keep is proved without `OneWorker`:
  `QueueKeepsPostings`, for any workers of any speed, the queue has a
  request of the last posting and at most one pending per portfolio;
  `PromptTriedBeforeFailed` and `PromptCompletionCovers`, for prompt workers
  (`SlowWorkers = FALSE`), a request is given up only after a try that could see
  its last operation, and completed only by a refresh that had read the ledger up
  to its trigger. Both are refuted for slow workers, whose closing statements
  reach rows that others have claimed since.
* `OperationLedgerProofs`. `LedgerInv` is the conjunction of types,
  `OneRefreshPerPosting` and `CorrectsAPostedOriginal`; `WriteLedger` is the one
  lemma about a committed write, used for update, cancel, post and insertion.
  `PostedForGood` follows from the trigger's guard on each write.
  `LedgerIsAppendOnly` is the refinement of `PostedLedger`; it adds that no row
  corrects itself, which the checks of update and correction keep.
* `IdempotentCreateProofs`. `KeyInv` adds to the two properties that a handler
  about to insert holds the claim of its key, that a claim and a committed
  record exclude each other, and that a race loser's key has a record.
  `AnswerInv`, on top of it, is about answers: a record names the operation that
  was inserted for it, a success names an operation, and a request whose key was
  recorded when it was sent never gets past the lookup. `CreationIsAtomic` is the
  refinement of `CreateOnce`: the insertion is its creation, the answer from the
  record its replay or conflict, and every other step changes nothing that a client
  can tell; the two invariants exclude the rejection of a recorded request and the
  lost race without a record (`RaceLoserReplays`).
* `PortfolioReplayProofs`, for ledgers of any length, any requests, prices and
  units. `PostedIsReadable`: a posted operation never lacks what the replay
  requires, because the rules of the service and the CHECKs of the table imply,
  type by type, what each arm of `apply` asks for. `TableRefusesExactly` compares the
  two sets of rules in the other direction: of what the service accepts, the CHECKs
  refuse exactly the requests with a value their type has no use for (a quantity
  with a deposit) or with a decimal that the column rounds to zero. `PositionsNeverNegative`:
  positions and what was invested in them stay at or above zero or the replay ends
  with an oversell; the invested amount of a sale or transfer is a rounded share of
  what is there, so the lemma is that such a share never exceeds the whole.
  `CashAddsUp`: cash is the sum of inflows less that of outflows, whatever the
  order. `WeightsAlwaysAddUp`: every weight is off by at most half a unit, so the
  total is off by at most half a unit each; proved by adding one holding at a
  time. `ExactIsExact`: once an operation has marked the summary estimated no later
  one unmarks it. The replay and the sums are folds: what a fold computes is shown
  by its smallest counterexample (the set of lengths, or of sizes of subsets, for
  which the statement fails would have a least element). Assumed of the constants:
  units and limits are positive, prices are not negative, fields are numbers or
  absent.
* `DailySnapshotsProofs`, for any finite number of workers, any operations, assets
  and days. `SnapshotsInv`: the holdings a writer has in hand are its own and those
  of the ledger it replayed; of the writers of one snapshot only the one that holds
  the header's row lock sees or deletes holdings; the dates that a backfill has
  passed are written. The lock on the header is what the theorem
  `OneRunPerSnapshot` rests on. About waiting, with `GrabsInv` (only a run that is
  inserting, or is about to write the summary, has anything others wait for):
  `NobodyWaitsForEver`, some run needs nothing that another holds or is in a circle
  that PostgreSQL breaks; and `OnlyRebuildsDeadlock`, such a circle is one of
  rebuilds inserting into the current read models, never of writers of daily
  snapshots, who take the header first. For any workers, too, with `KeysInv` (a
  row in hand shares its asset with no row that its writer leaves there, nor with
  any that a rival has inserted or is deleting): `NoAssetTwice`, the waits as they
  are modelled keep the unique keys of the tables, and `HeldAsWritten`, the
  worst that rebuilds at once leave behind are holdings of assets that the last one
  does not hold. `LoneRefresherIsAtomic` assumes one worker that runs refreshes,
  beside any backfills: then the read models and all snapshots always tell of one
  replay. `LoneRefresherPublishes` is the
  refinement of `PublishedReplays` under the same assumption. Its invariant
  (`ForwardInv`) is that what the worker is about to write to the read models is not
  older than what they show, and what it is about to write to a day is what they
  show. The two are why `RefreshQueue` may take a replacement for one step, and a
  snapshot for a copy of the read models, when `OneWorker` holds.
* `AuthSessionsProofs`, for any numbers of calls, pairs, resets and page loads.
  `AuthInv`: a pair that has a successor is revoked (`PairsInv`), the answer to a
  call is of the sign-in of the call and a refresh that is waited for in the
  current generation is of the current session (`CallsInv`), there is an account
  behind every phrase on show and a completed one has a phrase (`AccountInv`), and
  localStorage holds an issued pair of the last session (`AppInv`).
* `RefreshTrackingProofs`, for any users, portfolios, forms, polls and page loads.
  `TrackingInv`: a form has one key and a key one form and one operation; a
  followed request has exactly one timer or one poll of the current generation;
  what is persisted is what is followed; every slice of the read models is of the
  active portfolio or empty. That a fresh key, a fresh generation and a free row
  always exist is counted (a finite set of numbers misses one).
* `MarketDataProofs`, for any processes, assets, currencies, ranges, releases and
  answers of the providers. `ClosesInv`: assets that a run has finished have every
  close of its range, and the current one those before the current date.
  `RatesInv`: every stored rate is what the provider has for its day and data set,
  and on no weekend; a batch forgets no business day of its range (each is still to
  be done, written, or locked and right already); what it will write is locked by
  it or absent from the table; two batches never hold the same row; the pairs a run
  has done with have no gap; rows never disappear. `NoGapGoesUnreported` and
  `LookupsAreCarried` follow from it; `BatchesLandWhole` needs the locks: a row the
  batch only looked at cannot have changed at its commit. `CrossRatesAlwaysAgree`
  is arithmetic on quotients rounded half to even, for any vector of units; the
  error of a product of two rounded rates is bounded by the two rates.
  `AnswersInv`, of the quotes: each answer a run was given is stored, superseded by
  one that is not older, for an asset that is gone, or still in hand; the upsert of
  a rival keeps that because what it replaces is never newer. `NewestAnswerStays`
  follows when the run has ended and nothing is in hand. Assumed
  (`FxRatesAssumptions`, `RatesArePositive`): ranks differ, a day's variation is
  below 100%, and no rate rounds to zero, which the CHECK on `canonical_rate`
  demands and the frozen table of anchors satisfies.

Each module also proves the type correctness of its component, but two:
`PortfolioReplay` has no state beyond the ledger and the market, whose invariant
(`LedgerOK`) is about the accepted operations; and the types of `MarketDataCaches`
are spread over `ClosesInv` and `RatesInv`, field by field where a job uses it.

Only model-checked, since the prover cannot state them:

* liveness: `EveryRequestSettles`, `EveryRequestEnds`, `EveryTrackingEnds`. The
  prover has no rules for fairness;
* `SomeRunAdvances`, which is stated with ENABLED so that TLC takes the guards from
  the actions themselves. `NobodyWaitsForEver` is its counterpart without ENABLED:
  what remains to TLC is that a run which needs nothing that is held has a step.

## Findings

Where the code does something a document, a comment or the name of a thing says
it does not. Three are runs that end in a counterexample:

| Run | What the code does |
|---|---|
| `RefreshRetryConflict` | a refresh fails while a newer request of the same portfolio is pending: setting it back to pending violates the unique index, the error ends the worker's loop, and neither retry nor failure is recorded. `main` then waits for a signal (`kushim-worker/src/main.rs:80-87`): the process neither works nor exits. The row is recovered after the lock timeout, by a worker somebody started |
| `LedgerCancelledPosted` | a post that read the row before a cancellation posts the cancelled operation |
| `IdempotentOtherCorrection` | two creations under one key that differ only in `id_corrected_operation` are taken for the same request |

The modules define further properties that TLC refutes in the same instances;
they are kept as definitions, with the reason, and are not runs:

* `NoLostPosting`, `ReadModelNeverRegresses` and `SnapshotCoherent` with two workers
  (a configuration the deployment does not use, but `SKIP LOCKED` and its comment
  are written for): two of them refresh one portfolio at once, and the older ledger
  is written last, or the rebuild of one commits between the two reads of the
  other's snapshot. `RefreshOneWorker` excludes this by its one worker, and so do
  the theorems that assume `OneWorker`.
* `TerminalIsFinal`, `ExclusiveClaims` and `PendingAcceptsPostings` with
  `SlowWorkers`: a terminal row is reopened or changes outcome, because closing
  statements test neither status nor owner; a late retry also leaves
  `completed_at` on the pending row, on which the next posting breaks a CHECK.
  `RefreshManyWorkers` excludes this by assuming prompt workers.
* `PostedSatisfiesCrossCurrency` (`OperationLedger`): a post that validated the
  row before an update posts a cross-currency operation without a rate; the
  replay then counts the amount as 0 and marks the summary estimated.
* `CorrectionChainsEnd` (`OperationLedger`): updates can make two pending
  adjustments correct each other, and both can be posted.
* `ReadModelsAreWhole` (`DailySnapshots`): two rebuilds at once; the DELETE of one
  does not see what the other inserted, so a holding that only the older ledger
  has stays beside the newer ones, although `read_model_rebuild.rs:176` speaks of
  an atomic replacement. `LastRebuildIsThere` is what remains true, and
  `HeldAsWritten`: what is left over are positions in assets that the last rebuild
  does not hold.
* `ErrorMeansEveryPairFailed` (`MarketDataCaches`): the FX documentation
  (`historical-fx-foundation.md:331`) has the job fail only when every pair fails;
  it fails when one pair failed and the others had nothing to write.

Disagreements met while modelling that no property states:

* the service accepts a field that the type of an operation has no use for, and a
  decimal below half of the column's last digit; the table's CHECKs refuse both, and
  the client gets an internal error instead of a validation error
  (`TableRefusesExactly`; `portfolio_operations.rs:2136`);
* a stored rate is inverted with PostgreSQL's rounding (half away from zero)
  while `mock_fx_history.rs` rounds half to even; a comment says the two match;
* `data-flow.md:125` and `kushim-worker/README.md:148` value a holding without a
  price at 0, the code at what it cost;
* `validateSession` writes the token it sent back into the auth store
  (`stores/auth.ts:113`), over that of a rotation in between; requests read
  localStorage, so nothing comes of it;
* when tokens arrive while the dashboard is already open, `RequireAuth` never
  validates them and the page stays idle (`routes.tsx:69`);
* a refresh that times out clears the session (`sessionGate.ts:111-114`) although
  the rotation may have succeeded, while `httpClient.ts:21-22` has timeouts leave
  the session alone;
* a logout that races a refresh leaves the rotated token valid, and two
  concurrent refreshes with one token both succeed (`RotationIsOneWay` is about
  calls sent after the revocation, and would not tell);
* a reset whose answer is lost leaves the user with a phrase nobody has seen, and
  an orphaned reset may overwrite the phrase of a later one;
* a creation answered after a logout writes its sessionStorage entry again;
* after a switch during `reloadAll`, the dashboard's snapshots and list of
  operations, which are loaded without asking whose they are, may be those of the
  portfolio that was tracked.

## Not modelled

* The rate limiter (one Lua script on a counter with a window), the purge of
  expired revocations, wrong passwords, validation of inputs: each is one atomic
  statement, or a refusal that changes nothing.
* Several tabs: they share localStorage and nothing in the code reacts to the
  changes of another tab.
* The price that the replay of a past date chooses, `WORKER_SNAPSHOT_DATE`, the
  loop of a job over all portfolios (one portfolio after another, ended by the
  first error).
* The snapshots, the list of operations and the other pages of the application.
* In `RefreshQueue` the replacement of the read models is atomic;
  `DailySnapshots` splits it.
* Overflow of the `i128` intermediate results of a fold: the limits are tested
  where the figures are written (`to_i64_safely`, the columns).
* What Finnhub answers: a quote, none, or an error are choices. The limit of 366
  days on a range, which refuses it before the job begins.
* The render between a change of a store and the effects of the dashboard, which
  `RefreshTracking` runs in the step of the change: a view may be stale for one
  render.
* Deletion: no code path deletes portfolios, operations or requests.
* Read-only endpoints, presentation, configuration, health: no state of their own.
* Half of the lines of the Rust crates are tests written inline; of the other
  half, and of the TypeScript, most of what has no model is request and response
  types, row mapping, query text, formatting, configuration and pages. The logic
  that decides something about shared state is in the modules above.

## Plan

What the project leaves open:

1. Which positions a rebuild may leave behind: those of rebuilds that overlapped
   it. That needs the history of the runs.
2. The rate limiter with the clock of its window.
3. Several tabs of one browser, which share localStorage.
