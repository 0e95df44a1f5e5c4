# DANTE API Systems: a TLA+ development

DANTE is a Go gateway between mobile clients and a legacy SOAP bank. It keeps its
own tables (PostgreSQL), caches (Redis) and work queues (RabbitMQ), accepts
payments synchronously and executes them asynchronously. This directory models the
parts of it that keep or share state, checks them with TLC on small instances, and
proves the central results with TLAPS for every value of the constants.

`PROJECT.json` is the index: components, runs, the definition-to-line map, the
mutants that show that each property can fail, findings, hazards and theorems.

## 1. Inventory

| Component (source) | State | Operations | Hard about it | Correct when |
|---|---|---|---|---|
| Payment intake (`service/payment/qris.go`, `transfer.go`) | rows, events, cached status | `CreateTransaction` | retries of one idempotency key interleave; six writes without a database transaction; a client or the process that goes away in between | one creator per key, answers agree with the row, no row is orphaned silently |
| Merchant catalogue (`resolveMerchant` in `qris.go`) | merchants table | find by id or code, ask legacy, insert, reload | payments to a new merchant race to insert it; one merchant has several references | one row per merchant, payments name it, a replay by any reference is recognised |
| Work queue (`queue/`) | primary, retry and dead-letter queue, unsettled deliveries | publish, consume, retry, dead-letter, reconnect | copy-then-acknowledge, lost sessions, crashes, transient messages | no job vanishes, attempts are bounded, jobs conclude |
| Payment workers (`service/payment/worker.go`, `transfer_worker.go`) | row, cache, legacy ledger | `HandleQRISPayment`, `HandleTransfer` | at-least-once delivery, legacy call with lost reply, partial failures, a job deadline or a signal that cancels the handler and its clean-up | executions bounded by faults, SUCCESS implies executed |
| Status reads (`service/transaction/status.go`) | status cache | `GetStatus`, background fill | the fill outlives the request and may write an old status | cache converges |
| Circuit breaker (`legacy/circuitbreaker.go`) | state, counters, opening time | admit, record success or failure | results recorded in a later state than the call was admitted in | counters agree with the state, legal transitions, recovery |
| Merchant lookup (`service/merchant/service.go`, `cache/redis.go`) | cache entry, lock, row | `GetMerchant` | lock expiry against call deadlines, late releases, late fills | a second fallback only once the first has outlived its lock, bounded staleness, everyone answered |
| Sessions (`service/auth/service.go`) | token in Redis, legacy session, user and account rows | register, login, provision, get session, logout | racing first logins; logout in two systems, either of which may fail | one local account, logout ends both sessions, no legacy session is left behind without a failure |
| Account reads (`service/account/service.go`) | balance snapshot in Redis and PostgreSQL | `GetBalance`, `GetProfile` | refresh races the worker's invalidation | served balance is recent |
| Transaction detail (`service/transaction/detail.go`) | none | `GetDetail` | reads beside the workers | shows SUCCESS only after an execution |
| History (`service/transaction/history.go`) | none of its own | `ListByAccount` | rows inserted between pages, equal timestamps | descending, complete, terminating |
| Rate limiter (`middleware/ratelimit.go`) | one token bucket per address | `Handler` | concurrent first requests | one budget per address |
| Legacy client (`legacy/client.go`) | none | one SOAP call per operation | a reply may be lost after the operation was carried out | every reply is classified |
| HTTP API and process (`bridge/bridge.go`), cache policy | whether a signal has come | handlers, TTLs, start and stop | the signal stops the workers but not the HTTP server | workers end; accepted payments settle after a restart |
| Configuration, observability, migrations, generated queries, queue inspection | none that a decision reads | | | not modelled (section 8) |

Interaction. An HTTP handler passes the rate limiter, validates its token (Sessions)
and calls one service. Payment intake inserts a row, writes an event and the status
cache, and publishes a message; from then on intake, workers and status readers
share nothing but the tables, the cache and the queue. Workers call the legacy
bank, write the row and the cache, and delete the account's balance snapshot. The
merchant lookup calls its legacy reader through the circuit breaker, one per process
for all merchants. With the `NoopMerchantClient` that `bridge.go` wires at present
every such call fails; `MerchantService` models any `MerchantReader`, that one
included. SIGINT or SIGTERM cancels the context of the worker loops and of the jobs
they run; `ListenAndServe` is not shut down, so the process goes on accepting payments
until it is killed.

## 2. Plan

Order of construction, most important first; all of it is done:

1. circuit breaker, work queue
2. payment path: store, intake, worker, status reads, their composition, and the
   abstract contract it implements
3. merchant lookup, alone and behind the circuit breaker
4. history behind the rate limiter
5. sessions and account reads
6. the merchant catalogue inside the payment intake, legacy replies inside the worker,
   cancelled jobs, stop and restart of the process
7. proofs: a theorem for every invariant and every action property that the passing
   runs check, the contract included

Left: the liveness properties, which stay with TLC (section 7).

## 3. Modules

| Module | Models | State and actions |
|---|---|---|
| `CircuitBreaker` | `circuitbreaker.go` | `state`, `failureCount`, `successCount`, `openAge` (time since `openedAt`), `caller`; `Admit`/`Block` are the two results of `allowRequest`, `CallSucceeds`/`CallFails` record a result |
| `WorkQueue` | `queue/` | three queues as bags of (job, x-retry-count), each worker's delivery and place in `runSession`'s loop, whether its channel is open |
| `WorkQueueHistory` | the queue with any handler | adds which jobs were published and handled, and counts of runs and failures |
| `TransactionStore` | tables and status cache | a transaction is named by its idempotency key; every statement commits by itself and may fail before or after the commit |
| `MerchantCatalogue` | merchants table, `merchant_id` | a row is named by the request that inserted it; `CodeOf` is the legacy bank's idea of which merchant a reference means |
| `PaymentIntake` | both `CreateTransaction`, `resolveMerchant` | one step per call the code makes, on top of `WorkQueue`, `TransactionStore` and `MerchantCatalogue` |
| `PaymentWorker` | both handlers | one step per call; `ledger` counts executions by the legacy bank; `CancelHandler` is a job whose context is over |
| `StatusReads` | `GetStatus`, `GetDetail` | cache, row, background fill; one read of the row |
| `PaymentPipeline` | the composition | the `Next` of all of the above, `Stop` (the signal) and `Restart`, fairness, properties; `interrupted` is a ghost count of the runs a signal cut off |
| `TransactionContract` | abstract specification | open once, execute only what is open, SUCCESS only after an execution, never back to PROCESSING |
| `MerchantLookup` | `GetMerchant`, its lock and cache entry | explicit time: ages of lock, entry, call and fill; `held` is the time since Redis granted a request its lock, which the code does not know |
| `MerchantService` | the lookup behind the circuit breaker | `MerchantLookup` and an instance of `CircuitBreaker` side by side: one process's lookup goes through its breaker, which lookups of other merchants share; other processes compete for the lock |
| `RateLimiter`, `TransactionHistory`, `HistoryBrowsing` | limiter, pagination, clients that page through the limiter | `budget` is a ghost single bucket the admissions are compared with; a page is the first `Limit` rows by `Rank`, the number of newer rows, which is what `ORDER BY ... LIMIT` returns |
| `LegacyClient`, `Sessions`, `AccountReads` | reply classification; auth service; account service on top | each legacy call goes on by the classified reply; balances are versions, times count down; a client keeps one token, the last it was given |
| `MC*` | TLC instances | request sets, addresses |
| `*Proofs`, `WorkQueueFacts` | TLAPS proofs, and the lemmas on queues that those of the queue and of the payment path share | section 7 |

Conventions. A call that changes a remote system and fails may have had its effect or
not. The one exception is publishing: the AMQP client reports an error only if it could
not write every frame of the message, and the broker drops an incomplete one, so a
failed publish leaves nothing in the queue (one that is reported as successful may be
lost all the same). A stop of the process counts as one fault, whatever it cancels. A
crash of a handler loses what only it knew. Definitions marked "Mutant" are wrong
variants of the definition that follows them; nothing uses them except the mutation runs
listed in `PROJECT.json`.

Data is abstracted to what the properties tell apart: a balance is the number of
payments before it, a message its job and retry count, a row in a listing its
timestamp and id, a cursor the row it names (its encoding keeps nanoseconds, the
database microseconds).

## 4. Runs and bounds

| Run | Instance | Shows |
|---|---|---|
| `breaker` | 3 callers, thresholds 3 and 2, timeout 2 ticks | counters agree with the state under any order of late results; only legal transitions; recovery |
| `queue` | 2 workers, a well-formed and a malformed job, 1 retry, 2 faults, 1 broker restart | no job vanishes, dead letters are exhausted, runs bounded by faults, jobs conclude |
| `pipeline_intake` | 2 clients, one key used for 8 requests of both kinds, a merchant with three references and an unknown one, 1 worker, 1 fault or stop, 1 broker restart | one creator, one merchant row, answers as stored, no conflict for an equal QRIS payment, an owner for each PROCESSING row, the contract |
| `pipeline_execution` | a payment or a transfer, 2 workers, a reader, 1 fault or stop, fairness | executions bounded by faults and by runs a signal cut off; fault-free FAILED is unexecuted; SUCCESS is executed; accepted payments settle, the cache converges, stopped workers end |
| `merchant` | 2 lookups of one merchant and 1 of another, lock 2, call 1, reply delay 1, release 0, fill 1, negative entry 1 tick, breaker thresholds 2 and 1, open for 1 tick | overlapping fallbacks are a lock's TTL apart, bounded staleness of 404, free lock again and again, answers, a breaker that lets lookups through again |
| `history` | 2 clients of one address, burst 1, 3 rows, 2 timestamps, page size 2 | one budget, descending and complete pages, an end |
| `accounts` | 2 devices, session life 1, 1 fault, 1 payment, balance TTL 1 | one local account, recent balance, complete and terminating logout, no orphaned legacy session without a failure |

Why these are enough to meet the interesting cases: two actors are what every race of
the code needs (two creators, two workers on one job, two holders of the lock, two
provisioners); the breaker takes a third so that a late result, a probe and a new call
coexist. One retry gives a first, a last and an exhausted attempt. In the queue two
faults let a second one strike during the recovery from the first; the payment path has
one fault or one stop of the process, and its safety properties are proved for any
number of them (section 7). Three rows with two timestamps and pages of two put equal timestamps on
both sides of a page boundary, and a history whose length is the page size. Times are
small but keep the order of the code's values: lock TTL (3 s) above call deadline (2 s),
which is not zero, and a Redis reply (up to 3 s) late enough for the lock to expire
during the call, so that fallbacks do overlap in `merchant`; a balance may expire during
a refresh and a session during a login. The bounds on faults, restarts, payments and
rows are constants in the guards (`MaxFaults`, `MaxRestarts`, `MaxPayments`, `MaxRows`).

`pipeline_intake` uses the symmetry of its two clients: they may send the same requests
and appear elsewhere only as names of merchant rows; it checks no liveness.

`CHECK_DEADLOCK FALSE` is set for the queue and pipeline runs only: a client asks
once, so the system stops when everything is settled.

## 5. Fairness

- Handlers and consumer loops take their next step: every call has a deadline or
  returns an error (jobs 15 s, HTTP client timeouts, Redis and database contexts).
- The broker delivers, and expires retries (per-message expiration); consumers
  reconnect every 3 s. A loop whose context is cancelled leaves: Go's `select` does not
  pick a ready delivery for ever, and the queue of a bounded instance runs dry.
- The status cache entry expires (30 s TTL). Time passes in the breaker, the
  merchant lookup and the limiter. In the merchant lookup `Tick` has strong
  fairness: steps with a deadline disable it for a while but cannot hold the clock.
- The breaker's recovery (`Recovers`) assumes that requests keep arriving, since only a
  request half-opens it. `CircuitRecovers` assumes no arrivals: a lookup is not refused
  for ever, be it that none comes.
- History: clients retry, and reads do not fail for ever (strong fairness of a
  successful page). Accounts: a client that wants to log out keeps asking; no
  progress of time is assumed, so a logout does not succeed merely because the
  session expires.
- No fault, crash, stop, restart or payment is ever obliged to happen, and none of these
  properties needs one.

## 6. Where the code and its documents disagree

Five runs expect a violation, each of a sentence quoted in `PROJECT.json`:

- `breaker_late_success`: `recordSuccess` clears `failureCount` in the OPEN state as
  well. After a late success a failed probe leaves the breaker HALF_OPEN, where the
  test's comment and the quick reference say it re-opens. Without overlapping calls
  the sentence is true, and proved (`SequentialHalfOpenFailureReopens`).
- `pipeline_final_result`: a redelivered job is executed again and overwrites a
  settled status: handlers never read the row.
- `pipeline_failed_paid`: a legacy call that executed the payment and lost its reply
  is stored as FAILED.
- `pipeline_conflict`: a transfer retried between the insert and the CREATED event
  of the first attempt is answered with an idempotency conflict.

- `merchant_overlap`: the lock on a merchant lives for 3 s from its grant in Redis, the
  legacy call for 2 s from the moment `GetMerchant` sees the reply, and the reply may
  take up to the Redis read timeout, 3 s. A grant seen more than a second late lets a
  second request into the fallback beside the first, where the cache document and the
  comment of `AcquireMerchantLock` promise a single one. The run uses the code's values
  in seconds. What does hold is `FallbacksAreSpaced`, checked by `merchant` and proved.

`TransactionContract` states what does hold of the payment path, and
`ExecutionsBoundedByFaults` and `FailedNotPaidWithoutFault` how far the promises go
in the absence of faults.

## 7. Proofs

All are for arbitrary sets of actors and arbitrary bounds, from the named `ASSUME`s
of the modules alone: settings the code makes positive, lifetimes and bounds that are
natural numbers, null values that are not actors, request sets of the right shape
(`RequestAssumption`), references that mean one merchant each (`CatalogueAssumption`)
and, for the merchant lookup, a release deadline below those of a fill and of the
negative entry together (`TimingAssumption`: 2 s against 2 s and the negative TTL). Every
theorem has the same frame: an inductive invariant, one lemma per group of actions that
preserve it, and a last step that combines them. TLC finds these invariants to hold on
the instances of section 4, too.

- `CircuitBreakerProofs`. `CounterInv` (types, a failure left in CLOSED, successes
  counted in HALF_OPEN only) is inductive as it stands and gives `TypeCorrect`,
  `ClosedHasFailuresLeft`, `ProbesAreCurrent` and the action property
  `OnlyLegalTransitions`. For callers that do not overlap, `SequentialInv` adds that
  outside CLOSED all failures are still counted and that nobody is calling in OPEN.
- `WorkQueueFacts`: what adding and removing a message does to a queue and to the set of
  copies (`Copies`) of a job in it.
- `WorkQueueProofs`. `TypeCorrect` from those. `DeadLettersAreExhausted` needs
  `CountInv`: no message claims more retries than its job has had failures, and a
  worker about to settle a failure has one more to show; the property alone says
  nothing of the message being settled. `JobsAreKept`: `NoJobVanishes` is inductive
  with the types; the lemma `HandedOver` covers the steps that move a job from a worker
  to a queue. `RunsAreBounded` is an account: `TotalRuns(j)` adds to the runs there have
  been those that every copy in a queue and every worker holding one may still lead to,
  by its retry count. Publishing fills the account with `MaxRetries + 1`, a fault adds
  as much at most, and every other step passes runs on, uses or drops them.
- `PaymentPipelineProofs`: what is accepted. `TypeInv` gives `TypeCorrect`. `AcceptInv`
  gives `KeysHaveOneCreator`, `AcceptedIsStored`, `PayeesAreCatalogued` and
  `QRISConflictsAreMismatches`, which hold only together: `CatalogueHonest` says that
  a row of the merchants table was inserted for its own code, so no two codes share
  one, `PayeeKnown` that a stored QRIS payment is to a merchant the bank knows, and
  `HandlerKnows` what a handler has established at each step. `OutsideIntake` shows
  that workers, broker and readers disturb none of it.
- `PaymentExecutionProofs`: what is executed.
  `SuccessFollowsPayment` adds to `SuccessIsPaid` the outcome in a worker's hand, from
  which row, cache and answers get their SUCCESS (`PaidInv`).
  `PipelineImplementsContract`: the mapping takes `executed` to `ledger`; initial
  states map to initial states, and under `TypeInv` and `PaidInv` each step maps to a step of
  `TransactionContract` or to none.
  `UnsettledIsOwned`: `OwnerInv` counts only workers whose channel is open and that have
  not handed the payment on, since the others' message is somebody else's by then, and
  adds that a worker past its row update has settled the row.
  `ExecutionsAreAccountedFor` is again an account: `Spent(k)` adds to the executions
  there have been the copies of the message and the workers that may still call the bank
  or have the job retried (`SpentInv`, at most `1 + faults + interrupted`; `UnsentIsIdle`
  says that before its one publication a key has spent nothing).
  `FailedWithoutFaultIsUnpaid`: in the absence of faults a refusal has used up the one
  execution there is, so nothing is left that could execute the payment behind its
  FAILED row (`RefusedInv`).
- `MerchantLookupProofs`. `FallbacksApart` is a matter of time: `Owned` says that a
  request in the fallback still has the lock, which is then as old as its grant, or was
  granted it at least `LockTTL` ago, and carries `FallbacksAreSpaced` along; a new grant
  finds every earlier one that old. No order between the lock's TTL and the deadlines of
  Redis and of the legacy call is assumed, since the code has none. `TimelyGrantsExclude`
  says what it lacks: with `ReplyDelay + LegacyTimeout < LockTTL` the spacing and
  `Punctual` (no step outlives its deadline) leave one request at a time in the legacy
  call. `NotFoundFresh` follows the evidence of absence (`Dated`) from the legacy
  reply through the background write into the entry, each hop adding its deadline.
  `ServiceImplementsLookup` shows that a step of `MerchantService` is a step of
  `MerchantLookup` or none, which carries these results over to the composition
  (`ServiceKeepsPromises`). `BreakerServesLookups`: the breaker's own invariants hold
  there too, although a refused lookup leaves the breaker without being recorded and a
  new process replaces it, and `InStep` says that breaker and lookup agree on which
  call is under way.
- `AccountReadsProofs`. `AccountInv` has two halves. `SessionInv`: a token, like a login
  about to store one, names the account there is; a logout deletes the token after the
  legacy session has ended; no TTL runs out before the legacy session; and a reload
  finds its row unless a call failed. It gives `TokensNameOneAccount`,
  `LogoutEndsBothSessions` and `OnlyFaultsOrphan`. `BalanceInv`: what a refresh has
  read was replaced, if at all, since it read it, and the age of a snapshot's value and
  the rest of its TTL never exceed `RefreshTimeout + BalanceTTL` together; it gives
  `ServedBalanceIsRecent`.
- `HistoryBrowsingProofs`. `AddressHasOneBucket`: the stored limiter of an address holds
  what the single bucket would, and a request about to ask holds the stored one
  (`LimiterInv`). `PagesAreInOrder` and `PagesAreComplete` rest on `PageFacts` (a page
  has the newest rows beyond the cursor, in order, and all of them if it is short), which
  follows from the ranks being a bijection by counting, without induction; `ReaderInv`
  says that the cursor is the last row read and that what a reader has not seen of its
  baseline is beyond it.

Two of these proofs failed at first, and rightly. The bound of
`ExecutionsBoundedByFaults` counted a stop of the process as one fault, but one stop
cuts off every run under way, each of which may be executed again: with two workers on
two copies of one message it was wrong; the runs are counted now. `Sessions` let a
client hold a token of an earlier login while it logged in anew, so that the older,
shorter token decided whether the new session was still reachable; with sessions of more
than one tick `OrphansAreFaults` did not hold. A new login's grant replaces the token
the client holds. Neither showed on the small instances.

Model-checked only: the liveness properties (`Recovers`, `CircuitRecovers`,
`JobsConclude`, `AcceptedSettles`, `CacheConverges`, `WorkersStop`, `LockIsReleased`,
`LookupsAnswered`, `HistoryEnds`, `LogoutSucceeds`), because fairness and `ENABLED` are
outside the prover's reach. The sentences of section 6 are refuted, not proved.

## 8. Not modelled

- Configuration, observability, database set-up and migrations: read or run once,
  or write-only; no decision of the program depends on their state.
- Generated query code: `TransactionStore`, `MerchantCatalogue`, `Sessions` and
  `TransactionHistory` model the SQL it is generated from.
- Queue inspection and the readiness and diagnostics endpoints, with the legacy
  client's `Ping`: they read and report. `GetBankDetails` is called by nobody.
- Response mapping and validation of handlers.
- The legacy call log: written best effort, read by nobody; its write is part of
  the worker's handler and changes no modelled state.
- The order and delays of the retry queue: RabbitMQ expires messages at its head only,
  so a retry may wait behind one with a longer delay. Retries come back in any order
  and at any time in `WorkQueue`, which includes that.
- `accounts.balance` is written by `GetBalance` (`snapshot` in `AccountReads`) and
  never read.
- Limiters are never removed from the rate limiter's map; there is no bound to
  state a property against.
- How often lookups that missed together repeat the legacy fallback one after the
  other: they do, harmlessly; no line bounds it.
