# TLA+ models of CoinBot

CoinBot is a set of Rust services around one PostgreSQL database, one Redis
cache and one KuCoin account. Users deposit on chain and sign contracts that
lock part of their balance; an analyzer watches candles and publishes signals;
a trade engine turns signals into market orders that draw on the contracts'
funds. This directory holds TLA+ models of these services and of the research
programs that choose the analyzer's strategy, the TLC instances that check
them, and the proofs that tlapm checks. Paths are relative to the repository
root.

    tlc -workers 2 -config EngineOrders.cfg MCTradeEngine.tla
    tlapm TradeEngineProofs.tla

## 1. Inventory

| Part | State it keeps | Operations | Talks to | Model |
|---|---|---|---|---|
| trade-engine: ledger (`process/trade-engine/src/ledger`) | `trade_orders` rows, two fund columns of `contracts` | one transaction each: create_pending_open, create_pending_close, record_placed, record_failed, release_reserved, record_cancelled, record_filled | share's db layer | `Ledger` |
| trade-engine: trader (`trader`, `signals.rs`) | none between awaits | for a signal and each contract: check the fund, reserve, place, record | ledger, KuCoin | `TradeEngine` |
| trade-engine: position exit (`position_exit`) | a snapshot of held entries per sweep | poll prices, decide, reserve an exit, place, record | ledger, KuCoin | `TradeEngine`, `Backtest` |
| trade-engine: reconciler (`reconciler`) | a snapshot of pending rows, then of open rows | look up by clientOid or exchange id; place, fail, settle, cancel | ledger, KuCoin | `TradeEngine`, `PnL` |
| trade-engine: gRPC server (`grpc_handler.rs`) | the set of seen signal ids | publish: reject, deduplicate, trade, unmark on failure | analyzer, trader | `SignalPath` |
| deposit-worker: ticket pipeline (`grpc_handler.rs`, `task.rs`) | bounded channel, semaphore | create_ticket0, dispatcher, process_task | gateway, RPC node, `deposits` | `DepositTickets` |
| deposit-worker: sweeper (`deposit_sweeper.rs`) | a snapshot per pass | credit confirmed deposits, move them Main to Trade | KuCoin, `deposits`, `users` | `DepositSweeper` |
| api_gateway | sessions and nonces in Redis | challenge, login, logout, nonce, sign, deposit, lists | share, deposit-worker | `Gateway` |
| analyzer: live (`live`, `bin/analyzer-serve.rs`) | a task per symbol, stop handles, back-offs, signal channel | activate, reap, poll, push, publish, shut down | KuCoin, engine (gRPC) | `SignalPath` |
| analyzer: driver (`driver`, `strategy/window.rs`) | window, emitted divergences, watermark | push_closed | strategy | `CandleDriver` |
| analyzer: strategy (`strategy`) | none | indicators, candidates, levels | | in part: `CandleDriver`, `Backtest` |
| analyzer: harness (`harness`) | candle cache on disk; accounts of a simulation | load_with_cache, simulate, simulate_execution, rank, report | KuCoin, files | `CandleCache`, `Backtest`, `Screening` |
| analyzer: research binaries (`bin/analyzer-*.rs`) | artifacts, a committed lock | sweep, cost ladder, execution study, confirm | harness, files | `Research` |
| share (`lib/share`) | none | SQL, Redis, signatures, configuration | everything | guards in `Ledger`, `Gateway`, `DepositSweeper` |
| migrations, react | schema; browser state | | | unique indexes only |

What makes these parts hard:

- **Loops and spawned handlers share rows.** Each works on a snapshot for as
  long as its exchange calls take; a second process on the same database does
  the same.
- **A placement can be lost in both directions.** A transport error says nothing
  about whether the exchange has the order.
- **A decision and its write are two steps**, some decisions take two
  transactions or two stores, and a crash falls between any two of them. So does
  a dropped handler: a caller that gives up ends `publish` at whatever it awaits.
- **A signal crosses two processes.** Either may restart; a call may time out
  while its handler runs on; a task of a symbol may still wind down when its
  successor is due.
- **The simulator sees four prices of a candle, the engine every tick.**
- **The research programs leave files for each other**, written in several
  steps, and choose on one part of the data what another part is to confirm.

What correctness means, per part: no overdraft, money only moved; one live exit
per entry and one credit per fill; a balance explained by its rows; pending rows
and fills resolved; one ticket, one credit and one transfer per deposit; one
contract per nonce, and every request answered; one task per symbol, and one
trade per signal; candles that are what they claim to be; a simulation that is
not better than the engine could do; a choice that does not see its holdout, and
a recommendation on the whole of the evidence.

## 2. Modules

| Module | Models | Builds on |
|---|---|---|
| `PnL` | `reconciler/pnl.rs` and the amounts of `settle_filled` | |
| `Ledger` (theorems in `TradeEngineProofs`) | `ledger/*.rs` over `share/src/db/{trade,contracts}` | `PnL` |
| `TradeEngine`, `TradeEngineProofs` | trader, position exit, reconciler, exchange, time, crashes | `Ledger` |
| `SumTheorems` | sums over finite sets, least, greatest and sorted elements | |
| `DepositPromise` | abstract: ticket, credit, move | |
| `DepositSweeper` (theorems in `DepositProofs`) | `deposit_sweeper.rs`, any number of workers | `DepositPromise` |
| `DepositTickets` (theorems in `DepositProofs`) | `grpc_handler.rs`, `task.rs` of the deposit worker | `DepositPromise` |
| `Gateway`, `GatewayProofs` | `handlers/{auth,contracts,transaction}.rs` over Redis and two tables | |
| `CandleDriver` | `candle_driver.rs`, `window.rs`, the choice in `generator.rs` | |
| `SignalPromise` | abstract: what was asked for is traded at most once | |
| `SignalPath`, `SignalProofs` | supervisor, tasks, channel, publisher, `publish`, shutdown | `CandleDriver`, `SignalPromise` |
| `CandleCache`, `CandleCacheProofs` | `harness/sweep/data.rs` | |
| `Backtest`, `BacktestProofs` | `harness/sim.rs`, `harness/sweep/execution.rs` against the engine's exit and settlement | `PnL` |
| `Screening` | partitions, metrics, gates, ranking, verdicts of `harness/sweep` | |
| `Research`, `ResearchProofs` | four research binaries and their files | `Screening` |
| `MC*` | values of the constants for TLC | the module they instantiate |

### Ledger

`LedgerNext` lets *any* caller run *any* operation on *any* row at *any* time.
Its properties are therefore what the SQL guards promise alone, to stale
snapshots, retries and replicas alike. Each guard is the `WHERE` clause of an
UPDATE (`CanConsume`: `available_fund >= $1`; `MarkFilled`: `status = 'open'`)
or a unique index (`HasLiveExit`); an UPDATE that finds no row makes the
transaction fail, which is the action being disabled. `mark_failed` is the one
status update without a status condition, and is modelled so.

Rows are created under fresh UUIDs. The models partition the UUIDs in advance
(`ContractOf`, `EntryOf`, `Fund`) and give a row not yet inserted the status
`"none"`. `pnl` reads 0 while the column is NULL. `credited` and `credits` are
history variables.

### TradeEngine

Every await of the code is a step boundary.

| State | Code |
|---|---|
| `pc[o]`, `owner[o]` | where the task that made attempt `o` stands, and its process |
| `exch[o]` | the order at KuCoin |
| `age[o]` | 0, 1 past `PENDING_GRACE_MINUTES`, 2 past `PENDING_MAX_MINUTES` |
| `sweep[g]` | what is left of the snapshot of `sweep_once` |
| `rec[g]` | the reconciler's pass, what is left of its snapshot, the row it is about to write and how |
| `released[e]` | history: releases of an entry's reservation |
| `cut` | history: orders whose failure was cut between its two transactions, or was written over a row resolved meanwhile |

| Action | Code |
|---|---|
| `VerifyContract`, `ReserveEntry` | `signal_handler`'s budget test; `create_pending_open` in `trader::execute` |
| `PlaceOrder` | the request of `execute` and of `exit_position`: accepted, rejected, or an error after which the exchange may have the order or not |
| `ReleaseRejected`, `FailRejected`, `RecordAccepted` | what each does with the answer; an entry's rejection takes two transactions, in that order |
| `SweepStart`, `SweepSkip`, `SweepExit` | `held_entries`, and one entry of the snapshot at a time |
| `PendingPass`, `PendingLookup`, `PlaceFound`, `FailPending`, `ReleasePending` | `reconciler/pending.rs` |
| `OpenPass`, `OpenLookup`, `SettleFilled`, `SettleCancelled`, `PassDone` | `reconciler/settle.rs` and the end of `run` |
| `HandlerDropped` | `publish` awaits the trader (`grpc_handler.rs:77-79`); the analyzer gives the call up after 10 seconds (`live/grpc.rs:51-60`), and the handler ends at the await it stands at |
| `ExchangeFinishes`, `Age`, `Crash` | the exchange, time, the process |

A failed write is logged and dropped by the code (`Try...` in the model): the
task goes on, the row stays as it was. A failed query of a pass leaves it
nothing to visit (`Query`).

Abstractions. Order sizing is a fund of at most half of `init_fund`, the budget
`order_budget` allows. Whether a price has reached a level is left open here
(`SweepSkip` or `SweepExit`) and decided in `Backtest`; a price request that
fails, or a 429 that ends the sweep, skips the entries left. A sweep visits its
entries in any order. Close rows without a parent, which the code never
creates, are left out.

### DepositSweeper and DepositPromise

`worker[w]` is one process: its pass, its snapshot, and for the deposit in hand
the next step (`credit`, `claim`, `transfer`, `release`) and the amount it will
use. `amount` and `swept` are columns (`transferred_at IS NOT NULL`), `kucoin`
and `executed` belong to KuCoin. `DepositPromise` is the abstract specification:
`status`, `balance` and `moved` are shared, so the refinement mapping is the
identity on them and the rest is hidden. KuCoin is external: it reports a
deposit as Success from some moment on, and executes one transfer per
`clientOid`, which `sweep_transfer` relies on.

A deposit is the text of a transaction hash. The unique index and the comparison
with KuCoin's `walletTxId` take a text as it stands; the RPC node reads hex in
either case, and `validate_tx_hash` does not normalise. So one transaction may
have several rows (`TxOf`), and what the promise says of credits it says of
transactions: `Credit` needs that no text of the transaction is credited
(`Uncredited`), and KuCoin reports one of the texts.

### DepositTickets

`queue`, `inHand`, `task` are the channel, the task the dispatcher holds while it
waits for a permit, and the spawned tasks; `call` is what the caller knows. A
restart empties all but the rows. Tickets are per text (`OneTicketPerText`), as
the index is.

### Gateway

A request is a process with one step per await. `loginNonce`, `bound` and
`session` are the Redis caches: each call may fail, a failed write or delete is
logged and the handler goes on (`Redis`), and any key may expire at any time
(`Expire`). `user` and `contracts` are rows; `rowLock[w]` is the transaction
that has changed the row of `w` and has not ended. `lock_balance` takes effect
for others at the commit, so `SignEffect` is part of `Commit`, and the lock is
what other transactions wait for.

| Action | Code |
|---|---|
| `StoreChallenge`; `GetNonce`, `BurnNonce`, `UpsertUser`, `StoreSession`; `Logout` | `request_challenge`, `login`, `logout` |
| `IssueNonce`; `VerifySign`, `FindUser`, `LockBalance`, `BurnSignNonce`, `CreateContract`, `Commit` | `get_nonce`, `sign` |
| `CheckTx`, `CreateTicket`; `CreditDeposit` | `transaction.rs`; the worker behind it, as `DepositPromise` has it |
| `Authenticate`, `ReadRows` | the session lookup; the handlers that only read |
| `Expire`, `Crash` | Redis, the process |

A signature is the wallet that made it, a UUID the next of a counter.

### CandleDriver and SignalPath

`CandleDriver` is a record (window, emitted, watermark, warmed) and the
operators on it. Which divergences the indicators find is a parameter (`show`):
for each candle the candidates of a window that ends there, and the kinds the
trend filter lets through. They may come and go with the window: `divergence.rs`
compares an extremum with the one matched before it, so a divergence can be
missing in one window and found in a later one. If a candle of the window was
read before its close, anything of `early` may be found (`Finds`). `Signals`,
`Suppressed` and `PushClosed` are the choice, the three suppressions and the step
of the code.

`SignalPath` composes it with everything between the exchange and the engine.

| State | Code |
|---|---|
| `stops`, `stopping`, `backoff`, `task` | the supervisor's maps and the symbol tasks; two places per symbol, so that a second task is possible |
| `task[t].snap`, `.batch`, `.cursor` | when the last fetch was answered, what is left of its batch, the cursor |
| `queue`, `pub` | the mpsc channel and the call of `run_publisher` |
| `call`, `seen` | `publish` handlers of the engine and its set of ids |
| `traded`, `sent`, `resent`, `lost` | history; `lost` is what a warm-up did not find although it had the candle and found nothing later of the kind |

`Reconcile` is `reconcile_plan` with `reconcile`; `Warm`, `StartPoll`, `Poll`,
`Push`, `BatchDone`, `Stop` are `symbol_task.rs`; `Take`, `Answered`,
`CallTimesOut` are `grpc.rs`; `Dedup`, `Handle`, `HandleFails` are `publish`, and
a dropped caller leaves its handler running or drops it where it stands
(`Abandoned`). `Drain`, `Exit`, `Boot` are `analyzer-serve.rs`. What was fetched
at `snap` is taken for closed by the clock at the time it is processed, up to
`Latency` later and whatever `Settle` is, as in the code: a candle records
whether it was over when it was read. `SignalPromise` is instantiated with `asked <- sent`.

### CandleCache

Any number of processes load candles into one directory: `Probe`, `ReadCache`,
`FetchPage` (one page of `fetch_range_with`), `WriteTemp`, `Rename`,
`OpenProvenance`, `WriteProvenance`. A candle is its open time and whether its
values are final. `csv` and `prov` are the files; a file opened for writing is
`Torn`. The exchange may lack candles, and may ignore the end of a request.
Content hashes stand for content.

### Backtest

One stretch of candles is traded three ways at once: by `simulate` (`SimStep`),
by `simulate_execution` under each execution model (`ExecStep`), and by the
engine, which polls every tick (`LiveStep`, `EvaluateExit`, `RoundTrip`). A step
is one candle; the driver may emit a signal at its close. An account is the
record of a simulation, its counters of signals included. Pending orders are a
sequence: `Work` drains it in order (`WorkOne`), and what stays is pushed again,
as `still_pending` is. Levels are the close plus or minus a multiple of the ATR;
an ATR of 0 makes an invalid geometry, and the cap `MaxSl` binds for the other.
The fund of a position is a number that every price divides, so that no amount
is rounded; the exchange has at least one fee to charge, which may be zero.

### Screening and Research

A history stands for what `simulate` makes of a data set and a configuration:
the signals, each with the candle its trade closes at, its gross result, its
mark while it is open, its side, whether it closes at its target and whether a
resting limit order would have been filled. `Screening` computes from it what the tools
compute: chronological partitions with warm-up, net metrics with costs,
drawdown, pools over symbols, gates and ranks, the cost ladder's verdict, the
selection of an execution model, the decision of a confirmation. Ratios are
compared by numerators and denominators; `sort_by` is the choice of a listing in
the comparison's order, the only one when the order is strict.

`Research` is the run of a tool: load, score, rank, score the winners with the
holdout, report (`analyzer-sweep`); load and evaluate (`analyzer-cost-ladder`,
`analyzer-execution`); check the digest of the lock, read it again and parse it,
check the frozen files, validate, load, evaluate (`analyzer-confirm`); then three artifacts, each
truncated and filled. Somebody edits the lock and the frozen files in between.

## 3. Runs

Every action and every disjunct of the next-state relations fires in some run
that passes.

| Run | Question | Bound | States |
|---|---|---|---|
| `Ledger` | what the SQL guards promise alone; a balance is explained by the exits settled | 2 contracts, 3 entries, 2 exits of one entry; the second entry of `c1` fits only after a release or a profit; a loss beyond the fund is among the raw PnLs | small |
| `EngineOrders` | fund accounting, rows against the exchange, pending rows and fills resolved | 1 engine, 2 entries that take the whole fund, 1 exit with a loss beyond the fund, both age limits; 1 crash, database error or failed poll, any number of dropped handlers, failed placements and lookups | 264,914 |
| `EngineExits` | no exit while an earlier one is unsettled; the engine is a ledger client (`LedgerSpec`) | 2 engines (symmetric), 1 entry, 2 attempts to exit it, 1 database error, any number of lost replies, rows past the grace period | |
| `Sweep` | credit once, move once, retried; what a fault can strand | 2 workers, 3 texts of 2 transactions of one user, 2 faults of any kind; KuCoin received less than the calldata says of one deposit | |
| `Tickets` | nothing accepted is lost or starved | 4 calls with 2 texts of one transaction, channel of 2, one permit, restarts | |
| `Gateway` | nonces, funds and row locks | 2 requests at a time, 2 wallets, 1 deposit, 2 contract nonces, 1 fault | 237,240 |
| `SignalPath` | one task per symbol, one trade per signal, windows without holes, what may be resent | 1 symbol, window of 3, channel of 1, 2 calls, 1 fault, 2 shutdowns, crashes or changes of the active set, 6 ticks of 2 to a candle, a fetch of up to 2 ticks against a settling time of 1; indicators that find two kinds, and that lose and find one again | 95,302 |
| `Cache` | candles that are what was asked for | 2 loaders, 2 ranges, pages of 2, 4 histories (whole, late, one candle missing, a page missing), 1 crash, 1 error, an exchange that paginates or does not | 54,709 |
| `Backtest` | the simulator against the engine | prices 1..3, up to 4 ticks a candle, 4 candles, both sides, 3 execution models, fees 0 or 1 in either currency; the fund carries two positions, so that a third signal is skipped | 174,016 |
| `Research` | choices, recommendations and confirmations | 2 candidates on 2 symbols, 18 assignments of histories to them, 20 candles, 1 fault, 2 runs in a row, 2 edits, among them of the lock's hash alone | 38,408 |
| `DroppedDoubleRelease` | is a reservation returned once? | one engine, dropped handlers, no other fault | violated |
| `ReplicaDuplicateExit` | can two replicas place two exits? | two engines, no fault | violated |

Four more configurations are instances of disagreements that section 5 reports;
each is expected to violate its one property.

| Configuration | Question | Bound |
|---|---|---|
| `LateAnswer` (`MCSignalPath`) | is every candle of a window closed? | a fetch of up to 2 ticks, settling time 1, no fault |
| `ResentAfterRestart` (`MCSignalPath`) | is nothing resent after a restart? | timely fetches, no fault, one restart |
| `FailedBatch` (`MCSignalPath`) | is a failed batch retried by the next poll? | one error |
| `EditedLock` (`MCResearch`) | does any edit of the lock abort? | an edit of the hash and one of the frozen files |

`CHECK_DEADLOCK FALSE` is set where the system may end: every call answered
(`Tickets`), all UUIDs of the bound used (`Gateway`), the candles traded
(`Backtest`), the runs of the tool over (`Research`).

What the bounds leave out matters for the engine: its runs have one fault of the
bounded kinds, and two engines only with one entry. A third entry that the fund
refuses is in `Ledger`. The theorems about the same properties have no such bound
(section 4).

Assumptions on constants that are more than types: indicators find nothing beyond
the window they look at (`ShowsAssumption`; `strategy/generator.rs` dates a
divergence by a candle of the window); `Settle <= (PollExtra - 1) * TF`, the
candles that a poll asks for beyond the window make up for those not yet settled
(5 candles of at least 15 minutes in the code, against a `settle_ms` of seconds); the
constants of the cache's histories; that the viable rate is a rung of the ladder
past the first, as `LEVELS_TENTHS_BPS` and 10 bps are. `Age` assumes that a live
task is done with its order within the five-minute grace period; the trader's
ends with its handler, 10 seconds after the call at the latest.

Assumptions inside properties, all of them exact and named where they stand:

- `NeverOptimistic` compares a trade of the simulator with every round trip the
  engine may make on the same ticks, polled one by one and moving by at most one
  within a candle. A price that jumps over a level between two polls, or within
  a candle, is outside it.
- `FundsMatchRows` and `FailedEntryReleased` speak of contracts that are `Uncut`:
  no failure of their orders was cut between its two transactions, nor written
  over a row that another reconciler had resolved. What the exempted cases do is
  a finding (`DroppedDoubleRelease`); every other fault is inside.
- `NoExitWhileUnsettled` lets another exit go on after a fill that was settled or
  after the 30-minute cap; the first of these is a finding (`ReplicaDuplicateExit`).
- `ResentWasLost` says which signals may be sent twice; that any is, is a finding
  (`ResentAfterRestart`). `WindowIsHistory` says nothing of whether a candle was
  final when it was read, which is another (`LateAnswer`).
- `DecidesByThePinned` says nothing of the frozen files (`EditedLock`).
- `ServedComplete` and its companions exempt ranges with a hole wider than a
  page (`NoWideHole`), at which paging stops.
- `EventuallyMoved` exempts stranded deposits, `FillsSettled` and
  `RowsMatchExchange` rows the cap failed.

### Fairness

Weak fairness on the loops and tasks of the code, whose next step is always
enabled and whose awaits return with a result or an error: the reconciler, the
trade engine's order tasks, the dispatcher, the sweeper, a loader's steps, the
symbol tasks, the publisher, handlers of the engine, and time. Strong fairness
in two places:

- `tokio::select!` picks among ready branches at random, so a branch that is
  ready again and again is taken: `SupBreak`, `Reap` and `Stop`, which
  activations and polls interrupt;
- a gateway handler that waits for a locked row gets it when the lock is free
  again and again: PostgreSQL queues waiters (`SF_vars(Handler(r))`).

Nothing is assumed of new signals, the position-exit sweep, tickets, receipts,
callers, crashes, requests, or of the answers to lookups by clientOid: these may
fail for ever, which is what the 30-minute cap is for. Faults are bounded by
`MaxFaults`: a fill that can never be read is never settled.

## 4. Proofs

tlapm checks, for every value of the constants that satisfies the named
assumptions:

- **SumTheorems.** What the model sums (funds over rows, credits over deposits,
  proceeds over exits) is a fold. The library's facts about folds need
  induction, so these lemmas argue by a least counterexample instead: among the
  finite sets that violate a fact there is one of least size, and taking an
  element out of it gives a smaller one. The same argument gives a greatest
  element to every finite set under a total order (`GreatestExists`), a sorted
  listing under a strict one (`SortExists`) and a least element to every set of
  naturals (`LeastExists`), and shows that a sum of sums is the sum of the parts
  (`SumOfParts`) and that renaming the elements one for one leaves a sum as it
  was (`SumRenamed`).
- **TradeEngineProofs, the ledger.** Type correctness, `NoOverdraft`,
  `FundsConserved`, `CreditedAtMostOnce`, `OneLiveExit` (the unique index; what it
  does not give, one exit at the exchange, is `ReplicaDuplicateExit`) and the action property
  `NeverRevived`. `TypeOK` with the property in question is inductive, because
  each UPDATE tests what it changes. `FundsConserved` has two halves: the two
  columns of a contract move against each other (`FundsMoved`), and what they add
  up to is the initial fund plus the proceeds of the exits settled, each at what
  its own row says (`CreditsExplained`). `CreditIsCommittedPlusPnl` shows that
  after `cap_loss` the credit is exactly `committed + pnl` and never negative, so
  the floor in `settle_filled` is never reached and `NoOverdraft` survives a loss.
- **TradeEngineProofs, the engine.** `EngineImplementsLedger`: `Spec =>
  LedgerSpec`. Every step is one ledger transaction or leaves `ledgerVars`
  unchanged. It needs `RecWrites`: a reconciler about to write has an order in
  hand, and one about to release has an entry. The ledger theorems carry over.
  Beyond them:
  - `EngineRowsMatchExchange`, for any engines and faults: a row says no more than
    the exchange knows, but for one that the 30-minute cap failed. `EngineRowInv`
    ties the step a task stands at to what the exchange has of its order, and
    a reconciler's decision to the answer it is based on.
  - `EngineSecondExitHasCause`, for any engines, faults and ages: a second exit
    at the exchange only if it is another engine's or one of the two passed the
    grace period. `EngineExitInv` follows the snapshot of a sweep: an entry it
    still holds has no exit that is not its own.
  - `EngineNoExitWhileUnsettled`, for any engines, faults and ages: while an exit
    is at the exchange and its row does not say so, no other is inserted. A row
    that is `pending` or `open` blocks by the unique index, and `EngineRowInv` says
    that an order at the exchange has such a row, a settled one, or one that the
    cap failed.
  - `EngineFundsMatchRows` and `EngineFailedEntryReleased`, for any engines and
    faults, of contracts that are `Uncut`: the available fund is the initial one
    less what live and filled entries hold, plus what the settled exits brought;
    and a failed entry's fund is back. `EngineFundInv` counts for each entry the
    releases made and those a task is committed to, with the locked fund of a
    contract as the sum over the entries that hold it; conservation
    (`FundsConserved`) turns that into the available fund.
  - `EngineSecondReleaseHasCause`, from the same invariant: a second release only
    of an entry in `cut`. A crash, a dropped handler or a database error fell
    between the two transactions that fail it, or two reconcilers failed it.
- **DepositProofs.** `SweeperKeepsPromise`: `Spec => PromiseSpec`, and
  `SweeperMovedAfterCredit`, `SweeperExclusiveClaim`. One credit per transaction,
  not per row, needs that a confirmed row is one KuCoin reported, and that it
  reports one text of a transaction. That a worker transfers the
  amount that was credited depends on what it took in hand earlier; `SweeperInv`
  adds what is in hand, what a confirmed row and `executed` say, and that a
  worker at the transfer has the claim. `SweeperBalanceMatchesDeposits`: a user's
  balance is the sum of the deposits credited, through `SumTheorems`.
  `SweeperStrandedHasFault`: a deposit that is claimed, not moved and in nobody's
  hand is stranded. Nothing undoes a claim but the worker that made it, so a crash
  between the claim and the transfer strands the deposit. A step strands only
  what its worker held (`NewlyStranded`) and only with a fault (`WorkerStrands`):
  a reply without a fault moved the deposit, since no other deposit has its
  `clientOid`. So there are never more stranded deposits than faults.
- **DepositProofs, the tickets.** `TicketsOneTicketPerText`, inductive with
  the types of calls and rows, since the unique index is tested by the step that
  answers; and `TicketsKeepPromise`: `TicketsSpec => PromiseSpec`, so both halves
  of the deposit worker implement the same promise.
- **GatewayProofs.** `GatewayOneContractPerNonce` and `GatewaySigningHoldsRow`.
  The unique index is tested when the row is inserted, and the contract is there
  for others only after the commit, so the test alone proves nothing. The
  invariant `SigningInv` follows a signing step by step: from `VerifySign` on,
  its nonce was issued to its wallet; from `LockBalance` on, it holds that
  wallet's row; from `CreateContract` on, no contract has its nonce. Two signings
  of one nonce would need the same row. `BoundInv` says that the cache names the
  wallet a nonce was issued to, or none, whatever failed. `GatewayFundsAccounted`:
  free and locked fund and the contracts of a wallet add up to its deposits,
  while a signing has money in hand that is in neither. `MoneyInv` says who that
  is: the signing that holds the wallet's row, so there is at most one, and it
  puts back or commits exactly what it took.
- **CandleCacheProofs.** `CacheServedComplete`, `CacheFailsForCause` and
  `CacheCsvWhole`, for any loaders, ranges, histories and page size. `CacheInv`
  has four parts: what a loader paged so far is what the exchange has of the
  range up to where it stands (`PagingInv`); what a loader or a file holds under
  a name is what the name promises (`Content`); a provenance names content that
  was whole (`GoodProv`); and paging that ended has reached the range's end, or a
  hole wider than a page (`Reached`).
- **SignalProofs.** `SignalOneTaskPerSymbol`: a task that is there is the one
  whose stop handle the supervisor holds (`HandlesHeld`), and `reconcile` starts
  one only where none is held. `SignalTradesOnce`: `Spec => TradesOnce`, the
  refinement of `SignalPromise`. Its invariant `InHand`: an id being handled is
  marked, was not traded on, and is in one hand; whatever was traded on is
  marked. A handler that fails may therefore unmark its id.
  `SignalWindowIsHistory`, for any time a fetch takes, and `SignalResentWasLost`,
  whatever the indicators find, share `WatchInv`, which says of each task:
  - `OnTime`: the window and the batch after it (`Supply`) are candles in order
    that the clock has closed, the last `WindowLen` of them unbroken, and the
    cursor is the last. A batch shorter than the window goes on where the window
    ends (`BatchRuns`: a poll asks for more candles than the window has, so an
    answer that starts behind the cursor is as long as the window). That the
    opens in a span are an unbroken run (`GridIsRun`) is arithmetic of the clock.
  - `Remembers`: each divergence signalled for the symbol is at or before the
    watermark, or before the window, or was not found by a later warm-up that had
    its candle (`lost`). Two tasks of a symbol cannot both remember, so the proof
    uses that there is one.
- **ResearchProofs.** For any data, thresholds, rates and partitions' length:
  - `ResearchDecidesByThePinned`: whatever a confirmation publishes is what the
    candidate, the symbols and the decision rule of the committed lock decide, in
    both directions. The lock is read again after its digest was checked, so it is
    `validate_lock` that ensures this; `ConfirmInv` follows the fields it compares
    from there to the artifacts, over deaths and later runs. Of the hash of the
    frozen files, which `validate_lock` does not compare, it says nothing.
  - `ResearchScreeningBlind`: giving every trade that ends in the holdout another
    result renames the trades of a history. What is scored before the holdout
    has the same trades, one for one, with the same exits and the same results:
    a trade still open at the end of its slice counts at its mark, not at the
    result it will have (`SliceBlind`, `ExecBlind`). So the candidates have the
    same outcomes there, and the choices are made of nothing else.
  - `ResearchRecommendsOnWhole`: the invariant `ReportInv` follows a sweep's
    evidence from phase to phase (`Screened`, `ScoredWhole`): without an error
    the first pass has every candidate on every symbol; the second adds the
    holdout, which the ranking does not read (`OutcomeSame`), so the winners are
    those of the whole. `rank` is a comparison by cross-multiplied ratios, and
    sorts only if that is a strict order: `BeforeOrders` proves that it is, with
    drawdown, folds, trades and the canonical rank as tie-breaks.
  - `ResearchVerdictMatchesLadder`: a break-even, which the code interpolates
    between two rungs, is at or past the viable rate exactly when every rung
    below it pays and the viable one does not lose (`BreakEvenTells`, on
    `Crossing`); the best of them is one that the comparison `AtLeast` orders
    first (`AtLeastOrders`). It needs that the viable rate is a rung past the
    first, which `ScreeningAssumption` states of `LEVELS_TENTHS_BPS` and the
    binary's 10 bps.

  What the artifacts of an earlier run say stays in the invariant: files are
  written in three steps, and a run may die between any two.

- **BacktestProofs.** All five properties of `Backtest`, for any prices, number
  and length of candles, volatilities, costs and execution models. `BacktestInv`
  is inductive:
  - `AccountInv`: an account is well typed, `FundExplained` holds of it, and no
    id names two of its positions and orders (`UniqueIds`), none of them newer
    than the last signal. The ids are what makes a position new when it is
    opened, and what pairs a trade of the simulator with one of the engine.
  - `SignalsExplained`, for an execution model. `Worked` is the loop invariant
    of the drain of pending orders, with the orders not yet looked at counted
    apart; `WorkDrains` and `LeastExists` stand in for an induction over it.
  - `LimitInv`: an open limit entry was filled short of its stop, so a stop is
    beyond its fill (`LimitFillsShortOfStop`, `StoppedTradesLose`).
  - `MarketInv`: a market model has the simulator's positions, available fund
    and PnL, and its pending orders are exactly what the simulator fills next
    (`OrderOf`). `MarketStepMatches` follows one candle through both programs;
    `MarketEndMatches` splits each closing amount into the simulator's mark and
    the cap.

  `NeverOptimistic` comes down to one candle and one position: the simulator
  leaves if and only if a tick has the engine leave (`SimulatorLeavesWithEngine`,
  since a low or a high that reaches a level is the price of some tick), and at
  a price no better than that of the first such tick (`EngineLeavesNoWorse`: a
  gap opens the path, a stop is looked at first, and a target is filled at its
  level). `BookedMatchesBalance` is the arithmetic of a settled round trip
  (`RoundTripBooks`), for any fee and lateness.

Only model-checked is liveness, which is out of the prover's reach:
`PendingResolved`, `FillsSettled`, `EventuallyCredited`, `EventuallyMoved`,
`EveryCallAnswered`, `LoadsEnd`, `ShutdownEnds`, `ActiveIsWatched`,
`RequestsEnd`. Every other property of a passing run is a theorem.

## 5. Findings and known limits

**A dropped handler releases a fund twice** (`DroppedDoubleRelease`). A rejected
entry is released in one transaction and marked failed in the next
(`trader/mod.rs:117-122`). The handler that awaits both ends at the await it
stands at when the analyzer gives the call up after 10 seconds, as it does in a
crash. `fail_pending` then releases the pending row's fund again, out of another
entry's reservation, although `ledger/orders.rs:20-22` promises that a committed
pending row has its fund reserved. The ledger guard keeps `total_traded_fund` from
going negative and hides the error.

**Two replicas exit a position twice** (`ReplicaDuplicateExit`). `held_entries` is
read once per sweep, and the unique index covers pending and open rows. An engine
whose snapshot is older than the other's exit inserts one of its own once that
exit is filled, although the migration and the trade-engine README say that two
replicas cannot place a duplicate. One engine does the same after a lost reply:
`held_entries` disregards a pending exit older than five minutes, and the
reconciler may find and settle it while the sweep works on its snapshot.

**A candle counts as closed that was not** (`LateAnswer`). The clock that decides
is read after the fetch, which may take 30 seconds against a settling time of 5.
The candle is not read again, so its early values stay in the window. The analyzer
README promises newly closed candles.

**A signal is sent again after a restart** (`ResentAfterRestart`). A warm-up consumes
the divergences it finds; one that is missing in its window, because the extremum
it is compared with is, and found in a later one, is signalled again. The engine
drops it if it has seen the id. The analyzer README says that nothing is resent.
The model leaves open what indicators find in a window; `divergence.rs` gives no
more than that, since RSI is computed anew from the window's first candle.

**A failed batch is not retried** (`FailedBatch`). An error ends the task, and the
warm-up of the next one consumes the signals of the batch, although
`symbol_task.rs:128-129` says that it is retried from the same cursor.

**An edit of the lock passes** (`EditedLock`). `analyzer-confirm` reads the lock for
its digest and again for its content. A hash edited in between to match altered
frozen files is not among the values `validate_lock` compares, so the confirmation
is published under a lock that is not the committed one, although `freeze.rs:170-171`
says that any edit aborts. The lock's `created_at`, `git_commit` and list of frozen
files are not compared either.

Limits seen while modelling, which the passing runs leave out by their bounds or
exemptions:

- After 30 minutes of failing lookups a row is failed and its fund released
  although the exchange may have filled the order.
- A crash, or a failed write, between the two transactions of `fail_pending`
  leaves the fund of a failed entry reserved for ever.
- `mark_failed` has no condition: a late `fail_pending` overwrites a row that
  another engine settled. The pending passes of two replicas may both fail a row
  and both release its fund.
- A transaction hash is stored as the text it was sent as. The same hash in another
  case is a second row and a second ticket; KuCoin's `walletTxId` matches one text
  at most, so one row is credited and the other stays pending.
- `claim_transfer` marks a deposit swept before the transfer, and only the same
  call unmarks it: a crash in between, or a release that fails, strands the
  deposit, one for each such fault (`StrandedHasFault`).
- The page bound of `fetch_range_with` is meant for a source that never reaches
  `start_ms`, and counts slots of the range. A page that ends before a missing
  candle covers fewer slots than it asked for, so an honest exchange with a sparse
  history (more than two pages of missing candles in one range) reaches the bound
  as well, and the load fails. `FailsForCause` names that cause.
- The artifacts of a research tool are written one after the other and each in
  place: after a death they may be of different runs, or empty.
- In `analyzer-sweep` a candidate whose first scoring failed and whose second
  succeeds, which only the baseline can be, enters the report unranked; the
  error keeps the advice at "insufficient evidence".

## 6. Not modelled, and assumptions

- A transaction of the engine that commits although its caller sees an error (the
  gateway's is modelled); an exchange lookup that answers without data for an
  order it has; a live task slower than the five-minute grace period.
- The page bound of KuCoin's deposit history: a deposit behind 500 newer ones is
  not found (`deposit_sweeper.rs:69-86`), so `EventuallyCredited` is about one
  within them.
- In the candle cache, the refusal of a candle whose high and low do not bound its
  open and close or whose prices are not positive (`InvalidOhlc`,
  `dataset.rs:175-197`), which is one more cause of a failed load; and `settle_ms` among
  what a cached provenance is compared by: the model's settling time is a constant.
- Rounding of `Decimal` quotients: the ladder's break-even is compared as a fraction.
- The 429 back-off between position-exit sweeps: a delay no state depends on.
- RSI, SMA, ATR and peaks: arithmetic over decimals, whose results are the
  parameters `Shows` and `Atrs`. The live candles are one symbol at a time;
  symbols share only the channel and the supervisor's loop.
- The second timeframe of a screening, confidence intervals and bootstrap
  sampling (`sampling.rs`, `stats.rs`), argument parsing, and the layout of
  reports. Evaluations in `Research` are of one notional, so the fund never runs
  out there; `Backtest` has the fund.
- `ANALYZER_ONCE`, a single pass of the same code; `analyzer-replay`, which
  prints one simulation.
- `Deposit::fail` and `mark_closed` have no callers; `user_stats` only reads.
- Pure I/O and conversion (configuration, logging, RPC decoding, signature
  recovery), and the user interface, which keeps no state services rely on.

## 7. Plan

Written so far, in the order of how much a mistake costs: ledger, trade engine,
deposits, gateway, signal path, candle cache, simulators, research tools. Next:

1. **Indicators.** Peaks, divergence matching and the levels' decimals as
   recursive functions over short series, against reference definitions; they
   would replace the parameters `Shows` and `Atrs`.
2. **Composition of gateway and ledger.** `Commit` creates the contract whose
   fund `Ledger` starts from; a theorem that `Gateway`'s locked balance is
   `Ledger`'s `InitFund`.
3. **Composition of the two halves of the deposit worker** over one table of
   rows; so far each implements `DepositPromise` alone.
4. **Sampling.** The bootstrap's index arithmetic.
