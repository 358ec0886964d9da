# Brice-Tao in TLA+

Brice-Tao is a bot that keeps a Bittensor staking portfolio on the allocation a
strategy asks for. It is a TypeScript process on the JavaScript event loop: a
scheduler starts a strategy's runner, the runner starts a rebalance cycle now
and then, the cycle plans, submits a batch of staking calls to the chain and
records what became of it in SQLite. Single-threaded code still interleaves
here: every `await` gives the turn to block subscriptions, timers, signals and
RPC answers, the chain executes or drops what was submitted in its own time, and
scripts in other processes write to the same database. Beside the bot there is a
planner full of thresholds and roundings, and a backtest that replays history
through the strategies.

Source paths below are relative to `src/src/`, those of scripts to `src/scripts/`.

## Inventory

| Part | State | Operations | Talks to | What is hard |
|---|---|---|---|---|
| Scheduler (`scheduler.ts`) | `runner`, `isShuttingDown`, history DB, RPC client | start-up, signals, shutdown | runner's `start`/`stop`, initial cycle, DB | a signal at any await of the start-up; who closes the DB |
| Runner contract (`scheduling/types.ts`) | cycles in flight, progress of `stop()` | `start`, `stop` | scheduler | `stop()` must mean that nothing runs afterwards |
| Block-interval runner (`scheduling/blockInterval.ts`) | `observeChain`, `inflightRun`, `stopped`, stale counter, heartbeat file | blocks, observes, ticks, stale timer, `stop` | `finalizedBlock$`, `onObserve`, `onTick` | order of promise reactions; late observes; skipped ticks |
| Cron runner (`scheduling/cron.ts`) | `job`, `inflightRun`, stale counter, heartbeat file | fires, ticks, stale timer, `stop` | croner, `onTick` | a job that stops itself during a run |
| Copy-trade runner (`strategies/copy-trade/runner.ts`) | `inflightRun`, `pendingRerun`, `stopped` | one asynchronous handler per block, runs, `stop` | `finalizedBlock$`, `System.Events`, cycle | handlers overlap and end in any order |
| Rate limiter (`api/rateLimiter.ts`) | `running`, `waitQueue`, `tokens` | `run` | scripts' RPC calls | hand-over of a slot; sleepers that compete |
| Rebalance cycle (`rebalance/cycle.ts`, `executeRebalancePlan.ts`) | one cycle's locals, rows of the DB | one pipeline with a catch | strategy, chain, DB, webhook | a throw at any await; what the rows then say |
| Shielded submission (`rebalance/executeRebalance.ts`, `waitForBatch.ts`, `mevShield.ts`) | nonces, the wait's scans and timer | sign twice, submit, wait, scan | chain | batches that land late, or never |
| Batch results (`waitForBatch.ts`, `proxyEvents.ts`, `tradeRecorder.ts`) | none | events to results to trades | cycle | positions of events that do not line up |
| Planner (`rebalance/computeRebalance.ts`, `simulateSlippage.ts`) | none | balances and targets to operations and limit prices | cycle | rounding, dust, overfill, a reserve fed by the same batch |
| Strategies (`strategies/*/index.ts`, `scoreSubnets.ts`), validators | none | gates, scores, shares, hotkeys | cycle | incumbency, fallbacks, missing validators |
| sma-stoploss state (`strategies/sma-stoploss/`) | stops and stop-outs, in memory and in SQLite | tick, start, preview | block-interval runner, cycle | failure at any await, crash between two writes |
| History DB (`history/`) | blocks, subnet snapshots, cycles, trades; a price-API flag | live snapshots, cycle rows | cycle, ticks, scripts | two processes write; retries and fallbacks share a flag |
| Backfill script (`backfill-history.ts`) | missing blocks, batch, retries | fetch, record, resume | archive node, DB | time-outs whose attempts go on, death, rerun |
| Bunker script (`bunker.ts`) | none | everything to root | chain | dust, several hotkeys, zero prices |
| Backtest (`backtest.ts`, `strategies/*/backtest.ts`) | purse, positions, virtual pools, stops, trigger | replay, emissions, trades, equity curve | DB, strategies, AMM | conservation of tao over many fee paths; stops behind a gap |
| AMM (`rebalance/amm.ts`), statistics (`backtest/metrics.ts`) | none | swaps; drawdown, streaks | backtest | rounding; one-pass folds |

`PROJECT.json` lists these and the remaining parts with the reason why they are
not modelled.

The parts interact like this: the scheduler owns the DB and the client, runs one
cycle itself and then hands over to a runner; a runner starts cycles by
`ctx.runRebalanceCycle()` and promises (`StrategyRunner`) that after `stop()` it
starts no more; the cycle calls the strategy, the planner and the submission in
that order and writes its row; the strategy of sma-stoploss reads a snapshot
that the runner's tick shared; ticks also record snapshots of the chain, which
the backfill script completes and the backtest replays.

## Modules

```
StrategyRunner  <---- implemented by --- ScheduledRunner <-- BlockIntervalRunner, CronRunner
      ^                                  CopyTradeRunner
      `-- instantiated by Scheduler

BatchResults <-- RebalanceCycle          ShieldedSubmission     SmaStoploss
RpcRateLimiter <-- MCRpcRateLimiter      History <-- MCHistory

Selections <-- ComputeRebalance, StrategyTargets <-- Portfolio <-- MCPortfolio
Amm, Metrics <-- Backtest <-- MCBacktest

<X>Proofs extends X for X = CopyTradeRunner, Scheduler, RebalanceCycle, SmaStoploss, History
RunnerProofs extends BlockIntervalRunner and CronRunner
ScriptProofs extends RpcRateLimiter and Backtest
TradingProofs extends Portfolio and ShieldedSubmission
```

* **StrategyRunner** is the abstract specification: at most one cycle is in
  flight; `stop()` resolves only when none is, and none begins afterwards. The
  three runners have it as the property `ContractSpec` (`INSTANCE ... WITH cycles
  <- running`); `Scheduler` composes with it, so that what is checked of the
  scheduler holds with each runner that implements it. The contract does *not*
  say that no cycle begins while `stop()` waits: `blockInterval.ts` allows that.
* **ScheduledRunner** holds the state the runners with a schedule have in common (the run in
  flight, its stale timer, the heartbeat, how far a call of `stop()` is), and how it maps to the
  contract. `CronRunner` and `BlockIntervalRunner` extend it; the actions of the former bear
  the prefix `Cron`, so that one module can prove theorems of both.
* **BlockIntervalRunner** models the event loop explicitly, because the runner
  relies on it: a step is a macrotask, taken only when the microtask queue is
  empty, or the microtask at its head. `reactions` holds the continuations
  registered on each unsettled promise. `OnBlock` is the subscription's `next` up
  to its first await, `ResumeHandler` what follows, `BeginRun` is `runTick` when
  no run is in flight, `TickReturns`/`TickThrows` the end of `run()`,
  `ResumeTick` the `finally` of `runTick`, `Stop`/`ResumeStop...` the three parts
  of `stop()`. Whether the strategy observes is chosen in `Init`.
* **CronRunner**: time in units, a due timer fires before time goes on. `Tick` is
  `tick()` up to its await, `CronTickReturns`/`CronTickThrows`, `CronResumeTick` the rest.
* **CopyTradeRunner**: `EventsFetched(b)` is the handler of block b after its
  await, `FetchFails(b)` its catch; `Settle` is the `finally` of `run()`,
  reached by `RecordFails` and `CycleEnds`. `detected` and `runStart` are history
  variables. `Settle` is one step because JavaScript runs it in one turn.
* **RpcRateLimiter**: `Call`, `CheckBucket` (once per loop of `acquireTokens`),
  `Finish`. The unit of time is the refill of one token, so a minute has `rpm`
  units; `minuteLog` is history. `Init` chooses `rpm`, 0 meaning unlimited.
* **Scheduler**: `main` is the await `runScheduler` is at. `Shutdown(r)` is
  `shutdown()` up to its first await; signals, failures and the `finally` are
  actions of their own.
* **ShieldedSubmission**: successive cycles, each with a wrapper at nonce n and a
  batch at nonce n + 1. The chain includes a transaction only at the account's
  nonce and within its mortality, or never; it may stall. `Emit` is what
  `rxTimeout` does with a block, `BodyFetched` one scan.
* **BatchResults**: pure operators. A batch is the sequence of what the chain did
  of each operation; the events of one kind that it leaves are the operations they are about
  (`ProxyExecuted`, `ItemEvents`), in order, and `Nth` is the operation of the k-th;
  `ShieldedResults` and `DirectResults` are what the two parsers make of them, `TradesOf` the rows.
* **RebalanceCycle**: one action per stretch of `executeRebalanceCycle` between
  two awaits, `Fails`/`SubmissionFails`/`NotificationFails` for the throws, and
  `CatchRecords` for the catch. Its environment rotates the shield's key, lands
  batches (also late) and closes the DB. Balances are the number of batches they
  reflect, the plan is its number of operations.
* **Selections** has `filter` and `sort` of JavaScript's arrays: a filter is the set of the indices
  that pass, a sort the sets of what comes before each element. Their arguments are data and not
  operators, so that one lemma serves every filter and every sort.
* **ComputeRebalance** is the planner: `AdjustedPositions` and `ReplenishOps` are
  `replenishReserve`; `Exits`, `Reductions` and `Stakings` the three passes of
  `generateOperations`, folded over the positions with the map `fulfilled` in the
  accumulator; `Split` and `SingleTarget` where a sale goes; `Simulated` the limit
  prices. `useLimits` decides between `move` + `swap` and one `swap`, as there.
* **StrategyTargets** holds `getStrategyTargets` of the four strategies with
  scores and validators. A failed fetch of a metagraph is one without candidates.
  Floating-point shares and yields are fractions compared by cross-multiplication.
* **Portfolio** composes the two with an external chain. `RebalanceCycle` is the
  planning half of a cycle up to the submission, `Bunker` the script's;
  `WorldMoves` may change prices, validators and scores between planning and
  `ExecuteBatch`, which may refuse operations. `churn` counts the batches since
  the world last moved or refused. `PortfolioAssumption` says what the chain may answer: the same
  subnets in every world, root among them, with natural amounts, and known hotkeys. The initial
  predicate, the next-state relation and the type invariant have the module's name in theirs, so
  that `TradingProofs` can extend it beside `ShieldedSubmission`.
* **History**: the bot's `Tick`, `Answer`, `RecordSnapshot`/`TickFails`, `RecordCycle`
  and the script's `Run`, `BeginBatch`, `Step` (an answer to one attempt),
  `AttemptFails`, `OrphanFails`, `RecordResult`, `EndBatch`, `Complete`, `Abort` share one database.
  A transaction is `Begin`, one `Insert` per row in any order and `Commit`; a death
  of its owner rolls it back. `runtimeApiAvailable` is the module's flag.
* **Backtest**: one action per stage of the loop body: `Read` (emissions, curve),
  `Decide` (observe, triggers, gap), `Step`, `SellAll`, `ComputeDiffs`,
  `SellPartial`, `Buy`, `AfterRebalance`, `Report`. The exits of one rebalance come in
  any order, where the script has the order of the first purchases. The scores of
  sma-stoploss are a `merit` in the snapshot; `Amm` and `Metrics` are used as they are.
  `opening` (what there was when the legs began) and `unpaid` (what purchases that brought
  nothing have put into pools) are history. The initial predicate, the next-state relation and
  the tuple of variables have the module's name in theirs, so that `ScriptProofs` can
  extend it beside `RpcRateLimiter`.
* **SmaStoploss**: each stretch of `tick()` between two awaits is an action that
  changes the memory and queues the turn's database calls in `writes`; `WriteNext`
  makes one call, so that `Crash` may come between any two. `Boot` and
  `InitialCycle` are the scheduler's `preparePreview` and first cycle.

Each module has one `TypeOK`; it is a conjunct of the module's first invariant, so
that a run of each module checks it. Definitions whose comment begins with "Mutant of" are
changed versions of the definition after them; a property is kept only if one of
them violates it.

## Runs

Passing runs (`tlc -config <cfg> <module>`):

| Run | Config | Shows | States |
|---|---|---|---|
| block_interval | BlockIntervalRunner.cfg | ticks wait for the observes up to their block; `stop()` resolves; heartbeat fresh; contract | 26 056 |
| copy_trade | CopyTradeRunner.cfg | detected events are covered and run; nothing starts after a stop; `stop()` resolves; contract | 4 998 |
| cron | CronRunner.cfg | heartbeat fresh while the job lives; contract | 7 431 |
| rate_limiter | RpcRateLimiter.cfg | concurrency exact, first in first out, burst bounded, every call runs | 6 732 |
| scheduler | Scheduler.cfg | DB and client closed once, never under a runner's cycle; every shutdown ends | 144 |
| shielded | ShieldedSubmission.cfg | a cycle reports its own batch; a late batch and the next exclude each other; a batch that was seen ends the wait | 337 380 |
| rebalance_cycle | RebalanceCycle.cfg | batches in the clear have limits; rows, returns and the chain agree | 1 507 708 |
| sma_stoploss | SmaStoploss.cfg | memory and DB agree between turns; stops ratchet and are not lost in a crash; no re-entry on record | 292 684 |
| portfolio | Portfolio.cfg | plans within means and cap, what is accepted within its limit falls short of the simulation by the slippage buffer at most, rebalancing comes to rest, the bunker empties | 153 306 |
| history | History.cfg | the database is whole at any time; a completed backfill has only reported gaps; fallback prices are explained; backfills can be resumed | 719 860 |
| backtest | Backtest.cfg | tao is conserved up to booked fees; stops protect; one-pass statistics are right | 1 488 754 |

A run that finds a disagreement between the code and what the repository says of it:

| Run | Config | Disagreement |
|---|---|---|
| shielded_timeout | ShieldedSubmissionTimeout.cfg | `rxTimeout(Date)` bounds the first block only; the wait for a batch that never lands has no end, against `waitForBatch.ts:96` and its test. |

### More disagreements

Seen while modelling, with no run of their own:

* *Scheduler*: a signal during warm-up, preview or the initial cycle runs `shutdown()`
  while there is no runner (`scheduler.ts:50`); it closes the DB, and the start-up goes
  on to start a runner without it, against the comment at 90-93.
* *Cycle*: a failed notification makes the catch write a second row (`cycle.ts:250`);
  `history/types.ts:50` says one row per cycle. On the direct path an operation without
  a `ProxyExecuted` event counts as a success (`executeRebalance.ts:328`), and on the
  shielded path an item the proxy refuses shifts the results after it
  (`waitForBatch.ts:247`): that is why `RowsAreTrue` speaks of operations up to the first
  one refused and, of undispatched batches, of shielded ones.
* *sma-stoploss*: the block estimate (`runner.ts:84`) lags and jumps when a subnet is
  registered, which can end a cooldown early (STRATEGY.md:63). A cold start skips the
  cycle and keeps a position that was stopped out (`index.ts:142`). A warm-up that is
  interrupted half-way is never completed.
* *copy-trade* forgets a block whose events cannot be fetched (`FetchFails`; STRATEGY.md:30
  "scans each finalized block's events") and never writes the heartbeat that the
  Dockerfile's healthcheck reads.
* *Runners*: a run that hangs for ever counts as one stale timeout, so three in a row never
  happen; only the expired heartbeat shows it. A call of the rate limiter whose cost exceeds
  the bucket waits for ever; `2 * rpm` calls pass in a minute (`BurstBound` is exact; the
  comment at `rateLimiter.ts:5` says `rpm`).
* *Planner and strategies*: a reduction may overfill a target up to twice and the next cycle
  reduces it again (`Settles`: at most three batches); exits below the minimum operation stay
  for ever; `totalTaoValue` includes reserved balance; an operation of the batch that is
  refused lets its stakes eat the reserve; held dust keeps the incumbency bonus; coward's
  switch of validators never moves the stake it has.
* *History*: one transient failure of the price API makes up to 500 blocks of a backfill use
  computed prices, and a timed-out attempt goes on and may still clear the flag: that is why
  `FallbackExplained` speaks of runs without failures; with a `--concurrency` that does not
  divide 500 the reset comes later than meant. `record.ts:20-21` says null is returned for a
  block already recorded, where the snapshot is. A busy database ends the backfill.
* *Backtest*: the first cron call always fires and leaves `nextScheduledAt` in the past, so that
  the next snapshot rebalances too; the block-interval trigger skips ticks over gaps of the data
  where cron coalesces them; a data gap longer than the cooldown forgets a pending stop-out; the
  rest of a buy that does not exceed the fee leaves the purse and is booked nowhere; a purchase
  that brings no alpha changes the pool, the fee-free budget and the fees booked and is not paid
  for (`backtest.ts:862-898`, `unpaid`); a fill price that rounds to nothing seeds no stop, so that
  the position has none until the next tick (`StopsProtect` excepts it); the maximum
  drawdown's duration is the longest wait between peaks after the first loss, of whatever depth.

### Bounds

* *block_interval*: grid and observe interval 1, tick every 2 blocks, stale after
  2, blocks 1 to 8. An observe can be late by several blocks, so that up to three
  handlers are released together, three consecutive stale runs fit, and a run can
  skip the tick after it. `SECONDS_PER_BLOCK` is the unit, so that the heartbeat is
  exact.
* *copy_trade*: 3 blocks, each with or without an event: one handler behind the
  run, one that marks it and one that is late.
* *cron*: period 2, stale after 3 (a run outlives a fire), 16 units: enough for
  three consecutive stale runs and a fire after them.
* *rate_limiter*: 4 calls of cost 1, 2, 3, 3, two slots, a bucket of 3: two wait for
  a slot, two compete for tokens, and one needs the full bucket.
* *scheduler*: 5 signals; after the first they change nothing.
* *shielded*: 3 cycles, mortality 2 and 4 blocks, timeout 2, 7 units: an earlier batch
  can land in each stage of a later cycle, a wrapper can expire.
* *rebalance_cycle*: 2 cycles, up to 2 operations: one operation has no item events,
  two have; the second cycle meets the first one's late batch.
* *sma_stoploss*: one subnet, prices 0, 1, 3, 8, stop at 50 percent, cooldown 2 ticks,
  4 blocks, one crash: a stop can be set, raised, hit, recorded, expire, and be cut by
  a crash at each write. Subnets do not share state, and a turn's writes for two
  subnets are a concatenation.
* *portfolio*: root and three alpha subnets, two hotkeys, 5 worlds (calm, calm with other prices, a
  challenger within the bonus, a rush into one subnet with missing validators, nothing that
  qualifies), 11 wallets with dust, several hotkeys and large exits, one world change, one refused
  operation and one run of the bunker script; with and without limits, four strategies. A tao is 40
  units and prices are between 0 and 60, so that divisions by a price or of its value leave a rest; the
  minima are 2 and 3 units, so that sales split, fold dust and stay below them; 5 percent drift of
  the reserve, 25 of the allocation. The slippage buffer is 10 percent, some units of a price, and
  prices move by 15 percent and more, up and down, while a batch is pending: a buffer of 15 percent, or
  a swap buffered once for each of its pools, would be seen.
* *history*: 9 blocks on a grid of 2, the API appears at block 3, a subnet at block 5; batches of
  two, two retries, a reset every two blocks, one cycle with a trade, two failures and one death:
  a batch mixes both kinds of runtime, both writers meet in each stage, a block can be skipped.
* *backtest*: snapshots at blocks 2 to 8 with gaps up to 2, five markets in each (rise, fall,
  a subnet gone, slump, a pool so dear that a purchase brings nothing), interval and cron period 3, observe gap 2, stop at 15 percent, cooldown 4,
  an initial 60 units with fees of 1 and 1/20: a stop can be hit inside and outside the gap, run out,
  and be hit on a vanished pool; buys are fee-free, charged and mixed. The network's constants are
  scaled with the units.

`CHECK_DEADLOCK FALSE` is in every config: these systems stop (a shut-down runner,
a chain, a clock or a replay at its bound).

### Fairness

Weak fairness is given to what the program or its runtime does by itself: the event
loop drains its microtasks, promises of RPC calls and of cycles settle one way or
another (they resolve *or* reject), continuations run, timers fire. Nothing obliges
blocks, leader events, signals or errors to come, nor the chain to include a
transaction. In `BlockIntervalRunner` and `Scheduler` this assumes that a cycle
settles; *shielded_timeout* shows a way in which one does not, and then `stop()` does
not resolve either. `Scheduler` needs strong fairness of `ResolveStop`, because the
contract allows a cycle to begin while `stop()` waits; each runner discharges it by
its own `StopResolves` or, in cron, by a job that is stopped first. `History` has weak
fairness of the script's own steps and of starting it again: someone who wants the backfill
runs it until it completes. Failures and deaths are bounded, and nothing obliges the bot or the
chain.

## Proofs

For every value of the constants, from the modules' named assumptions alone (that periods,
intervals and slots are positive naturals and intervals multiples of the grid, bounds naturals, a
fee a fraction below one, units and minima naturals, and the chain's answers as in `PortfolioAssumption`):

| Module | Theorems | The argument |
|---|---|---|
| CopyTradeRunnerProofs | `TypeCorrect`, `MutualExclusion`, `Quiescence`, `Coverage`, `MarkFound`, `NothingAfterStop`, `Refinement` | `running` mirrors `inflightRun`; events, runs and fetches are never from the future, so that a run that begins now covers all events so far; a mark has a run in flight |
| RunnerProofs | `Freshness`, `ObservesComeFirst`, `Refinement` (blocks), `CronFreshness`, `CronRefinement` (cron) | see below |
| SchedulerProofs | `CloseOnce`, `CloseAfterRunner` | who closes is decided by `isShuttingDown`; an error thrown on means that a shutdown began; a resolved stop has no cycle |
| ScriptProofs, rate limiter | `Exactness`, `FirstInFirstOut`, `MinuteBound` | the counter is the cardinality of the calls inside, the queue holds each waiting call once and is empty unless all slots are taken; for each unit i of the log, what was spent since i plus what the bucket has is at most a full bucket plus the refills since i |
| ScriptProofs, AMM | `SaleKeepsProduct`, `PurchaseKeepsProduct`, `NeededIsEnough` | rounding down the output keeps the constant product; the three roundings of a partial sale are all in its favour |
| ScriptProofs, backtest | `LedgerHolds`, `StopsHold`, `MetricsHold` | see below |
| RebalanceCycleProofs | `Limits`, `Recorded`, `RowsTell` | both computations of `useLimits` see the same key and option, since none of the steps between them awaits; a notification follows the row it tells of; `RowsTell` see below |
| TradingProofs, portfolio | `PortfolioTyped`, `PlansWellFormed`, `BunkerLeavesDust`, `LimitsHold` | see below |
| TradingProofs, submission | `OwnBatch`, `Exclusion` | nonces only grow; no two transactions on the chain share one; what landed after a nonce was read has at least that nonce |
| SmaStoplossProofs | `TablesHoldTheMemory`, `StopOutBeforeForgetting`, `MarksOnlyRise`, `RecordsBarTheWay` | see below |
| HistoryProofs | `Wholeness`, `CompleteRunsAreGapless`, `ComputedPricesExplained` | the open transaction with what it has left is exactly the rows of one block or one cycle that is not in the database, whose id is new; the others see below |

The properties are not inductive by themselves; each module states an inductive invariant (`IInv`,
and more parts for some theorems) as a conjunction of named parts, with a lemma per part that
every action keeps it and a last temporal step. Types are part of it because the provers need the
ranges of the variables, and Boolean variables have parts of their own (`FlagsOK`, `FlagsInv`)
because they need another prover than arithmetic. The three `Refinement`s prove
`Spec => ContractSpec`, initial states and steps, for each implementation of the contract.

* *RunnerProofs*. A block's observe waits for the previous block's, so the unsettled ones form a
  chain that ends with `observeChain`: a handler that is queued, or registered on a promise, lies
  before every unsettled observe it does not wait for, which gives `ObservesComeFirst`. The
  continuation of a run is queued exactly once when the run has settled and never otherwise; the
  continuation of `stop()` is the last of all, and after it nothing is left that could begin a run:
  the second half of the contract. Among `IntervalBlocks` consecutive blocks there is a tick block;
  with no run in flight, no tick block since the heartbeat was written is behind, and with one the
  heartbeat covers the blocks until it is stale: `Freshness`, which is about strategies that do not
  observe, as nothing bounds an observe. In cron, the heartbeat lies beyond the run's stale timer
  and the next fire, because `NextRun` is ahead of its argument and grows with it.
* *RowsTell*. A batch on the chain stays what it is; the balances a cycle plans from do not count
  its own batch; and both parsers agree with the batch up to the first operation the proxy refused,
  because the two lists of events begin with the same operations up to there.
* *SmaStoplossProofs*. With the calls of the turn still in `writes`, the tables are the memory
  before those calls; a turn queues the stop-out before the deletion of its stop; what a tick
  shared for the cycle to exclude is on record, and so is what the next boot loads.
* *Gaps*. `missing`, cut at the script's position, splits into batches done, jobs of the batch at
  hand and what is to come; each block of the batches done is recorded or skipped, and each
  skipped block has `MaxRetries` failed attempts of its own, counted as pairs.
* *Prices*. The API's flag is down only because of a block without it in this batch, or in an
  earlier one since the last reset; so are the prices of an answer that is held back.
* *Ledger*. `BacktestInv`: the pools have a natural number on each side and no smaller product than
  the snapshot's; the targets that are left are for different subnets, so that what is still to be
  sold is held; and the loss since the opening lies between the transaction fees booked and all
  fees booked plus one transaction fee for each target up to the k-th, where no buy up to the k-th is
  left. A sum over pools of which one changes changes by that pool's difference (`TotalChange`), which makes
  each leg a statement on one pool, one position and the purse (`LegBalances`): a sale by
  `SaleBalances`, with the fee in tao of `alphaFeeInTao` as what the pool keeps, a purchase by
  `PurchaseBalances`, fee-free part first. For the benchmark: coward holds root only, at par, and the
  dividends of less alpha are at most the dividends of more, term by term (`RootAccruedGrows`).
* *Stops*. `StopsInv`: at a block just read nothing has been observed yet, so that the observe sees
  every stop; a stop-out is older than the last rebalance or asks for one. During a
  rebalance what is stopped out is no target, hence each is still to be left with its pool as in the
  snapshot, or its sale has turned out not to pay its fee, and no other leg touches it. A fill price
  of zero means that the whole position cost less than one unit of price (`CheapFill`).
* *Metrics*. `Recorded`: the equity curve goes forward in time and its values, like the results of
  the trades, are numbers. Each one-pass statistic then is a function of the prefixes of its
  sequence, one step per element (`StreakPrefixes`, `DrawdownPrefixes`, `SeriesPrefixes`), with an
  invariant of the pass: the streak that runs and the longest one so far (`StreakSoFar`); the last
  peak, the deepest fall between two moments and the longest wait that ends by that peak
  (`DrawdownSoFar`). A new peak ends a wait (`PeakAdvances`, `WaitsExtend`); a value below it falls
  from it at least as far as from any moment before (`FallAdvances`, `HigherIsDeeper`), fractions
  being compared crosswise. No entry of the drawdown series is deeper, as each is a fall from some
  earlier moment (`SeriesIsOfLosses`).
* *Plans*. `PortfolioInv`: the stakes are kept for the subnets and hotkeys there are; a plan is
  made of typed operations and has the limits of its own simulation; while a plan of the script
  waits it is what the script makes of the wallet, since no batch comes between. That a plan is typed
  (`PlanTyped`) goes through every stage of the planner with the three folds over positions and
  targets (`ExitsTyped`, `AllReductionsTyped`, `AllStakesTyped`): what a sale is split into is never
  below nothing, because the parts that were handed out, the dust folded into the last one included,
  are at most the sale, and what is taken of a position for some tao is at most the position,
  because its worth is rounded down.
* *Bunker*. The script's operations come in two phases, one group for each position, and no group
  takes from a position that another one needs: each is accepted (a swap to root is within its own limit,
  `ToRootWithinLimit`, since the average price of a sale is not above the pool's), empties the
  position it is for and puts into one cell only (`PhaseEmpties`, `BunkerRun`). So what is left
  elsewhere has no operation, which is dust.
* *Limits*. `FillsNearPlan` has the buffer as `simulateSlippage.ts` applies it, once: the limit of a
  stake is raised by s percent, so the alpha bought is at least 100/(100 + s) of what was promised;
  the limit of a sale or a swap is lowered by s percent, so it brings at least (100 - s)/100. For an
  operation at two prices this is arithmetic on three divisions
  (`BuyFill`, `SellFill`, `SwapFill`). Its unit counts the rao that the roundings lose: one unit
  of the amount bought; a rao for the sale and `alpha \div TAO` for the limit, a price per whole
  tao; for a swap also the rao lost between the two pools, which buys `TAO \div price` alpha where a
  tao is worth more than one alpha.

Induction over data is done by hand where it is needed, as the library's induction theorems
take an operator: a set of counterexamples in the naturals has a least element (`Least`,
`Induction` of `HistoryProofs`, `ScriptProofs` and `TradingProofs`), a set of subsets that is closed under adding an element
holds a finite set (`FiniteInduction`), and sums and folds go through the function the fold is
defined by, which exists (`SumExists`, `FoldExists`).

Only model-checked: all liveness (`ENABLED` and fairness are out of the prover's reach), and three
properties of `Portfolio` that are not true for all its constants. `PlanWithinMeans` and `NoOverfill`
compare sums over a batch with roundings of shares and prices, whose allowance suits prices, a
`ShareUnit` and a `MinOperation` in the proportions of the real ones; `Settles` says how many batches it
takes with the particular thresholds.

## Not modelled

* Encodings, encryption, the texts of logs, notifications, audits and reports, the parsing of
  configurations and command lines, key derivation: no state, no properties beyond their wording.
* The closed formulas of `backtest/metrics.ts` (Sharpe, Sortino, CAPM, VaR, ...): floating-point
  arithmetic that TLA+ would only restate. Charts, tables, `compare-strategies.ts`.
* The amounts of trades and fees parsed from events (`tradeRecorder.ts`): `BatchResults` has their
  success only.
* The read-only queries and the migrations of `history/db.ts`; SQLite itself is trusted to make
  transactions atomic and to exclude writers.
* `sma-stoploss/warmup.ts`, which fills price samples, an input of `StrategyTargets`;
  `history/warmup.ts` has no caller.
* Selection and loading of a strategy (`loader.ts`), `main.ts`.
* The slippage within a batch: `Portfolio` trades at the pools' prices, as the planner does; the
  chain's simulation calls are external.

## Plan

Done: the abstract runner and its three implementations, the scheduler, the rate
limiter, the submission, the results, the cycle, the stop-loss state, the planner and the
strategies with a portfolio they manage, the history database with the backfill, the
backtest with AMM and statistics; proofs in eight modules.

Next, in this order:

1. `SmaStoploss` composed with the block-interval contract: `stop()` closing the price
   database under a tick, and warm-up racing `stop()`.
2. For `PlanWithinMeans` and `NoOverfill`: the allowance that holds for all prices, stated with
   them, and the sums of the deficits it needs, on top of `PlanTyped`.
3. Pools that move within a batch in `Portfolio`, with the `Amm` module as the chain.
4. The amounts of trades in `BatchResults`.
