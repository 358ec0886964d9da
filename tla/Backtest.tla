------------------------------ MODULE Backtest ------------------------------
(***************************************************************************)
(* scripts/backtest.ts: a strategy run over the recorded snapshots.  The   *)
(* script is sequential; a step of this module is one stage of its loop,   *)
(* and one leg of a rebalance.  What the database holds is arbitrary: any  *)
(* increasing blocks, any of the Markets at each.                          *)
(*                                                                         *)
(* Amounts are in rao, prices in units of 1/F32.  A subnet of a snapshot   *)
(* is [taoIn, alphaIn, alphaOut, alphaOutEmission, spotPrice, movingPrice, *)
(* merit]; merit ranks the subnets as scoreSubnets does, and is 0 for one  *)
(* that does not pass its gates.  The time of a block is its number.       *)
(* Totals that are only printed are left out.                              *)
(***************************************************************************)
EXTENDS Amm, Metrics, Sequences, FiniteSets, FiniteSetsExt, Functions, SequencesExt

CONSTANTS
  Markets,                                \* what a snapshot may be
  FirstBlock, LastBlock, MaxStep,         \* bounds of the history
  InitialTao,
  F32, TxFee, MinTrade,                   \* TX_FEE_RAO, MIN_TRADE
  OwnerCutPct, ValidatorTakePct, TaoWeightNum, TaoWeightDenom,
  Interval, CronPeriod, ObserveGap,       \* the schedule
  RootSharePct,                           \* of root-emission
  MaxSubnets, StopLossPercent, CooldownBlocks   \* of sma-stoploss

ASSUME BacktestAssumption ==
  /\ {FirstBlock, LastBlock, MaxStep, InitialTao, F32, TaoWeightDenom, Interval,
      CronPeriod, MaxSubnets} \subseteq Nat \ {0}
  /\ {TxFee, MinTrade, TaoWeightNum, ObserveGap, CooldownBlocks} \subseteq Nat
  /\ {OwnerCutPct, ValidatorTakePct, RootSharePct, StopLossPercent} \subseteq 0..100
  /\ FirstBlock <= LastBlock
  /\ \A snap \in Markets :
       /\ IsFiniteSet(DOMAIN snap) /\ DOMAIN snap \subseteq Nat
       /\ snap \in [DOMAIN snap ->
                      [taoIn : Nat, alphaIn : Nat, alphaOut : Nat, alphaOutEmission : Nat,
                       spotPrice : Nat, movingPrice : Nat, merit : Nat]]

VARIABLES
  strategy, cron,                  \* which strategy, and which kind of schedule
  block, snapshot,                 \* meta and snapshots of the iteration
  phase,                           \* idle, read, step, exit, trade, done
  free, positions,                 \* tao, and [alpha, costBasis] per netuid
  virtualReserves, feeFreeBudget,
  totalFeesPaid, tickTxFees, tickTraded,   \* tickTrades is not empty
  lastKnownPrices, lastAccrualBlock, hodlSn0Alpha,
  equityCurve, tradeResults,
  isFirstCall, nextScheduledAt,    \* the trigger
  lastRebalanceBlock, pending,     \* pendingObserveRebalance
  targets, plan, preBuy,           \* shares, the legs left, alpha before the buys
  stopLosses, stoppedOut, lastObserved,   \* sma-stoploss
  opening, unpaid                  \* ghosts: tao and fees when the legs began, and what
                                   \* purchases have put into pools that brought nothing

ledger == <<free, positions, virtualReserves, feeFreeBudget, totalFeesPaid, tickTxFees,
            tickTraded, tradeResults, unpaid>>
market == <<block, snapshot, lastKnownPrices, lastAccrualBlock, hodlSn0Alpha, equityCurve>>
trigger == <<isFirstCall, nextScheduledAt, lastRebalanceBlock, pending>>
memory == <<stopLosses, stoppedOut, lastObserved>>
backtestVars == <<strategy, cron, phase, ledger, market, trigger, targets, plan, preBuy, memory, opening>>

NoPlan == [value |-> 0, exits |-> {}, diffs |-> <<>>, sells |-> {}, buys |-> {}]

NoOpening == [tao |-> 0, fees |-> 0, txFees |-> 0]

Total(f) == FoldFunction(+, 0, f)

-----------------------------------------------------------------------------
(* Prices and values.                                                      *)

AlphaToTao(alpha, price) == IF price <= 0 THEN 0 ELSE (alpha * price) \div F32

Quoted(snap) == {n \in DOMAIN snap : snap[n].spotPrice > 0}

\* updateLastKnownPrices
Known(snap) ==
  [n \in Quoted(snap) \cup DOMAIN lastKnownPrices |->
     IF n \notin Quoted(snap) THEN lastKnownPrices[n]
     ELSE IF n = Root THEN F32 ELSE snap[n].spotPrice]

\* buildPriceMap: root is at par, a held subnet that is missing keeps its price.
PriceMap(snap) ==
  LET carried == {n \in DOMAIN positions : n \in DOMAIN lastKnownPrices}
  IN [n \in {Root} \cup DOMAIN snap \cup carried |->
        IF n = Root THEN F32
        ELSE IF n \in DOMAIN snap THEN snap[n].spotPrice ELSE lastKnownPrices[n]]

Price(prices, n) == IF n \in DOMAIN prices THEN prices[n] ELSE 0

PortfolioValue(prices) ==
  free + Total([n \in DOMAIN positions |-> AlphaToTao(positions[n].alpha, Price(prices, n))])

HeldNetuids == {n \in DOMAIN positions : positions[n].alpha > 0}

-----------------------------------------------------------------------------
(* Emissions.                                                              *)

SN0TaoIn(snap) == IF Root \in DOMAIN snap THEN snap[Root].taoIn ELSE 0

Emitting(snap) ==
  {n \in DOMAIN snap \ {Root} : snap[n].alphaOutEmission > 0 /\ snap[n].alphaOut > 0}

ValidatorAlphaPerBlock(s) == ((s.alphaOutEmission * (100 - OwnerCutPct)) \div 100) \div 2

WeightedRoot(snap) == (SN0TaoIn(snap) * TaoWeightNum) \div TaoWeightDenom

AfterTake(amount) == (amount * (100 - ValidatorTakePct)) \div 100

\* accrueAlphaEmissions, of the position in n.
AlphaAccrued(n, snap, delta) ==
  IF n \notin Emitting(snap) THEN 0
  ELSE LET s == snap[n]
           stakers == (ValidatorAlphaPerBlock(s) * s.alphaOut) \div (WeightedRoot(snap) + s.alphaOut)
       IN AfterTake((stakers * positions[n].alpha) \div s.alphaOut) * delta

\* accrueRootEmissions: the dividends of alpha staked on root, sold at the spot
\* price, unless the prices sum to one at most.
RootAccrued(alpha, snap, delta, prices) ==
  LET Dividend(n) ==
        LET s == snap[n]
            root == (ValidatorAlphaPerBlock(s) * WeightedRoot(snap))
                      \div (WeightedRoot(snap) + s.alphaOut)
        IN AlphaToTao(AfterTake((root * alpha) \div SN0TaoIn(snap)), Price(prices, n))
      movingPriceSum == Total([n \in DOMAIN snap \ {Root} |-> snap[n].movingPrice])
  IN IF alpha <= 0 \/ SN0TaoIn(snap) <= 0 \/ movingPriceSum <= F32 THEN 0
     ELSE Total([n \in Emitting(snap) |-> Dividend(n)]) * delta

Accrued(snap, delta, prices) ==
  [n \in DOMAIN positions |->
     [positions[n] EXCEPT !.alpha = @ + AlphaAccrued(n, snap, delta)
        + IF n = Root THEN RootAccrued(@, snap, delta, prices) ELSE 0]]

-----------------------------------------------------------------------------
(* The schedule.                                                           *)

\* croner's next run after a time.
NextRun(time) == ((time \div CronPeriod) + 1) * CronPeriod

\* The trigger of buildTrigger: the first call, then the interval's blocks, or
\* the first snapshot at or after the scheduled time.
ShouldRebalance ==
  isFirstCall \/ IF cron THEN block >= nextScheduledAt ELSE block % Interval = 0

\* The first run at or after the first snapshot, then the one after each that fires.
NextScheduled ==
  CASE cron /\ isFirstCall -> NextRun(block - 1)
    [] cron /\ ~isFirstCall /\ ShouldRebalance -> NextRun(block)
    [] OTHER -> nextScheduledAt

GapExpired == ObserveGap = 0 \/ block - lastRebalanceBlock >= ObserveGap

-----------------------------------------------------------------------------
(* The strategies.                                                         *)

StopPrice(price) == (price * (100 - StopLossPercent)) \div 100

Stop(price) == [highWaterMark |-> price, stopPrice |-> StopPrice(price)]

\* expireCooldowns and updateStopLosses: stops of what is no longer held go, a
\* new position gets one, the others rise with the price or trigger below it.
Watched == {n \in HeldNetuids \ {Root} : n \in Quoted(snapshot)}

Triggered == {n \in Watched \cap DOMAIN stopLosses :
                snapshot[n].spotPrice < stopLosses[n].stopPrice}

Cooling == {n \in DOMAIN stoppedOut : block - stoppedOut[n] < CooldownBlocks}

UpdatedStops ==
  LET kept == HeldNetuids \cap DOMAIN stopLosses
      Updated(n) ==
        IF n \notin Watched THEN stopLosses[n]
        ELSE IF n \in kept /\ snapshot[n].spotPrice <= stopLosses[n].highWaterMark
        THEN stopLosses[n] ELSE Stop(snapshot[n].spotPrice)
  IN [n \in (kept \cup Watched) \ Triggered |-> Updated(n)]

\* doObserve of sma-stoploss, once per block; the other strategies remember nothing.
Observes == strategy = "sma-stoploss" /\ lastObserved # block

Observe ==
  IF Observes
  THEN /\ stopLosses' = UpdatedStops
       /\ stoppedOut' = [n \in Cooling \cup Triggered |->
                           IF n \in Triggered THEN block ELSE stoppedOut[n]]
       /\ lastObserved' = block
  ELSE UNCHANGED memory

NeedsRebalance == Observes /\ Triggered # {}

Passing(excluded) ==
  {n \in DOMAIN snapshot \ {Root} : snapshot[n].merit > 0 /\ n \notin excluded}

Better(m, n) ==
  snapshot[m].merit > snapshot[n].merit \/ (snapshot[m].merit = snapshot[n].merit /\ m < n)

Rank(n, passing) == Cardinality({m \in passing : Better(m, n)}) + 1

\* The best of the subnets that pass the gates and are not excluded, best first; of
\* equals the lower netuid.
Best(count, excluded) ==
  LET passing == Passing(excluded)
  IN [i \in 1..Min({count, Cardinality(passing)}) |-> CHOOSE n \in passing : Rank(n, passing) = i]

Target(netuid, share) == [netuid |-> netuid, share |-> share]

\* step: the targets and their shares, which add up to one.  What sma-stoploss does
\* not place goes to root.
StepTargets(excluded) ==
  CASE strategy = "coward" -> <<Target(Root, <<1, 1>>)>>
    [] strategy = "root-emission" ->
         LET winner == Best(1, {})
         IN IF winner = <<>> THEN <<Target(Root, <<1, 1>>)>>
            ELSE <<Target(Root, <<RootSharePct, 100>>),
                   Target(winner[1], <<100 - RootSharePct, 100>>)>>
    [] strategy = "sma-stoploss" ->
         LET winners == Best(MaxSubnets, excluded)
             left == MaxSubnets - Len(winners)
         IN [i \in DOMAIN winners |-> Target(winners[i], <<1, MaxSubnets>>)]
            \o IF left > 0 THEN <<Target(Root, <<left, MaxSubnets>>)>> ELSE <<>>

-----------------------------------------------------------------------------
(* The loop.                                                               *)

BacktestInit ==
  /\ strategy \in {"coward", "root-emission", "sma-stoploss"}
  /\ cron \in BOOLEAN
  /\ block = FirstBlock - 1 /\ snapshot = <<>> /\ phase = "idle"
  /\ free = InitialTao /\ positions = <<>>
  /\ virtualReserves = <<>> /\ feeFreeBudget = 0
  /\ totalFeesPaid = 0 /\ tickTxFees = 0 /\ tickTraded = FALSE
  /\ lastKnownPrices = <<>> /\ lastAccrualBlock = 0 /\ hodlSn0Alpha = InitialTao
  /\ equityCurve = <<>> /\ tradeResults = <<>>
  /\ isFirstCall = TRUE /\ nextScheduledAt = 0
  /\ lastRebalanceBlock = 0 /\ pending = FALSE
  /\ targets = <<>> /\ plan = NoPlan /\ preBuy = <<>>
  /\ stopLosses = <<>> /\ stoppedOut = <<>> /\ lastObserved = -1
  /\ opening = NoOpening /\ unpaid = 0

\* The next snapshot: prices, emissions since the last one, the benchmark and the
\* equity curve.
Read(next, snap) ==
  LET delta == IF lastAccrualBlock > 0 THEN next - lastAccrualBlock ELSE 0
  IN /\ phase = "idle" /\ block < LastBlock
     /\ block' = next /\ snapshot' = snap
     /\ lastKnownPrices' = Known(snap)
     /\ positions' = Accrued(snap, delta, PriceMap(snap))
     /\ hodlSn0Alpha' = hodlSn0Alpha
          + RootAccrued(hodlSn0Alpha, snap, delta, [n \in DOMAIN snap |-> snap[n].spotPrice])
     /\ lastAccrualBlock' = next
     /\ phase' = "read"
     /\ UNCHANGED <<strategy, cron, free, virtualReserves, feeFreeBudget, totalFeesPaid,
                    tickTxFees, tickTraded, tradeResults, equityCurve, trigger, targets, plan, preBuy,
                    memory, opening, unpaid>>

\* Mutant of Decide: what waits for the gap is forgotten.
DecideForgets ==
  /\ phase = "read"
  /\ equityCurve' = Append(equityCurve, [time |-> block, value |-> PortfolioValue(PriceMap(snapshot))])
  /\ isFirstCall' = FALSE
  /\ nextScheduledAt' = NextScheduled
  /\ pending' = FALSE
  /\ IF ShouldRebalance THEN phase' = "step" /\ UNCHANGED memory
     ELSE /\ Observe
          /\ phase' = IF (pending \/ NeedsRebalance) /\ GapExpired THEN "step" ELSE "idle"
  /\ UNCHANGED <<strategy, cron, block, snapshot, lastKnownPrices, lastAccrualBlock,
                 hodlSn0Alpha, ledger, lastRebalanceBlock, targets, plan, preBuy, opening>>

\* The trigger, else the strategy observes; what it asks for waits for the gap.
Decide ==
  /\ phase = "read"
  /\ equityCurve' = Append(equityCurve, [time |-> block, value |-> PortfolioValue(PriceMap(snapshot))])
  /\ isFirstCall' = FALSE
  /\ nextScheduledAt' = NextScheduled
  /\ IF ShouldRebalance
     THEN phase' = "step" /\ UNCHANGED <<memory, pending>>
     ELSE LET wanted == pending \/ NeedsRebalance
          IN /\ Observe
             /\ pending' = (wanted /\ ~GapExpired)
             /\ phase' = IF wanted /\ GapExpired THEN "step" ELSE "idle"
  /\ UNCHANGED <<strategy, cron, block, snapshot, lastKnownPrices, lastAccrualBlock,
                 hodlSn0Alpha, ledger, lastRebalanceBlock, targets, plan, preBuy, opening>>

\* All the tao there is in pools, on root and at hand.
Tao(reserves) ==
  free + (IF Root \in DOMAIN positions THEN positions[Root].alpha ELSE 0)
  + Total([n \in DOMAIN reserves \ {Root} |-> reserves[n].taoIn])

\* The strategy's targets, the pools as they are, and the positions to leave.
Step ==
  /\ phase = "step"
  /\ Observe
  /\ targets' = StepTargets(DOMAIN stoppedOut')
  /\ virtualReserves' = [n \in DOMAIN snapshot |->
                           [taoIn |-> snapshot[n].taoIn, alphaIn |-> snapshot[n].alphaIn]]
  /\ feeFreeBudget' = 0
  /\ plan' = [NoPlan EXCEPT !.value = PortfolioValue(PriceMap(snapshot)),
                            !.exits = DOMAIN positions \ {targets'[i].netuid : i \in DOMAIN targets'}]
  /\ opening' = [tao |-> Tao(virtualReserves'), fees |-> totalFeesPaid, txFees |-> tickTxFees]
  /\ unpaid' = 0
  /\ phase' = "exit"
  /\ UNCHANGED <<strategy, cron, market, free, positions, totalFeesPaid, tickTxFees,
                 tickTraded, tradeResults, trigger, preBuy>>

Reserves(n) ==
  IF n \in DOMAIN virtualReserves THEN virtualReserves[n] ELSE [taoIn |-> 0, alphaIn |-> 0]

-----------------------------------------------------------------------------
(* The legs of a rebalance.                                                *)

\* What a sale of alpha leaves of the position: nothing once it is all sold.
Reduced(n, alpha, cost) ==
  IF alpha = positions[n].alpha
  THEN [m \in DOMAIN positions \ {n} |-> positions[m]]
  ELSE [positions EXCEPT ![n].alpha = @ - alpha, ![n].costBasis = @ - cost]

\* Mutant of Sell: the pool is not touched.
SellLeavesPool(n, alpha) ==
  LET swap == SwapAlphaForTao(alpha, Reserves(n), n)
      received == swap.amountOut - TxFee
  IN IF received <= 0 THEN UNCHANGED ledger
     ELSE /\ free' = free + received
          /\ positions' = Reduced(n, alpha, 0)
          /\ feeFreeBudget' = feeFreeBudget + (IF n = Root THEN 0 ELSE received)
          /\ totalFeesPaid' = totalFeesPaid + AlphaFeeInTao(alpha, Reserves(n), n) + TxFee
          /\ tickTxFees' = tickTxFees + TxFee /\ tickTraded' = TRUE
          /\ tradeResults' = Append(tradeResults, received)
          /\ UNCHANGED <<virtualReserves, unpaid>>

\* The common part of sellAll and sellPartial: a sale that would not pay its fee is
\* not made, one on root leaves the pools and the fee-free budget alone.
Sell(n, alpha) ==
  LET swap == SwapAlphaForTao(alpha, Reserves(n), n)
      received == swap.amountOut - TxFee
      cost == (positions[n].costBasis * alpha) \div positions[n].alpha
  IN IF received <= 0 THEN UNCHANGED ledger
     ELSE /\ free' = free + received
          /\ positions' = Reduced(n, alpha, cost)
          /\ totalFeesPaid' = totalFeesPaid + AlphaFeeInTao(alpha, Reserves(n), n) + TxFee
          /\ tickTxFees' = tickTxFees + TxFee /\ tickTraded' = TRUE
          /\ tradeResults' = Append(tradeResults, received - cost)
          /\ UNCHANGED unpaid
          /\ IF n = Root THEN UNCHANGED <<virtualReserves, feeFreeBudget>>
             ELSE /\ virtualReserves' = [virtualReserves EXCEPT ![n] = AfterSale(@, alpha, swap)]
                  /\ feeFreeBudget' = feeFreeBudget + received

\* The positions are visited in the order of their first purchases, here in any.
SellAll ==
  /\ phase = "exit"
  /\ \E n \in plan.exits :
       /\ Sell(n, positions[n].alpha)
       /\ plan' = [plan EXCEPT !.exits = @ \ {n}]
  /\ UNCHANGED <<strategy, cron, phase, market, trigger, targets, preBuy, memory, opening>>

Position(n) == IF n \in DOMAIN positions THEN positions[n] ELSE [alpha |-> 0, costBasis |-> 0]

\* What each target lacks, of the value before the exits.
Diff(t, prices) ==
  (plan.value * t.share[1]) \div t.share[2] - AlphaToTao(Position(t.netuid).alpha, Price(prices, t.netuid))

\* The sales and the buys that are large enough, by the targets they are for.  The
\* alpha of the buys' positions is kept for their fill prices; no sale that is still
\* to come touches it.
ComputeDiffs ==
  /\ phase = "exit" /\ plan.exits = {}
  /\ LET diffs == [i \in DOMAIN targets |-> Diff(targets[i], PriceMap(snapshot))]
         buys == {i \in DOMAIN targets : diffs[i] > MinTrade}
     IN /\ plan' = [plan EXCEPT !.diffs = diffs, !.buys = buys,
                                !.sells = {i \in DOMAIN targets : diffs[i] < -MinTrade}]
        /\ preBuy' = [n \in {targets[i].netuid : i \in buys} |-> Position(n).alpha]
  /\ phase' = "trade"
  /\ UNCHANGED <<strategy, cron, market, ledger, trigger, targets, memory, opening>>

\* sellPartial: the alpha that brings the amount, or all there is.
SellPartial ==
  /\ phase = "trade"
  /\ \E i \in plan.sells :
       LET n == targets[i].netuid
           needed == AlphaNeededForTao(-plan.diffs[i], Reserves(n), n)
       IN /\ \A j \in plan.sells : i <= j
          /\ Sell(n, Min({positions[n].alpha} \cup needed))
          /\ plan' = [plan EXCEPT !.sells = @ \ {i}]
  /\ UNCHANGED <<strategy, cron, phase, market, trigger, targets, preBuy, memory, opening>>

Bought(n, alpha, cost) ==
  [m \in DOMAIN positions \cup {n} |->
     IF m # n THEN positions[m]
     ELSE [alpha |-> Position(n).alpha + alpha, costBasis |-> Position(n).costBasis + cost]]

\* The amount enters root at par, less the transaction fee.
BuyRoot(actual) ==
  LET swap == SwapTaoForAlpha(actual - TxFee, Reserves(Root), Root, FALSE)
  IN IF swap.amountOut <= 0 THEN UNCHANGED ledger
     ELSE /\ free' = free - actual
          /\ positions' = Bought(Root, swap.amountOut, actual)
          /\ totalFeesPaid' = totalFeesPaid + TxFee
          /\ tickTxFees' = tickTxFees + TxFee /\ tickTraded' = TRUE
          /\ UNCHANGED <<virtualReserves, feeFreeBudget, tradeResults, unpaid>>

\* The proceeds of the tick's sales enter a pool without fees, the rest with both.
\* A rest that the transaction fee eats buys nothing.  The pool, the budget and the
\* fees change even when no alpha comes out, and then the purse does not pay.
BuyAlpha(n, actual) ==
  LET feeFree == Min({actual, feeFreeBudget})
      net == actual - feeFree - TxFee
      first == SwapTaoForAlpha(feeFree, Reserves(n), n, TRUE)
      between == AfterPurchase(Reserves(n), feeFree, first)
      second == SwapTaoForAlpha(net, between, n, FALSE)
      alpha == first.amountOut + second.amountOut
      fees == IF net > 0 THEN TxFee ELSE 0
      after == IF net > 0 THEN AfterPurchase(between, net, second) ELSE between
  IN /\ feeFreeBudget' = feeFreeBudget - feeFree
     /\ virtualReserves' = [m \in DOMAIN virtualReserves |-> IF m = n THEN after ELSE virtualReserves[m]]
     /\ totalFeesPaid' = totalFeesPaid + fees + second.poolFee
     /\ tickTxFees' = tickTxFees + fees
     /\ IF alpha <= 0
        THEN /\ unpaid' = unpaid + (after.taoIn - Reserves(n).taoIn) + fees
             /\ UNCHANGED <<free, positions, tickTraded>>
        ELSE /\ free' = free - actual /\ positions' = Bought(n, alpha, actual)
             /\ tickTraded' = TRUE /\ UNCHANGED unpaid
     /\ UNCHANGED tradeResults

\* buy: never more than is free.
Buy ==
  /\ phase = "trade" /\ plan.sells = {}
  /\ \E i \in plan.buys :
       LET n == targets[i].netuid
           actual == Min({plan.diffs[i], free})
       IN /\ \A j \in plan.buys : i <= j
          /\ IF actual <= 0 THEN UNCHANGED ledger
             ELSE IF n = Root THEN BuyRoot(actual) ELSE BuyAlpha(n, actual)
          /\ plan' = [plan EXCEPT !.buys = @ \ {i}]
  /\ UNCHANGED <<strategy, cron, phase, market, trigger, targets, preBuy, memory, opening>>

\* The price of what was bought into n, by its share of the cost.
FillPrice(n) ==
  LET pos == positions[n]
      bought == pos.alpha - preBuy[n]
      cost == pos.costBasis - (pos.costBasis * preBuy[n]) \div pos.alpha
  IN (cost * F32) \div bought

Filled == {n \in DOMAIN preBuy \cap HeldNetuids : positions[n].alpha > preBuy[n]}

EntryPrice(n) ==
  CASE n \in Filled -> FillPrice(n)
    [] n \notin Filled /\ n \in Quoted(snapshot) -> snapshot[n].spotPrice
    [] OTHER -> 0

\* afterRebalance of sma-stoploss: stops of what was sold go, what was bought gets
\* one from its fill price, else from the spot price, if that is not zero.
SeededStops ==
  LET kept == HeldNetuids \cap DOMAIN stopLosses
      seeded == {n \in HeldNetuids \ {Root} : n \notin kept /\ EntryPrice(n) > 0}
  IN [n \in kept \cup seeded |-> IF n \in kept THEN stopLosses[n] ELSE Stop(EntryPrice(n))]

\* The end of a rebalance.  tickTxFees is reset with the trades of the report, when
\* there are any.
AfterRebalance ==
  /\ phase = "trade" /\ plan.sells = {} /\ plan.buys = {}
  /\ stopLosses' = IF strategy = "sma-stoploss" THEN SeededStops ELSE stopLosses
  /\ tickTxFees' = IF tickTraded THEN 0 ELSE tickTxFees
  /\ tickTraded' = FALSE
  /\ lastRebalanceBlock' = block /\ pending' = FALSE
  /\ phase' = "idle" /\ targets' = <<>> /\ plan' = NoPlan /\ preBuy' = <<>>
  /\ virtualReserves' = <<>> /\ opening' = NoOpening /\ unpaid' = 0
  /\ UNCHANGED <<strategy, cron, market, free, positions, feeFreeBudget, totalFeesPaid,
                 tradeResults, isFirstCall, nextScheduledAt, stoppedOut, lastObserved>>

\* The report, after the last snapshot.
Report ==
  /\ phase = "idle" /\ block = LastBlock
  /\ phase' = "done"
  /\ UNCHANGED <<strategy, cron, ledger, market, trigger, targets, plan, preBuy, memory, opening>>

BacktestNext ==
  \/ \E next \in block + 1 .. Min({block + MaxStep, LastBlock}), snap \in Markets : Read(next, snap)
  \/ Decide \/ Step \/ SellAll \/ ComputeDiffs \/ SellPartial \/ Buy \/ AfterRebalance
  \/ Report

BacktestSpec == BacktestInit /\ [][BacktestNext]_backtestVars

-----------------------------------------------------------------------------
(* Properties.                                                             *)

BacktestTypeOK ==
  /\ strategy \in {"coward", "root-emission", "sma-stoploss"} /\ cron \in BOOLEAN
  /\ phase \in {"idle", "read", "step", "exit", "trade", "done"}
  /\ block \in FirstBlock - 1 .. LastBlock
  /\ {free, feeFreeBudget, totalFeesPaid, tickTxFees, hodlSn0Alpha} \subseteq Nat
  /\ \A n \in DOMAIN positions : positions[n].alpha \in Nat \ {0} /\ positions[n].costBasis \in Nat
  /\ DOMAIN stopLosses \cup DOMAIN stoppedOut \subseteq UNION {DOMAIN snap : snap \in Markets}

\* Holding root from the first snapshot on never beats the benchmark of the same,
\* though the dividends of the two are computed by two copies of the code.
RootFollowsBenchmark ==
  strategy = "coward" /\ phase = "idle" => PortfolioValue(PriceMap(snapshot)) <= hodlSn0Alpha

\* During the legs of a rebalance the simulation neither makes nor loses tao: what
\* pools, root and purse lack of what they held is at least the transaction fees, but
\* for purchases that bring nothing, which the purse does not pay, and at most the
\* fees booked, but for the rest of a buy that its fee would eat; and no pool gives
\* more than its constant product allows (sellAll, sellPartial, buy); nor do the
\* emissions between rebalances make any.
LedgerBalances ==
  /\ BacktestTypeOK
  /\ RootFollowsBenchmark
  /\ phase \in {"exit", "trade"} =>
       LET gone == opening.tao - Tao(virtualReserves)
       IN /\ tickTxFees - opening.txFees <= gone + unpaid
          /\ gone <= totalFeesPaid - opening.fees + TxFee * Len(targets)
          /\ \A n \in DOMAIN virtualReserves :
               virtualReserves[n].taoIn * virtualReserves[n].alphaIn
                 >= snapshot[n].taoIn * snapshot[n].alphaIn

\* A position without a stop-out has a stop, unless it was bought at less than the
\* smallest price; a stop-out leads to a rebalance, which
\* comes no sooner after the last one than the gap and no later than the first
\* snapshot past it; and that rebalance sells the position if its pool is there and
\* pays for the sale (updateStopLosses, the gap of the loop, step).
StopsProtect ==
  strategy = "sma-stoploss" /\ phase = "idle" =>
    LET exposed == HeldNetuids \ {Root}
    IN /\ \A n \in exposed : n \in Quoted(snapshot) =>
            \/ n \in DOMAIN stopLosses \cup DOMAIN stoppedOut
            \/ lastRebalanceBlock = block /\ positions[n].costBasis * F32 < positions[n].alpha
       /\ pending => ~GapExpired
       /\ \A n \in exposed \cap DOMAIN stoppedOut :
            \/ stoppedOut[n] <= lastRebalanceBlock \/ pending
       /\ lastRebalanceBlock = block =>
            \A n \in exposed \cap DOMAIN stoppedOut :
              \/ n \notin DOMAIN snapshot
              \/ SwapAlphaForTao(positions[n].alpha, snapshot[n], n).amountOut <= TxFee

\* The one-pass statistics of the report are what their definitions say: the deepest
\* loss of any two moments, the deepest point of the drawdown series, the longest wait
\* for a new peak and the longest streaks (computeMetrics).
MetricsAgree ==
  phase = "done" /\ Len(equityCurve) >= 2 =>
    LET drawdown == ComputeDrawdown(equityCurve)
        series == ComputeDrawdownTimeseries(equityCurve)
    IN /\ IsDeepestLoss(drawdown.max, equityCurve)
       /\ IsLongestWait(drawdown.longest, equityCurve)
       /\ \A i \in DOMAIN series : ~Less(drawdown.max, series[i])
       /\ IsLongestStretch(MaxConsecutiveWins(tradeResults), Wins(tradeResults))
       /\ IsLongestStretch(MaxConsecutiveLosses(tradeResults), Losses(tradeResults))

=============================================================================
