----------------------------- MODULE Portfolio -----------------------------
(***************************************************************************)
(* A portfolio that a strategy manages: StrategyTargets, ComputeRebalance  *)
(* and the batch composed, cycle after cycle (src/src/rebalance/cycle.ts), *)
(* with the script that empties the portfolio into root                    *)
(* (src/scripts/bunker.ts).  Between the planning of a batch and its       *)
(* execution the world may change, and operations of the batch may be      *)
(* refused.                                                                *)
(*                                                                         *)
(* A world is all that the chain answers, see module StrategyTargets.  The *)
(* chain trades at the price of a subnet's pool; the trades of one batch   *)
(* do not move it.                                                         *)
(***************************************************************************)
EXTENDS ComputeRebalance, StrategyTargets

CONSTANTS
  Hotkeys,         \* a sequence, in the order of the addresses
  Fallback,        \* VALIDATOR_HOTKEY, or None
  World,           \* [subnets, metagraph, leader, samples, stoppedOut] by name
  Wallets,         \* initial balances, [free, reserved, stake]
  Strategies,      \* the strategies looked at
  BunkerMin,       \* minOpTao of the bunker script
  SettleCycles,    \* cap of the count of batches in a world that stands still
  MaxMoves,        \* bound on the changes of the world
  MaxRefused,      \* bound on the operations refused for reasons of their own
  MaxBunkers       \* bound on the runs of the script

NetuidsOf(w) == {s.netuid : s \in World[w].subnets}

\* What the chain may answer: it has the same subnets in every world, root among
\* them, and knows their validators, prices and stakes.
IsWorld(w) ==
  LET chain == World[w]
  IN /\ IsFiniteSet(chain.subnets) /\ 0 \in NetuidsOf(w)
     /\ \A s \in chain.subnets : s \in SubnetState
     /\ \A r, s \in chain.subnets : r.netuid = s.netuid => r = s
     /\ DOMAIN chain.metagraph = NetuidsOf(w)
     /\ \A n \in NetuidsOf(w) :
          /\ IsFiniteSet(chain.metagraph[n])
          /\ \A v \in chain.metagraph[n] : v \in ValidatorsOf(ToSet(Hotkeys))
          /\ chain.samples[n] \in Seq(Nat)
     /\ chain.leader \in [NetuidsOf(w) -> Nat]
     /\ \A n \in DOMAIN chain.stoppedOut : chain.stoppedOut[n] \in Nat

ASSUME PortfolioAssumption ==
  /\ Hotkeys \in Seq(ToSet(Hotkeys))
  /\ \A i, j \in DOMAIN Hotkeys : Hotkeys[i] = Hotkeys[j] => i = j
  /\ None \notin ToSet(Hotkeys) /\ Fallback \in ToSet(Hotkeys) \cup {None}
  /\ \A w \in DOMAIN World : IsWorld(w)
  /\ \A v, w \in DOMAIN World : NetuidsOf(v) = NetuidsOf(w)
  /\ \A wallet \in Wallets :
       /\ {wallet.free, wallet.reserved} \subseteq Nat
       /\ \A w \in DOMAIN World : wallet.stake \in [NetuidsOf(w) -> [ToSet(Hotkeys) -> Nat]]
  /\ Strategies \subseteq {"root-emission", "sma-stoploss", "copy-trade", "coward"}
  /\ {BunkerMin, SettleCycles, MaxMoves, MaxRefused, MaxBunkers} \subseteq Nat

VARIABLES
  strategy, useLimits,   \* of the process
  world,
  free, reserved,        \* balances of the coldkey
  stake,                 \* alpha per netuid and hotkey
  targets, ops,          \* the plan
  planned,               \* the world it was made in
  phase,                 \* idle, or a batch is submitted
  churn,                 \* batches planned since the world last interfered
  moves, refused, bunkers

balances == <<free, reserved, stake>>
bounds == <<moves, refused, bunkers>>
portfolioVars == <<strategy, useLimits, world, balances, targets, ops, planned, phase, churn,
          bounds>>

Price(w, netuid) ==
  LET s == CHOOSE s \in World[w].subnets : s.netuid = netuid
  IN IF netuid = 0 THEN TAO ELSE IF s.alphaIn > 0 THEN (s.taoIn * TAO) \div s.alphaIn ELSE 0

Prices(w) == [n \in {s.netuid : s \in World[w].subnets} |-> Price(w, n)]

PortfolioTypeOK ==
  /\ strategy \in Strategies /\ useLimits \in BOOLEAN
  /\ world \in DOMAIN World /\ planned \in DOMAIN World
  /\ free \in Nat /\ reserved \in Nat
  /\ \A n \in DOMAIN stake : stake[n] \in [ToSet(Hotkeys) -> Nat]
  /\ phase \in {"idle", "submitted"}
  /\ phase = "submitted" => ops # <<>>
  /\ churn \in 0..SettleCycles + 1
  /\ moves \in 0..MaxMoves /\ refused \in 0..MaxRefused /\ bunkers \in 0..MaxBunkers

PortfolioInit ==
  /\ strategy \in Strategies /\ useLimits \in BOOLEAN
  /\ world \in DOMAIN World /\ planned = world
  /\ \E wallet \in Wallets :
       free = wallet.free /\ reserved = wallet.reserved /\ stake = wallet.stake
  /\ targets = <<>> /\ ops = <<>>
  /\ phase = "idle" /\ churn = 0
  /\ moves = 0 /\ refused = 0 /\ bunkers = 0

-----------------------------------------------------------------------------
(* The chain (external).                                                   *)

WorldMoves(w) ==
  /\ moves < MaxMoves
  /\ w # world
  /\ world' = w
  /\ moves' = moves + 1
  /\ churn' = 0
  /\ planned' = IF phase = "idle" THEN w ELSE planned
  /\ UNCHANGED <<strategy, useLimits, balances, targets, ops, phase, refused, bunkers>>

\* A ledger is [free, stake].  The alpha that an operation takes, and from whom.
Takes(ledger, op) ==
  LET hotkey == IF op.kind = "swap" THEN op.origin ELSE op.hotkey
      all == ledger.stake[op.netuid][hotkey]
  IN [hotkey |-> hotkey,
      alpha |-> IF op.kind = "unstake" \/ op.alpha = Sweep THEN all ELSE op.alpha]

\* A limit bounds the price paid, the price received or the ratio of a swap; a pool
\* that is empty sells nothing.
WithinLimit(op, price, limited) ==
  \/ op.kind = "move"
  \/ op.kind = "stake" /\ price[op.netuid] > 0 /\ (limited => price[op.netuid] <= op.limit)
  \/ op.kind \in {"unstake", "unstake_partial"} /\ (limited => price[op.netuid] >= op.limit)
  \/ /\ op.kind = "swap"
     /\ price[op.destination] > 0
     /\ limited => price[op.netuid] * TAO >= op.limit * price[op.destination]

Accepted(ledger, op, price, limited) ==
  /\ WithinLimit(op, price, limited)
  /\ IF op.kind = "stake" THEN op.tao <= ledger.free
     ELSE LET taken == Takes(ledger, op)
          IN taken.alpha > 0 /\ taken.alpha <= ledger.stake[op.netuid][taken.hotkey]

AddStake(ledger, netuid, hotkey, alpha) ==
  [ledger EXCEPT !.stake[netuid][hotkey] = @ + alpha]

Settle(ledger, op, price) ==
  LET taken == Takes(ledger, op)
      less == AddStake(ledger, op.netuid, taken.hotkey, -taken.alpha)
      tao == AlphaToTao(taken.alpha, price[op.netuid])
  IN CASE op.kind = "stake" ->
            [AddStake(ledger, op.netuid, op.hotkey, TaoToAlpha(op.tao, price[op.netuid]))
               EXCEPT !.free = @ - op.tao]
       [] op.kind = "move" -> AddStake(less, op.netuid, op.destination, taken.alpha)
       [] op.kind = "swap" ->
            AddStake(less, op.destination, op.hotkey, TaoToAlpha(tao, price[op.destination]))
       [] op.kind \in {"unstake", "unstake_partial"} -> [less EXCEPT !.free = @ + tao]

\* force_batch: an operation that fails does not stop those after it.  ok[i] tells
\* whether operation i was carried out.
Batch(ledger, batch, price, limited, lost) ==
  LET Step(state, i) ==
        IF i \in lost \/ ~Accepted(state.ledger, batch[i], price, limited)
        THEN [state EXCEPT !.ok = Append(@, FALSE)]
        ELSE [ledger |-> Settle(state.ledger, batch[i], price), ok |-> Append(state.ok, TRUE)]
  IN FoldLeft(Step, [ledger |-> ledger, ok |-> <<>>], [i \in DOMAIN batch |-> i])

Ledger == [free |-> free, stake |-> stake]

\* Some operations may be refused for other reasons (a rate limit, a subnet that
\* is not enabled).
ExecuteBatch(lost) ==
  /\ phase = "submitted"
  /\ refused + Cardinality(lost) <= MaxRefused
  /\ LET end == Batch(Ledger, ops, Prices(world), useLimits, lost)
     IN /\ free' = end.ledger.free /\ stake' = end.ledger.stake
        /\ churn' = IF \A i \in DOMAIN ops : end.ok[i] THEN churn ELSE 0
  /\ phase' = "idle" /\ targets' = <<>> /\ ops' = <<>> /\ planned' = world
  /\ refused' = refused + Cardinality(lost)
  /\ UNCHANGED <<strategy, useLimits, world, reserved, moves, bunkers>>

-----------------------------------------------------------------------------
(* The bot.                                                                *)

\* getBalances, with the positions by netuid and hotkey.
Holdings == {x \in (DOMAIN stake) \X (DOMAIN Hotkeys) : stake[x[1]][Hotkeys[x[2]]] > 0}

StakesAt(price) ==
  LET Position(n, h) == [netuid |-> n, hotkey |-> h, stake |-> stake[n][h],
                         alphaPrice |-> price[n], taoValue |-> AlphaToTao(stake[n][h], price[n])]
      order == InOrder(Holdings, [x \in Holdings |->
                 {y \in Holdings : y[1] < x[1] \/ (y[1] = x[1] /\ y[2] < x[2])}])
  IN [i \in DOMAIN order |-> Position(order[i][1], Hotkeys[order[i][2]])]

Stakes == StakesAt(Prices(world))

TotalTaoValue == free + reserved + SumOf(LAMBDA p : p.taoValue, Stakes)

Balances == [free |-> free, stakes |-> Stakes, totalTaoValue |-> TotalTaoValue]

GetStrategyTargets ==
  LET metagraph == World[world].metagraph
      hotkeys == [n \in DOMAIN metagraph |-> ResolveValidator(Stakes, n, metagraph[n], Fallback)]
  IN CASE strategy = "root-emission" -> RootEmissionTargets(World[world].subnets, Stakes, hotkeys)
       [] strategy = "sma-stoploss" ->
            SmaTargets(World[world].subnets, Stakes, World[world].samples, World[world].stoppedOut, hotkeys)
       [] strategy = "copy-trade" -> CopyTradeTargets(World[world].leader, TotalTaoValue, hotkeys)
       [] strategy = "coward" -> CowardTargets(Stakes, metagraph[0], Fallback)

\* executeRebalancePlan fills in the limits and submits; without operations the
\* cycle ends at once.
Submit(plan) ==
  /\ ops' = IF useLimits THEN Simulated(plan, Prices(world)) ELSE plan
  /\ planned' = world
  /\ phase' = IF plan = <<>> THEN "idle" ELSE "submitted"
  /\ churn' = IF plan = <<>> THEN churn ELSE Min({churn + 1, SettleCycles + 1})

RebalanceCycle ==
  /\ phase = "idle" /\ bunkers = 0
  /\ targets' = GetStrategyTargets
  /\ Submit(Plan(Balances, targets', useLimits))
  /\ UNCHANGED <<strategy, useLimits, world, balances, bounds>>

\* The script's operations for one position: other hotkeys of root are moved to its
\* hotkey, and alpha is swapped to it unless it is worth something below the minimum.
Consolidate(p, root) ==
  IF p.netuid = 0 /\ p.hotkey # root.hotkey
  THEN <<Head(SwapTo(p, root, p.stake, p.taoValue, Sweep, TRUE))>> ELSE <<>>

\* Mutant of Leave: a position without value is dust as well.
LeaveIfWorth(p, root) ==
  IF p.netuid # 0 /\ p.taoValue >= BunkerMin
  THEN SwapTo(p, root, p.stake, p.taoValue, Sweep, useLimits) ELSE <<>>

Leave(p, root) ==
  IF p.netuid # 0 /\ (p.taoValue = 0 \/ p.taoValue >= BunkerMin)
  THEN SwapTo(p, root, p.stake, p.taoValue, Sweep, useLimits) ELSE <<>>

\* buildOperations of bunker.ts.
BunkerOperations(stakes, hotkey) ==
  LET root == [netuid |-> 0, hotkey |-> hotkey]
  IN FlattenSeq([i \in DOMAIN stakes |-> Consolidate(stakes[i], root)])
     \o FlattenSeq([i \in DOMAIN stakes |-> Leave(stakes[i], root)])

\* The operator stops the bot and runs the script; it gives up without a validator.
Bunker ==
  /\ phase = "idle"
  /\ bunkers < MaxBunkers
  /\ LET hotkey == IF Candidates(World[world].metagraph[0]) # {}
                   THEN BestValidator(World[world].metagraph[0]).hotkey ELSE Fallback
     IN /\ hotkey # None
        /\ targets' = <<Target(0, hotkey, <<1, 1>>)>>
        /\ Submit(BunkerOperations(Stakes, hotkey))
  /\ bunkers' = bunkers + 1
  /\ UNCHANGED <<strategy, useLimits, world, balances, moves, refused>>

PortfolioNext ==
  \/ \E w \in DOMAIN World : WorldMoves(w)
  \/ \E lost \in SUBSET DOMAIN ops : ExecuteBatch(lost)
  \/ RebalanceCycle
  \/ Bunker

PortfolioSpec == PortfolioInit /\ [][PortfolioNext]_portfolioVars

-----------------------------------------------------------------------------

\* The last plan is about to be carried out in the world it was made for.
SubmittedNow == phase = "submitted" /\ planned = world

\* What the plan comes to at its own prices.
Planned == Batch(Ledger, ops, Prices(planned), useLimits, {})

ValueOn(ledger, netuid, price) ==
  SumFunction([h \in DOMAIN ledger.stake[netuid] |->
                 AlphaToTao(ledger.stake[netuid][h], price[netuid])])

\* A strategy distributes all of the portfolio, whichever validators cannot be
\* found; only sma-stoploss may keep some back, when it cannot stake on root, or
\* ask for nothing (getStrategyTargets of the strategies).
SharesComplete ==
  LET Parts(t) == (t.share[1] * ShareUnit) \div t.share[2]
      total == SumOf(Parts, targets)
  IN targets # <<>> =>
       /\ total <= ShareUnit
       /\ \/ total >= ShareUnit - Len(targets)
          \/ strategy = "sma-stoploss" /\ 0 \notin Netuids(targets)

\* At the prices it was made at, a plan can be carried out to its last operation
\* and within its own limits: none takes alpha that is not there or was taken by
\* one before it, none stakes tao that no operation before it has freed, and the
\* reserve is left (up to the rao that the conversion of each sale loses), or what
\* there was of it (computeRebalance, simulateAllOperations, and buildOperations
\* of the bunker script).
PlanWithinMeans ==
  /\ PortfolioTypeOK /\ SharesComplete
  /\ SubmittedNow =>
       /\ \A i \in DOMAIN ops : Planned.ok[i]
       /\ Planned.ledger.free >= Min({free, FreeReserve}) - Len(ops)

\* A plan never brings a target beyond twice its share, however many exits and
\* reductions it sends there, except by what was there before or by the dust of
\* splits (fulfilledValue and maxOverfillMultiplier of generateOperations).
NoOverfill ==
  (SubmittedNow /\ bunkers = 0) =>
    \A i \in DOMAIN targets :
      LET n == targets[i].netuid
          price == Prices(planned)
          share == (TotalTaoValue * targets[i].share[1]) \div targets[i].share[2]
      IN ValueOn(Planned.ledger, n, price)
           <= Max({ValueOn(Ledger, n, price), 2 * share}) + Len(targets) * MinOperation

\* An operation that the chain accepts within its limit, at whatever price the
\* pools have moved to since, gives what the simulation promised less the slippage
\* buffer (simulateSlippage.ts): a stake costs at most SlippagePercent more for the
\* alpha promised, any other operation brings at most SlippagePercent less than
\* promised, up to the rounding of the limit.
FillsNearPlan ==
  (phase = "submitted" /\ useLimits) =>
    LET now == Prices(world)
        then == Prices(planned)
    IN \A i \in DOMAIN ops :
         LET op == ops[i]
             Out(price) ==
               CASE op.kind = "stake" -> TaoToAlpha(op.tao, price[op.netuid])
                 [] op.kind = "swap" ->
                      TaoToAlpha(AlphaToTao(op.alpha, price[op.netuid]),
                                 price[op.destination])
                 [] OTHER -> AlphaToTao(op.alpha, price[op.netuid])
             unit ==
               CASE op.kind = "stake" -> 1
                 [] op.kind = "swap" ->
                      3 + op.alpha \div TAO + TAO \div now[op.destination]
                 [] OTHER -> 2 + op.alpha \div TAO
         IN (op.kind # "move" /\ WithinLimit(op, now, TRUE)) =>
              IF op.kind = "stake"
              THEN (Out(now) + unit) * (100 + SlippagePercent) >= Out(then) * 100
              ELSE (Out(now) + unit) * 100 >= Out(then) * (100 - SlippagePercent)

\* The bunker script's plan leaves nothing but dust outside one hotkey of root.
BunkerEmpties ==
  (SubmittedNow /\ bunkers > 0) =>
    \A n \in DOMAIN stake, h \in ToSet(Hotkeys) :
      LET left == Planned.ledger.stake[n][h]
      IN \/ n = 0 /\ h = targets[1].hotkey
         \/ left = 0
         \/ n # 0 /\ AlphaToTao(left, Prices(world)[n]) \in 1..BunkerMin - 1

\* Rebalancing does not trade for ever: in a world that stands still and refuses
\* nothing, a strategy soon comes to a portfolio from which it plans nothing more
\* (the drift thresholds and minima of computeRebalance, the incumbency bonus).
Settles == bunkers = 0 => churn <= SettleCycles

=============================================================================
