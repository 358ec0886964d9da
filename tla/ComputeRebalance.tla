-------------------------- MODULE ComputeRebalance --------------------------
(***************************************************************************)
(* The planner, src/src/rebalance/computeRebalance.ts: from the balances   *)
(* and the targets of a strategy to a list of operations, with the limit   *)
(* prices of src/src/rebalance/simulateSlippage.ts.  Everything is integer *)
(* arithmetic, as in the code: amounts are rao, TAO of them make a tao,    *)
(* and a price is the rao of TAO alpha.                                    *)
(*                                                                         *)
(* A position is [netuid, hotkey, stake, alphaPrice, taoValue], a target   *)
(* [netuid, hotkey, share] with the share a fraction <<n, d>>.             *)
(***************************************************************************)
EXTENDS Integers, Sequences, SequencesExt, Selections

CONSTANTS
  TAO,                   \* rao in a tao (10^9)
  ShareUnit,             \* precision of a share (10^9)
  FreeReserve,           \* config.freeReserveTao
  ReserveDriftPercent,   \* config.freeReserveTaoDriftPercent
  MinOperation,          \* config.minOperationTao
  MinStake,              \* config.minStakeTao
  MinRebalance,          \* config.minRebalanceTao
  DriftPercent,          \* config.allocationDriftPercent
  SlippagePercent        \* config.slippageBuffer

ASSUME ConfigAssumption ==
  /\ {TAO, ShareUnit} \subseteq Nat \ {0}
  /\ {FreeReserve, ReserveDriftPercent, MinOperation, MinStake, MinRebalance,
      DriftPercent, SlippagePercent} \subseteq Nat

Sweep == -1   \* U64_MAX: all the alpha of a hotkey on a subnet

AlphaToTao(alpha, price) == (alpha * price) \div TAO
TaoToAlpha(tao, price) == IF price > 0 THEN (tao * TAO) \div price ELSE 0
Percent(amount, percent) == (amount * percent) \div 100

\* Math.round(share * 1e9)
RoundShare(share) == (2 * share[1] * ShareUnit + share[2]) \div (2 * share[2])

SumOf(Amount(_), s) == SumFunction([i \in DOMAIN s |-> Amount(s[i])])

Take(s, n) == SubSeq(s, 1, Min({n, Len(s)}))

-----------------------------------------------------------------------------
(* Operations.                                                             *)

Unstake(p) ==
  [kind |-> "unstake", netuid |-> p.netuid, hotkey |-> p.hotkey, alpha |-> p.stake,
   tao |-> p.taoValue, limit |-> 0]

UnstakePartial(p, alpha, tao) ==
  [kind |-> "unstake_partial", netuid |-> p.netuid, hotkey |-> p.hotkey,
   alpha |-> alpha, tao |-> tao, limit |-> 0]

Stake(t, tao) ==
  [kind |-> "stake", netuid |-> t.netuid, hotkey |-> t.hotkey, tao |-> tao, limit |-> 0]

\* A swap, which also brings the alpha to the target's hotkey; swap_stake_limit
\* cannot, and needs a move before it.
SwapTo(p, t, alpha, tao, moved, useLimits) ==
  LET move == [kind |-> "move", netuid |-> p.netuid, hotkey |-> p.hotkey,
               destination |-> t.hotkey, alpha |-> moved]
      swap == [kind |-> "swap", netuid |-> p.netuid, hotkey |-> t.hotkey,
               origin |-> IF useLimits THEN t.hotkey ELSE p.hotkey,
               destination |-> t.netuid, alpha |-> alpha, tao |-> tao, limit |-> 0]
  IN IF useLimits /\ t.hotkey # p.hotkey THEN <<move, swap>> ELSE <<swap>>

-----------------------------------------------------------------------------
(* A plan in the making is [ops, fulfilled], fulfilled being the value each *)
(* target subnet has or is going to have.                                  *)

Netuids(targets) == {targets[i].netuid : i \in DOMAIN targets}

IsExit(p, targets) == p.netuid \notin Netuids(targets)

PositionsOn(positions, netuid) ==
  Where(positions, {i \in DOMAIN positions : positions[i].netuid = netuid})

ExitsOf(positions, targets) ==
  Where(positions, {i \in DOMAIN positions : IsExit(positions[i], targets)})

Deficit(plan, t) == t.value - plan.fulfilled[t.netuid]

DriftThreshold(value) == Percent(value, DriftPercent)

AddOps(plan, ops) == [plan EXCEPT !.ops = @ \o ops]

Fulfil(plan, t, tao) == [plan EXCEPT !.fulfilled[t.netuid] = @ + tao]

\* Mutant of WithinOverfill: the guard is dropped.
WithinAnyOverfill(plan, t, tao) == TRUE

WithinOverfill(plan, t, tao) == plan.fulfilled[t.netuid] + tao <= 2 * t.value

\* The target that takes a whole position, as a sequence of at most one:
\* the only one, the neediest if it has room, else the one that the position
\* overshoots least within the drift.
SingleTarget(plan, p, eligible) ==
  LET Overshoot(t) == plan.fulfilled[t.netuid] + p.taoValue - t.value
      near == Where(eligible, {i \in DOMAIN eligible :
                                 Overshoot(eligible[i]) <= DriftThreshold(eligible[i].value)})
  IN IF Len(eligible) = 1 \/ p.taoValue <= Deficit(plan, Head(eligible))
     THEN <<Head(eligible)>>
     ELSE Take(SortByDesc(near, [i \in DOMAIN near |-> -Overshoot(near[i])]), 1)

\* A position larger than any deficit is split by deficit; shares under the
\* minimum are dropped, and the last that is left gets what they leave, and the
\* last alpha unless some is to be unstaked.
SplitTao(portions, distributable) ==
  [i \in DOMAIN portions |->
     portions[i] + IF i = Len(portions) THEN distributable - SumFunction(portions) ELSE 0]

SplitAlpha(p, converted, rest) ==
  [i \in DOMAIN converted |->
     IF i = Len(converted) /\ rest = 0
     THEN p.stake - SumFunctionOnSet(converted, 1..Len(converted) - 1) ELSE converted[i]]

SplitSwaps(plan, p, allocations, tao, alpha, rest, useLimits) ==
  LET restAlpha == p.stake - SumFunction(alpha)
      swaps == FlattenSeq([i \in DOMAIN tao |->
                 SwapTo(p, allocations[i], alpha[i], tao[i], alpha[i], useLimits)])
      remainder == IF rest > 0 /\ rest >= MinOperation /\ restAlpha > 0
                   THEN <<UnstakePartial(p, restAlpha, rest)>> ELSE <<>>
      filled == FoldLeft(LAMBDA q, i : Fulfil(q, allocations[i], tao[i]), plan,
                         [i \in DOMAIN tao |-> i])
  IN AddOps(filled, swaps \o remainder)

SplitAmong(plan, p, allocations, tao, rest, useLimits) ==
  SplitSwaps(plan, p, allocations, tao,
             SplitAlpha(p, [i \in DOMAIN tao |-> TaoToAlpha(tao[i], p.alphaPrice)], rest),
             rest, useLimits)

Split(plan, p, eligible, total, useLimits) ==
  LET distributable == Min({p.taoValue, total})
      Portion(t) == (distributable * Deficit(plan, t)) \div total
      allocations == Where(eligible, {i \in DOMAIN eligible : Portion(eligible[i]) >= MinOperation})
      portions == [i \in DOMAIN allocations |-> Portion(allocations[i])]
  IN IF allocations = <<>> THEN AddOps(plan, <<Unstake(p)>>)
     ELSE SplitAmong(plan, p, allocations, SplitTao(portions, distributable),
                     p.taoValue - distributable, useLimits)

\* One full exit, to a single target or split.
ExitTo(plan, p, single, eligible, useLimits) ==
  IF single = <<>>
  THEN Split(plan, p, eligible, SumOf(LAMBDA t : Deficit(plan, t), eligible), useLimits)
  ELSE IF ~WithinOverfill(plan, single[1], p.taoValue) THEN AddOps(plan, <<Unstake(p)>>)
  ELSE AddOps(Fulfil(plan, single[1], p.taoValue),
              SwapTo(p, single[1], p.stake, p.taoValue, Sweep, useLimits))

Exit(plan, p, targets, useLimits) ==
  LET short == Where(targets, {i \in DOMAIN targets : Deficit(plan, targets[i]) > 0})
      eligible == SortByDesc(short, [i \in DOMAIN short |-> Deficit(plan, short[i])])
  IN CASE p.taoValue < MinOperation -> plan
       [] p.taoValue >= MinOperation /\ eligible = <<>> -> AddOps(plan, <<Unstake(p)>>)
       [] OTHER -> ExitTo(plan, p, SingleTarget(plan, p, eligible), eligible, useLimits)

Exits(positions, targets, useLimits) ==
  LET Existing(n) == SumOf(LAMBDA p : p.taoValue, PositionsOn(positions, n))
      start == [ops |-> <<>>, fulfilled |-> [n \in Netuids(targets) |-> Existing(n)]]
  IN FoldLeft(LAMBDA q, p : Exit(q, p, targets, useLimits), start,
              ExitsOf(positions, targets))

-----------------------------------------------------------------------------

\* The excess of a position that stays goes to the neediest target it fits.
\* The position's own subnet is never debited.
Reduce(plan, p, target, targets, useLimits) ==
  LET excess == p.taoValue - target.value
      anyTargetBeyondDrift ==
        \E i \in DOMAIN targets : Deficit(plan, targets[i]) > DriftThreshold(targets[i].value)
      amount == Min({excess, p.taoValue - MinStake})
      alpha == TaoToAlpha(amount, p.alphaPrice)
      open == Where(targets, {i \in DOMAIN targets : /\ Deficit(plan, targets[i]) > 0
                                                     /\ WithinOverfill(plan, targets[i], amount)})
      fitting == SortByDesc(open, [i \in DOMAIN open |-> Deficit(plan, open[i])])
  IN CASE \/ excess < MinRebalance
          \/ excess <= DriftThreshold(target.value) /\ ~anyTargetBeyondDrift
          \/ amount < MinRebalance
          \/ alpha <= 0 -> plan
       [] OTHER ->
            IF fitting = <<>> THEN AddOps(plan, <<UnstakePartial(p, alpha, amount)>>)
            ELSE AddOps(Fulfil(plan, fitting[1], amount),
                        SwapTo(p, fitting[1], alpha, amount, alpha, useLimits))

ReduceTarget(plan, target, positions, targets, useLimits) ==
  FoldLeft(LAMBDA q, p : Reduce(q, p, target, targets, useLimits), plan,
           PositionsOn(positions, target.netuid))

\* Staking from the free balance; here the plan also carries what is left of it.
StakeTarget(plan, t) ==
  LET deficit == Deficit(plan, t)
      amount == Min({deficit, plan.free})
  IN IF deficit < MinRebalance \/ deficit <= DriftThreshold(t.value)
        \/ amount < MinRebalance
     THEN plan
     ELSE [AddOps(Fulfil(plan, t, amount), <<Stake(t, amount)>>) EXCEPT !.free = @ - amount]

Proceeds(ops) ==
  SumOf(LAMBDA op : op.tao,
        Where(ops, {i \in DOMAIN ops : ops[i].kind \in {"unstake", "unstake_partial"}}))

Reductions(plan, positions, targets, useLimits) ==
  FoldLeft(LAMBDA q, t : ReduceTarget(q, t, positions, targets, useLimits), plan, targets)

Stakings(plan, targets, freeBalance) ==
  LET availableFree == Max({0, freeBalance - FreeReserve + Proceeds(plan.ops)})
  IN FoldLeft(StakeTarget,
              [ops |-> plan.ops, fulfilled |-> plan.fulfilled, free |-> availableFree], targets)

GenerateOperations(positions, targets, freeBalance, useLimits) ==
  Stakings(Reductions(Exits(positions, targets, useLimits), positions, targets, useLimits),
           targets, freeBalance).ops

-----------------------------------------------------------------------------

\* What replenishReserve unstakes, as a sequence of at most one operation: the
\* deficit, from the largest exit or else the largest position, if that leaves
\* the position at its minimum.
ReplenishOps(freeBalance, positions, targets) ==
  LET deficit == FreeReserve - freeBalance
      exits == ExitsOf(positions, targets)
      sources == IF exits = <<>> THEN positions ELSE exits
      source == SortByDesc(sources, [i \in DOMAIN sources |-> sources[i].taoValue])[1]
      alpha == TaoToAlpha(deficit, source.alphaPrice)
  IN IF \/ deficit <= 0
        \/ deficit < MinOperation
        \/ deficit <= Percent(FreeReserve, ReserveDriftPercent)
        \/ positions = <<>>
     THEN <<>>
     ELSE IF source.taoValue - deficit < MinStake \/ alpha <= 0 THEN <<>>
     ELSE <<UnstakePartial(source, alpha, deficit)>>

\* Mutant of AdjustedPositions: the operation is forgotten.
UnadjustedPositions(positions, replenish) == positions

\* The positions as if the replenishing operation had been carried out.
AdjustedPositions(positions, replenish) ==
  [i \in DOMAIN positions |->
    IF /\ replenish # <<>>
       /\ positions[i].netuid = replenish[1].netuid /\ positions[i].hotkey = replenish[1].hotkey
    THEN [positions[i] EXCEPT !.stake = @ - replenish[1].alpha, !.taoValue = @ - replenish[1].tao]
    ELSE positions[i]]

\* computeRebalance, with balances [free, stakes, totalTaoValue]; what the
\* replenishing operation brings counts as free.
PlanAfter(replenish, balances, targets, useLimits) ==
  LET available == balances.totalTaoValue - FreeReserve
      resolved == [i \in DOMAIN targets |->
        [netuid |-> targets[i].netuid, hotkey |-> targets[i].hotkey,
         value |-> (available * RoundShare(targets[i].share)) \div ShareUnit]]
      sorted == SortByDesc(resolved, [i \in DOMAIN resolved |-> -resolved[i].netuid])
  IN IF available <= 0 THEN replenish
     ELSE replenish \o
          GenerateOperations(AdjustedPositions(balances.stakes, replenish), sorted,
                             balances.free + Proceeds(replenish), useLimits)

Plan(balances, targets, useLimits) ==
  IF targets = <<>> THEN <<>>
  ELSE PlanAfter(ReplenishOps(balances.free, balances.stakes, targets),
                 balances, targets, useLimits)

-----------------------------------------------------------------------------
(* simulateAllOperations.  The simulation of a trade is that of the chain, *)
(* here at a given price for each subnet.                                  *)

BufferUp(price) == price + Percent(price, SlippagePercent)
BufferDown(price) == price - Percent(price, SlippagePercent)

\* Mutant of LimitPrice: a swap is given the buffer once for each of its pools.
LimitPriceOfBothPools(op, price) ==
  LET alphaForTao == TaoToAlpha(op.tao, price[op.netuid])
      taoForAlpha == AlphaToTao(op.alpha, price[op.netuid])
      alphaAtDestination == TaoToAlpha(taoForAlpha, price[op.destination])
  IN CASE op.kind = "stake" ->
            IF alphaForTao = 0 THEN 0 ELSE BufferUp((op.tao * TAO) \div alphaForTao)
       [] op.kind \in {"unstake", "unstake_partial"} ->
            IF taoForAlpha = 0 THEN 0 ELSE BufferDown((taoForAlpha * TAO) \div op.alpha)
       [] op.kind = "swap" ->
            IF taoForAlpha = 0 \/ alphaAtDestination = 0 THEN 0
            ELSE BufferDown(BufferDown((alphaAtDestination * TAO) \div op.alpha))

\* Without alpha or tao from the simulation the limit stays 0.
LimitPrice(op, price) ==
  LET alphaForTao == TaoToAlpha(op.tao, price[op.netuid])
      taoForAlpha == AlphaToTao(op.alpha, price[op.netuid])
      alphaAtDestination == TaoToAlpha(taoForAlpha, price[op.destination])
  IN CASE op.kind = "stake" ->
            IF alphaForTao = 0 THEN 0 ELSE BufferUp((op.tao * TAO) \div alphaForTao)
       [] op.kind \in {"unstake", "unstake_partial"} ->
            IF taoForAlpha = 0 THEN 0 ELSE BufferDown((taoForAlpha * TAO) \div op.alpha)
       [] op.kind = "swap" ->
            IF taoForAlpha = 0 \/ alphaAtDestination = 0 THEN 0
            ELSE BufferDown((alphaAtDestination * TAO) \div op.alpha)

Simulated(ops, price) ==
  [i \in DOMAIN ops |-> IF ops[i].kind = "move" THEN ops[i]
                        ELSE [ops[i] EXCEPT !.limit = LimitPrice(ops[i], price)]]

=============================================================================
