-------------------------- MODULE StrategyTargets --------------------------
(***************************************************************************)
(* What the strategies ask for: getStrategyTargets of root-emission,       *)
(* sma-stoploss, copy-trade and coward (src/src/strategies), with the      *)
(* validators of src/src/validators.                                       *)
(*                                                                         *)
(* A subnet is [netuid, taoIn, alphaIn, alphaOut, taoInEmission,           *)
(* networkRegisteredAt, blocksSinceLastStep, isPruneTarget].  A metagraph  *)
(* is a set of [uid, hotkey, permit, stake, dividends].  Shares and yields *)
(* are fractions <<n, d>>.                                                 *)
(***************************************************************************)
EXTENDS Integers, Sequences, SequencesExt, Selections

CONSTANTS
  None,              \* no hotkey
  Precision,         \* of yields and scores (10^18)
  BlocksPerYear,
  MinTaoIn,          \* minTaoIn, in rao
  MinAgeBlocks,      \* minSubnetAgeDays, in blocks
  ImmunityPeriod,    \* NetworkImmunityPeriod of the chain
  IncumbencyBonus,   \* percent
  RootSharePct,      \* rootSharePct of root-emission
  MaxSubnets, SmaFastPeriod, SmaSlowPeriod, MomentumWeight, EmissionWeight,
  CooldownBlocks,    \* config of sma-stoploss
  MinPosition        \* minPositionTao of copy-trade

ASSUME StrategyAssumption ==
  /\ {Precision, BlocksPerYear, MaxSubnets, SmaFastPeriod, SmaSlowPeriod} \subseteq Nat \ {0}
  /\ {MinTaoIn, MinAgeBlocks, ImmunityPeriod, IncumbencyBonus, MomentumWeight,
      EmissionWeight, CooldownBlocks, MinPosition} \subseteq Nat
  /\ RootSharePct \in 0..100

SubnetState == [netuid : Nat, taoIn : Nat, alphaIn : Nat, alphaOut : Nat, taoInEmission : Nat,
                networkRegisteredAt : Nat, blocksSinceLastStep : Nat, isPruneTarget : BOOLEAN]

ValidatorsOf(hotkeys) ==
  [uid : Nat, hotkey : hotkeys, permit : BOOLEAN, stake : Nat, dividends : Nat]

-----------------------------------------------------------------------------
(* Validators.                                                             *)

\* getValidatorCandidatesByYield
Candidates(metagraph) == {v \in metagraph : v.permit /\ v.stake > 0}

YieldPerAlpha(v) == <<v.dividends, v.stake>>

LessYield(a, b) == a[1] * b[2] < b[1] * a[2]

Outranks(v, w) ==
  \/ LessYield(YieldPerAlpha(w), YieldPerAlpha(v))
  \/ /\ ~LessYield(YieldPerAlpha(v), YieldPerAlpha(w))
     /\ v.stake > w.stake \/ (v.stake = w.stake /\ v.uid <= w.uid)

\* pickBestValidatorByYield, for a metagraph that has a candidate.
BestValidator(metagraph) ==
  CHOOSE v \in Candidates(metagraph) : \A w \in Candidates(metagraph) : Outranks(v, w)

\* The hotkey of the largest of some positions; the stakes break a tie of values,
\* and the order of the hotkeys one of stakes.
LargestPosition(positions) ==
  LET i == CHOOSE i \in DOMAIN positions : \A j \in DOMAIN positions :
             \/ positions[i].taoValue > positions[j].taoValue
             \/ /\ positions[i].taoValue = positions[j].taoValue
                /\ \/ positions[i].stake > positions[j].stake
                   \/ positions[i].stake = positions[j].stake /\ i <= j
  IN positions[i].hotkey

\* resolveValidators, for one subnet: the hotkey of the largest position there,
\* else the best by yield, else the fallback.
ResolveValidator(stakes, netuid, metagraph, fallback) ==
  LET existing == Where(stakes, {i \in DOMAIN stakes : stakes[i].netuid = netuid})
  IN IF existing # <<>> THEN LargestPosition(existing)
     ELSE IF Candidates(metagraph) # {} THEN BestValidator(metagraph).hotkey
     ELSE fallback

Target(netuid, hotkey, share) == [netuid |-> netuid, hotkey |-> hotkey, share |-> share]

HeldNetuids(stakes) == {stakes[i].netuid : i \in DOMAIN stakes}

-----------------------------------------------------------------------------
(* Scores of subnets, which root-emission and sma-stoploss compute alike.  *)

CurrentBlock(subnets) ==
  Max({0} \cup {s.networkRegisteredAt + s.blocksSinceLastStep : s \in subnets})

MarketCap(s) == IF s.alphaIn > 0 THEN (s.alphaOut * s.taoIn) \div s.alphaIn ELSE 0

EmissionYield(s) ==
  IF MarketCap(s) > 0
  THEN (s.taoInEmission * BlocksPerYear * Precision) \div MarketCap(s) ELSE 0

\* Mutant of Bonus: the challengers get it.
BonusOfOthers(s, held) == IF s.netuid \notin held THEN (IncumbencyBonus * Precision) \div 100 ELSE 0

Bonus(s, held) == IF s.netuid \in held THEN (IncumbencyBonus * Precision) \div 100 ELSE 0

\* fetchSubnetData's isImmune and isPruneTarget, and the gates.
PassesGates(s, subnets) ==
  LET age == CurrentBlock(subnets) - s.networkRegisteredAt
  IN /\ s.netuid # 0
     /\ s.taoIn > MinTaoIn
     /\ age >= ImmunityPeriod /\ ~s.isPruneTarget
     /\ age >= MinAgeBlocks

\* scoreSubnets of root-emission: the qualifying subnet of the highest biased
\* yield, as a set of at most one.
Winner(subnets, held) ==
  LET qualifying == {s \in subnets : PassesGates(s, subnets) /\ MarketCap(s) > 0}
      biased == [s \in qualifying |-> EmissionYield(s) + Bonus(s, held)]
      Beats(s, r) ==
        \/ biased[s] > biased[r]
        \/ /\ biased[s] = biased[r]
           /\ \/ EmissionYield(s) > EmissionYield(r)
              \/ EmissionYield(s) = EmissionYield(r) /\ s.netuid <= r.netuid
  IN {s \in qualifying : \A r \in qualifying : Beats(s, r)}

\* Of root and the winner, one whose validator is missing leaves it all to the other.
RootEmissionShare(n, chosen) ==
  IF chosen = {n} THEN <<1, 1>>
  ELSE IF n = 0 THEN <<RootSharePct, 100>> ELSE <<100 - RootSharePct, 100>>

RootEmissionTargets(subnets, stakes, hotkeys) ==
  LET winner == {s.netuid : s \in Winner(subnets, HeldNetuids(stakes))}
      chosen == {n \in {0} \cup winner : hotkeys[n] # None}
      order == Increasing(chosen)
  IN [i \in DOMAIN order |->
        Target(order[i], hotkeys[order[i]], RootEmissionShare(order[i], chosen))]

-----------------------------------------------------------------------------
(* sma-stoploss.  samples is a sequence of prices per netuid, stoppedOut   *)
(* the block of the stop-out per netuid.                                   *)

ComputeSMA(prices, period) ==
  IF Len(prices) < period THEN 0
  ELSE SumFunctionOnSet(prices, Len(prices) - period + 1 .. Len(prices)) \div period

IsCoolingDown(s, subnets, stoppedOut) ==
  /\ s.netuid \in DOMAIN stoppedOut
  /\ CurrentBlock(subnets) - stoppedOut[s.netuid] < CooldownBlocks

Gated(subnets, stoppedOut) ==
  {s \in subnets : PassesGates(s, subnets) /\ ~IsCoolingDown(s, subnets, stoppedOut)}

FastSma(s, samples) == ComputeSMA(samples[s.netuid], SmaFastPeriod)
SlowSma(s, samples) == ComputeSMA(samples[s.netuid], SmaSlowPeriod)

Passing(subnets, samples, stoppedOut) ==
  {s \in Gated(subnets, stoppedOut) :
     /\ s.alphaIn > 0
     /\ SlowSma(s, samples) > 0
     /\ FastSma(s, samples) > SlowSma(s, samples)}

Momentum(s, samples) ==
  ((FastSma(s, samples) - SlowSma(s, samples)) * Precision) \div SlowSma(s, samples)

\* No subnet passes, and of those that were not gated none has data; one without
\* alpha in its pool counts as having none.
ColdStart(subnets, samples, stoppedOut) ==
  LET gated == Gated(subnets, stoppedOut)
  IN /\ Passing(subnets, samples, stoppedOut) = {}
     /\ gated # {}
     /\ \A s \in gated : s.alphaIn > 0 => SlowSma(s, samples) = 0

\* The weighted scores of the passing subnets, relative to the best of each kind.
SmaScores(passing, held, samples) ==
  LET maxMomentum == Max({0} \cup {Momentum(s, samples) : s \in passing})
      maxEmission == Max({0} \cup {EmissionYield(s) : s \in passing})
      Normalized(value, max) == IF max > 0 THEN (value * Precision) \div max ELSE 0
  IN [s \in passing |->
        (Normalized(Momentum(s, samples), maxMomentum) * MomentumWeight) \div 100
        + (Normalized(EmissionYield(s), maxEmission) * EmissionWeight) \div 100
        + Bonus(s, held)]

\* The netuids of the winners, best first, ties in the order of the subnets.
SmaWinners(score) ==
  LET Before(s, r) == score[s] > score[r] \/ (score[s] = score[r] /\ s.netuid < r.netuid)
      order == InOrder(DOMAIN score, [r \in DOMAIN score |-> {s \in DOMAIN score : Before(s, r)}])
  IN [i \in 1..Min({Len(order), MaxSubnets}) |-> order[i].netuid]

\* A slot for each winner that has a validator, and what is left for root.
SmaSlots(winners, hotkeys) ==
  LET slots == [i \in DOMAIN winners |->
                  Target(winners[i], hotkeys[winners[i]], <<1, MaxSubnets>>)]
      left == MaxSubnets - Len(winners)
      root == IF left > 0 /\ hotkeys[0] # None
              THEN <<Target(0, hotkeys[0], <<left, MaxSubnets>>)>> ELSE <<>>
  IN slots \o root

\* scoreSubnets and getStrategyTargets; a cold start asks for nothing.
SmaTargets(subnets, stakes, samples, stoppedOut, hotkeys) ==
  LET winners == SmaWinners(SmaScores(Passing(subnets, samples, stoppedOut),
                                      HeldNetuids(stakes), samples))
  IN IF ColdStart(subnets, samples, stoppedOut) THEN <<>>
     ELSE SmaSlots(Where(winners, {i \in DOMAIN winners : hotkeys[winners[i]] # None}), hotkeys)

-----------------------------------------------------------------------------
(* copy-trade.  leader is the tao value of the leader's stakes per netuid. *)

\* getLeaderShares: the netuids that are no dust for the follower; root if the
\* leader has nothing or all of it is dust.
LeaderNetuids(leader, followerTotal) ==
  LET total == SumFunction(leader)
      kept == {n \in DOMAIN leader : leader[n] * followerTotal >= MinPosition * total}
  IN IF total = 0 \/ kept = {} THEN {0} ELSE kept

CopyTradeTargets(leader, followerTotal, hotkeys) ==
  LET chosen == {n \in LeaderNetuids(leader, followerTotal) : hotkeys[n] # None}
      order == Increasing(chosen)
      sum == SumFunctionOnSet(leader, chosen)
      Share(n) == IF sum = 0 THEN <<1, 1>> ELSE <<leader[n], sum>>
  IN [i \in DOMAIN order |-> Target(order[i], hotkeys[order[i]], Share(order[i]))]

-----------------------------------------------------------------------------
(* coward.                                                                 *)

\* At least one percent better.
WorthSwitching(old, new) ==
  IF old[1] = 0 THEN new[1] > 0
  ELSE 100 * (new[1] * old[2] - old[1] * new[2]) >= old[1] * new[2]

\* resolveSn0Validator: the hotkey of the largest root position unless another is
\* worth the switch.
Sn0Validator(stakes, metagraph, fallback) ==
  LET root == Where(stakes, {i \in DOMAIN stakes : stakes[i].netuid = 0})
      current == LargestPosition(root)
      best == BestValidator(metagraph)
      yields == {YieldPerAlpha(v) : v \in {v \in Candidates(metagraph) : v.hotkey = current}}
      currentYield == IF yields = {} THEN <<0, 1>> ELSE CHOOSE y \in yields : TRUE
  IN CASE Candidates(metagraph) = {} -> IF root = <<>> THEN fallback ELSE current
       [] Candidates(metagraph) # {} ->
            IF \/ root = <<>>
               \/ best.hotkey # current /\ WorthSwitching(currentYield, YieldPerAlpha(best))
            THEN best.hotkey ELSE current

CowardTargets(stakes, metagraph, fallback) ==
  LET hotkey == Sn0Validator(stakes, metagraph, fallback)
  IN IF hotkey = None THEN <<>> ELSE <<Target(0, hotkey, <<1, 1>>)>>

=============================================================================
