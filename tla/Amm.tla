-------------------------------- MODULE Amm --------------------------------
(***************************************************************************)
(* The constant-product pool of the backtest (src/src/rebalance/amm.ts).   *)
(* A pool is [taoIn, alphaIn].  Root, netuid 0, swaps one to one without a *)
(* fee.  The fee is taken from what is put in and stays out of the pool.   *)
(***************************************************************************)
EXTENDS Integers

CONSTANTS FeeNumerator, FeeDenominator

ASSUME FeeAssumption ==
  /\ FeeNumerator \in Nat /\ FeeDenominator \in Nat \ {0}
  /\ FeeNumerator < FeeDenominator

Root == 0

CeilDiv(a, b) == (a + b - 1) \div b

PoolFee(amount) == (amount * FeeNumerator) \div FeeDenominator

\* What a pool with x of one token and y of the other gives for net of the first.
Out(net, x, y) == (y * net) \div (x + net)

Swap(amount, fee, x, y, netuid) ==
  IF amount <= 0 \/ x <= 0 \/ y <= 0 THEN [amountOut |-> 0, poolFee |-> 0]
  ELSE IF netuid = Root THEN [amountOut |-> amount, poolFee |-> 0]
  ELSE [amountOut |-> IF amount - fee <= 0 THEN 0 ELSE Out(amount - fee, x, y),
        poolFee |-> fee]

SwapTaoForAlpha(tao, pool, netuid, skipFee) ==
  Swap(tao, IF skipFee THEN 0 ELSE PoolFee(tao), pool.taoIn, pool.alphaIn, netuid)

SwapAlphaForTao(alpha, pool, netuid) ==
  Swap(alpha, PoolFee(alpha), pool.alphaIn, pool.taoIn, netuid)

\* A pool that cannot pay the target has no answer: the empty set.
AlphaNeededForTao(target, pool, netuid) ==
  IF target <= 0 THEN {0}
  ELSE IF pool.taoIn <= 0 \/ pool.alphaIn <= 0 THEN {}
  ELSE IF netuid = Root THEN {target}
  ELSE IF target >= pool.taoIn THEN {}
  ELSE LET net == CeilDiv(target * pool.alphaIn, pool.taoIn - target)
       IN {CeilDiv(net * FeeDenominator, FeeDenominator - FeeNumerator)}

\* The pool fee of a sale in tao: what the sale would have brought without it,
\* less what it brings.
AlphaFeeInTao(alpha, pool, netuid) ==
  IF netuid = Root \/ alpha <= 0 THEN 0
  ELSE Swap(alpha, 0, pool.alphaIn, pool.taoIn, netuid).amountOut
       - SwapAlphaForTao(alpha, pool, netuid).amountOut

\* The pool after a trade of alpha for tao, and of tao for alpha.
AfterSale(pool, alpha, swap) ==
  [taoIn |-> pool.taoIn - swap.amountOut, alphaIn |-> pool.alphaIn + alpha - swap.poolFee]

AfterPurchase(pool, tao, swap) ==
  [taoIn |-> pool.taoIn + tao - swap.poolFee, alphaIn |-> pool.alphaIn - swap.amountOut]

=============================================================================
