---------------------------- MODULE MCBacktest ----------------------------
(***************************************************************************)
(* Backtest over two alpha subnets whose prices rise, fall and vanish.     *)
(***************************************************************************)
EXTENDS Backtest

Subnet(taoIn, alphaIn, emission, merit) ==
  [taoIn |-> taoIn, alphaIn |-> alphaIn, alphaOut |-> 40, alphaOutEmission |-> emission,
   spotPrice |-> (taoIn * F32) \div alphaIn, movingPrice |-> (taoIn * F32) \div alphaIn,
   merit |-> merit]

Sn0 == Subnet(100, 100, 0, 0)

Rise == <<Subnet(60, 80, 0, 2), Subnet(40, 80, 0, 1)>>
Fall == <<Subnet(30, 80, 0, 2), Subnet(48, 80, 60, 1)>>
Gone == 2 :> Subnet(70, 80, 60, 0)
Slump == <<Subnet(48, 80, 0, 0), Subnet(20, 80, 0, 3)>>
Dear == <<Subnet(48, 6, 0, 3), Subnet(20, 80, 0, 0)>>

MCMarkets == {(0 :> Sn0) @@ alpha : alpha \in {Rise, Fall, Gone, Slump, Dear}}

=============================================================================
