---------------------------- MODULE MCPortfolio ----------------------------
(***************************************************************************)
(* Portfolio over three alpha subnets and two validators.                  *)
(***************************************************************************)
EXTENDS Portfolio

CONSTANTS h1, h2

MCHotkeys == <<h1, h2>>

Subnet(netuid, taoIn, alphaIn, emission, registered, prune) ==
  [netuid |-> netuid, taoIn |-> taoIn, alphaIn |-> alphaIn, alphaOut |-> 20,
   taoInEmission |-> emission, networkRegisteredAt |-> registered,
   blocksSinceLastStep |-> 10, isPruneTarget |-> prune]

Validator(uid, hotkey, validatorStake, dividends) ==
  [uid |-> uid, hotkey |-> hotkey, permit |-> TRUE, stake |-> validatorStake,
   dividends |-> dividends]

Root == Subnet(0, 100, 100, 0, 0, FALSE)

BothValidators == {Validator(1, h1, 10, 3), Validator(2, h2, 10, 4)}
OneValidator == {Validator(1, h1, 10, 3), [Validator(2, h2, 10, 4) EXCEPT !.permit = FALSE]}

\* Subnet 1 yields most; subnet 2 is close behind.
Calm == [subnets |-> {Root, Subnet(1, 8, 8, 3, 0, FALSE), Subnet(2, 8, 8, 2, 0, FALSE),
                      Subnet(3, 6, 8, 1, 0, FALSE)},
         metagraph |-> [n \in 0..3 |-> BothValidators],
         leader |-> [n \in 0..3 |-> <<10, 20, 9, 1>>[n + 1]],
         samples |-> [n \in 0..3 |-> <<40, 40, 50 + 10 * n>>],
         stoppedOut |-> 3 :> 8]

\* Subnet 2 overtakes within the bonus, prices move.
Close == [subnets |-> {Root, Subnet(1, 6, 8, 2, 0, FALSE), Subnet(2, 12, 8, 5, 0, FALSE),
                       Subnet(3, 3, 8, 1, 0, FALSE)},
          metagraph |-> [n \in 0..3 |-> IF n = 0 THEN OneValidator ELSE BothValidators],
          leader |-> [n \in 0..3 |-> 8],
          samples |-> [n \in 0..3 |-> <<40, 40, 60 - 10 * n>>],
          stoppedOut |-> <<>>]

\* Subnet 3 takes all, subnet 1 is about to go; the validators of root are unknown.
Rush == [subnets |-> {Root, Subnet(1, 4, 8, 2, 5, TRUE), Subnet(2, 12, 8, 2, 9, FALSE),
                      Subnet(3, 9, 8, 9, 0, FALSE)},
         metagraph |-> [n \in 0..3 |-> IF n \in {0, 3} THEN {} ELSE OneValidator],
         leader |-> [n \in 0..3 |-> <<1, 1, 0, 30>>[n + 1]],
         samples |-> [n \in 0..3 |-> <<40>>],
         stoppedOut |-> <<>>]

\* No alpha subnet qualifies, the leader has nothing.
Empty == [subnets |-> {Root, Subnet(1, 4, 8, 0, 0, TRUE), Subnet(2, 2, 8, 0, 0, FALSE),
                       Subnet(3, 2, 0, 1, 0, FALSE)},
          metagraph |-> [n \in 0..3 |-> IF n = 0 THEN BothValidators ELSE {}],
          leader |-> [n \in 0..3 |-> 0],
          samples |-> [n \in 0..3 |-> <<>>],
          stoppedOut |-> <<>>]

\* Calm after prices have moved by more than the slippage buffer, up and down.
Slip == [Calm EXCEPT !.subnets = {Root, Subnet(1, 34, 40, 3, 0, FALSE),
                                  Subnet(2, 46, 40, 2, 0, FALSE), Subnet(3, 25, 40, 1, 0, FALSE)}]

MCWorld == [calm |-> Calm, close |-> Close, rush |-> Rush, empty |-> Empty,
            slip |-> Slip]

Wallet(f, r, s) == [free |-> f, reserved |-> r,
                    stake |-> [n \in 0..3 |-> h1 :> s[n + 1][1] @@ h2 :> s[n + 1][2]]]

\* Positions of no, some dust, or a lot of alpha in each place that differs.
MCPoor ==
  {<<<<17, 0>>, <<1, 6>>, <<0, 0>>, <<0, 0>>>>,  <<<<17, 0>>, <<0, 0>>, <<13, 0>>, <<0, 11>>>>,
   <<<<0, 9>>, <<9, 0>>, <<0, 7>>, <<5, 0>>>>,   <<<<5, 30>>, <<1, 1>>, <<1, 1>>, <<1, 1>>>>}

MCRich ==
  {<<<<0, 0>>, <<0, 0>>, <<0, 0>>, <<0, 0>>>>,   <<<<3, 0>>, <<0, 99>>, <<0, 2>>, <<8, 0>>>>,
   <<<<0, 0>>, <<30, 6>>, <<1, 0>>, <<0, 0>>>>,  <<<<0, 0>>, <<0, 0>>, <<13, 14>>, <<0, 23>>>>}

MCWallets == {Wallet(0, 0, s) : s \in MCPoor} \cup {Wallet(20, 0, s) : s \in MCRich}
               \cup {Wallet(5, 6, <<<<9, 9>>, <<0, 0>>, <<7, 7>>, <<0, 0>>>>),
                     Wallet(0, 0, <<<<3, 0>>, <<0, 99>>, <<0, 2>>, <<8, 0>>>>),
                     Wallet(200, 0, <<<<0, 0>>, <<0, 0>>, <<0, 0>>, <<150, 0>>>>)}

MCStrategies == {"root-emission", "sma-stoploss", "copy-trade", "coward"}
=============================================================================
