---------------------------- MODULE SmaStoploss ----------------------------
(***************************************************************************)
(* The state of the sma-stoploss strategy                                  *)
(* (src/src/strategies/sma-stoploss/runner.ts): trailing stops and         *)
(* stop-out records in memory, persisted in SQLite, and the snapshot the   *)
(* strategy reads (index.ts).  A tick awaits the chain several times and   *)
(* may fail at each await; the process may crash between any two database  *)
(* writes and restart from the database, beginning with the scheduler's    *)
(* initial cycle.                                                          *)
(*                                                                         *)
(* The scores behind the choice of winners are abstracted: any subnets     *)
(* that are not cooling down may win.                                      *)
(***************************************************************************)
EXTENDS Integers, Sequences, FiniteSets, Functions

CONSTANTS Netuid,          \* the subnets other than the root
          Price,           \* spot prices; 0 when a subnet has none
          StopBps,         \* stopLossPercent, in hundredths of a percent
          CooldownBlocks,
          MaxHeight,       \* bound on the chain's length
          MaxCrashes       \* bound on the crashes

ASSUME StopLossAssumption ==
  /\ Netuid \subseteq Nat \ {0} /\ IsFiniteSet(Netuid) /\ Price \subseteq Nat
  /\ StopBps \in 0..10000 /\ CooldownBlocks \in Nat
  /\ MaxHeight \in Nat /\ MaxCrashes \in Nat

None == -1           \* no stop-out record
NoStop == 0          \* no trailing stop: marks are positive

VARIABLES
  height,          \* the last finalized block
  newestSubnet,    \* the block of the last registration of a subnet
  price,           \* spot prices on chain
  held,            \* subnets the coldkey has stake in
  step,            \* what the process awaits
  writes,          \* database calls the running turn still has to make
  seenPrice,       \* prices fetched by the tick
  currentBlock,    \* the tick's estimate of the block number
  stopLosses,      \* high-water mark of each trailing stop, in memory
  stoppedOut,      \* triggeredAtBlock of each record, in memory
  dbStopLosses,    \* the same in the database
  dbStoppedOut,
  shared,          \* sharedState.stoppedOut
  targets,         \* history: what the cycle of this tick allocated to
  targetsBlock,    \* history: its estimate of the block number
  crashes

chainVars == <<height, newestSubnet, price, held>>
memVars == <<stopLosses, stoppedOut>>
dbVars == <<dbStopLosses, dbStoppedOut>>
tickVars == <<seenPrice, currentBlock>>
cycleVars == <<targets, targetsBlock>>
vars == <<height, newestSubnet, price, held, step, writes, seenPrice, currentBlock,
          stopLosses, stoppedOut, dbStopLosses, dbStoppedOut, shared, targets,
          targetsBlock, crashes>>

Marks == [Netuid -> Price \cup {NoStop}]
Records == [Netuid -> 0..MaxHeight \cup {None}]
Steps == {"down", "starting", "initial", "idle", "fetch", "stakes", "cycle",
          "postStakes", "postSubnets"}
Write == [table : {"stop_losses", "stopped_out"}, netuid : Netuid, value : Int]

TypeOK ==
  /\ height \in 0..MaxHeight /\ newestSubnet \in 0..height
  /\ price \in [Netuid -> Price] /\ held \subseteq Netuid
  /\ step \in Steps
  /\ writes \in Seq(Write)
  /\ seenPrice \in [Netuid -> Price] /\ currentBlock \in 0..height
  /\ stopLosses \in Marks /\ dbStopLosses \in Marks
  /\ stoppedOut \in Records /\ dbStoppedOut \in Records /\ shared \in Records
  /\ targets \subseteq Netuid /\ targetsBlock \in 0..height
  /\ crashes \in 0..MaxCrashes

NoMarks == [n \in Netuid |-> NoStop]
NoRecords == [n \in Netuid |-> None]

Init ==
  /\ height = 0 /\ newestSubnet = 0
  /\ price \in [Netuid -> Price] /\ held = {}
  /\ step = "down" /\ writes = <<>>
  /\ seenPrice = price /\ currentBlock = 0
  /\ stopLosses = NoMarks /\ dbStopLosses = NoMarks
  /\ stoppedOut = NoRecords /\ dbStoppedOut = NoRecords /\ shared = NoRecords
  /\ targets = {} /\ targetsBlock = 0
  /\ crashes = 0

-----------------------------------------------------------------------------
(* The chain.                                                              *)

\* Time is counted in ticks, each longer than a tempo.  Prices move; a subnet
\* may be registered.
FinalizeBlock ==
  /\ height < MaxHeight
  /\ height' = height + 1
  /\ newestSubnet' \in {newestSubnet, height + 1}
  /\ price' \in [Netuid -> Price]
  /\ UNCHANGED <<held, step, writes, tickVars, memVars, dbVars, shared, cycleVars,
                 crashes>>

\* max(networkRegisteredAt + blocksSinceLastStep): the second term restarts
\* at every epoch of the subnet, less than a tick apart.
BlockEstimate == newestSubnet

-----------------------------------------------------------------------------
(* The database: one statement at a time, in the order of the code.        *)

SaveStopLoss(n, mark) == [table |-> "stop_losses", netuid |-> n, value |-> mark]
DeleteStopLoss(n) == SaveStopLoss(n, NoStop)
SaveStoppedOut(n, block) == [table |-> "stopped_out", netuid |-> n, value |-> block]
DeleteStoppedOut(n) == SaveStoppedOut(n, None)

\* The ways a loop over S may go: maps and sets are walked in the order of insertion.
Orders(S) == {order \in [1..Cardinality(S) -> S] : Range(order) = S}

\* The calls of `for (n of S) database.call(n)', where call is a function on S.
ForEach(call) ==
  {[i \in DOMAIN order |-> call[order[i]]] : order \in Orders(DOMAIN call)}

WriteNext ==
  /\ writes # <<>>
  /\ writes' = Tail(writes)
  /\ LET w == Head(writes) IN
       \/ /\ w.table = "stop_losses"
          /\ dbStopLosses' = [dbStopLosses EXCEPT ![w.netuid] = w.value]
          /\ UNCHANGED dbStoppedOut
       \/ /\ w.table = "stopped_out"
          /\ dbStoppedOut' = [dbStoppedOut EXCEPT ![w.netuid] = w.value]
          /\ UNCHANGED dbStopLosses
  /\ UNCHANGED <<chainVars, step, tickVars, memVars, shared, cycleVars, crashes>>

-----------------------------------------------------------------------------
(* The rebalance cycle, as the strategy sees it.                           *)

\* scoreSubnets' isCoolingDown
CoolingDown(n) ==
  shared[n] # None /\ BlockEstimate - shared[n] < CooldownBlocks

\* Any set of subnets that are not cooling down may win.  The cycle sells
\* what is no target and buys what is, as far as its operations succeed; one
\* that is skipped for lack of price history has no targets and sells nothing.
Cycle ==
  /\ targets' \in SUBSET {n \in Netuid : ~CoolingDown(n)}
  /\ targetsBlock' = BlockEstimate
  /\ \E after \in SUBSET (held \cup targets') :
       /\ held \cap targets' \subseteq after
       /\ held' = after
  /\ UNCHANGED <<height, newestSubnet, price, writes, tickVars, memVars, dbVars,
                 shared, crashes>>

-----------------------------------------------------------------------------
(* Boot.                                                                   *)

\* Mutant of Boot: the records are not loaded before the initial cycle.
BootWithoutRecords ==
  /\ step = "down"
  /\ step' = "initial"
  /\ UNCHANGED <<chainVars, writes, tickVars, memVars, dbVars, shared, cycleVars,
                 crashes>>

\* The scheduler's preparePreview, and its initial cycle.
Boot ==
  /\ step = "down"
  /\ step' = "initial"
  /\ shared' = dbStoppedOut
  /\ UNCHANGED <<chainVars, writes, tickVars, memVars, dbVars, cycleVars, crashes>>

InitialCycle ==
  /\ step = "initial"
  /\ step' = "starting"
  /\ Cycle

\* Mutant of StartRunner: the trailing stops are not restored.
StartWithoutStops ==
  /\ step = "starting"
  /\ step' = "idle"
  /\ stoppedOut' = dbStoppedOut
  /\ shared' = dbStoppedOut
  /\ UNCHANGED <<chainVars, writes, tickVars, stopLosses, dbVars, cycleVars, crashes>>

\* The runner's start(): restore the persisted state.
StartRunner ==
  /\ step = "starting"
  /\ step' = "idle"
  /\ stopLosses' = dbStopLosses
  /\ stoppedOut' = dbStoppedOut
  /\ shared' = dbStoppedOut
  /\ UNCHANGED <<chainVars, writes, tickVars, dbVars, cycleVars, crashes>>

\* The process dies, between two writes or at an await, and loses its memory.
Crash ==
  /\ step # "down"
  /\ crashes < MaxCrashes
  /\ crashes' = crashes + 1
  /\ step' = "down"
  /\ writes' = <<>>
  /\ stopLosses' = NoMarks /\ stoppedOut' = NoRecords /\ shared' = NoRecords
  /\ targets' = {}
  /\ UNCHANGED <<chainVars, tickVars, dbVars, targetsBlock>>

-----------------------------------------------------------------------------
(* A tick.  Its continuations begin when the turn before them is over.     *)

Await(at) == step = at /\ writes = <<>>

Tick ==
  /\ Await("idle")
  /\ step' = "fetch"
  /\ targets' = {}
  /\ UNCHANGED <<chainVars, writes, tickVars, memVars, dbVars, shared, targetsBlock,
                 crashes>>

\* Subnet data arrived: expire cooldowns.
SubnetsFetched ==
  /\ Await("fetch")
  /\ step' = "stakes"
  /\ seenPrice' = price
  /\ currentBlock' = BlockEstimate
  /\ LET expired == {n \in Netuid : stoppedOut[n] # None /\
                        BlockEstimate - stoppedOut[n] >= CooldownBlocks}
     IN /\ stoppedOut' = [n \in Netuid |-> IF n \in expired THEN None ELSE stoppedOut[n]]
        /\ writes' \in ForEach([n \in expired |-> DeleteStoppedOut(n)])
  /\ UNCHANGED <<chainVars, stopLosses, dbVars, shared, cycleVars, crashes>>

StopPrice(mark) == mark - (mark * StopBps) \div 10000

\* Mutant of TriggerWrites: the stop is deleted before the stop-out is saved.
TriggerWritesSwapped(order) ==
  [i \in 1 .. 2 * Len(order) |->
     IF i % 2 = 0 THEN SaveStoppedOut(order[i \div 2], currentBlock)
     ELSE DeleteStopLoss(order[(i + 1) \div 2])]

\* The stops of order trigger, one after the other: each with two calls.
TriggerWrites(order) ==
  [i \in 1 .. 2 * Len(order) |->
     IF i % 2 = 1 THEN SaveStoppedOut(order[(i + 1) \div 2], currentBlock)
     ELSE DeleteStopLoss(order[i \div 2])]

\* Stake infos arrived: drop the stops of positions that are gone, ratchet
\* or trigger the others, record the triggered, and share the result.
UpdateStopLosses ==
  /\ Await("stakes")
  /\ step' = "cycle"
  /\ LET gone     == {n \in Netuid : stopLosses[n] # NoStop /\ n \notin held}
         priced   == {n \in held : seenPrice[n] > 0}
         ratchets == {n \in priced : seenPrice[n] > stopLosses[n]}
         triggers == {n \in priced : seenPrice[n] <= stopLosses[n] /\
                                     seenPrice[n] < StopPrice(stopLosses[n])}
     IN /\ stopLosses' = [n \in Netuid |->
             IF n \in gone \cup triggers THEN NoStop
             ELSE IF n \in ratchets THEN seenPrice[n] ELSE stopLosses[n]]
        /\ stoppedOut' = [n \in Netuid |->
             IF n \in triggers THEN currentBlock ELSE stoppedOut[n]]
        /\ \E drops \in ForEach([n \in gone |-> DeleteStopLoss(n)]),
              saves \in ForEach([n \in ratchets |-> SaveStopLoss(n, seenPrice[n])]),
              order \in Orders(triggers) :
             writes' = drops \o saves \o TriggerWrites(order)
  /\ shared' = stoppedOut'
  /\ UNCHANGED <<chainVars, tickVars, dbVars, cycleVars, crashes>>

TickCycle ==
  /\ Await("cycle")
  /\ step' = "postStakes"
  /\ Cycle

\* The stops of positions the cycle closed go.
PostStakesFetched ==
  /\ Await("postStakes")
  /\ step' = "postSubnets"
  /\ LET gone == {n \in Netuid : stopLosses[n] # NoStop /\ n \notin held}
     IN /\ stopLosses' = [n \in Netuid |-> IF n \in gone THEN NoStop ELSE stopLosses[n]]
        /\ writes' \in ForEach([n \in gone |-> DeleteStopLoss(n)])
  /\ UNCHANGED <<chainVars, tickVars, stoppedOut, dbVars, shared, cycleVars, crashes>>

\* Positions without a stop get one at the price they have now: those the
\* cycle opened, and those it should have closed.
PostSubnetsFetched ==
  /\ Await("postSubnets")
  /\ step' = "idle"
  /\ LET new == {n \in held : stopLosses[n] = NoStop /\ price[n] > 0}
     IN /\ stopLosses' = [n \in Netuid |-> IF n \in new THEN price[n] ELSE stopLosses[n]]
        /\ writes' \in ForEach([n \in new |-> SaveStopLoss(n, price[n])])
  /\ shared' = stoppedOut
  /\ UNCHANGED <<chainVars, tickVars, stoppedOut, dbVars, cycleVars, crashes>>

\* A request of the tick fails; the tick reports an error.
TickFails ==
  /\ \E at \in {"fetch", "stakes", "postStakes", "postSubnets"} : Await(at)
  /\ step' = "idle"
  /\ UNCHANGED <<chainVars, writes, tickVars, memVars, dbVars, shared, cycleVars,
                 crashes>>

Next ==
  \/ FinalizeBlock
  \/ WriteNext
  \/ Boot
  \/ InitialCycle
  \/ StartRunner
  \/ Crash
  \/ Tick
  \/ SubnetsFetched
  \/ UpdateStopLosses
  \/ TickCycle
  \/ PostStakesFetched
  \/ PostSubnetsFetched
  \/ TickFails

Spec == Init /\ [][Next]_vars

-----------------------------------------------------------------------------
(* Properties.                                                             *)

\* Between turns the database holds exactly the runner's memory, whichever
\* request of a tick failed, and a restart finds it there.
MemoryPersisted ==
  /\ TypeOK
  /\ step \notin {"down", "initial", "starting"} /\ writes = <<>> =>
       dbStopLosses = stopLosses /\ dbStoppedOut = stoppedOut

\* The database forgets the stop of a position that is still held only when
\* its stop-out is on record: a crash between the two writes of a trigger
\* loses neither the stop nor the cooldown.
StopForgottenSafely ==
  [][\A n \in Netuid :
       dbStopLosses[n] # NoStop /\ dbStopLosses'[n] = NoStop =>
         n \notin held \/ dbStoppedOut[n] # None]_vars

\* A trailing stop only ratchets up, over failed ticks, crashes and restarts.
StopsRatchet ==
  [][\A n \in Netuid :
       dbStopLosses[n] # NoStop /\ dbStopLosses'[n] # NoStop =>
         dbStopLosses'[n] >= dbStopLosses[n]]_vars

\* No cycle, not even the one a restart begins with, allocates to a subnet
\* whose stop-out record has not run out.
NoReentryOnRecord ==
  [][\A n \in targets' \ targets :
       dbStoppedOut[n] # None => targetsBlock' - dbStoppedOut[n] >= CooldownBlocks]_vars
=============================================================================
