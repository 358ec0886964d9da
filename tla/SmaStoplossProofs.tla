------------------------- MODULE SmaStoplossProofs -------------------------
(***************************************************************************)
(* The memory and the database of the sma-stoploss strategy, for any       *)
(* subnets, prices, stop distance and cooldown, any number of crashes and  *)
(* any order in which the loops of a tick visit their subnets.             *)
(***************************************************************************)
EXTENDS SmaStoploss, FiniteSetTheorems, TLAPS

\* start() has restored the memory.
Restored == step \notin {"down", "initial", "starting"}

\* The table and the memory agree on n, or the turn still has to write it.
StopWritten(n) ==
  dbStopLosses[n] = stopLosses[n] \/
  \E i \in 1..Len(writes) : writes[i] = SaveStopLoss(n, stopLosses[n])

StopOutWritten(n) ==
  dbStoppedOut[n] = stoppedOut[n] \/
  \E i \in 1..Len(writes) : writes[i] = SaveStoppedOut(n, stoppedOut[n])

\* Each call of the turn writes what the memory holds.
Remembered(w) ==
  w.value = IF w.table = "stop_losses" THEN stopLosses[w.netuid] ELSE stoppedOut[w.netuid]

SyncInv ==
  /\ ~Restored => writes = <<>>
  /\ Restored => /\ \A n \in Netuid : StopWritten(n) /\ StopOutWritten(n)
                 /\ \A i \in 1..Len(writes) : Remembered(writes[i])

\* The stop-out of n is on record, or will be before the i-th call.
StopOutFirst(n, i) ==
  /\ stoppedOut[n] # None
  /\ dbStoppedOut[n] # None \/
     \E j \in 1..i - 1 : writes[j].table = "stopped_out" /\ writes[j].netuid = n

\* A call that deletes the stop of a held subnet comes after the one that records its
\* stop-out, and one that saves a stop does not lower it.
OrderInv ==
  \A i \in 1..Len(writes) :
    writes[i].table = "stop_losses" =>
      /\ writes[i].value = NoStop =>
           writes[i].netuid \notin held \/ StopOutFirst(writes[i].netuid, i)
      /\ writes[i].value # NoStop => dbStopLosses[writes[i].netuid] <= writes[i].value

\* What a cycle reads of the stop-outs is what is, or will be, on record.
SharedInv ==
  /\ step = "initial" => shared = dbStoppedOut
  /\ step = "cycle" => shared = stoppedOut

IInv == TypeOK /\ SyncInv /\ OrderInv /\ SharedInv

-----------------------------------------------------------------------------
(* Loops.                                                                  *)

LEMMA Constants ==
  /\ Netuid \subseteq Nat \ {0} /\ IsFiniteSet(Netuid) /\ Price \subseteq Nat
  /\ StopBps \in 0..10000 /\ CooldownBlocks \in Nat
  /\ MaxHeight \in Nat /\ MaxCrashes \in Nat
BY StopLossAssumption DEF StopLossAssumption

\* A walk over S is a sequence that meets each member.
LEMMA Walk ==
  ASSUME NEW S, S \subseteq Netuid, NEW order \in Orders(S)
  PROVE  /\ order \in Seq(S)
         /\ \A n \in S : \E i \in 1..Len(order) : order[i] = n
<1>1. IsFiniteSet(S)
  <2>1. IsFiniteSet(Netuid)
    BY Constants
  <2>2. S \in SUBSET Netuid
    OBVIOUS
  <2> QED BY <2>1, <2>2, FS_Subset
<1>2. Cardinality(S) \in Nat
  BY <1>1, FS_CardinalityType
<1>3. order \in [1..Cardinality(S) -> S] /\ Range(order) = S
  BY DEF Orders
<1>4. order \in Seq(S) /\ DOMAIN order = 1..Len(order)
  BY <1>2, <1>3
<1> QED BY <1>3, <1>4 DEF Range

LEMMA Numbers ==
  ASSUME TypeOK, NEW n \in Netuid
  PROVE  /\ price[n] \in Price /\ price[n] \in Int
         /\ seenPrice[n] \in Price /\ seenPrice[n] \in Int
         /\ stopLosses[n] \in Int /\ dbStopLosses[n] \in Int
         /\ dbStoppedOut[n] \in Int
<1>1. /\ price[n] \in Price /\ seenPrice[n] \in Price
      /\ stopLosses[n] \in Price \cup {NoStop} /\ dbStopLosses[n] \in Price \cup {NoStop}
  BY DEF TypeOK, Marks
<1>2. Price \subseteq Int /\ NoStop \in Int /\ None \in Int
  BY Constants DEF NoStop, None
<1>3. dbStoppedOut[n] \in 0..MaxHeight \cup {None}
  BY DEF TypeOK, Records
<1>4. \A m \in 0..MaxHeight : m \in Int
  BY Constants
<1> QED BY <1>1, <1>2, <1>3, <1>4

\* The database calls of the strategy.
LEMMA Calls ==
  ASSUME NEW n \in Netuid, NEW v \in Int
  PROVE  /\ SaveStopLoss(n, v) \in Write /\ DeleteStopLoss(n) \in Write
         /\ SaveStoppedOut(n, v) \in Write /\ DeleteStoppedOut(n) \in Write
BY DEF SaveStopLoss, DeleteStopLoss, SaveStoppedOut, DeleteStoppedOut, Write, NoStop, None

LEMMA CallParts ==
  ASSUME NEW n, NEW v
  PROVE  /\ SaveStopLoss(n, v).table = "stop_losses" /\ SaveStoppedOut(n, v).table = "stopped_out"
         /\ SaveStopLoss(n, v).netuid = n /\ SaveStoppedOut(n, v).netuid = n
         /\ SaveStopLoss(n, v).value = v /\ SaveStoppedOut(n, v).value = v
BY DEF SaveStopLoss, SaveStoppedOut

\* The calls of a loop are those of the members of its set, one at least for each.
Performs(q, S, call) ==
  /\ q \in Seq(Write)
  /\ \A i \in 1..Len(q) : \E n \in S : q[i] = call[n]
  /\ \A n \in S : \E i \in 1..Len(q) : q[i] = call[n]

LEMMA Loop ==
  ASSUME NEW S \in SUBSET Netuid, NEW call \in [S -> Write], NEW q \in ForEach(call)
  PROVE  Performs(q, S, call)
<1>1. PICK order \in Orders(S) : q = [i \in DOMAIN order |-> call[order[i]]]
  BY DEF ForEach
<1>2. /\ order \in Seq(S)
      /\ \A n \in S : \E i \in 1..Len(order) : order[i] = n
  BY Walk
<1>3. DOMAIN order = 1..Len(order) /\ \A i \in 1..Len(order) : order[i] \in S
  BY <1>2
<1>4. q \in Seq(Write) /\ Len(q) = Len(order)
  BY <1>1, <1>2, <1>3
<1> QED BY <1>1, <1>2, <1>3, <1>4 DEF Performs

\* One of the calls of q.
Calling(q, call) == \E i \in 1..Len(q) : q[i] = call

\* The i-th call of q reports that the stop of n triggered: a stop-out goes to the database
\* right before the stop it stands for is deleted.
Reported(q, i, n) ==
  \/ q[i] = SaveStoppedOut(n, currentBlock)
  \/ /\ q[i] = SaveStopLoss(n, NoStop)
     /\ i > 1 /\ q[i - 1] = SaveStoppedOut(n, currentBlock)

Reports(q, S) ==
  /\ q \in Seq(Write)
  /\ \A i \in 1..Len(q) : \E n \in S : Reported(q, i, n)
  /\ \A n \in S : /\ Calling(q, SaveStopLoss(n, NoStop))
                  /\ Calling(q, SaveStoppedOut(n, currentBlock))

LEMMA Triggers ==
  ASSUME NEW S \in SUBSET Netuid, NEW order \in Orders(S), currentBlock \in Int
  PROVE  Reports(TriggerWrites(order), S)
<1> DEFINE t == TriggerWrites(order)
           m == Len(order)
<1>1. /\ order \in Seq(S)
      /\ \A n \in S : \E i \in 1..m : order[i] = n
  BY Walk
<1>2. m \in Nat /\ \A i \in 1..m : order[i] \in S
  BY <1>1
<1>3. \A n \in S : SaveStoppedOut(n, currentBlock) \in Write /\ DeleteStopLoss(n) \in Write
  BY DEF SaveStoppedOut, DeleteStopLoss, SaveStopLoss, Write, NoStop
<1>4. \A i \in 1 .. 2 * m :
        /\ i % 2 = 1 => (i + 1) \div 2 \in 1..m
        /\ i % 2 # 1 => i \div 2 \in 1..m /\ i > 1 /\ (i - 1) % 2 = 1 /\ ((i - 1) + 1) \div 2 = i \div 2
  BY <1>2
<1>5. t = [i \in 1 .. 2 * m |-> IF i % 2 = 1 THEN SaveStoppedOut(order[(i + 1) \div 2], currentBlock)
                                ELSE DeleteStopLoss(order[i \div 2])]
  BY DEF TriggerWrites
<1>6. t \in Seq(Write) /\ Len(t) = 2 * m
  BY <1>2, <1>3, <1>4, <1>5
<1>7. ASSUME NEW i \in 1 .. 2 * m
      PROVE  \E n \in S : \/ t[i] = SaveStoppedOut(n, currentBlock)
                          \/ /\ t[i] = DeleteStopLoss(n)
                             /\ i > 1 /\ t[i - 1] = SaveStoppedOut(n, currentBlock)
  <2>1. CASE i % 2 = 1
    BY <1>2, <1>4, <1>5, <2>1
  <2>2. CASE i % 2 # 1
    <3>1. i - 1 \in 1 .. 2 * m
      BY <1>2, <1>4, <2>2
    <3>2. t[i] = DeleteStopLoss(order[i \div 2])
      BY <1>5, <2>2
    <3>3. t[i - 1] = SaveStoppedOut(order[i \div 2], currentBlock)
      BY <1>4, <1>5, <2>2, <3>1
    <3> QED BY <1>2, <1>4, <2>2, <3>2, <3>3
  <2> QED BY <2>1, <2>2
<1>8. ASSUME NEW n \in S
      PROVE  /\ \E i \in 1 .. 2 * m : t[i] = SaveStoppedOut(n, currentBlock)
             /\ \E i \in 1 .. 2 * m : t[i] = DeleteStopLoss(n)
  <2>1. PICK k \in 1..m : order[k] = n
    BY <1>1
  <2>2. 2 * k - 1 \in 1 .. 2 * m /\ (2 * k - 1) % 2 = 1 /\ ((2 * k - 1) + 1) \div 2 = k
    BY <1>2
  <2>3. 2 * k \in 1 .. 2 * m /\ (2 * k) % 2 # 1 /\ (2 * k) \div 2 = k
    BY <1>2
  <2>4. t[2 * k - 1] = SaveStoppedOut(n, currentBlock)
    BY <1>5, <2>1, <2>2
  <2>5. t[2 * k] = DeleteStopLoss(n)
    BY <1>5, <2>1, <2>3
  <2> QED BY <2>2, <2>3, <2>4, <2>5
<1> HIDE DEF t
<1> QED BY <1>6, <1>7, <1>8 DEF t, Reports, Reported, Calling, DeleteStopLoss

-----------------------------------------------------------------------------
(* Types.                                                                  *)

LEMMA InitIInv == Init => IInv
<1> SUFFICES ASSUME Init PROVE IInv
  OBVIOUS
<1> USE Constants
<1>1. TypeOK
  <2>1. \A n \in Netuid : NoMarks[n] = NoStop /\ NoRecords[n] = None
    BY DEF NoMarks, NoRecords
  <2>2. NoMarks \in Marks /\ NoRecords \in Records
    BY DEF NoMarks, NoRecords, Marks, Records
  <2> QED BY <2>2 DEF Init, TypeOK, Steps
<1>2. SyncInv
  BY DEF Init, SyncInv, Restored
<1>3. OrderInv /\ SharedInv
  BY DEF Init, OrderInv, SharedInv
<1> QED BY <1>1, <1>2, <1>3 DEF IInv

LEMMA CycleType ==
  ASSUME TypeOK, Cycle
  PROVE  held' \in SUBSET Netuid /\ targets' \in SUBSET Netuid /\ targetsBlock' \in 0..height
<1>1. targets' \in SUBSET Netuid
  BY DEF Cycle
<1>2. held' \in SUBSET (held \cup targets')
  BY DEF Cycle
<1> QED BY <1>1, <1>2 DEF Cycle, BlockEstimate, TypeOK

-----------------------------------------------------------------------------
(* The turns of a tick.                                                    *)

\* Between turns the tables hold what the memory holds.
LEMMA Settled ==
  ASSUME IInv, Restored, writes = <<>>
  PROVE  \A n \in Netuid : dbStopLosses[n] = stopLosses[n] /\ dbStoppedOut[n] = stoppedOut[n]
BY DEF IInv, SyncInv, StopWritten, StopOutWritten

LEMMA SubnetsFetchedStep == IInv /\ SubnetsFetched => IInv'
<1> SUFFICES ASSUME IInv, SubnetsFetched PROVE IInv'
  OBVIOUS
<1>1. step = "fetch" /\ writes = <<>>
  BY DEF SubnetsFetched, Await
<1>2. \A n \in Netuid : dbStopLosses[n] = stopLosses[n] /\ dbStoppedOut[n] = stoppedOut[n]
  BY <1>1, Settled DEF Restored
<1> DEFINE expired == {n \in Netuid : stoppedOut[n] # None /\
                         BlockEstimate - stoppedOut[n] >= CooldownBlocks}
           call == [n \in expired |-> DeleteStoppedOut(n)]
<1>3. expired \in SUBSET Netuid /\ call \in [expired -> Write]
  BY Calls
<1>4. \A n \in expired : n \in Netuid /\ call[n] = SaveStoppedOut(n, None)
  BY DEF DeleteStoppedOut
<1>5. /\ stoppedOut' = [n \in Netuid |-> IF n \in expired THEN None ELSE stoppedOut[n]]
      /\ step' = "stakes" /\ stopLosses' = stopLosses
      /\ dbStopLosses' = dbStopLosses /\ dbStoppedOut' = dbStoppedOut
      /\ writes' \in ForEach(call)
  BY DEF SubnetsFetched, dbVars
<1> HIDE DEF expired, call
<1>6. Performs(writes', expired, call)
  BY <1>3, <1>5, Loop
<1>7. /\ writes' \in Seq(Write)
      /\ \A i \in 1..Len(writes') : \E n \in expired : writes'[i] = SaveStoppedOut(n, None)
      /\ \A n \in expired : \E i \in 1..Len(writes') : writes'[i] = SaveStoppedOut(n, None)
  BY <1>4, <1>6 DEF Performs
<1>8. TypeOK'
  <2>1. stoppedOut' \in Records
    BY <1>5 DEF IInv, Records, TypeOK
  <2>2. currentBlock' \in 0..height
    BY DEF SubnetsFetched, BlockEstimate, IInv, TypeOK
  <2> QED BY <1>7, <2>1, <2>2
          DEF SubnetsFetched, IInv, TypeOK, Steps, chainVars, dbVars, cycleVars
<1>9. SyncInv'
  <2>1. \A n \in Netuid : StopWritten(n)'
    BY <1>2, <1>5 DEF StopWritten
  <2>2. \A n \in Netuid : StopOutWritten(n)'
    BY <1>2, <1>5, <1>7 DEF StopOutWritten
  <2>3. ASSUME NEW i \in 1..Len(writes') PROVE Remembered(writes[i])'
    <3>1. PICK n \in expired : writes'[i] = SaveStoppedOut(n, None)
      BY <1>7
    <3>2. n \in Netuid /\ stoppedOut'[n] = None
      BY <1>4, <1>5
    <3> QED BY <3>1, <3>2, CallParts DEF Remembered
  <2> QED BY <1>5, <2>1, <2>2, <2>3 DEF SyncInv, Restored
<1>10. OrderInv'
  <2>1. \A i \in 1..Len(writes') : writes'[i].table = "stopped_out"
    BY <1>7, CallParts
  <2> QED BY <2>1 DEF OrderInv
<1>11. SharedInv'
  BY <1>5 DEF SharedInv
<1> QED BY <1>8, <1>9, <1>10, <1>11 DEF IInv

LEMMA PostStakesFetchedStep == IInv /\ PostStakesFetched => IInv'
<1> SUFFICES ASSUME IInv, PostStakesFetched PROVE IInv'
  OBVIOUS
<1>1. step = "postStakes" /\ writes = <<>>
  BY DEF PostStakesFetched, Await
<1>2. \A n \in Netuid : dbStopLosses[n] = stopLosses[n] /\ dbStoppedOut[n] = stoppedOut[n]
  BY <1>1, Settled DEF Restored
<1> DEFINE gone == {n \in Netuid : stopLosses[n] # NoStop /\ n \notin held}
           drop == [n \in gone |-> DeleteStopLoss(n)]
<1>3. gone \in SUBSET Netuid /\ drop \in [gone -> Write]
  BY Calls
<1>4. \A n \in gone : n \in Netuid /\ n \notin held /\ drop[n] = SaveStopLoss(n, NoStop)
  BY DEF DeleteStopLoss
<1>5. /\ stopLosses' = [n \in Netuid |-> IF n \in gone THEN NoStop ELSE stopLosses[n]]
      /\ step' = "postSubnets" /\ stoppedOut' = stoppedOut /\ held' = held
      /\ dbStopLosses' = dbStopLosses /\ dbStoppedOut' = dbStoppedOut
      /\ writes' \in ForEach(drop)
  BY DEF PostStakesFetched, dbVars, chainVars
<1> HIDE DEF gone, drop
<1>6. Performs(writes', gone, drop)
  BY <1>3, <1>5, Loop
<1>7. /\ writes' \in Seq(Write)
      /\ \A i \in 1..Len(writes') : \E n \in gone : writes'[i] = SaveStopLoss(n, NoStop)
      /\ \A n \in gone : \E i \in 1..Len(writes') : writes'[i] = SaveStopLoss(n, NoStop)
  BY <1>4, <1>6 DEF Performs
<1>8. TypeOK'
  <2>1. stopLosses' \in Marks
    BY <1>5 DEF IInv, Marks, TypeOK
  <2> QED BY <1>7, <2>1
          DEF PostStakesFetched, IInv, TypeOK, Steps, chainVars, tickVars, dbVars, cycleVars
<1>9. SyncInv'
  <2>1. \A n \in Netuid : StopWritten(n)'
    BY <1>2, <1>5, <1>7 DEF StopWritten
  <2>2. \A n \in Netuid : StopOutWritten(n)'
    BY <1>2, <1>5 DEF StopOutWritten
  <2>3. ASSUME NEW i \in 1..Len(writes') PROVE Remembered(writes[i])'
    <3>1. PICK n \in gone : writes'[i] = SaveStopLoss(n, NoStop)
      BY <1>7
    <3>2. n \in Netuid /\ stopLosses'[n] = NoStop
      BY <1>4, <1>5
    <3> QED BY <3>1, <3>2, CallParts DEF Remembered
  <2> QED BY <1>5, <2>1, <2>2, <2>3 DEF SyncInv, Restored
<1>10. OrderInv'
  <2>1. \A i \in 1..Len(writes') : writes'[i].value = NoStop /\ writes'[i].netuid \notin held
    BY <1>4, <1>7, CallParts
  <2> QED BY <1>5, <2>1 DEF OrderInv
<1>11. SharedInv'
  BY <1>5 DEF SharedInv
<1> QED BY <1>8, <1>9, <1>10, <1>11 DEF IInv

LEMMA PostSubnetsFetchedStep == IInv /\ PostSubnetsFetched => IInv'
<1> SUFFICES ASSUME IInv, PostSubnetsFetched PROVE IInv'
  OBVIOUS
<1>1. step = "postSubnets" /\ writes = <<>>
  BY DEF PostSubnetsFetched, Await
<1>2. \A n \in Netuid : dbStopLosses[n] = stopLosses[n] /\ dbStoppedOut[n] = stoppedOut[n]
  BY <1>1, Settled DEF Restored
<1>3. \A n \in held : n \in Netuid /\ price[n] \in Price /\ price[n] \in Int
  <2>1. TypeOK /\ \A n \in held : n \in Netuid
    BY DEF IInv, TypeOK
  <2> QED BY <2>1, Numbers
<1> DEFINE new == {n \in held : stopLosses[n] = NoStop /\ price[n] > 0}
           save == [n \in new |-> SaveStopLoss(n, price[n])]
<1>4. \A n \in new : /\ n \in Netuid /\ stopLosses[n] = NoStop
                     /\ price[n] \in Price /\ price[n] \in Int /\ price[n] > 0
                     /\ save[n] = SaveStopLoss(n, price[n])
  BY <1>3
<1>5. new \in SUBSET Netuid /\ save \in [new -> Write]
  <2>1. \A n \in new : SaveStopLoss(n, price[n]) \in Write
    BY <1>4, Calls
  <2> QED BY <1>4, <2>1
<1>6. /\ stopLosses' = [n \in Netuid |-> IF n \in new THEN price[n] ELSE stopLosses[n]]
      /\ step' = "idle" /\ stoppedOut' = stoppedOut /\ held' = held
      /\ dbStopLosses' = dbStopLosses /\ dbStoppedOut' = dbStoppedOut
      /\ shared' = stoppedOut
      /\ writes' \in ForEach(save)
  BY DEF PostSubnetsFetched, dbVars, chainVars
<1> HIDE DEF new, save
<1>7. Performs(writes', new, save)
  BY <1>5, <1>6, Loop
<1>8. /\ writes' \in Seq(Write)
      /\ \A i \in 1..Len(writes') : \E n \in new : writes'[i] = SaveStopLoss(n, price[n])
      /\ \A n \in new : \E i \in 1..Len(writes') : writes'[i] = SaveStopLoss(n, price[n])
  BY <1>4, <1>7 DEF Performs
<1>9. TypeOK'
  <2>1. stopLosses' \in Marks
    BY <1>4, <1>6 DEF IInv, Marks, TypeOK
  <2> QED BY <1>6, <1>8, <2>1
          DEF PostSubnetsFetched, IInv, TypeOK, Steps, chainVars, tickVars, dbVars, cycleVars
<1>10. SyncInv'
  <2>1. ASSUME NEW n \in Netuid PROVE StopWritten(n)'
    <3>1. CASE n \in new
      <4>1. stopLosses'[n] = price[n]
        BY <1>6, <3>1
      <4> QED BY <1>8, <3>1, <4>1 DEF StopWritten
    <3>2. CASE n \notin new
      BY <1>2, <1>6, <3>2 DEF StopWritten
    <3> QED BY <3>1, <3>2
  <2>2. \A n \in Netuid : StopOutWritten(n)'
    BY <1>2, <1>6 DEF StopOutWritten
  <2>3. ASSUME NEW i \in 1..Len(writes') PROVE Remembered(writes[i])'
    <3>1. PICK n \in new : writes'[i] = SaveStopLoss(n, price[n])
      BY <1>8
    <3>2. n \in Netuid /\ stopLosses'[n] = price[n]
      BY <1>4, <1>6
    <3> QED BY <3>1, <3>2, CallParts DEF Remembered
  <2> QED BY <1>6, <2>1, <2>2, <2>3 DEF SyncInv, Restored
<1>11. OrderInv'
  <2> SUFFICES ASSUME NEW i \in 1..Len(writes')
               PROVE  /\ writes'[i].value # NoStop
                      /\ dbStopLosses'[writes'[i].netuid] <= writes'[i].value
    BY DEF OrderInv
  <2>1. PICK n \in new : writes'[i] = SaveStopLoss(n, price[n])
    BY <1>8
  <2>2. writes'[i].netuid = n /\ writes'[i].value = price[n]
    BY <2>1, CallParts
  <2>3. dbStopLosses'[n] = NoStop /\ price[n] > 0 /\ price[n] \in Int
    BY <1>2, <1>4, <1>6
  <2> QED BY <2>2, <2>3 DEF NoStop
<1>12. SharedInv'
  BY <1>6 DEF SharedInv
<1> QED BY <1>9, <1>10, <1>11, <1>12 DEF IInv

\* Where the members of a concatenation come from, and their predecessors in its last part.
Joins(q, a, b, c) ==
  /\ \A i \in 1..Len(q) :
       \/ \E j \in 1..Len(a) : q[i] = a[j]
       \/ \E j \in 1..Len(b) : q[i] = b[j]
       \/ \E j \in 1..Len(c) : q[i] = c[j] /\ (j > 1 => i > 1 /\ q[i - 1] = c[j - 1])
  /\ \A call : Calling(a, call) \/ Calling(b, call) \/ Calling(c, call) => Calling(q, call)

LEMMA Concatenation ==
  ASSUME NEW a \in Seq(Write), NEW b \in Seq(Write), NEW c \in Seq(Write)
  PROVE  Joins(a \o b \o c, a, b, c)
<1> DEFINE d == a \o b
           q == d \o c
<1>1. /\ d \in Seq(Write) /\ Len(d) = Len(a) + Len(b)
      /\ Len(a) \in Nat /\ Len(b) \in Nat /\ Len(c) \in Nat
  OBVIOUS
<1>2. \A i \in 1..Len(a) : d[i] = a[i]
  OBVIOUS
<1>3. \A i \in 1..Len(b) : Len(a) + i \in 1..Len(d) /\ d[Len(a) + i] = b[i]
  <2>1. \A i \in 1..Len(b) : Len(a) + i \in 1..Len(d)
    BY <1>1
  <2>2. \A i \in 1..Len(b) : (a \o b)[Len(a) + i] = b[i]
    OBVIOUS
  <2> QED BY <2>1, <2>2
<1>4. \A i \in 1..Len(d) : i > Len(a) => i - Len(a) \in 1..Len(b) /\ d[i] = b[i - Len(a)]
  BY <1>1
<1> HIDE DEF d
<1>5. Len(q) = Len(d) + Len(c) /\ \A i \in 1..Len(d) : q[i] = d[i]
  BY <1>1 DEF d
<1>6. \A i \in 1..Len(c) : Len(d) + i \in 1..Len(q) /\ q[Len(d) + i] = c[i]
  BY <1>1, <1>5 DEF d
<1> HIDE DEF q
<1>7. ASSUME NEW i \in 1..Len(q)
      PROVE  \/ \E j \in 1..Len(a) : q[i] = a[j]
             \/ \E j \in 1..Len(b) : q[i] = b[j]
             \/ \E j \in 1..Len(c) : q[i] = c[j] /\ (j > 1 => i > 1 /\ q[i - 1] = c[j - 1])
  <2>0. i \in Nat /\ i > 0 /\ Len(d) \in Nat
    BY <1>1, <1>5
  <2>1. CASE i <= Len(a)
    <3>1. i \in 1..Len(a) /\ i \in 1..Len(d)
      BY <1>1, <2>0, <2>1
    <3> QED BY <1>2, <1>5, <3>1
  <2>2. CASE Len(a) < i /\ i <= Len(d)
    <3>1. i \in 1..Len(d)
      BY <2>0, <2>2
    <3>2. i - Len(a) \in 1..Len(b) /\ q[i] = b[i - Len(a)]
      BY <1>4, <1>5, <2>2, <3>1
    <3> QED BY <3>2
  <2>3. CASE Len(d) < i
    <3>1. i - Len(d) \in 1..Len(c) /\ i = Len(d) + (i - Len(d))
      BY <1>1, <1>5, <2>3
    <3>2. PICK j \in 1..Len(c) : i = Len(d) + j
      BY <3>1
    <3>3. q[i] = c[j]
      BY <1>6, <3>2
    <3>4. ASSUME j > 1 PROVE i > 1 /\ q[i - 1] = c[j - 1]
      <4>1. j - 1 \in 1..Len(c) /\ Len(d) + (j - 1) = i - 1 /\ i > 1
        BY <1>1, <3>2, <3>4
      <4> QED BY <1>6, <4>1
    <3> QED BY <3>3, <3>4
  <2>4. i <= Len(a) \/ (Len(a) < i /\ i <= Len(d)) \/ Len(d) < i
    BY <1>1, <2>0
  <2> QED BY <2>1, <2>2, <2>3, <2>4
<1>8. ASSUME NEW call, Calling(a, call) \/ Calling(b, call) \/ Calling(c, call)
      PROVE  Calling(q, call)
  <2>1. \A i \in 1..Len(a) : i \in 1..Len(q) /\ q[i] = a[i]
    BY <1>1, <1>2, <1>5
  <2>2. \A i \in 1..Len(b) : Len(a) + i \in 1..Len(q) /\ q[Len(a) + i] = b[i]
    <3>1. \A i \in 1..Len(d) : i \in 1..Len(q)
      BY <1>1, <1>5
    <3> QED BY <1>3, <1>5, <3>1
  <2> QED BY <1>6, <1>8, <2>1, <2>2 DEF Calling
<1> QED BY <1>7, <1>8 DEF Joins, q, d

\* What updateStopLosses leaves: a turn whose calls are the drops, the saves and, for the
\* triggered, a stop-out before each deletion.
LEMMA UpdateStopLossesStep == IInv /\ UpdateStopLosses => IInv'
<1> SUFFICES ASSUME IInv, UpdateStopLosses PROVE IInv'
  OBVIOUS
<1>1. step = "stakes" /\ writes = <<>>
  BY DEF UpdateStopLosses, Await
<1>2. \A n \in Netuid : dbStopLosses[n] = stopLosses[n] /\ dbStoppedOut[n] = stoppedOut[n]
  BY <1>1, Settled DEF Restored
<1>3. currentBlock \in 0..MaxHeight /\ currentBlock \in Int /\ currentBlock # None
  BY Constants DEF IInv, TypeOK, None
<1>4. \A n \in held : /\ n \in Netuid /\ seenPrice[n] \in Price
                      /\ seenPrice[n] \in Int /\ stopLosses[n] \in Int
  <2>1. TypeOK /\ \A n \in held : n \in Netuid
    BY DEF IInv, TypeOK
  <2> QED BY <2>1, Numbers
<1> DEFINE gone == {n \in Netuid : stopLosses[n] # NoStop /\ n \notin held}
           priced == {n \in held : seenPrice[n] > 0}
           ratchets == {n \in priced : seenPrice[n] > stopLosses[n]}
           triggers == {n \in priced : seenPrice[n] <= stopLosses[n] /\
                                       seenPrice[n] < StopPrice(stopLosses[n])}
           drop == [n \in gone |-> DeleteStopLoss(n)]
           save == [n \in ratchets |-> SaveStopLoss(n, seenPrice[n])]
<1>5. PICK drops \in ForEach(drop), saves \in ForEach(save), order \in Orders(triggers) :
        writes' = drops \o saves \o TriggerWrites(order)
  BY DEF UpdateStopLosses
<1>6. stopLosses' = [n \in Netuid |-> IF n \in gone \cup triggers THEN NoStop
                                     ELSE IF n \in ratchets THEN seenPrice[n]
                                     ELSE stopLosses[n]]
  BY DEF UpdateStopLosses
<1>7. stoppedOut' = [n \in Netuid |-> IF n \in triggers THEN currentBlock ELSE stoppedOut[n]]
  BY DEF UpdateStopLosses
<1>8. /\ step' = "cycle" /\ shared' = stoppedOut' /\ held' = held
      /\ dbStopLosses' = dbStopLosses /\ dbStoppedOut' = dbStoppedOut
  BY DEF UpdateStopLosses, dbVars, chainVars
<1>9. \A n \in gone : n \in Netuid /\ n \notin held /\ drop[n] = SaveStopLoss(n, NoStop)
  BY DEF DeleteStopLoss
<1>10. \A n \in ratchets : /\ n \in held /\ seenPrice[n] > 0 /\ seenPrice[n] > stopLosses[n]
                          /\ save[n] = SaveStopLoss(n, seenPrice[n])
  OBVIOUS
<1>11. \A n \in triggers : n \in held /\ seenPrice[n] <= stopLosses[n]
  OBVIOUS
<1>12. gone \in SUBSET Netuid /\ drop \in [gone -> Write]
  BY Calls
<1>13. save \in [ratchets -> Write]
  <2>1. \A n \in ratchets : SaveStopLoss(n, seenPrice[n]) \in Write
    BY <1>4, <1>10, Calls
  <2> QED BY <2>1
<1> DEFINE t == TriggerWrites(order)
<1> HIDE DEF gone, priced, ratchets, triggers, drop, save
<1>14. ratchets \in SUBSET Netuid /\ triggers \in SUBSET Netuid
  BY <1>4, <1>10, <1>11
<1>15. Performs(drops, gone, drop) /\ Performs(saves, ratchets, save)
  BY <1>12, <1>13, <1>14, Loop
<1>16. Reports(t, triggers)
  BY <1>3, <1>14, Triggers
<1>17. writes' = drops \o saves \o t
  BY <1>5
<1> HIDE DEF t
<1>18. drops \in Seq(Write) /\ saves \in Seq(Write) /\ t \in Seq(Write)
  BY <1>15, <1>16 DEF Performs, Reports
<1>27. Joins(writes', drops, saves, t)
  BY <1>17, <1>18, Concatenation
<1>19. writes' \in Seq(Write)
  BY <1>17, <1>18
<1>20. \A n \in Netuid :
         /\ n \in gone \cup triggers => stopLosses'[n] = NoStop
         /\ n \in ratchets => stopLosses'[n] = seenPrice[n]
         /\ n \notin gone \cup triggers \cup ratchets => stopLosses'[n] = stopLosses[n]
         /\ n \in triggers => stoppedOut'[n] = currentBlock
         /\ n \notin triggers => stoppedOut'[n] = stoppedOut[n]
  <2>1. \A n \in ratchets : n \notin gone \cup triggers
    <3>1. \A n \in ratchets : n \notin gone
      BY <1>9, <1>10
    <3>2. ASSUME NEW n \in ratchets, n \in triggers PROVE FALSE
      <4>1. seenPrice[n] \in Int /\ stopLosses[n] \in Int
        BY <1>4, <1>10
      <4> QED BY <1>10, <1>11, <3>2, <4>1
    <3> QED BY <3>1, <3>2
  <2> QED BY <1>6, <1>7, <2>1
\* Where each call of the turn comes from.
<1>21. ASSUME NEW i \in 1..Len(writes')
       PROVE  \/ \E n \in gone : writes'[i] = SaveStopLoss(n, NoStop)
              \/ \E n \in ratchets : writes'[i] = SaveStopLoss(n, seenPrice[n])
              \/ \E n \in triggers : Reported(writes', i, n)
  <2>1. \/ \E j \in 1..Len(drops) : writes'[i] = drops[j]
        \/ \E j \in 1..Len(saves) : writes'[i] = saves[j]
        \/ \E j \in 1..Len(t) : /\ writes'[i] = t[j]
                                /\ j > 1 => i > 1 /\ writes'[i - 1] = t[j - 1]
    BY <1>27 DEF Joins
  <2>2. ASSUME NEW j \in 1..Len(drops), writes'[i] = drops[j]
        PROVE  \E n \in gone : writes'[i] = SaveStopLoss(n, NoStop)
    BY <1>9, <1>15, <2>2 DEF Performs
  <2>3. ASSUME NEW j \in 1..Len(saves), writes'[i] = saves[j]
        PROVE  \E n \in ratchets : writes'[i] = SaveStopLoss(n, seenPrice[n])
    BY <1>10, <1>15, <2>3 DEF Performs
  <2>4. ASSUME NEW j \in 1..Len(t), writes'[i] = t[j],
               j > 1 => i > 1 /\ writes'[i - 1] = t[j - 1]
        PROVE  \E n \in triggers : Reported(writes', i, n)
    BY <1>16, <2>4 DEF Reports, Reported
  <2> QED BY <2>1, <2>2, <2>3, <2>4
\* And that nothing is left out.
<1>22. \A n \in Netuid :
         /\ n \in gone \cup triggers => Calling(writes', SaveStopLoss(n, NoStop))
         /\ n \in ratchets => Calling(writes', SaveStopLoss(n, seenPrice[n]))
         /\ n \in triggers => Calling(writes', SaveStoppedOut(n, currentBlock))
  <2>1. \A c : Calling(drops, c) \/ Calling(saves, c) \/ Calling(t, c) => Calling(writes', c)
    BY <1>27 DEF Joins
  <2>2. \A n \in gone : Calling(drops, SaveStopLoss(n, NoStop))
    <3>1. \A n \in gone : \E i \in 1..Len(drops) : drops[i] = drop[n]
      BY <1>15 DEF Performs
    <3> QED BY <1>9, <3>1 DEF Calling
  <2>3. \A n \in ratchets : Calling(saves, SaveStopLoss(n, seenPrice[n]))
    BY <1>10, <1>15 DEF Performs, Calling
  <2>4. \A n \in triggers : /\ Calling(t, SaveStopLoss(n, NoStop))
                            /\ Calling(t, SaveStoppedOut(n, currentBlock))
    BY <1>16 DEF Reports
  <2> QED BY <2>1, <2>2, <2>3, <2>4
<1>23. TypeOK'
  <2>1. stopLosses' \in Marks
    <3>1. \A n \in ratchets : seenPrice[n] \in Price
      BY <1>4, <1>10
    <3> QED BY <3>1, <1>6 DEF Marks, IInv, TypeOK
  <2>2. stoppedOut' \in Records
    BY <1>3, <1>7 DEF Records, IInv, TypeOK
  <2> QED BY <1>8, <1>19, <2>1, <2>2
          DEF UpdateStopLosses, IInv, TypeOK, Steps, chainVars, tickVars, dbVars, cycleVars
<1>24. SyncInv'
  <2>1. ASSUME NEW n \in Netuid PROVE StopWritten(n)'
    <3>1. \/ Calling(writes', SaveStopLoss(n, stopLosses'[n]))
          \/ stopLosses'[n] = stopLosses[n]
      BY <1>20, <1>22
    <3> QED BY <1>2, <1>8, <3>1 DEF StopWritten, Calling
  <2>2. ASSUME NEW n \in Netuid PROVE StopOutWritten(n)'
    <3>1. \/ Calling(writes', SaveStoppedOut(n, stoppedOut'[n]))
          \/ stoppedOut'[n] = stoppedOut[n]
      BY <1>20, <1>22
    <3> QED BY <1>2, <1>8, <3>1 DEF StopOutWritten, Calling
  <2>3. ASSUME NEW i \in 1..Len(writes') PROVE Remembered(writes[i])'
    <3>1. \E n \in Netuid : \/ writes'[i] = SaveStopLoss(n, stopLosses'[n])
                            \/ writes'[i] = SaveStoppedOut(n, stoppedOut'[n])
      BY <1>9, <1>14, <1>20, <1>21 DEF Reported
    <3> QED BY <3>1, CallParts DEF Remembered
  <2> QED BY <1>8, <2>1, <2>2, <2>3 DEF SyncInv, Restored
<1>25. OrderInv'
  <2> SUFFICES ASSUME NEW i \in 1..Len(writes')
               PROVE  writes'[i].table = "stop_losses" =>
                        /\ writes'[i].value = NoStop =>
                             \/ writes'[i].netuid \notin held'
                             \/ StopOutFirst(writes[i].netuid, i)'
                        /\ writes'[i].value # NoStop =>
                             dbStopLosses'[writes'[i].netuid] <= writes'[i].value
    BY DEF OrderInv
  <2>1. ASSUME NEW n \in gone, writes'[i] = SaveStopLoss(n, NoStop)
        PROVE  writes'[i].value = NoStop /\ writes'[i].netuid \notin held'
    BY <1>8, <1>9, <2>1, CallParts
  <2>2. ASSUME NEW n \in ratchets, writes'[i] = SaveStopLoss(n, seenPrice[n])
        PROVE  writes'[i].value # NoStop /\ dbStopLosses'[writes'[i].netuid] <= writes'[i].value
    <3>1. /\ seenPrice[n] > stopLosses[n] /\ seenPrice[n] > 0
          /\ seenPrice[n] \in Int /\ stopLosses[n] \in Int
      BY <1>4, <1>10
    <3>2. dbStopLosses'[n] = stopLosses[n]
      BY <1>2, <1>4, <1>8, <1>10
    <3>3. writes'[i].netuid = n /\ writes'[i].value = seenPrice[n]
      BY <2>2, CallParts
    <3> QED BY <3>1, <3>2, <3>3 DEF NoStop
  <2>3. ASSUME NEW n \in triggers, Reported(writes', i, n)
        PROVE  \/ writes'[i].table # "stop_losses"
               \/ writes'[i].value = NoStop /\ StopOutFirst(writes[i].netuid, i)'
    <3>1. CASE writes'[i] = SaveStoppedOut(n, currentBlock)
      BY <3>1, CallParts
    <3>2. CASE /\ writes'[i] = SaveStopLoss(n, NoStop)
               /\ i > 1 /\ writes'[i - 1] = SaveStoppedOut(n, currentBlock)
      <4>1. writes'[i].value = NoStop /\ writes'[i].netuid = n
        BY <3>2, CallParts
      <4>2. stoppedOut'[n] # None
        BY <1>3, <1>4, <1>11, <1>20
      <4>3. i - 1 \in 1..i - 1
        BY <1>19, <3>2
      <4>4. writes'[i - 1].table = "stopped_out" /\ writes'[i - 1].netuid = n
        BY <3>2, CallParts
      <4> QED BY <4>1, <4>2, <4>3, <4>4 DEF StopOutFirst
    <3> QED BY <2>3, <3>1, <3>2 DEF Reported
  <2> QED BY <1>21, <2>1, <2>2, <2>3
<1>26. SharedInv'
  BY <1>8 DEF SharedInv
<1> QED BY <1>23, <1>24, <1>25, <1>26 DEF IInv

\* One call of the turn reaches the database.
LEMMA WriteNextStep == IInv /\ WriteNext => IInv'
<1> SUFFICES ASSUME IInv, WriteNext PROVE IInv'
  OBVIOUS
<1> DEFINE w == writes[1]
<1>1. /\ writes # <<>> /\ writes \in Seq(Write) /\ 1 \in 1..Len(writes)
      /\ w \in Write /\ writes' = Tail(writes)
  BY DEF IInv, TypeOK, WriteNext
<1>2. /\ Len(writes) \in Nat /\ Len(writes') = Len(writes) - 1
      /\ \A i \in 1..Len(writes') : i + 1 \in 1..Len(writes) /\ writes'[i] = writes[i + 1]
      /\ \A i \in 1..Len(writes) : i # 1 => i - 1 \in 1..Len(writes') /\ writes'[i - 1] = writes[i]
  BY <1>1
<1>3. Restored
  BY <1>1 DEF IInv, SyncInv
<1>4. \A i \in 1..Len(writes) : Remembered(writes[i]) /\ writes[i] \in Write
  BY <1>1, <1>3 DEF IInv, SyncInv
<1>5. /\ step' = step /\ stopLosses' = stopLosses /\ stoppedOut' = stoppedOut
      /\ held' = held /\ shared' = shared
  BY DEF WriteNext, chainVars, memVars
<1>20. /\ Remembered(w) /\ w.netuid \in Netuid
      /\ w.table \in {"stop_losses", "stopped_out"}
  BY <1>1, <1>4 DEF Write
<1>6. /\ w.table = "stop_losses" =>
            /\ dbStopLosses' = [dbStopLosses EXCEPT ![w.netuid] = stopLosses[w.netuid]]
            /\ dbStoppedOut' = dbStoppedOut
      /\ w.table = "stopped_out" =>
            /\ dbStoppedOut' = [dbStoppedOut EXCEPT ![w.netuid] = stoppedOut[w.netuid]]
            /\ dbStopLosses' = dbStopLosses
      /\ w.table \in {"stop_losses", "stopped_out"} /\ w.netuid \in Netuid
  <2>1. w = Head(writes)
    BY <1>1
  <2>2. \/ /\ w.table = "stop_losses"
           /\ dbStopLosses' = [dbStopLosses EXCEPT ![w.netuid] = w.value]
           /\ UNCHANGED dbStoppedOut
        \/ /\ w.table = "stopped_out"
           /\ dbStoppedOut' = [dbStoppedOut EXCEPT ![w.netuid] = w.value]
           /\ UNCHANGED dbStopLosses
    BY <2>1 DEF WriteNext
  <2> HIDE DEF w
  <2> QED BY <1>20, <2>2 DEF Remembered
<1> HIDE DEF w
<1>7. \A n \in Netuid :
        /\ dbStopLosses'[n] = IF w.table = "stop_losses" /\ w.netuid = n
                              THEN stopLosses[n] ELSE dbStopLosses[n]
        /\ dbStoppedOut'[n] = IF w.table = "stopped_out" /\ w.netuid = n
                              THEN stoppedOut[n] ELSE dbStoppedOut[n]
  BY <1>6 DEF IInv, TypeOK, Marks, Records
<1>8. TypeOK'
  <2>1. writes' \in Seq(Write)
    BY <1>1
  <2>2. dbStopLosses' \in Marks
    BY <1>6 DEF IInv, TypeOK, Marks
  <2>3. dbStoppedOut' \in Records
    BY <1>6 DEF IInv, TypeOK, Records
  <2> QED BY <2>1, <2>2, <2>3
          DEF WriteNext, IInv, TypeOK, chainVars, tickVars, memVars, cycleVars
<1>9. SyncInv'
  <2>1. ASSUME NEW n \in Netuid PROVE StopWritten(n)'
    <3>1. StopWritten(n)
      BY <1>3 DEF IInv, SyncInv
    <3>2. CASE dbStopLosses[n] = stopLosses[n]
      BY <1>5, <1>7, <3>2 DEF StopWritten
    <3>3. CASE w = SaveStopLoss(n, stopLosses[n])
      BY <1>5, <1>7, <3>3 DEF StopWritten, SaveStopLoss
    <3>4. ASSUME NEW i \in 1..Len(writes), i # 1, writes[i] = SaveStopLoss(n, stopLosses[n])
          PROVE  StopWritten(n)'
      BY <1>2, <1>5, <3>4 DEF StopWritten
    <3> QED BY <3>1, <3>2, <3>3, <3>4 DEF StopWritten, w
  <2>2. ASSUME NEW n \in Netuid PROVE StopOutWritten(n)'
    <3>1. StopOutWritten(n)
      BY <1>3 DEF IInv, SyncInv
    <3>2. CASE dbStoppedOut[n] = stoppedOut[n]
      BY <1>5, <1>7, <3>2 DEF StopOutWritten
    <3>3. CASE w = SaveStoppedOut(n, stoppedOut[n])
      BY <1>5, <1>7, <3>3 DEF StopOutWritten, SaveStoppedOut
    <3>4. ASSUME NEW i \in 1..Len(writes), i # 1, writes[i] = SaveStoppedOut(n, stoppedOut[n])
          PROVE  StopOutWritten(n)'
      BY <1>2, <1>5, <3>4 DEF StopOutWritten
    <3> QED BY <3>1, <3>2, <3>3, <3>4 DEF StopOutWritten, w
  <2>3. \A i \in 1..Len(writes') : Remembered(writes[i])'
    BY <1>2, <1>4, <1>5 DEF Remembered
  <2> QED BY <1>3, <1>5, <2>1, <2>2, <2>3 DEF SyncInv, Restored
<1>10. OrderInv'
  <2> SUFFICES ASSUME NEW i \in 1..Len(writes'), writes'[i].table = "stop_losses"
               PROVE  /\ writes'[i].value = NoStop =>
                           writes'[i].netuid \notin held' \/ StopOutFirst(writes[i].netuid, i)'
                      /\ writes'[i].value # NoStop =>
                           dbStopLosses'[writes'[i].netuid] <= writes'[i].value
    BY DEF OrderInv
  <2>1. i \in Nat /\ i + 1 \in 1..Len(writes) /\ writes'[i] = writes[i + 1]
    BY <1>2
  <2>8. /\ writes[i + 1].netuid \in Netuid /\ writes[i + 1].value \in Int
        /\ writes[i + 1].table = "stop_losses"
        /\ writes[i + 1].value = stopLosses[writes[i + 1].netuid]
    <3>1. writes[i + 1] \in Write /\ Remembered(writes[i + 1])
      BY <1>4, <2>1
    <3> QED BY <2>1, <3>1 DEF Write, Remembered
  <2>2. PICK n \in Netuid, v \in Int :
          n = writes[i + 1].netuid /\ v = writes[i + 1].value /\ v = stopLosses[n]
    BY <2>8
  <2>3. /\ v = NoStop => n \notin held \/ StopOutFirst(n, i + 1)
        /\ v # NoStop => dbStopLosses[n] <= v
    BY <2>1, <2>2, <2>8 DEF IInv, OrderInv
  <2>4. v # NoStop => dbStopLosses'[n] <= v
    <3>1. dbStopLosses'[n] = stopLosses[n] \/ dbStopLosses'[n] = dbStopLosses[n]
      BY <1>7, <2>2
    <3> QED BY <2>2, <2>3, <3>1
  <2>5. ASSUME StopOutFirst(n, i + 1) PROVE StopOutFirst(n, i)'
    <3>1. stoppedOut'[n] # None
      BY <1>5, <2>5 DEF StopOutFirst
    <3>2. CASE dbStoppedOut[n] # None
      <4>1. dbStoppedOut'[n] = stoppedOut[n] \/ dbStoppedOut'[n] = dbStoppedOut[n]
        BY <1>7, <2>2
      <4>2. dbStoppedOut'[n] # None
        BY <1>5, <3>1, <3>2, <4>1
      <4> QED BY <3>1, <4>2 DEF StopOutFirst
    <3>3. CASE w.table = "stopped_out" /\ w.netuid = n
      <4>1. dbStoppedOut'[n] # None
        BY <1>5, <1>7, <2>2, <3>1, <3>3
      <4> QED BY <3>1, <4>1 DEF StopOutFirst
    <3>4. ASSUME NEW j \in 1..i, j # 1, writes[j].table = "stopped_out", writes[j].netuid = n
          PROVE  StopOutFirst(n, i)'
      <4>1. j \in 1..Len(writes) /\ j - 1 \in 1..i - 1
        BY <1>2, <2>1, <3>4
      <4>2. writes'[j - 1] = writes[j]
        BY <1>2, <3>4, <4>1
      <4>3. \E m \in 1..i - 1 : writes'[m].table = "stopped_out" /\ writes'[m].netuid = n
        BY <3>4, <4>1, <4>2
      <4> QED BY <3>1, <4>3 DEF StopOutFirst
    <3> QED
      <4>1. (i + 1) - 1 = i
        BY <2>1
      <4> QED BY <2>5, <3>2, <3>3, <3>4, <4>1 DEF StopOutFirst, w
  <2>6. n = writes'[i].netuid /\ v = writes'[i].value
    BY <2>1, <2>2
  <2>7. StopOutFirst(n, i)' => StopOutFirst(writes[i].netuid, i)'
    BY <2>6 DEF StopOutFirst
  <2> QED BY <1>5, <2>3, <2>4, <2>5, <2>6, <2>7
<1>11. SharedInv'
  <2>1. step # "initial"
    BY <1>3 DEF Restored
  <2> QED BY <1>5, <2>1 DEF IInv, SharedInv
<1> QED BY <1>8, <1>9, <1>10, <1>11 DEF IInv

-----------------------------------------------------------------------------
(* The steps that queue no call.                                           *)

LEMMA CycleStep == IInv /\ (InitialCycle \/ TickCycle) => IInv'
<1> SUFFICES ASSUME IInv, InitialCycle \/ TickCycle PROVE IInv'
  OBVIOUS
<1>1. Cycle /\ TypeOK
  BY DEF InitialCycle, TickCycle, IInv
<1>2. held' \in SUBSET Netuid /\ targets' \in SUBSET Netuid /\ targetsBlock' \in 0..height
  BY <1>1, CycleType
<1>3. /\ writes' = writes /\ stopLosses' = stopLosses /\ stoppedOut' = stoppedOut
      /\ dbStopLosses' = dbStopLosses /\ dbStoppedOut' = dbStoppedOut
  BY <1>1 DEF Cycle, memVars, dbVars
<1>4. writes = <<>> /\ step' \in {"starting", "postStakes"} /\ (Restored <=> Restored')
  BY DEF InitialCycle, TickCycle, Await, Restored, IInv, SyncInv
<1>5. TypeOK'
  BY <1>1, <1>2, <1>4 DEF Cycle, TypeOK, Steps, chainVars, tickVars, memVars, dbVars
<1>6. SyncInv'
  BY <1>3, <1>4 DEF IInv, SyncInv, StopWritten, StopOutWritten, Remembered
<1>7. OrderInv' /\ SharedInv'
  BY <1>3, <1>4 DEF OrderInv, SharedInv
<1> QED BY <1>5, <1>6, <1>7 DEF IInv

LEMMA RestartStep == IInv /\ (Boot \/ StartRunner \/ Crash) => IInv'
<1> SUFFICES ASSUME IInv, Boot \/ StartRunner \/ Crash PROVE IInv'
  OBVIOUS
<1> USE DEF chainVars, memVars, dbVars, tickVars, cycleVars
<1>1. NoMarks \in Marks /\ NoRecords \in Records
  BY DEF NoMarks, NoRecords, Marks, Records
<1>2. CASE Boot
  <2>1. TypeOK'
    BY <1>2 DEF Boot, IInv, TypeOK, Steps
  <2>2. writes = <<>> /\ writes' = <<>>
    BY <1>2 DEF Boot, IInv, SyncInv, Restored
  <2>3. SyncInv' /\ OrderInv' /\ SharedInv'
    BY <1>2, <2>2 DEF Boot, SyncInv, Restored, OrderInv, SharedInv
  <2> QED BY <2>1, <2>3 DEF IInv
<1>3. CASE StartRunner
  <2>1. TypeOK'
    BY <1>3 DEF StartRunner, IInv, TypeOK, Steps
  <2>2. writes = <<>> /\ writes' = <<>>
    BY <1>3 DEF StartRunner, IInv, SyncInv, Restored
  <2>3. SyncInv' /\ OrderInv' /\ SharedInv'
    BY <1>3, <2>2 DEF StartRunner, SyncInv, Restored, OrderInv, SharedInv, StopWritten,
                      StopOutWritten
  <2> QED BY <2>1, <2>3 DEF IInv
<1>4. CASE Crash
  <2>1. TypeOK'
    BY <1>1, <1>4, Constants DEF Crash, IInv, TypeOK, Steps
  <2>2. SyncInv' /\ OrderInv' /\ SharedInv'
    BY <1>4 DEF Crash, SyncInv, Restored, OrderInv, SharedInv
  <2> QED BY <2>1, <2>2 DEF IInv
<1> QED BY <1>2, <1>3, <1>4

\* The chain moves, a tick begins or fails.
LEMMA OtherStep == IInv /\ (FinalizeBlock \/ Tick \/ TickFails \/ UNCHANGED vars) => IInv'
<1> SUFFICES ASSUME IInv, FinalizeBlock \/ Tick \/ TickFails \/ UNCHANGED vars PROVE IInv'
  OBVIOUS
<1> USE DEF chainVars, memVars, dbVars, tickVars, cycleVars
<1>1. /\ writes' = writes /\ stopLosses' = stopLosses /\ stoppedOut' = stoppedOut
      /\ dbStopLosses' = dbStopLosses /\ dbStoppedOut' = dbStoppedOut /\ held' = held
      /\ shared' = shared
      /\ step' = step \/ (step' \in {"fetch", "idle"} /\ Restored /\ Restored')
  BY DEF FinalizeBlock, Tick, TickFails, Await, Restored, vars
<1>2. TypeOK'
  <2>1. CASE FinalizeBlock
    BY <2>1, Constants DEF FinalizeBlock, IInv, TypeOK
  <2>2. CASE Tick
    BY <2>2 DEF Tick, Await, IInv, TypeOK, Steps
  <2>3. CASE TickFails
    <3>1. step' = "idle" /\ UNCHANGED <<chainVars, writes, tickVars, memVars, dbVars, shared,
                                        cycleVars, crashes>>
      BY <2>3 DEF TickFails
    <3> QED BY <3>1 DEF IInv, TypeOK, Steps
  <2>4. CASE UNCHANGED vars
    BY <2>4 DEF vars, IInv, TypeOK
  <2> QED BY <2>1, <2>2, <2>3, <2>4
<1>3. SyncInv'
  BY <1>1 DEF IInv, SyncInv, Restored, StopWritten, StopOutWritten, Remembered
<1>4. OrderInv' /\ SharedInv'
  BY <1>1 DEF IInv, OrderInv, SharedInv, StopOutFirst
<1> QED BY <1>2, <1>3, <1>4 DEF IInv

LEMMA Step == IInv /\ [Next]_vars => IInv'
BY WriteNextStep, SubnetsFetchedStep, UpdateStopLossesStep, PostStakesFetchedStep,
   PostSubnetsFetchedStep, CycleStep, RestartStep, OtherStep DEF Next

LEMMA Always == Spec => []IInv
<1> QED BY InitIInv, Step, PTL DEF Spec

-----------------------------------------------------------------------------
(* The theorems.                                                           *)

\* Between turns the tables hold exactly what the strategy remembers, whichever request of
\* a tick failed and wherever the process died before (runner.ts, the persistence calls).
THEOREM TablesHoldTheMemory == Spec => []MemoryPersisted
<1>1. IInv => MemoryPersisted
  <2> SUFFICES ASSUME IInv, Restored, writes = <<>>
               PROVE  dbStopLosses = stopLosses /\ dbStoppedOut = stoppedOut
    BY DEF MemoryPersisted, IInv, Restored
  <2>1. \A n \in Netuid : dbStopLosses[n] = stopLosses[n] /\ dbStoppedOut[n] = stoppedOut[n]
    BY Settled
  <2> QED BY <2>1 DEF IInv, TypeOK, Marks, Records
<1> QED BY <1>1, Always, PTL

\* What a step does to the stop of a subnet in its table.
LEMMA TableStep ==
  ASSUME IInv, [Next]_vars, NEW n \in Netuid, dbStopLosses'[n] # dbStopLosses[n]
  PROVE  /\ dbStopLosses'[n] = NoStop => n \notin held \/ dbStoppedOut[n] # None
         /\ dbStopLosses'[n] # NoStop => dbStopLosses[n] <= dbStopLosses'[n]
<1> USE DEF chainVars, memVars, dbVars, tickVars, cycleVars
<1>1. WriteNext
  BY DEF Next, FinalizeBlock, Boot, InitialCycle, StartRunner, Crash, Tick, SubnetsFetched,
         UpdateStopLosses, TickCycle, Cycle, PostStakesFetched, PostSubnetsFetched,
         TickFails, vars
<1> DEFINE w == writes[1]
<1>2. 1 \in 1..Len(writes) /\ w \in Write
  BY <1>1 DEF WriteNext, IInv, TypeOK
<1>3. w.table = "stop_losses" /\ dbStopLosses' = [dbStopLosses EXCEPT ![w.netuid] = w.value]
  BY <1>1, <1>2 DEF WriteNext, IInv, TypeOK
<1>4. n = w.netuid /\ dbStopLosses'[n] = w.value
  BY <1>3 DEF IInv, TypeOK, Marks
<1>5. /\ w.value = NoStop => n \notin held \/ StopOutFirst(n, 1)
      /\ w.value # NoStop => dbStopLosses[n] <= w.value
  BY <1>2, <1>3, <1>4 DEF IInv, OrderInv
<1>6. StopOutFirst(n, 1) => dbStoppedOut[n] # None
  BY DEF StopOutFirst
<1> QED BY <1>4, <1>5, <1>6

\* No crash can lose both the stop and the cooldown of a subnet that is still held:
\* triggering a stop saves the stop-out before it deletes the stop (runner.ts, tick).
THEOREM StopOutBeforeForgetting == Spec => StopForgottenSafely
<1>1. IInv /\ [Next]_vars =>
        [\A n \in Netuid : dbStopLosses[n] # NoStop /\ dbStopLosses'[n] = NoStop =>
           n \notin held \/ dbStoppedOut[n] # None]_vars
  BY TableStep
<1> QED BY <1>1, Always, PTL DEF Spec, StopForgottenSafely

\* As long as a stop is in its table its mark never falls, through failed ticks, crashes
\* and restarts (runner.ts, updateStopLosses).
THEOREM MarksOnlyRise == Spec => StopsRatchet
<1>1. IInv /\ [Next]_vars =>
        [\A n \in Netuid : dbStopLosses[n] # NoStop /\ dbStopLosses'[n] # NoStop =>
           dbStopLosses'[n] >= dbStopLosses[n]]_vars
  <2> SUFFICES ASSUME IInv, [Next]_vars, NEW n \in Netuid, dbStopLosses'[n] # NoStop
               PROVE  dbStopLosses'[n] >= dbStopLosses[n]
    OBVIOUS
  <2>1. dbStopLosses[n] \in Int
    BY Numbers DEF IInv
  <2>2. CASE dbStopLosses'[n] = dbStopLosses[n]
    BY <2>1, <2>2
  <2>3. CASE dbStopLosses'[n] # dbStopLosses[n]
    BY <2>3, TableStep
  <2> QED BY <2>2, <2>3
<1> QED BY <1>1, Always, PTL DEF Spec, StopsRatchet

\* No cycle enters a subnet that the database says is cooling down, not even the cycle a
\* restart begins with (index.ts, isCoolingDown; scheduler.ts, preparePreview).
THEOREM RecordsBarTheWay == Spec => NoReentryOnRecord
<1>1. IInv /\ [Next]_vars =>
        [\A n \in targets' \ targets :
           dbStoppedOut[n] # None => targetsBlock' - dbStoppedOut[n] >= CooldownBlocks]_vars
  <2> SUFFICES ASSUME IInv, [Next]_vars, NEW n \in targets' \ targets, dbStoppedOut[n] # None
               PROVE  targetsBlock' - dbStoppedOut[n] >= CooldownBlocks
    OBVIOUS
  <2>1. InitialCycle \/ TickCycle
    BY DEF Next, FinalizeBlock, WriteNext, Boot, StartRunner, Crash, Tick, SubnetsFetched,
           UpdateStopLosses, PostStakesFetched, PostSubnetsFetched, TickFails, vars, cycleVars
  <2>2. n \in Netuid /\ ~CoolingDown(n) /\ targetsBlock' = BlockEstimate
    BY <2>1 DEF InitialCycle, TickCycle, Cycle
  <2>3. shared[n] = dbStoppedOut[n]
    <3>1. CASE InitialCycle
      BY <3>1 DEF InitialCycle, IInv, SharedInv
    <3>2. CASE TickCycle
      BY <3>2, <2>2, Settled DEF TickCycle, Await, Restored, IInv, SharedInv
    <3> QED BY <2>1, <3>1, <3>2
  <2>4. dbStoppedOut[n] \in Int /\ BlockEstimate \in Int
    BY <2>2, Constants DEF IInv, TypeOK, Records, BlockEstimate, None
  <2> QED BY <2>2, <2>3, <2>4, Constants DEF CoolingDown
<1> QED BY <1>1, Always, PTL DEF Spec, NoReentryOnRecord
=============================================================================
