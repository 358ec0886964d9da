--------------------------- MODULE HistoryProofs ---------------------------
(***************************************************************************)
(* The history database is whole in every reachable state, a backfill that *)
(* completes leaves no gap but what it reports, and computed prices are    *)
(* where they are for a reason: for every grid, every set of subnets, any  *)
(* size of a batch and any number of failures and deaths.                  *)
(***************************************************************************)
EXTENDS History, FiniteSetTheorems, SequenceTheorems, WellFoundedInduction, TLAPS

\* What one transaction writes: a block that was not there with its subnets, or a
\* cycle with a new number and its trades.
BlockRows(n, source) == {BlockRow(n)} \cup SnapshotRows(n, n, n, source)
CycleRows(id, ops) == {CycleRow(id, ops)} \cup TradeRows(id, ops)

NewBlock(S) ==
  \E n : \E source \in {"api", "storage"} :
    n \notin Recorded /\ IsDbHistoryBlock(n) /\ S = BlockRows(n, source)

NewCycle(S) ==
  \E ops \in Nat :
    (\A r \in Rows("cycles") : r.id # cycles) /\ S = CycleRows(cycles, ops)

Sources == {"none", "api", "storage"}
Steps == {"reading", "asking", "storage", "done", "failed", "recorded"}

\* A set that holds the rows of one transaction and a whole rest is whole: rows of
\* another block, or another cycle, are not counted with them.
LEMMA AddBlock ==
  ASSUME NEW S, Whole(S), NEW n, NEW source \in {"api", "storage"}, IsDbHistoryBlock(n),
         \A r \in S : r.table = "blocks" => r.block # n
  PROVE  Whole(S \cup BlockRows(n, source))
<1> DEFINE T == S \cup BlockRows(n, source)
           SubnetsOf(U, m) == {q \in U : q.table = "subnet_snapshots" /\ q.block = m}
<1>1. \A q \in BlockRows(n, source) :
        \/ q = BlockRow(n)
        \/ q.table = "subnet_snapshots" /\ q.block = n /\ q \in SnapshotRows(n, n, n, source)
  BY DEF BlockRows, SnapshotRows, BlockRow
<1>2. BlockRow(n).table = "blocks" /\ BlockRow(n).block = n
  BY DEF BlockRow
<1>3. \A q \in S : q.table = "subnet_snapshots" => q.block # n
  <2> SUFFICES ASSUME NEW q \in S, q.table = "subnet_snapshots", q.block = n PROVE FALSE
    OBVIOUS
  <2>1. BlockRow(n) \in S
    BY DEF Whole
  <2> QED BY <2>1, <1>2
<1>4. SubnetsOf(T, n) = SnapshotRows(n, n, n, source)
  BY <1>1, <1>2, <1>3 DEF BlockRows, SnapshotRows
<1>5. \A m : m # n => SubnetsOf(T, m) = SubnetsOf(S, m)
  BY <1>1, <1>2
<1> SUFFICES ASSUME NEW r \in T
             PROVE  /\ r.table = "blocks" =>
                         /\ IsDbHistoryBlock(r.block)
                         /\ \E s \in {"api", "storage"} :
                              SubnetsOf(T, r.block) = SnapshotRows(r.block, r.block, r.block, s)
                    /\ r.table = "subnet_snapshots" => BlockRow(r.block) \in T
                    /\ r.table = "cycles" =>
                         {q \in T : q.table = "trades" /\ q.cycle = r.id} = TradeRows(r.id, r.opsTotal)
                    /\ r.table = "trades" => \E q \in T : q.table = "cycles" /\ q.id = r.cycle
  BY DEF Whole
<1>6. CASE r \in S
  <2>1. r.table = "blocks" => r.block # n
    BY <1>6
  <2>2. {q \in T : q.table = "trades" /\ q.cycle = r.id} = {q \in S : q.table = "trades" /\ q.cycle = r.id}
    BY <1>1, <1>2
  <2> QED BY <1>5, <1>6, <2>1, <2>2 DEF Whole
<1>7. CASE r \in BlockRows(n, source)
  BY <1>1, <1>2, <1>4, <1>7 DEF BlockRows
<1> QED BY <1>6, <1>7

LEMMA AddCycle ==
  ASSUME NEW S, Whole(S), NEW id, NEW ops \in Nat,
         \A r \in S : r.table = "cycles" => r.id # id
  PROVE  Whole(S \cup CycleRows(id, ops))
<1> DEFINE T == S \cup CycleRows(id, ops)
           TradesOf(U, c) == {q \in U : q.table = "trades" /\ q.cycle = c}
           SubnetsOf(U, m) == {q \in U : q.table = "subnet_snapshots" /\ q.block = m}
<1>1. \A q \in CycleRows(id, ops) :
        \/ q = CycleRow(id, ops)
        \/ q.table = "trades" /\ q.cycle = id /\ q \in TradeRows(id, ops)
  BY DEF CycleRows, TradeRows, CycleRow
<1>2. /\ CycleRow(id, ops).table = "cycles" /\ CycleRow(id, ops).id = id
      /\ CycleRow(id, ops).opsTotal = ops
  BY DEF CycleRow
<1>3. \A q \in S : q.table = "trades" => q.cycle # id
  BY DEF Whole
<1>4. TradesOf(T, id) = TradeRows(id, ops)
  BY <1>1, <1>2, <1>3 DEF CycleRows, TradeRows
<1>5. \A c : c # id => TradesOf(T, c) = TradesOf(S, c)
  BY <1>1, <1>2
<1>6. \A m : SubnetsOf(T, m) = SubnetsOf(S, m)
  BY <1>1, <1>2
<1> SUFFICES ASSUME NEW r \in T
             PROVE  /\ r.table = "blocks" =>
                         /\ IsDbHistoryBlock(r.block)
                         /\ \E s \in {"api", "storage"} :
                              SubnetsOf(T, r.block) = SnapshotRows(r.block, r.block, r.block, s)
                    /\ r.table = "subnet_snapshots" => BlockRow(r.block) \in T
                    /\ r.table = "cycles" => TradesOf(T, r.id) = TradeRows(r.id, r.opsTotal)
                    /\ r.table = "trades" => \E q \in T : q.table = "cycles" /\ q.id = r.cycle
  BY DEF Whole
<1>7. CASE r \in S
  <2>1. r.table = "cycles" => r.id # id
    BY <1>7
  <2> QED BY <1>5, <1>6, <1>7, <2>1 DEF Whole
<1>8. CASE r \in CycleRows(id, ops)
  BY <1>1, <1>2, <1>4, <1>8 DEF CycleRows
<1> QED BY <1>7, <1>8

-----------------------------------------------------------------------------
(* The invariant: the rows written and those left of an open transaction   *)
(* are together what it is to write, and what a fetch has got is of its    *)
(* own block.                                                              *)

OpenTransaction ==
  IF writer = "none" THEN pending = {} /\ left = {}
  ELSE NewBlock(pending \cup left) \/ NewCycle(pending \cup left)

CyclesCounted == \A r \in Rows("cycles") : r.id \in Nat /\ r.id <= cycles

FetchOK ==
  /\ got \in [info : {NoAnswer, at}, price : {NoAnswer, at}]
  /\ \A n \in DOMAIN jobs :
       /\ jobs[n] \in [step : Steps, attempt : Nat, source : Sources]
       /\ jobs[n].step = "done" => jobs[n].source # "none"

CountersOK ==
  /\ head \in FirstHead..MaxHead /\ ticked \in FirstHead..head /\ at \in 0..head
  /\ cycles \in 0..MaxCycles
  /\ orphans \in Nat /\ next \in Nat
  /\ failures \in 0..MaxFailures /\ crashes \in 0..MaxCrashes

StatesOK ==
  /\ writer \in {"none", "bot", "backfill"}
  /\ bot \in {"idle", "fetching"}
  /\ script \in {"off", "batching", "fetching", "complete"}

FlagOK == runtimeApiAvailable \in BOOLEAN

IInv ==
  /\ CountersOK /\ StatesOK /\ FlagOK /\ FetchOK
  /\ OpenTransaction /\ CyclesCounted /\ Whole(db)

LEMMA InitIInv == Init => IInv
<1> SUFFICES ASSUME Init PROVE IInv
  OBVIOUS
<1>1. FlagOK
  BY Zenon DEF Init, FlagOK
<1>2. CountersOK /\ StatesOK
  BY HistoryAssumption DEF Init, CountersOK, StatesOK, HistoryAssumption
<1>3. FetchOK
  BY DEF Init, FetchOK, NoAnswers, Sources, Steps
<1>4. OpenTransaction /\ CyclesCounted /\ Whole(db)
  BY DEF Init, OpenTransaction, CyclesCounted, Rows, Whole
<1> QED BY <1>1, <1>2, <1>3, <1>4 DEF IInv

\* The flag stays a flag.
LEMMA FlagStep == FlagOK /\ [Next]_vars => FlagOK'
<1> SUFFICES ASSUME FlagOK, [Next]_vars PROVE FlagOK'
  OBVIOUS
<1> USE DEF FlagOK, scriptVars
<1>1. CASE FinalizeBlock \/ Insert \/ Commit \/ BotDies
  BY <1>1, Zenon DEF FinalizeBlock, Insert, Commit, BotDies
<1>2. CASE BotStep
  BY <1>2, Zenon DEF BotStep, Tick, Answer, RecordSnapshot, TickFails, RecordCycle
<1>3. ASSUME NEW n \in DOMAIN jobs, Fetch(n) PROVE FlagOK'
  BY <1>3, Zenon DEF Fetch, AskPrices, PricesFromApi, ApiUnavailable, PricesFromStorage
<1>4. CASE BeginBatch
  BY <1>4, Zenon DEF BeginBatch
<1>5. CASE Run \/ RecordResult \/ EndBatch \/ Complete
  BY <1>5, Zenon DEF Run, RecordResult, EndBatch, Complete
<1>6. ASSUME NEW n \in DOMAIN jobs, NEW timeout \in BOOLEAN, AttemptFails(n, timeout)
      PROVE FlagOK'
  BY <1>6, Zenon DEF AttemptFails
<1>7. CASE OrphanFails \/ Abort \/ ScriptDies
  BY <1>7, Zenon DEF OrphanFails, Abort, ScriptDies, ScriptOff
<1>8. CASE UNCHANGED vars
  BY <1>8, Zenon DEF vars
<1> QED
  BY <1>1, <1>2, <1>3, <1>4, <1>5, <1>6, <1>7, <1>8, Zenon DEF Next, ScriptStep

\* No job is no fetch.
LEMMA NoJobs == ASSUME FetchOK, jobs' = <<>>, UNCHANGED <<at, got>> PROVE FetchOK'
BY DEF FetchOK

\* Types are preserved, and so is what the fetches have got.
LEMMA TypeStep ==
  IInv /\ [Next]_vars => CountersOK' /\ StatesOK' /\ FetchOK'
<1> SUFFICES ASSUME IInv, [Next]_vars PROVE CountersOK' /\ StatesOK' /\ FetchOK'
  OBVIOUS
<1> USE HistoryAssumption
    DEF IInv, CountersOK, StatesOK, FetchOK, HistoryAssumption, txnVars, botVars, scriptVars,
        NoAnswer, NoAnswers, BotIdle, Sources, Steps
<1>1. CASE FinalizeBlock
  BY <1>1 DEF FinalizeBlock
<1>2. CASE Insert
  BY <1>2 DEF Insert
<1>3. CASE Commit
  BY <1>3 DEF Commit
<1>4. CASE Tick
  BY <1>4 DEF Tick
<1>5. ASSUME NEW query \in {"info", "price"}, Answer(query)
      PROVE CountersOK' /\ StatesOK' /\ FetchOK'
  BY <1>5 DEF Answer
<1>6. CASE RecordSnapshot
  BY <1>6 DEF RecordSnapshot, BeginSnapshot, Begin
<1>7. CASE TickFails
  BY <1>7 DEF TickFails
<1>8. ASSUME NEW ops \in 0..MaxTrades, RecordCycle(ops)
      PROVE CountersOK' /\ StatesOK' /\ FetchOK'
  BY <1>8 DEF RecordCycle, Begin
<1>9. CASE BotDies
  BY <1>9 DEF BotDies, Rollback
<1>10. CASE Run
  BY <1>10 DEF Run
<1>11. CASE BeginBatch
  BY <1>11 DEF BeginBatch, NewJob
<1>12. ASSUME NEW n \in DOMAIN jobs, Fetch(n)
       PROVE CountersOK' /\ StatesOK' /\ FetchOK'
  <2>1. CASE AskPrices(n)
    BY <2>1 DEF AskPrices, Step
  <2>2. CASE PricesFromApi(n)
    BY <2>2 DEF PricesFromApi, Step
  <2>3. CASE ApiUnavailable(n)
    BY <2>3 DEF ApiUnavailable, Step
  <2>4. CASE PricesFromStorage(n)
    BY <2>4 DEF PricesFromStorage, Step
  <2> QED BY <1>12, <2>1, <2>2, <2>3, <2>4 DEF Fetch
<1>13. CASE RecordResult
  BY <1>13 DEF RecordResult, BeginSnapshot, Begin, Step
<1>14. CASE EndBatch
  <2>1. jobs' = <<>>
    BY <1>14 DEF EndBatch
  <2>2. FetchOK'
    <3>1. UNCHANGED <<at, got>>
      BY <1>14 DEF EndBatch
    <3> HIDE DEF FetchOK
    <3> QED BY <2>1, <3>1, NoJobs
  <2>3. next' \in Nat
    <3>1. Concurrency \in Nat /\ next \in Nat
      OBVIOUS
    <3>2. next' = next + Concurrency
      BY <1>14 DEF EndBatch
    <3> QED BY <3>1, <3>2
  <2>4. CountersOK'
    BY <1>14, <2>3 DEF EndBatch
  <2>5. StatesOK'
    BY <1>14 DEF EndBatch
  <2> QED BY <2>2, <2>4, <2>5
<1>15. CASE Complete
  BY <1>15 DEF Complete
<1>16. ASSUME NEW n \in DOMAIN jobs, NEW timeout \in BOOLEAN, AttemptFails(n, timeout)
       PROVE CountersOK' /\ StatesOK' /\ FetchOK'
  BY <1>16 DEF AttemptFails, NewJob, Step
<1>17. CASE OrphanFails
  BY <1>17 DEF OrphanFails
<1>18. CASE Abort
  BY <1>18 DEF Abort, ScriptOff
<1>19. CASE ScriptDies
  <2>1. jobs' = <<>>
    BY <1>19 DEF ScriptDies, ScriptOff
  <2>2. FetchOK'
    <3>1. UNCHANGED <<at, got>>
      BY <1>19 DEF ScriptDies
    <3> HIDE DEF FetchOK
    <3> QED BY <2>1, <3>1, NoJobs
  <2>3. next' \in Nat
    BY <1>19 DEF ScriptDies, ScriptOff
  <2>4. CountersOK'
    BY <1>19, <2>3 DEF ScriptDies, ScriptOff
  <2>5. StatesOK'
    BY <1>19 DEF ScriptDies, ScriptOff, Rollback
  <2> QED BY <2>2, <2>4, <2>5
<1>20. CASE UNCHANGED vars
  BY <1>20 DEF vars
<1> QED
  BY <1>1, <1>2, <1>3, <1>4, <1>5, <1>6, <1>7, <1>8, <1>9, <1>10, <1>11, <1>12, <1>13, <1>14,
     <1>15, <1>16, <1>17, <1>18, <1>19, <1>20 DEF Next, BotStep, ScriptStep

\* A process that may not write leaves the transaction alone, one that may opens it
\* with what it is to write.
LEMMA TransactionBegins ==
  ASSUME OpenTransaction, NEW p \in {"bot", "backfill"}, NEW n, NEW source \in {"api", "storage"},
         BeginSnapshot(p, n, SnapshotRows(n, n, n, source)),
         UNCHANGED <<db, cycles>>
  PROVE  OpenTransaction'
<1>1. CASE n \in Recorded \/ ~IsDbHistoryBlock(n)
  BY <1>1 DEF BeginSnapshot, txnVars, OpenTransaction, NewBlock, NewCycle, Recorded, Rows
<1>2. CASE ~(n \in Recorded \/ ~IsDbHistoryBlock(n))
  <2>1. /\ writer' = p
        /\ pending' \cup left' = BlockRows(n, source)
    BY <1>2 DEF BeginSnapshot, Begin, BlockRows
  <2>2. NewBlock(pending \cup left)'
    BY <1>2, <2>1 DEF NewBlock, Recorded, Rows
  <2> QED BY <2>1, <2>2 DEF OpenTransaction
<1> QED BY <1>1, <1>2

\* Every step keeps a transaction what it is to be, and a commit adds a whole one.
LEMMA DbStep ==
  IInv /\ [Next]_vars => OpenTransaction' /\ CyclesCounted' /\ Whole(db)'
<1> SUFFICES ASSUME IInv, [Next]_vars
             PROVE  OpenTransaction' /\ CyclesCounted' /\ Whole(db)'
  OBVIOUS
<1> USE DEF txnVars
<1>a. CountersOK /\ FetchOK /\ OpenTransaction /\ CyclesCounted /\ Whole(db)
  BY DEF IInv
<1>b. UNCHANGED <<db, cycles>> => CyclesCounted' /\ Whole(db)'
  BY <1>a DEF CyclesCounted, Rows, Whole
<1>c. UNCHANGED <<db, cycles, writer, pending, left>> => OpenTransaction'
  BY <1>a DEF OpenTransaction, NewBlock, NewCycle, Recorded, Rows
<1>d. UNCHANGED <<db, cycles>> /\ writer' = "none" /\ pending' = {} /\ left' = {}
        => OpenTransaction'
  BY DEF OpenTransaction
<1>1. CASE FinalizeBlock \/ Tick \/ TickFails \/ (\E query \in {"info", "price"} : Answer(query))
  BY <1>1, <1>b, <1>c DEF FinalizeBlock, Tick, TickFails, Answer
<1>2. CASE Insert
  <2>1. writer # "none" /\ pending' \cup left' = pending \cup left
    BY <1>2, <1>a DEF Insert, OpenTransaction
  <2>2. NewBlock(pending \cup left)' \/ NewCycle(pending \cup left)'
    BY <1>2, <1>a, <2>1 DEF Insert, OpenTransaction, NewBlock, NewCycle, Recorded, Rows
  <2>3. writer' # "none"
    BY <1>2, <2>1 DEF Insert
  <2> QED BY <1>2, <1>b, <2>2, <2>3 DEF Insert, OpenTransaction
<1>3. CASE Commit
  <2>1. db' = db \cup pending /\ cycles' = cycles /\ pending \cup left = pending
    BY <1>3 DEF Commit
  <2>2. OpenTransaction'
    BY <1>3 DEF Commit, OpenTransaction
  <2>3. CASE NewBlock(pending)
    <3>n. PICK n : \E source \in {"api", "storage"} :
            n \notin Recorded /\ IsDbHistoryBlock(n) /\ pending = BlockRows(n, source)
      BY <2>3 DEF NewBlock
    <3>1. PICK source \in {"api", "storage"} :
            n \notin Recorded /\ IsDbHistoryBlock(n) /\ pending = BlockRows(n, source)
      BY <3>n
    <3>2. \A r \in db : r.table = "blocks" => r.block # n
      BY <3>1 DEF Recorded, Rows
    <3>3. Whole(db)'
      <4>1. Whole(db \cup BlockRows(n, source))
        BY <1>a, <3>1, <3>2, AddBlock
      <4> QED BY <2>1, <3>1, <4>1 DEF Whole
    <3>4. \A r \in pending : r.table # "cycles"
      BY <3>1 DEF BlockRows, BlockRow, SnapshotRows
    <3> QED BY <1>a, <2>1, <2>2, <3>3, <3>4 DEF CyclesCounted, Rows
  <2>4. CASE NewCycle(pending)
    <3>1. PICK ops \in Nat :
            (\A r \in Rows("cycles") : r.id # cycles) /\ pending = CycleRows(cycles, ops)
      BY <2>4 DEF NewCycle
    <3>2. \A r \in db : r.table = "cycles" => r.id # cycles
      BY <3>1 DEF Rows
    <3>3. Whole(db)'
      <4>1. Whole(db \cup CycleRows(cycles, ops))
        BY <1>a, <3>2, AddCycle
      <4> QED BY <2>1, <3>1, <4>1 DEF Whole
    <3>4. \A r \in pending : r.table = "cycles" => r.id = cycles
      BY <3>1 DEF CycleRows, CycleRow, TradeRows
    <3> QED BY <1>a, <2>1, <2>2, <3>3, <3>4 DEF CyclesCounted, Rows, CountersOK
  <2> QED BY <1>3, <1>a, <2>1, <2>3, <2>4 DEF Commit, OpenTransaction
<1>4. CASE RecordSnapshot
  <2>1. got["info"] = at /\ got["price"] = at
    BY <1>4, <1>a DEF RecordSnapshot, FetchOK
  <2>2. OpenTransaction'
    BY <1>4, <1>a, <2>1, TransactionBegins DEF RecordSnapshot
  <2> QED BY <1>4, <1>b, <2>2 DEF RecordSnapshot
<1>5. ASSUME NEW ops \in 0..MaxTrades, RecordCycle(ops)
      PROVE  OpenTransaction' /\ CyclesCounted' /\ Whole(db)'
  <2>1. /\ db' = db /\ cycles' = cycles + 1 /\ writer' = "bot"
        /\ pending' \cup left' = CycleRows(cycles + 1, ops)
    BY <1>5 DEF RecordCycle, Begin, CycleRows
  <2>2. CyclesCounted'
    BY <1>a, <2>1 DEF CyclesCounted, Rows, CountersOK
  <2>3. Whole(db)'
    BY <1>a, <2>1 DEF Whole
  <2>4. \A r \in Rows("cycles")' : r.id # cycles'
    BY <1>a, <2>1 DEF CyclesCounted, Rows, CountersOK
  <2>5. NewCycle(pending \cup left)'
    BY <2>1, <2>4, HistoryAssumption DEF NewCycle, HistoryAssumption
  <2> QED BY <2>1, <2>2, <2>3, <2>5 DEF OpenTransaction
<1>6. CASE BotDies
  BY <1>6, <1>b, <1>c, <1>d DEF BotDies, Rollback
<1>7. ASSUME NEW n \in DOMAIN jobs, Fetch(n)
      PROVE  OpenTransaction' /\ CyclesCounted' /\ Whole(db)'
  BY <1>7, <1>b, <1>c DEF Fetch, AskPrices, PricesFromApi, ApiUnavailable, PricesFromStorage
<1>8. CASE Run \/ BeginBatch \/ EndBatch \/ Complete
  BY <1>8, <1>b, <1>c DEF Run, BeginBatch, EndBatch, Complete
<1>9. CASE RecordResult
  <2>1. PICK n \in Unrecorded : BeginSnapshot("backfill", n, SnapshotRows(n, n, n, jobs[n].source))
    BY <1>9 DEF RecordResult
  <2>2. jobs[n].source \in {"api", "storage"}
    BY <1>a, <2>1 DEF FetchOK, Unrecorded, Sources
  <2>3. OpenTransaction'
    BY <1>9, <1>a, <2>1, <2>2, TransactionBegins DEF RecordResult
  <2> QED BY <1>9, <1>b, <2>3 DEF RecordResult
<1>10. ASSUME NEW n \in DOMAIN jobs, NEW timeout \in BOOLEAN, AttemptFails(n, timeout)
       PROVE  OpenTransaction' /\ CyclesCounted' /\ Whole(db)'
  BY <1>10, <1>b, <1>c DEF AttemptFails
<1>11. CASE OrphanFails \/ Abort
  BY <1>11, <1>b, <1>c DEF OrphanFails, Abort
<1>12. CASE ScriptDies
  BY <1>12, <1>b, <1>c, <1>d DEF ScriptDies, Rollback
<1>13. CASE UNCHANGED vars
  BY <1>13, <1>b, <1>c DEF vars
<1> QED
  BY <1>1, <1>2, <1>3, <1>4, <1>5, <1>6, <1>7, <1>8, <1>9, <1>10, <1>11, <1>12, <1>13
  DEF Next, BotStep, ScriptStep

\* Whatever two processes write at once and wherever one of them dies, the database
\* is whole: the grid, the subnets, the bounds and the number of failures are
\* arbitrary.
THEOREM Wholeness == Spec => []DbWhole
<1>1. Init => IInv
  BY InitIInv
<1>2. IInv /\ [Next]_vars => IInv'
  BY FlagStep, TypeStep, DbStep DEF IInv
<1>3. IInv => DbWhole
  <2> SUFFICES ASSUME IInv PROVE DbWhole
    OBVIOUS
  <2>1. runtimeApiAvailable \in BOOLEAN
    BY Zenon DEF IInv, FlagOK
  <2>2. TypeOK
    BY <2>1 DEF IInv, CountersOK, StatesOK, OpenTransaction, TypeOK
  <2> QED BY <2>2 DEF IInv, DbWhole
<1> QED
  BY <1>1, <1>2, <1>3, PTL DEF Spec

-----------------------------------------------------------------------------
(* Lists in ascending order.                                               *)

\* A set of naturals has a least member, and induction follows.
LEMMA Least ==
  ASSUME NEW S \in SUBSET Nat, S # {}
  PROVE  \E m \in S : \A n \in S : m <= n
<1> DEFINE R == OpToRel(<, Nat)
<1>1. IsWellFoundedOn(R, Nat)
  BY NatLessThanWellFounded
<1>2. ASSUME NEW m \in Nat, NEW n \in Nat, m < n PROVE <<m, n>> \in R
  BY <1>2 DEF OpToRel
<1> HIDE DEF R
<1>3. PICK m \in S : \A n \in S : ~(<<n, m>> \in R)
  BY <1>1, WFMin
<1>4. \A n \in S : ~(n < m)
  BY <1>2, <1>3
<1>5. \A n \in S : m <= n
  BY <1>4
<1> QED BY <1>5

LEMMA Induction ==
  ASSUME NEW S, 0 \in S, \A n \in Nat : n \in S => n + 1 \in S
  PROVE  Nat \subseteq S
<1> SUFFICES ASSUME Nat \ S # {} PROVE FALSE
  OBVIOUS
<1>1. PICK m \in Nat \ S : \A n \in Nat \ S : m <= n
  <2>1. Nat \ S \in SUBSET Nat
    OBVIOUS
  <2> QED BY <2>1, Least
<1>2. m # 0
  OBVIOUS
<1>3. m - 1 \in S /\ m - 1 \in Nat
  BY <1>1, <1>2
<1> QED BY <1>3

Rising(s) == \A i, j \in DOMAIN s : i < j => s[i] < s[j]

LEMMA AscendingExists ==
  ASSUME NEW S \in SUBSET Nat, IsFiniteSet(S)
  PROVE  \E s \in [1..Cardinality(S) -> S] : Rising(s)
<1> DEFINE Ordered(T, k) == IsFiniteSet(T) /\ Cardinality(T) = k =>
                              \E s \in [1..k -> T] : Rising(s)
           G == {k \in Nat : \A T \in SUBSET Nat : Ordered(T, k)}
<1>1. 0 \in G
  <2> SUFFICES ASSUME NEW T \in SUBSET Nat PROVE \E s \in [1..0 -> T] : Rising(s)
    OBVIOUS
  <2>1. [i \in 1..0 |-> 0] \in [1..0 -> T]
    OBVIOUS
  <2>2. Rising([i \in 1..0 |-> 0])
    BY DEF Rising
  <2> QED BY <2>1, <2>2
<1>2. ASSUME NEW k \in Nat, k \in G PROVE k + 1 \in G
  <2> SUFFICES ASSUME NEW T \in SUBSET Nat, IsFiniteSet(T), Cardinality(T) = k + 1
               PROVE  \E s \in [1..k + 1 -> T] : Rising(s)
    OBVIOUS
  <2>1. T # {}
    BY FS_EmptySet
  <2>2. PICK m \in T : \A n \in T : m <= n
    BY <2>1, Least
  <2> DEFINE U == T \ {m}
  <2>3. U \in SUBSET Nat /\ IsFiniteSet(U) /\ Cardinality(U) = k
    <3>1. IsFiniteSet(U) /\ Cardinality(U) = Cardinality(T) - 1
      BY FS_RemoveElement, Zenon
    <3>2. Cardinality(T) - 1 = k
      OBVIOUS
    <3> QED BY <3>1, <3>2
  <2>4. PICK s \in [1..k -> U] : Rising(s)
    <3> HIDE DEF U
    <3>1. Ordered(U, k)
      BY <1>2, <2>3
    <3> QED BY <2>3, <3>1
  <2> DEFINE r == [i \in 1..k + 1 |-> IF i = 1 THEN m ELSE s[i - 1]]
  <2>5. \A i \in 1..k + 1 : i # 1 => i - 1 \in 1..k /\ s[i - 1] \in U
    OBVIOUS
  <2>6. r \in [1..k + 1 -> T]
    BY <2>5
  <2>7. ASSUME NEW i \in 1..k + 1, NEW j \in 1..k + 1, i < j PROVE r[i] < r[j]
    <3>1. j # 1 /\ r[j] = s[j - 1] /\ j - 1 \in 1..k /\ s[j - 1] \in U
      BY <2>5, <2>7
    <3>2. CASE i = 1
      <4>1. m \in Nat /\ s[j - 1] \in Nat /\ m <= s[j - 1] /\ m # s[j - 1]
        BY <2>2, <3>1
      <4> QED BY <3>1, <3>2, <4>1
    <3>3. CASE i # 1
      <4>1. i - 1 \in 1..k /\ i - 1 < j - 1 /\ r[i] = s[i - 1]
        BY <2>5, <2>7, <3>3
      <4> QED BY <2>4, <3>1, <4>1 DEF Rising
    <3> QED BY <3>2, <3>3
  <2> HIDE DEF r
  <2>8. Rising(r)
    BY <2>6, <2>7 DEF Rising
  <2> QED BY <2>6, <2>8
<1>3. Nat \subseteq G
  <2> HIDE DEF G
  <2> QED BY <1>1, <1>2, Induction
<1>4. Cardinality(S) \in Nat
  BY FS_CardinalityType
<1> QED BY <1>3, <1>4

\* Ascending(S) lists S from its least member to its greatest.
LEMMA AscendingLists ==
  ASSUME NEW S \in SUBSET Nat, IsFiniteSet(S)
  PROVE  /\ Ascending(S) \in Seq(S)
         /\ \A i, j \in 1..Len(Ascending(S)) : i < j => Ascending(S)[i] < Ascending(S)[j]
         /\ \A n \in S : \E i \in 1..Len(Ascending(S)) : Ascending(S)[i] = n
<1> DEFINE k == Cardinality(S)
           s == Ascending(S)
<1>1. k \in Nat
  BY FS_CardinalityType
<1>2. s \in [1..k -> S] /\ Rising(s)
  BY AscendingExists DEF Ascending, Rising
<1> HIDE DEF s
<1>3. s \in Seq(S) /\ Len(s) = k /\ DOMAIN s = 1..k
  BY <1>1, <1>2
<1>4. \A i, j \in 1..k : i < j => s[i] < s[j]
  BY <1>2, <1>3 DEF Rising
<1>5. \A i, j \in 1..k : s[i] = s[j] => i = j
  <2>1. \A i \in 1..k : s[i] \in Nat
    BY <1>2
  <2>2. \A i, j \in 1..k : i < j \/ j < i \/ i = j
    BY <1>1
  <2> QED BY <1>4, <2>1, <2>2
<1>6. s \in Injection(1..k, S)
  BY <1>2, <1>5 DEF Injection, IsInjective
<1>7. Cardinality(1..k) = k
  BY <1>1, FS_Interval
<1>8. s \in Surjection(1..k, S)
  BY <1>6, <1>7, FS_Injection
<1>9. \A n \in S : \E i \in 1..k : s[i] = n
  BY <1>8 DEF Surjection
<1> QED BY <1>3, <1>4, <1>9 DEF s

-----------------------------------------------------------------------------
(* The gaps a completed run of the script leaves.                          *)

Listed == {missing[i] : i \in 1..Len(missing)}

\* The block is in the database or about to be.
Written(n) ==
  n \in Recorded \/ (writer = "backfill" /\ BlockRow(n) \in pending \cup left)

\* What was not recorded when the run began, from the oldest block to the newest.
MissingOK ==
  /\ missing \in Seq(Nat)
  /\ \A i \in 1..Len(missing) : IsDbHistoryBlock(missing[i])
  /\ \A i, j \in 1..Len(missing) : i < j => missing[i] < missing[j]
  /\ script # "off" => Len(missing) > 0
  /\ Len(missing) > 0 => BackfillRange(missing[Len(missing)]) \subseteq Recorded \cup Listed

JobsOK ==
  /\ script = "fetching" => DOMAIN jobs = Batch
  /\ script # "fetching" => DOMAIN jobs = {} /\ writer # "backfill"
  /\ \A n \in DOMAIN jobs :
       /\ jobs[n].attempt \in 1..MaxRetries
       /\ jobs[n].step = "failed" => jobs[n].attempt = MaxRetries
       /\ jobs[n].step = "recorded" => Written(n)

\* The batches that are over left each block recorded or skipped.
DoneOK ==
  /\ script \in {"batching", "fetching"} =>
       \A i \in 1..Len(missing) : i <= next => missing[i] \in Recorded \cup skipped
  /\ script = "complete" => \A i \in 1..Len(missing) : missing[i] \in Recorded \cup skipped

\* The attempts that failed, each of its own request.
FailuresOf(n) == IF jobs[n].step = "failed" THEN jobs[n].attempt ELSE jobs[n].attempt - 1

FailedAttempts ==
  {a \in (skipped \cup DOMAIN jobs) \X (1..MaxRetries) :
     a[1] \in skipped \/ a[2] <= FailuresOf(a[1])}

CountOK == IsFiniteSet(FailedAttempts) /\ Cardinality(FailedAttempts) <= failures

Gaps == MissingOK /\ JobsOK /\ DoneOK /\ CountOK

\* The snapshots whose prices were computed, on record or about to be.
Computed ==
  {r \in db \cup pending \cup left : r.table = "subnet_snapshots" /\ r.source = "storage"}

BotAsks ==
  writer = "bot" => \A r \in pending \cup left : r.table = "subnet_snapshots" => r.source = "api"

\* The chain, the bot and the database's own steps.
Elsewhere == FinalizeBlock \/ Insert \/ Commit \/ BotStep \/ BotDies \/ UNCHANGED vars

LEMMA ElsewhereKeeps ==
  ASSUME IInv, Elsewhere
  PROVE  /\ UNCHANGED scriptVars
         /\ failures <= failures'
         /\ db \subseteq db'
         /\ writer' = "backfill" => writer = "backfill"
         /\ \A n : Written(n) => Written(n)'
         /\ Computed' \subseteq Computed
         /\ BotAsks => BotAsks'
<1> DEFINE Goal == /\ UNCHANGED scriptVars
                   /\ failures <= failures'
                   /\ db \subseteq db'
                   /\ writer' = "backfill" => writer = "backfill"
                   /\ \A n : Written(n) => Written(n)'
                   /\ Computed' \subseteq Computed
                   /\ BotAsks => BotAsks'
<1> SUFFICES Goal
  OBVIOUS
<1>1. failures \in Nat
  BY HistoryAssumption DEF IInv, CountersOK, HistoryAssumption
<1>2. ASSUME UNCHANGED scriptVars, failures' \in {failures, failures + 1}, UNCHANGED <<db, txnVars>>
      PROVE  Goal
  BY <1>1, <1>2 DEF Written, Recorded, Rows, Computed, BotAsks, txnVars
<1>3. CASE FinalizeBlock \/ Tick \/ TickFails \/ UNCHANGED vars
          \/ \E query \in {"info", "price"} : Answer(query)
  BY <1>2, <1>3 DEF FinalizeBlock, Tick, TickFails, Answer, vars
<1>4. CASE Insert
  <2>1. pending' \cup left' = pending \cup left /\ UNCHANGED <<db, writer, scriptVars, failures>>
    BY <1>4 DEF Insert
  <2>2. db' \cup pending' \cup left' = db \cup pending \cup left
    BY <2>1
  <2>3. Computed' = Computed
    BY <2>2 DEF Computed
  <2> QED BY <1>1, <2>1, <2>3 DEF Written, Recorded, Rows, BotAsks
<1>5. CASE Commit
  <2>1. /\ db' = db \cup pending /\ left = {} /\ pending' = {} /\ left' = {} /\ writer' = "none"
        /\ UNCHANGED <<scriptVars, failures>>
    BY <1>5 DEF Commit
  <2>2. db' \cup pending' \cup left' = db \cup pending \cup left
    BY <2>1
  <2>3. Computed' = Computed
    BY <2>2 DEF Computed
  <2>4. ASSUME NEW n, Written(n) PROVE Written(n)'
    <3>1. CASE n \in Recorded
      BY <2>1, <3>1 DEF Written, Recorded, Rows
    <3>2. CASE BlockRow(n) \in pending \cup left
      <4>1. BlockRow(n) \in db' /\ BlockRow(n).table = "blocks" /\ BlockRow(n).block = n
        BY <2>1, <3>2 DEF BlockRow
      <4> QED BY <4>1 DEF Written, Recorded, Rows
    <3> QED BY <2>4, <3>1, <3>2 DEF Written
  <2> QED BY <1>1, <2>1, <2>3, <2>4 DEF BotAsks
<1>6. ASSUME UNCHANGED <<scriptVars, failures, db>>, writer = "none", writer' = "bot",
             NEW S, pending' \cup left' = S,
             \A r \in S : r.table = "subnet_snapshots" => r.source = "api"
      PROVE  Goal
  <2>1. Computed' \subseteq Computed
    BY <1>6 DEF Computed
  <2> QED BY <1>1, <1>6, <2>1 DEF Written, Recorded, Rows, BotAsks
<1>7. CASE RecordSnapshot
  <2> DEFINE new == SnapshotRows(at, got["info"], got["price"], "api")
  <2>1. UNCHANGED <<scriptVars, failures, db>> /\ BeginSnapshot("bot", at, new)
    BY <1>7 DEF RecordSnapshot
  <2>2. CASE UNCHANGED txnVars
    BY <1>2, <2>1, <2>2
  <2>3. CASE Begin("bot", BlockRow(at), new)
    <3>1. \A r \in {BlockRow(at)} \cup new : r.table = "subnet_snapshots" => r.source = "api"
      BY DEF BlockRow, SnapshotRows
    <3>2. writer = "none" /\ writer' = "bot" /\ pending' \cup left' = {BlockRow(at)} \cup new
      BY <2>3 DEF Begin
    <3> QED BY <1>6, <2>1, <3>1, <3>2
  <2> QED BY <2>1, <2>2, <2>3 DEF BeginSnapshot
<1>8. ASSUME NEW ops \in 0..MaxTrades, RecordCycle(ops) PROVE Goal
  <2> DEFINE row == CycleRow(cycles + 1, ops)
             new == TradeRows(cycles + 1, ops)
  <2>1. UNCHANGED <<scriptVars, failures, db>> /\ Begin("bot", row, new)
    BY <1>8 DEF RecordCycle
  <2>2. \A r \in {row} \cup new : r.table = "subnet_snapshots" => r.source = "api"
    BY DEF CycleRow, TradeRows
  <2>3. writer = "none" /\ writer' = "bot" /\ pending' \cup left' = {row} \cup new
    BY <2>1 DEF Begin
  <2> QED BY <1>6, <2>1, <2>2, <2>3
<1>9. CASE BotDies
  <2>1. UNCHANGED <<scriptVars, failures, db>> /\ Rollback("bot")
    BY <1>9 DEF BotDies
  <2>2. CASE UNCHANGED txnVars
    BY <1>2, <2>1, <2>2
  <2>3. CASE writer = "bot" /\ writer' = "none" /\ pending' = {} /\ left' = {}
    BY <1>1, <2>1, <2>3 DEF Written, Recorded, Rows, Computed, BotAsks
  <2> QED BY <2>1, <2>2, <2>3 DEF Rollback
<1> HIDE DEF Goal
<1> QED BY <1>3, <1>4, <1>5, <1>7, <1>8, <1>9 DEF Elsewhere, BotStep

\* A job goes on: its request is sent, answered, or its result recorded.
LEMMA FetchKeeps ==
  ASSUME IInv, NEW n \in DOMAIN jobs, Fetch(n)
  PROVE  /\ UNCHANGED <<db, txnVars, script, missing, next, skipped, orphans>>
         /\ script = "fetching" /\ failures <= failures'
         /\ DOMAIN jobs' = DOMAIN jobs
         /\ \A m \in DOMAIN jobs :
              /\ jobs'[m].attempt = jobs[m].attempt
              /\ jobs'[m].step = "failed" <=> jobs[m].step = "failed"
              /\ jobs'[m].step = "recorded" => jobs[m].step = "recorded"
<1>1. failures \in Nat
  BY HistoryAssumption DEF IInv, CountersOK, HistoryAssumption
<1>2. UNCHANGED <<db, txnVars, script, missing, next, skipped, orphans>> /\ script = "fetching"
  BY DEF Fetch, AskPrices, PricesFromApi, ApiUnavailable, PricesFromStorage
<1>3. failures <= failures'
  BY <1>1 DEF Fetch, AskPrices, PricesFromApi, ApiUnavailable, PricesFromStorage
<1>4. PICK step \in {"asking", "storage", "done"}, source \in Sources : Step(n, step, source)
  <2>1. CASE AskPrices(n)
    <3>1. CASE runtimeApiAvailable
      BY <2>1, <3>1 DEF AskPrices, Sources
    <3>2. CASE ~runtimeApiAvailable
      BY <2>1, <3>2 DEF AskPrices, Sources
    <3> QED BY <3>1, <3>2
  <2>2. CASE PricesFromApi(n) \/ ApiUnavailable(n) \/ PricesFromStorage(n)
    BY <2>2 DEF PricesFromApi, ApiUnavailable, PricesFromStorage, Sources
  <2> QED BY <2>1, <2>2 DEF Fetch
<1>5. jobs[n].step \in {"reading", "asking", "storage"}
  BY DEF Fetch, AskPrices, PricesFromApi, ApiUnavailable, PricesFromStorage
<1>6. jobs' = [jobs EXCEPT ![n] = [step |-> step, attempt |-> jobs[n].attempt, source |-> source]]
  BY <1>4 DEF Step
<1>7. DOMAIN jobs' = DOMAIN jobs
  BY <1>6
<1>8. \A m \in DOMAIN jobs :
        jobs'[m] = IF m = n THEN [step |-> step, attempt |-> jobs[n].attempt, source |-> source]
                   ELSE jobs[m]
  BY <1>6
<1>9. ASSUME NEW m \in DOMAIN jobs
      PROVE  /\ jobs'[m].attempt = jobs[m].attempt
             /\ jobs'[m].step = "failed" <=> jobs[m].step = "failed"
             /\ jobs'[m].step = "recorded" => jobs[m].step = "recorded"
  <2>1. CASE m = n
    <3>1. jobs'[m].attempt = jobs[m].attempt /\ jobs'[m].step = step
      BY <1>8, <2>1
    <3> QED BY <1>5, <2>1, <3>1
  <2>2. CASE m # n
    BY <1>8, <2>2
  <2> QED BY <2>1, <2>2
<1> QED BY <1>2, <1>3, <1>7, <1>9

LEMMA Bounds ==
  /\ Interval \in Nat \ {0} /\ Concurrency \in Nat \ {0} /\ MaxRetries \in Nat \ {0}
  /\ ResetEvery \in Nat \ {0} /\ Oldest \in Nat /\ FirstHead \in Nat
BY HistoryAssumption DEF HistoryAssumption

LEMMA Snapped ==
  ASSUME NEW n \in Nat
  PROVE  SnapToDbHistory(n) \in Nat
<1>1. n % Interval \in 0..n
  <2>1. n % Interval \in Nat /\ n % Interval <= n
    BY Bounds
  <2> QED BY <2>1
<1> QED BY <1>1 DEF SnapToDbHistory

LEMMA MissingKept ==
  ASSUME MissingOK, missing' = missing, db \subseteq db', script' # "off" => script # "off"
  PROVE  MissingOK'
<1>1. Recorded \subseteq Recorded' /\ Listed' = Listed
  BY DEF Recorded, Rows, Listed
<1>2. BackfillRange(missing[Len(missing)])' = BackfillRange(missing[Len(missing)])
  BY DEF BackfillRange
<1> QED BY <1>1, <1>2 DEF MissingOK

\* The grid up to the finalized block is finite.
LEMMA RangeFinite ==
  ASSUME IInv
  PROVE  LET to == SnapToDbHistory(head)
             S == BackfillRange(to) \ Recorded
         IN  /\ to \in Nat /\ SnapToDbHistory(Oldest) \in Nat
             /\ S \in SUBSET Nat /\ IsFiniteSet(S)
<1> DEFINE to == SnapToDbHistory(head)
           S == BackfillRange(to) \ Recorded
<1>1. to \in Nat /\ SnapToDbHistory(Oldest) \in Nat
  <2>1. head \in Nat
    BY HistoryAssumption DEF IInv, CountersOK, HistoryAssumption
  <2> QED BY <2>1, Bounds, Snapped
<1>2. S \in SUBSET Nat /\ S \in SUBSET (SnapToDbHistory(Oldest)..to)
  BY <1>1 DEF BackfillRange
<1>3. IsFiniteSet(S)
  <2>1. IsFiniteSet(SnapToDbHistory(Oldest)..to)
    BY <1>1, FS_Interval
  <2> QED BY <1>2, <2>1, FS_Subset
<1> QED BY <1>1, <1>2, <1>3

LEMMA MissingFound ==
  ASSUME IInv, Run
  PROVE  MissingOK'
<1> DEFINE to == SnapToDbHistory(head)
           S == BackfillRange(to) \ Recorded
<1>1. to \in Nat /\ SnapToDbHistory(Oldest) \in Nat
  BY RangeFinite
<1>2. S \in SUBSET Nat
  BY RangeFinite
<1>3. IsFiniteSet(S)
  BY RangeFinite
<1>4. missing' = Ascending(S) /\ missing' # <<>> /\ db' = db /\ script' = "batching"
  BY DEF Run, Missing
<1>5. \A n \in S : IsDbHistoryBlock(n) /\ n <= to
  BY <1>1 DEF BackfillRange
<1>6. \A n : n \in BackfillRange(to) => n \in Recorded \/ n \in S
  OBVIOUS
<1> HIDE DEF S
<1>7. /\ missing' \in Seq(S)
      /\ \A i, j \in 1..Len(missing') : i < j => missing'[i] < missing'[j]
      /\ \A n \in S : \E i \in 1..Len(missing') : missing'[i] = n
  BY <1>2, <1>3, <1>4, AscendingLists
<1>8. Len(missing') \in Nat \ {0} /\ missing' \in Seq(Nat)
      /\ \A i \in 1..Len(missing') : missing'[i] \in S
  <2>1. PICK s : s = missing'
    OBVIOUS
  <2>2. s \in Seq(S) /\ s # <<>> /\ S \subseteq Nat
    BY <1>2, <1>4, <1>7, <2>1
  <2>3. Len(s) \in Nat \ {0} /\ s \in Seq(Nat) /\ \A i \in 1..Len(s) : s[i] \in S
    <3>1. Len(s) # 0
      BY <2>2, EmptySeq
    <3>2. Len(s) \in Nat /\ \A i \in 1..Len(s) : s[i] \in S
      BY <2>2
    <3>3. s \in Seq(Nat)
      <4>1. s \in [1..Len(s) -> S] /\ Len(s) \in Nat
        BY <2>2, <3>2
      <4>2. s \in [1..Len(s) -> Nat]
        BY <2>2, <4>1
      <4> QED BY <4>1, <4>2
    <3> QED BY <3>1, <3>2, <3>3
  <2> QED BY <2>1, <2>3
<1> DEFINE newest == missing'[Len(missing')]
<1>9. newest \in S /\ newest \in Nat /\ newest <= to
  <2>1. Len(missing') \in 1..Len(missing')
    BY <1>8
  <2> QED BY <1>2, <1>5, <1>8, <2>1
<1> HIDE DEF newest, to
<1>10. Recorded' = Recorded
  BY <1>4 DEF Recorded, Rows
<1>11. \A n \in BackfillRange(newest) : n \in Recorded' \/ n \in Listed'
  <2>1. \A n \in BackfillRange(newest) : n \in BackfillRange(to)
    BY <1>1, <1>9 DEF BackfillRange
  <2> QED BY <1>6, <1>7, <1>10, <2>1 DEF Listed
<1>12. BackfillRange(missing[Len(missing)])' = BackfillRange(newest)
  BY DEF BackfillRange, newest
<1>13. \A i \in 1..Len(missing') : IsDbHistoryBlock(missing'[i])
  BY <1>5, <1>8
<1>14. BackfillRange(newest) \subseteq Recorded' \cup Listed'
  BY <1>11
<1>15. (\A i \in 1..Len(missing) : IsDbHistoryBlock(missing[i]))'
  BY <1>13 DEF IsDbHistoryBlock
<1> QED BY <1>7, <1>8, <1>12, <1>14, <1>15 DEF MissingOK

LEMMA FoundMissing ==
  ASSUME IInv, Run
  PROVE  \A i \in 1..Len(missing') : missing'[i] \notin Recorded
<1> DEFINE S == BackfillRange(SnapToDbHistory(head)) \ Recorded
<1>1. S \in SUBSET Nat /\ IsFiniteSet(S)
  BY RangeFinite
<1>2. missing' = Ascending(S)
  BY DEF Run, Missing
<1>3. missing' \in Seq(S)
  <2> HIDE DEF S
  <2> QED BY <1>1, <1>2, AscendingLists
<1> QED BY <1>3

\* The oldest result of a batch is handed to the database.
LEMMA RecordResultKeeps ==
  ASSUME IInv, MissingOK, JobsOK, RecordResult
  PROVE  /\ UNCHANGED <<db, script, missing, next, skipped, runtimeApiAvailable, orphans, failures>>
         /\ script = "fetching"
         /\ \A m : Written(m) => Written(m)'
         /\ DOMAIN jobs' = DOMAIN jobs
         /\ \E n \in DOMAIN jobs :
              /\ jobs[n].step = "done"
              /\ BeginSnapshot("backfill", n, SnapshotRows(n, n, n, jobs[n].source))
              /\ Written(n)'
              /\ jobs' = [jobs EXCEPT ![n] = [step |-> "recorded", attempt |-> jobs[n].attempt,
                                            source |-> jobs[n].source]]
<1>1. PICK n \in Unrecorded :
        /\ BeginSnapshot("backfill", n, SnapshotRows(n, n, n, jobs[n].source))
        /\ Step(n, "recorded", jobs[n].source)
  BY DEF RecordResult
<1>2. n \in DOMAIN jobs /\ jobs[n].step = "done"
  BY DEF Unrecorded
<1>3. script = "fetching" /\ writer # "backfill"
      /\ UNCHANGED <<db, script, missing, next, skipped, runtimeApiAvailable, orphans, failures>>
  BY DEF RecordResult
<1>4. IsDbHistoryBlock(n)
  <2>1. n \in Batch
    BY <1>2, <1>3 DEF JobsOK
  <2>2. PICK i \in next + 1 .. IF next + Concurrency < Len(missing)
                               THEN next + Concurrency ELSE Len(missing) : n = missing[i]
    BY <2>1 DEF Batch
  <2>3. i \in 1..Len(missing)
    <3>1. next \in Nat /\ Len(missing) \in Nat
      BY DEF IInv, CountersOK, MissingOK
    <3> QED BY <2>2, <3>1, Bounds
  <2> QED BY <2>2, <2>3 DEF MissingOK
<1>5. Recorded' = Recorded
  BY <1>3 DEF Recorded, Rows
<1>6. Written(n)'
  <2>1. CASE n \in Recorded
    BY <1>5, <2>1 DEF Written
  <2>2. CASE n \notin Recorded
    <3>1. writer' = "backfill" /\ pending' = {BlockRow(n)}
      BY <1>1, <1>4, <2>2 DEF BeginSnapshot, Begin
    <3> QED BY <3>1 DEF Written, BlockRow
  <2> QED BY <2>1, <2>2
<1>7. \A m : Written(m) => Written(m)'
  BY <1>3, <1>5 DEF Written
<1>8. jobs' = [jobs EXCEPT ![n] = [step |-> "recorded", attempt |-> jobs[n].attempt,
                                 source |-> jobs[n].source]]
  BY <1>1 DEF Step
<1> QED BY <1>1, <1>2, <1>3, <1>6, <1>7, <1>8

\* No attempt failed but those that had failed before.
LEMMA NoNewFailure ==
  ASSUME CountOK, failures \in Nat, failures' \in Nat, failures <= failures',
         \A n, k : n \in skipped' \cup DOMAIN jobs' /\ k \in 1..MaxRetries /\
                   (n \in skipped' \/ k <= FailuresOf(n)') =>
                     n \in skipped \/ (n \in DOMAIN jobs /\ k <= FailuresOf(n))
  PROVE  CountOK'
<1>1. FailedAttempts' \subseteq FailedAttempts
  <2> SUFFICES ASSUME NEW a \in FailedAttempts' PROVE a \in FailedAttempts
    OBVIOUS
  <2>1. /\ a[1] \in skipped' \cup DOMAIN jobs' /\ a[2] \in 1..MaxRetries /\ a = <<a[1], a[2]>>
        /\ a[1] \in skipped' \/ a[2] <= FailuresOf(a[1])'
    BY DEF FailedAttempts
  <2>2. a[1] \in skipped \/ (a[1] \in DOMAIN jobs /\ a[2] <= FailuresOf(a[1]))
    BY <2>1
  <2> QED BY <2>1, <2>2 DEF FailedAttempts
<1>2. IsFiniteSet(FailedAttempts') /\ Cardinality(FailedAttempts') <= Cardinality(FailedAttempts)
  BY <1>1, FS_Subset DEF CountOK
<1>3. Cardinality(FailedAttempts) \in Nat /\ Cardinality(FailedAttempts') \in Nat
  BY <1>2, FS_CardinalityType DEF CountOK
<1> QED BY <1>2, <1>3 DEF CountOK

\* The attempt of a job fails.
LEMMA OneMoreFailure ==
  ASSUME CountOK, failures \in Nat, failures' = failures + 1, NEW m, NEW j,
         \A n, k : n \in skipped' \cup DOMAIN jobs' /\ k \in 1..MaxRetries /\
                   (n \in skipped' \/ k <= FailuresOf(n)') =>
                     \/ n \in skipped \/ (n \in DOMAIN jobs /\ k <= FailuresOf(n))
                     \/ n = m /\ k = j
  PROVE  CountOK'
<1> DEFINE F == FailedAttempts \cup {<<m, j>>}
<1>1. FailedAttempts' \subseteq F
  <2> SUFFICES ASSUME NEW a \in FailedAttempts' PROVE a \in F
    OBVIOUS
  <2>1. /\ a[1] \in skipped' \cup DOMAIN jobs' /\ a[2] \in 1..MaxRetries /\ a = <<a[1], a[2]>>
        /\ a[1] \in skipped' \/ a[2] <= FailuresOf(a[1])'
    BY DEF FailedAttempts
  <2>2. \/ a[1] \in skipped \/ (a[1] \in DOMAIN jobs /\ a[2] <= FailuresOf(a[1]))
        \/ a[1] = m /\ a[2] = j
    BY <2>1
  <2>3. CASE a[1] \in skipped \/ (a[1] \in DOMAIN jobs /\ a[2] <= FailuresOf(a[1]))
    BY <2>1, <2>3 DEF FailedAttempts
  <2>4. CASE a[1] = m /\ a[2] = j
    BY <2>1, <2>4
  <2> QED BY <2>2, <2>3, <2>4
<1>2. IsFiniteSet(F) /\ Cardinality(F) \in {Cardinality(FailedAttempts), Cardinality(FailedAttempts) + 1}
  BY FS_AddElement DEF CountOK
<1> HIDE DEF F
<1>3. IsFiniteSet(FailedAttempts') /\ Cardinality(FailedAttempts') <= Cardinality(F)
  BY <1>1, <1>2, FS_Subset
<1>4. Cardinality(FailedAttempts) \in Nat /\ Cardinality(FailedAttempts') \in Nat
  BY <1>3, FS_CardinalityType DEF CountOK
<1> QED BY <1>2, <1>3, <1>4 DEF CountOK

\* Nothing is skipped and no job is there.
LEMMA NoneFailed ==
  ASSUME skipped' = {}, jobs' = <<>>, failures' \in Nat
  PROVE  CountOK'
<1>1. FailedAttempts' = {}
  BY DEF FailedAttempts
<1> QED BY <1>1, FS_EmptySet DEF CountOK

\* The script is off.
LEMMA OffGaps ==
  ASSUME IInv', ScriptOff, writer' # "backfill"
  PROVE  Gaps'
<1>1. failures' \in Nat
  BY HistoryAssumption DEF IInv, CountersOK, HistoryAssumption
<1>2. CountOK'
  BY <1>1, NoneFailed DEF ScriptOff
<1>3. MissingOK'
  BY DEF ScriptOff, MissingOK
<1> QED BY <1>2, <1>3 DEF ScriptOff, Gaps, JobsOK, DoneOK

LEMMA Numbers ==
  ASSUME IInv
  PROVE  failures \in Nat /\ next \in Nat /\ orphans \in Nat /\ head \in Nat
BY HistoryAssumption DEF IInv, CountersOK, HistoryAssumption

\* A job that goes on, or waits for its next attempt.
LEMMA FetchGaps ==
  ASSUME IInv, IInv', Gaps, NEW n \in DOMAIN jobs, Fetch(n)
  PROVE  Gaps'
<1>1. failures \in Nat /\ failures' \in Nat
  BY HistoryAssumption DEF IInv, CountersOK, HistoryAssumption
<1>2. /\ UNCHANGED <<db, txnVars, script, missing, next, skipped, orphans>>
      /\ script = "fetching" /\ failures <= failures'
      /\ DOMAIN jobs' = DOMAIN jobs
      /\ \A m \in DOMAIN jobs :
           /\ jobs'[m].attempt = jobs[m].attempt
           /\ jobs'[m].step = "failed" <=> jobs[m].step = "failed"
           /\ jobs'[m].step = "recorded" => jobs[m].step = "recorded"
  BY FetchKeeps
<1>3. Batch' = Batch /\ \A m : Written(m)' = Written(m)
  BY <1>2 DEF Batch, Written, Recorded, Rows, txnVars
<1>4. MissingOK'
  BY <1>2, MissingKept DEF Gaps
<1>5. JobsOK'
  BY <1>2, <1>3 DEF Gaps, JobsOK, txnVars
<1>6. DoneOK'
  BY <1>2 DEF Gaps, DoneOK, Recorded, Rows
<1>7. CountOK'
  <2>1. \A m \in DOMAIN jobs' : FailuresOf(m)' = FailuresOf(m)
    BY <1>2 DEF FailuresOf
  <2> QED BY <1>1, <1>2, <2>1, NoNewFailure DEF Gaps
<1> QED BY <1>4, <1>5, <1>6, <1>7 DEF Gaps

LEMMA AttemptFailsGaps ==
  ASSUME IInv, IInv', Gaps, NEW n \in DOMAIN jobs, NEW timeout \in BOOLEAN, AttemptFails(n, timeout)
  PROVE  Gaps'
<1>1. failures \in Nat /\ failures' = failures + 1
  BY Numbers DEF AttemptFails
<1>2. /\ UNCHANGED <<db, txnVars, script, missing, next, skipped>> /\ script = "fetching"
      /\ jobs[n].step \in {"reading", "asking", "storage"}
  BY DEF AttemptFails
<1> DEFINE k == jobs[n].attempt
<1>3. k \in 1..MaxRetries /\ k \in Nat
  BY Bounds DEF Gaps, JobsOK
<1>4. PICK job : jobs' = [jobs EXCEPT ![n] = job]
                 /\ job = IF k < MaxRetries THEN NewJob(k + 1)
                          ELSE [step |-> "failed", attempt |-> k, source |-> "none"]
  BY DEF AttemptFails, Step
<1>5. /\ DOMAIN jobs' = DOMAIN jobs
      /\ \A m \in DOMAIN jobs : jobs'[m] = IF m = n THEN job ELSE jobs[m]
  BY <1>4
<1>6. job.attempt \in 1..MaxRetries /\ job.step # "recorded"
      /\ (job.step = "failed" => job.attempt = MaxRetries)
  <2>1. CASE k < MaxRetries
    BY <1>3, <1>4, <2>1, Bounds DEF NewJob
  <2>2. CASE ~(k < MaxRetries)
    <3>1. k = MaxRetries
      BY <1>3, <2>2, Bounds
    <3> QED BY <1>3, <1>4, <2>2, <3>1
  <2> QED BY <2>1, <2>2
<1>7. (IF job.step = "failed" THEN job.attempt ELSE job.attempt - 1) = k
  <2>1. CASE k < MaxRetries
    BY <1>3, <1>4, <2>1 DEF NewJob
  <2>2. CASE ~(k < MaxRetries)
    BY <1>4, <2>2
  <2> QED BY <2>1, <2>2
<1>8. FailuresOf(n) = k - 1
  BY <1>2 DEF FailuresOf
<1>9. Batch' = Batch /\ \A m : Written(m)' = Written(m)
  BY <1>2 DEF Batch, Written, Recorded, Rows, txnVars
<1>10. MissingOK'
  BY <1>2, MissingKept DEF Gaps
<1> HIDE DEF k
<1>11. JobsOK'
  <2>1. \A m \in DOMAIN jobs' :
          /\ jobs'[m].attempt \in 1..MaxRetries
          /\ jobs'[m].step = "failed" => jobs'[m].attempt = MaxRetries
          /\ jobs'[m].step = "recorded" => Written(m)'
    BY <1>5, <1>6, <1>9 DEF Gaps, JobsOK
  <2> QED BY <1>2, <1>5, <1>9, <2>1 DEF Gaps, JobsOK, txnVars
<1>12. DoneOK'
  BY <1>2 DEF Gaps, DoneOK, Recorded, Rows
<1>13. CountOK'
  <2>1. \A m \in DOMAIN jobs : m # n => FailuresOf(m)' = FailuresOf(m)
    BY <1>5 DEF FailuresOf
  <2>2. FailuresOf(n)' = k
    BY <1>5, <1>7 DEF FailuresOf
  <2>3. \A i \in 1..MaxRetries : i <= k => i <= k - 1 \/ i = k
    BY <1>3, Bounds
  <2>4. \A m, i : m \in skipped' \cup DOMAIN jobs' /\ i \in 1..MaxRetries /\
                  (m \in skipped' \/ i <= FailuresOf(m)') =>
                    \/ m \in skipped \/ (m \in DOMAIN jobs /\ i <= FailuresOf(m))
                    \/ m = n /\ i = k
    BY <1>2, <1>5, <1>8, <2>1, <2>2, <2>3
  <2> QED BY <1>1, <2>4, OneMoreFailure DEF Gaps
<1> QED BY <1>10, <1>11, <1>12, <1>13 DEF Gaps

LEMMA RecordResultGaps ==
  ASSUME IInv, IInv', Gaps, RecordResult
  PROVE  Gaps'
<1>1. failures \in Nat
  BY Numbers
<1>2. /\ UNCHANGED <<db, script, missing, next, skipped, runtimeApiAvailable, orphans, failures>>
      /\ script = "fetching"
      /\ \A m : Written(m) => Written(m)'
      /\ DOMAIN jobs' = DOMAIN jobs
  BY RecordResultKeeps DEF Gaps
<1>3. PICK n \in DOMAIN jobs :
        /\ jobs[n].step = "done" /\ Written(n)'
        /\ jobs' = [jobs EXCEPT ![n] = [step |-> "recorded", attempt |-> jobs[n].attempt,
                                      source |-> jobs[n].source]]
  BY RecordResultKeeps DEF Gaps
<1>4. \A m \in DOMAIN jobs :
        jobs'[m] = IF m = n THEN [step |-> "recorded", attempt |-> jobs[n].attempt,
                                  source |-> jobs[n].source]
                   ELSE jobs[m]
  BY <1>3
<1>5. \A m \in DOMAIN jobs :
        /\ jobs'[m].attempt = jobs[m].attempt
        /\ jobs'[m].step = "failed" <=> jobs[m].step = "failed"
        /\ jobs'[m].step = "recorded" => m = n \/ jobs[m].step = "recorded"
  <2> SUFFICES ASSUME NEW m \in DOMAIN jobs
               PROVE  /\ jobs'[m].attempt = jobs[m].attempt
                      /\ jobs'[m].step = "failed" <=> jobs[m].step = "failed"
                      /\ jobs'[m].step = "recorded" => m = n \/ jobs[m].step = "recorded"
    OBVIOUS
  <2>1. CASE m = n
    <3>1. jobs'[m].attempt = jobs[m].attempt /\ jobs'[m].step = "recorded"
      BY <1>4, <2>1
    <3> QED BY <1>3, <2>1, <3>1
  <2>2. CASE m # n
    BY <1>4, <2>2
  <2> QED BY <2>1, <2>2
<1>6. Batch' = Batch
  BY <1>2 DEF Batch
<1>7. MissingOK'
  BY <1>2, MissingKept DEF Gaps
<1>8. JobsOK'
  <2>1. \A m \in DOMAIN jobs' :
          /\ jobs'[m].attempt \in 1..MaxRetries
          /\ jobs'[m].step = "failed" => jobs'[m].attempt = MaxRetries
          /\ jobs'[m].step = "recorded" => Written(m)'
    BY <1>2, <1>3, <1>5 DEF Gaps, JobsOK
  <2> QED BY <1>2, <1>6, <2>1 DEF Gaps, JobsOK
<1>9. DoneOK'
  BY <1>2 DEF Gaps, DoneOK, Recorded, Rows
<1>10. CountOK'
  <2>1. \A m \in DOMAIN jobs' : FailuresOf(m)' = FailuresOf(m)
    BY <1>2, <1>5 DEF FailuresOf
  <2> QED BY <1>1, <1>2, <2>1, NoNewFailure DEF Gaps
<1> QED BY <1>7, <1>8, <1>9, <1>10 DEF Gaps

LEMMA BeginBatchGaps ==
  ASSUME IInv, IInv', Gaps, BeginBatch
  PROVE  Gaps'
<1>1. failures \in Nat /\ failures' = failures
  BY Numbers DEF BeginBatch
<1>2. /\ UNCHANGED <<db, txnVars, missing, next, skipped>>
      /\ script = "batching" /\ script' = "fetching" /\ jobs' = [n \in Batch |-> NewJob(1)]
  BY DEF BeginBatch
<1>3. Batch' = Batch /\ DOMAIN jobs' = Batch
  BY <1>2 DEF Batch
<1>4. \A n \in DOMAIN jobs' :
        jobs'[n].attempt = 1 /\ jobs'[n].step = "reading" /\ FailuresOf(n)' = 0
  BY <1>2 DEF NewJob, FailuresOf
<1>5. MissingOK'
  BY <1>2, MissingKept DEF Gaps
<1>6. JobsOK'
  BY <1>2, <1>3, <1>4, Bounds DEF JobsOK
<1>7. DoneOK'
  BY <1>2 DEF Gaps, DoneOK, Recorded, Rows
<1>8. CountOK'
  <2>1. \A k \in 1..MaxRetries : ~(k <= 0)
    BY Bounds
  <2> QED BY <1>1, <1>2, <1>4, <2>1, NoNewFailure DEF Gaps
<1> QED BY <1>5, <1>6, <1>7, <1>8 DEF Gaps

LEMMA EndBatchGaps ==
  ASSUME IInv, IInv', Gaps, EndBatch
  PROVE  Gaps'
<1>1. failures \in Nat /\ failures' = failures /\ next \in Nat
  BY Numbers DEF EndBatch
<1>2. /\ UNCHANGED <<db, txnVars, missing>>
      /\ script = "fetching" /\ script' = "batching" /\ writer # "backfill"
      /\ jobs' = <<>> /\ next' = next + Concurrency
      /\ \A n \in DOMAIN jobs : jobs[n].step \in {"recorded", "failed"}
      /\ skipped' = skipped \cup {n \in DOMAIN jobs : jobs[n].step = "failed"}
  BY DEF EndBatch
<1>3. MissingOK'
  BY <1>2, MissingKept DEF Gaps
<1>4. JobsOK'
  BY <1>2 DEF JobsOK, txnVars
<1>5. \A n \in Batch : n \in Recorded \cup skipped'
  BY <1>2 DEF Gaps, JobsOK, Written
<1>6. Recorded' = Recorded
  BY <1>2 DEF Recorded, Rows
<1>7. DoneOK'
  <2> SUFFICES ASSUME NEW i \in 1..Len(missing), i <= next + Concurrency
               PROVE  missing[i] \in Recorded \cup skipped'
    BY <1>2, <1>6 DEF DoneOK
  <2>1. CASE i <= next
    BY <1>2, <2>1 DEF Gaps, DoneOK
  <2>2. CASE ~(i <= next)
    <3>1. Len(missing) \in Nat
      BY DEF Gaps, MissingOK
    <3>2. i \in next + 1 .. IF next + Concurrency < Len(missing)
                            THEN next + Concurrency ELSE Len(missing)
      BY <1>1, <2>2, <3>1, Bounds
    <3> QED BY <1>5, <3>2 DEF Batch
  <2> QED BY <2>1, <2>2
<1>8. CountOK'
  <2>1. \A n \in skipped' : n \in skipped \/ (n \in DOMAIN jobs /\ FailuresOf(n) = MaxRetries)
    BY <1>2 DEF Gaps, JobsOK, FailuresOf
  <2>2. \A k \in 1..MaxRetries : k <= MaxRetries
    BY Bounds
  <2>3. DOMAIN jobs' = {}
    BY <1>2
  <2> QED BY <1>1, <2>1, <2>2, <2>3, NoNewFailure DEF Gaps
<1> QED BY <1>3, <1>4, <1>7, <1>8 DEF Gaps

LEMMA CompleteGaps ==
  ASSUME IInv, IInv', Gaps, Complete
  PROVE  Gaps'
<1>1. failures \in Nat /\ failures' = failures /\ next \in Nat
  BY Numbers DEF Complete
<1>2. /\ UNCHANGED <<db, txnVars, missing, jobs, skipped>>
      /\ script = "batching" /\ script' = "complete" /\ next >= Len(missing)
  BY DEF Complete
<1>3. MissingOK'
  BY <1>2, MissingKept DEF Gaps
<1>4. JobsOK'
  BY <1>2 DEF Gaps, JobsOK, txnVars
<1>5. DoneOK'
  <2>1. \A i \in 1..Len(missing) : i <= next
    <3>1. Len(missing) \in Nat
      BY DEF Gaps, MissingOK
    <3> QED BY <1>1, <1>2, <3>1
  <2> QED BY <1>2, <2>1 DEF Gaps, DoneOK, Recorded, Rows
<1>6. CountOK'
  BY <1>1, <1>2 DEF Gaps, CountOK, FailedAttempts, FailuresOf
<1> QED BY <1>3, <1>4, <1>5, <1>6 DEF Gaps

LEMMA RunGaps ==
  ASSUME IInv, IInv', Gaps, Run
  PROVE  Gaps'
<1>1. /\ UNCHANGED txnVars /\ script # "fetching" /\ script' = "batching"
      /\ next' = 0 /\ skipped' = {} /\ jobs' = <<>> /\ failures' = failures
  BY DEF Run
<1>2. CountOK'
  BY <1>1, Numbers, NoneFailed
<1>3. JobsOK'
  BY <1>1 DEF Gaps, JobsOK, txnVars
<1>4. DoneOK'
  BY <1>1 DEF DoneOK
<1> QED BY <1>2, <1>3, <1>4, MissingFound DEF Gaps

LEMMA GapStep ==
  ASSUME IInv, IInv', Gaps, [Next]_vars
  PROVE  Gaps'
<1>1. CASE Elsewhere
  <2>1. /\ UNCHANGED scriptVars /\ failures <= failures' /\ db \subseteq db'
        /\ writer' = "backfill" => writer = "backfill"
        /\ \A n : Written(n) => Written(n)'
    BY <1>1, ElsewhereKeeps
  <2>2. UNCHANGED <<script, missing, next, jobs, skipped>> /\ Recorded \subseteq Recorded'
    BY <2>1 DEF scriptVars, Recorded, Rows
  <2>3. MissingOK'
    BY <2>1, <2>2, MissingKept DEF Gaps
  <2>4. JobsOK'
    BY <2>1, <2>2 DEF Gaps, JobsOK, Batch
  <2>5. DoneOK'
    BY <2>2 DEF Gaps, DoneOK
  <2>6. CountOK'
    <3>1. failures \in Nat /\ failures' \in Nat
      BY HistoryAssumption DEF IInv, CountersOK, HistoryAssumption
    <3>2. \A n : FailuresOf(n)' = FailuresOf(n)
      BY <2>2 DEF FailuresOf
    <3> QED BY <2>1, <2>2, <3>1, <3>2, NoNewFailure DEF Gaps
  <2> QED BY <2>3, <2>4, <2>5, <2>6 DEF Gaps
<1>2. CASE ScriptStep
  BY <1>2, RunGaps, BeginBatchGaps, FetchGaps, RecordResultGaps, EndBatchGaps, CompleteGaps
  DEF ScriptStep
<1>3. ASSUME NEW n \in DOMAIN jobs, NEW timeout \in BOOLEAN, AttemptFails(n, timeout) PROVE Gaps'
  BY <1>3, AttemptFailsGaps
<1>4. CASE OrphanFails
  <2>1. UNCHANGED <<db, txnVars, script, missing, next, jobs, skipped, failures>>
    BY <1>4 DEF OrphanFails
  <2>2. MissingOK'
    BY <2>1, MissingKept DEF Gaps
  <2>3. JobsOK'
    BY <2>1 DEF Gaps, JobsOK, Batch, Written, Recorded, Rows, txnVars
  <2>4. DoneOK'
    BY <2>1 DEF Gaps, DoneOK, Recorded, Rows
  <2>5. CountOK'
    BY <2>1 DEF Gaps, CountOK, FailedAttempts, FailuresOf
  <2> QED BY <2>2, <2>3, <2>4, <2>5 DEF Gaps
<1>5. CASE Abort
  BY <1>5, OffGaps DEF Abort, txnVars
<1>6. CASE ScriptDies
  BY <1>6, OffGaps DEF ScriptDies, Rollback, txnVars
<1> QED BY <1>1, <1>2, <1>3, <1>4, <1>5, <1>6 DEF Next, Elsewhere

LEMMA InitGaps == Init => Gaps
<1> SUFFICES ASSUME Init PROVE Gaps
  OBVIOUS
<1>1. MissingOK /\ JobsOK /\ DoneOK
  BY DEF Init, MissingOK, JobsOK, DoneOK
<1>2. FailedAttempts = {} /\ failures = 0
  BY DEF Init, FailedAttempts
<1>3. CountOK
  BY <1>2, FS_EmptySet DEF CountOK
<1> QED BY <1>1, <1>3 DEF Gaps

\* Of every skipped block all attempts failed, each in a request of its own.
LEMMA SkippedFailed ==
  ASSUME IInv, Gaps
  PROVE  Cardinality(skipped) * MaxRetries <= failures
<1> DEFINE A == skipped \X (1..MaxRetries)
           first == [n \in skipped |-> <<n, 1>>]
<1>1. IsFiniteSet(FailedAttempts) /\ Cardinality(FailedAttempts) <= failures /\ failures \in Nat
  BY Numbers DEF Gaps, CountOK
<1>2. A \subseteq FailedAttempts
  BY DEF FailedAttempts
<1>3. IsFiniteSet(A) /\ Cardinality(A) <= Cardinality(FailedAttempts)
  BY <1>1, <1>2, FS_Subset
<1>4. IsFiniteSet(skipped)
  <2>1. 1 \in 1..MaxRetries
    BY Bounds
  <2>2. first \in [skipped -> A]
    BY <2>1
  <2>3. \A m, n \in skipped : first[m] = first[n] => m = n
    OBVIOUS
  <2>4. first \in Injection(skipped, A)
    BY <2>2, <2>3 DEF Injection, IsInjective
  <2> HIDE DEF first, A
  <2> QED BY <1>3, <2>4, FS_Injection
<1>5. IsFiniteSet(1..MaxRetries) /\ Cardinality(1..MaxRetries) = MaxRetries
  BY Bounds, FS_Interval
<1>6. Cardinality(A) = Cardinality(skipped) * MaxRetries
  BY <1>4, <1>5, FS_Product
<1> HIDE DEF A
<1>7. Cardinality(A) \in Nat /\ Cardinality(FailedAttempts) \in Nat
  BY <1>1, <1>3, FS_CardinalityType
<1>8. Cardinality(A) <= failures
  BY <1>1, <1>3, <1>7
<1> QED BY <1>6, <1>8

\* A run of the script that completes has left no gap but the blocks it reports as
\* skipped, each after MAX_RETRIES failed requests of its own, whatever the bot
\* recorded meanwhile and wherever either of them had died before.
THEOREM CompleteRunsAreGapless == Spec => []CompleteLeavesNoGap
<1>1. Init => IInv /\ Gaps
  BY InitIInv, InitGaps
<1>2. IInv /\ Gaps /\ [Next]_vars => (IInv /\ Gaps)'
  <2> SUFFICES ASSUME IInv, Gaps, [Next]_vars PROVE IInv' /\ Gaps'
    OBVIOUS
  <2>1. IInv'
    BY FlagStep, TypeStep, DbStep DEF IInv
  <2> QED BY <2>1, GapStep
<1>3. IInv /\ Gaps => CompleteLeavesNoGap
  <2> SUFFICES ASSUME IInv, Gaps, script = "complete"
               PROVE  /\ \A i \in DOMAIN missing : missing[i] \in Recorded \cup skipped
                      /\ Cardinality(skipped) * MaxRetries <= failures
                      /\ BackfillRange(missing[Len(missing)]) \subseteq Recorded \cup skipped
    BY DEF CompleteLeavesNoGap
  <2>1. \A i \in 1..Len(missing) : missing[i] \in Recorded \cup skipped
    BY DEF Gaps, DoneOK
  <2>2. DOMAIN missing = 1..Len(missing) /\ Len(missing) > 0
    BY DEF Gaps, MissingOK
  <2>3. BackfillRange(missing[Len(missing)]) \subseteq Recorded \cup Listed
    BY <2>2 DEF Gaps, MissingOK
  <2> QED BY <2>1, <2>2, <2>3, SkippedFailed DEF Listed
<1> QED BY <1>1, <1>2, <1>3, PTL DEF Spec

-----------------------------------------------------------------------------
(* Where computed prices come from.                                        *)

LEMMA Multiples ==
  ASSUME NEW c \in Nat \ {0}, NEW a \in Nat, a % c = 0
  PROVE  (a + c) % c = 0 /\ \A k \in 1..c - 1 : (a + k) % c # 0
<1>1. PICK q \in Nat : a = q * c
  <2>1. a \div c \in Nat /\ a = c * (a \div c) + (a % c)
    BY Z3
  <2> QED BY <2>1, Z3
<1>2. \A m \in Nat, k \in 0..c - 1 : (m * c + k) % c = k
  BY Z3
<1>3. a + c = (q + 1) * c + 0
  BY <1>1, Z3
<1> QED BY <1>1, <1>2, <1>3

\* Batches begin where they are said to.
PlaceOK == BatchBegins(next) /\ (script = "fetching" => next < Len(missing))

\* The flag is down because of block j of the list.
BringsDown(j) ==
  /\ missing[j] < Deployed
  /\ j <= IF script = "fetching" THEN next + Concurrency ELSE next
  /\ \A p \in j..IF script = "fetching" THEN next ELSE next - 1 : ~FlagReset(p)

ComputedFor(n) == \A i \in 1..Len(missing) : missing[i] = n => n < Deployed \/ Explained(i)

FlagExplained ==
  /\ orphans = 0
  /\ script \in {"batching", "fetching"} /\ ~runtimeApiAvailable =>
       \E j \in 1..Len(missing) : BringsDown(j)
  /\ \A n \in DOMAIN jobs : "storage" \in {jobs[n].step, jobs[n].source} => ComputedFor(n)
  /\ \A r \in Computed : ComputedFor(r.block)

Prices == PlaceOK /\ BotAsks /\ (failures = 0 => FlagExplained)

\* A place inside the batch is no beginning of one.
LEMMA InsideBatch ==
  ASSUME IInv, PlaceOK
  PROVE  /\ BatchBegins(next + Concurrency)
         /\ \A p \in next + 1..next + Concurrency - 1 : ~BatchBegins(p)
<1>1. next \in Nat /\ next % Concurrency = 0
  BY Numbers DEF PlaceOK, BatchBegins
<1>2. \A k \in 1..Concurrency - 1 : (next + k) % Concurrency # 0
  BY <1>1, Bounds, Multiples
<1>3. \A p \in next + 1..next + Concurrency - 1 :
        p - next \in 1..Concurrency - 1 /\ next + (p - next) = p
  BY <1>1, Bounds
<1>4. \A p \in next + 1..next + Concurrency - 1 : p % Concurrency # 0
  BY <1>2, <1>3
<1> QED BY <1>1, <1>4, Bounds, Multiples DEF BatchBegins

\* A job that finds the flag down is in the batch the flag explains.
LEMMA DownExplains ==
  ASSUME IInv, Gaps, PlaceOK, script = "fetching",
         NEW j \in 1..Len(missing), BringsDown(j), NEW n \in DOMAIN jobs
  PROVE  ComputedFor(n)
<1>1. next \in Nat /\ Len(missing) \in Nat /\ DOMAIN missing = 1..Len(missing)
  BY Numbers DEF Gaps, MissingOK
<1>2. PICK k \in next + 1 .. IF next + Concurrency < Len(missing)
                             THEN next + Concurrency ELSE Len(missing) : n = missing[k]
  BY DEF Gaps, JobsOK, Batch
<1>3. k \in 1..Len(missing) /\ k <= next + Concurrency /\ k > next
  BY <1>1, <1>2, Bounds
<1>4. \A i \in 1..Len(missing) : missing[i] = n => i = k
  <2>1. missing \in [1..Len(missing) -> Nat]
    BY <1>1 DEF Gaps, MissingOK
  <2>2. \A i \in 1..Len(missing) : i < k \/ k < i \/ i = k
    BY <1>3
  <2>3. \A i \in 1..Len(missing) : missing[i] \in Nat
    BY <2>1
  <2>4. \A i, l \in 1..Len(missing) : i < l => missing[i] < missing[l]
    BY DEF Gaps, MissingOK
  <2> QED BY <1>2, <1>3, <2>2, <2>3, <2>4
<1>5. missing[j] < Deployed /\ j <= next + Concurrency /\ \A p \in j..next : ~FlagReset(p)
  BY DEF BringsDown
<1>6. \A p \in k..j - 1 : ~BatchBegins(p)
  <2>1. \A p \in k..j - 1 : p \in next + 1..next + Concurrency - 1
    BY <1>1, <1>3, <1>5, Bounds
  <2> QED BY <2>1, InsideBatch
<1>7. \A p \in j..k - 1 : ~FlagReset(p)
  <2>1. \A p \in j..k - 1 : p \in j..next \/ p \in next + 1..next + Concurrency - 1
    BY <1>1, <1>3, Bounds
  <2> QED BY <1>5, <2>1, InsideBatch DEF FlagReset
<1>8. Explained(k)
  BY <1>1, <1>5, <1>6, <1>7 DEF Explained
<1> QED BY <1>4, <1>8 DEF ComputedFor

\* The list, and what is explained of it, stay as they are.
LEMMA ExplainedKept ==
  ASSUME missing' = missing
  PROVE  \A n : ComputedFor(n)' = ComputedFor(n)
<1>1. \A i : Explained(i)' = Explained(i)
  BY DEF Explained, BatchBegins, FlagReset
<1> QED BY <1>1 DEF ComputedFor

LEMMA BeginBatchPrices ==
  ASSUME IInv, Gaps, Prices, BeginBatch
  PROVE  Prices'
<1>1. /\ UNCHANGED <<db, txnVars, missing, next, orphans, failures>>
      /\ script = "batching" /\ script' = "fetching" /\ next < Len(missing)
      /\ jobs' = [n \in Batch |-> NewJob(1)]
      /\ runtimeApiAvailable' = (runtimeApiAvailable \/ ResetDue)
  BY Zenon DEF BeginBatch
<1>2. PlaceOK' /\ BotAsks'
  BY <1>1 DEF Prices, PlaceOK, BatchBegins, BotAsks, txnVars
<1> SUFFICES ASSUME failures = 0 PROVE FlagExplained'
  BY <1>1, <1>2 DEF Prices
<1>3. FlagExplained
  BY DEF Prices
<1>4. next \in Nat
  BY Numbers
<1>5. ASSUME ~runtimeApiAvailable' PROVE (\E j \in 1..Len(missing) : BringsDown(j))'
  <2>1. ~runtimeApiAvailable /\ ~ResetDue
    BY <1>1, <1>5
  <2>2. PICK j \in 1..Len(missing) : BringsDown(j)
    BY <1>1, <1>3, <2>1 DEF FlagExplained
  <2>3. j <= next + Concurrency /\ j \in Nat
    BY <1>1, <1>4, <2>2, Bounds DEF BringsDown
  <2>4. \A p \in j..next : ~FlagReset(p)
    <3>1. ~FlagReset(next)
      BY <2>1 DEF ResetDue, FlagReset
    <3>2. \A p \in j..next : p = next \/ p \in j..next - 1
      BY <1>4, <2>3
    <3> QED BY <1>1, <2>2, <3>1, <3>2 DEF BringsDown
  <2>5. BringsDown(j)'
    BY <1>1, <2>2, <2>3, <2>4 DEF BringsDown, FlagReset, BatchBegins
  <2> QED BY <1>1, <2>5
<1>6. \A n \in DOMAIN jobs' : "storage" \notin {jobs'[n].step, jobs'[n].source}
  BY <1>1 DEF NewJob
<1>7. Computed' = Computed
  BY <1>1 DEF Computed, txnVars
<1>8. \A r \in Computed' : ComputedFor(r.block)'
  BY <1>1, <1>3, <1>7, ExplainedKept DEF FlagExplained
<1> QED BY <1>1, <1>3, <1>5, <1>6, <1>8 DEF FlagExplained

LEMMA EndBatchPrices ==
  ASSUME IInv, Gaps, Prices, EndBatch
  PROVE  Prices'
<1>1. /\ UNCHANGED <<db, txnVars, missing, runtimeApiAvailable, orphans, failures>>
      /\ script = "fetching" /\ script' = "batching" /\ jobs' = <<>>
      /\ next' = next + Concurrency
  BY DEF EndBatch
<1>2. PlaceOK' /\ BotAsks'
  BY <1>1, InsideBatch DEF Prices, PlaceOK, BatchBegins, BotAsks, txnVars
<1> SUFFICES ASSUME failures = 0 PROVE FlagExplained'
  BY <1>1, <1>2 DEF Prices
<1>3. FlagExplained
  BY DEF Prices
<1>4. next \in Nat
  BY Numbers
<1>5. ASSUME ~runtimeApiAvailable PROVE (\E j \in 1..Len(missing) : BringsDown(j))'
  <2>1. PICK j \in 1..Len(missing) : BringsDown(j)
    BY <1>1, <1>3, <1>5 DEF FlagExplained
  <2>2. \A p \in j..next + Concurrency - 1 :
          p \in j..next \/ p \in next + 1..next + Concurrency - 1
    BY <1>4, Bounds
  <2>3. \A p \in j..next + Concurrency - 1 : ~FlagReset(p)
    BY <1>1, <2>1, <2>2, InsideBatch DEF Prices, BringsDown, FlagReset
  <2>4. BringsDown(j)'
    <3>1. missing[j] < Deployed /\ j <= next + Concurrency
      BY <1>1, <2>1 DEF BringsDown
    <3>2. missing' = missing /\ script' # "fetching" /\ next' = next + Concurrency
      BY <1>1
    <3>3. \A p \in j..next' - 1 : ~FlagReset(p)
      BY <1>4, <2>3, <3>2, Bounds
    <3>4. missing'[j] < Deployed /\ j <= next'
      BY <3>1, <3>2
    <3> QED BY <3>2, <3>3, <3>4 DEF BringsDown, FlagReset, BatchBegins
  <2> QED BY <1>1, <2>4
<1>6. Computed' = Computed
  BY <1>1 DEF Computed, txnVars
<1>7. \A r \in Computed' : ComputedFor(r.block)'
  BY <1>1, <1>3, <1>6, ExplainedKept DEF FlagExplained
<1>8. runtimeApiAvailable' = runtimeApiAvailable
  BY <1>1, Zenon
<1>9. ~runtimeApiAvailable' => (\E j \in 1..Len(missing) : BringsDown(j))'
  BY <1>5, <1>8, Zenon
<1> QED BY <1>1, <1>3, <1>7, <1>9 DEF FlagExplained

\* One job goes on and nothing else changes but perhaps the flag.
LEMMA FetchPrices ==
  ASSUME IInv, Gaps, Prices, NEW n \in DOMAIN jobs, Fetch(n)
  PROVE  Prices'
<1>1. /\ UNCHANGED <<db, txnVars, script, missing, next, skipped, orphans>>
      /\ script = "fetching" /\ failures <= failures' /\ DOMAIN jobs' = DOMAIN jobs
  BY FetchKeeps
<1>2. PlaceOK' /\ BotAsks'
  BY <1>1 DEF Prices, PlaceOK, BatchBegins, BotAsks, txnVars
<1>3. failures \in Nat /\ failures' \in {failures, failures + 1}
  BY Numbers DEF Fetch, AskPrices, PricesFromApi, ApiUnavailable, PricesFromStorage
<1> SUFFICES ASSUME failures' = 0 PROVE FlagExplained'
  BY <1>2 DEF Prices
<1>4. failures = 0 /\ FlagExplained
  BY <1>3 DEF Prices
<1>5. \A r \in Computed' : ComputedFor(r.block)'
  <2>1. Computed' = Computed
    BY <1>1 DEF Computed, txnVars
  <2> QED BY <1>1, <1>4, <2>1, ExplainedKept DEF FlagExplained
<1>6. \A j \in 1..Len(missing) : BringsDown(j) => BringsDown(j)'
  BY <1>1 DEF BringsDown, FlagReset, BatchBegins
<1>7. ASSUME NEW step, NEW source, Step(n, step, source),
             "storage" \in {step, source} => ComputedFor(n)
      PROVE  \A m \in DOMAIN jobs' : "storage" \in {jobs'[m].step, jobs'[m].source} => ComputedFor(m)'
  <2>1. \A m \in DOMAIN jobs :
          jobs'[m] = IF m = n THEN [step |-> step, attempt |-> jobs[n].attempt, source |-> source]
                     ELSE jobs[m]
    BY <1>7 DEF Step
  <2>2. \A m \in DOMAIN jobs : "storage" \in {jobs'[m].step, jobs'[m].source} => ComputedFor(m)
    BY <1>4, <1>7, <2>1 DEF FlagExplained
  <2> QED BY <1>1, <2>2, ExplainedKept
<1>8. ASSUME runtimeApiAvailable' = runtimeApiAvailable,
             \A m \in DOMAIN jobs' : "storage" \in {jobs'[m].step, jobs'[m].source} => ComputedFor(m)'
      PROVE  FlagExplained'
  <2>1. ~runtimeApiAvailable' => ~runtimeApiAvailable
    BY <1>8, Zenon
  <2>2. ~runtimeApiAvailable' => (\E j \in 1..Len(missing) : BringsDown(j))'
    BY <1>1, <1>4, <1>6, <2>1 DEF FlagExplained
  <2> QED BY <1>1, <1>4, <1>5, <1>8, <2>2 DEF FlagExplained
<1>9. CASE AskPrices(n)
  <2>1. runtimeApiAvailable' = runtimeApiAvailable
    BY <1>9, Zenon DEF AskPrices
  <2>2. CASE runtimeApiAvailable
    BY <1>7, <1>8, <1>9, <2>1, <2>2 DEF AskPrices
  <2>3. CASE ~runtimeApiAvailable
    <3>1. PICK j \in 1..Len(missing) : BringsDown(j)
      BY <1>1, <1>4, <2>3 DEF FlagExplained
    <3>2. ComputedFor(n)
      BY <1>1, <3>1, DownExplains DEF Prices
    <3> QED BY <1>7, <1>8, <1>9, <2>1, <2>3, <3>2 DEF AskPrices
  <2> QED BY <2>2, <2>3
<1>10. CASE PricesFromApi(n)
  <2>1. runtimeApiAvailable' = runtimeApiAvailable
    BY <1>10, Zenon DEF PricesFromApi
  <2> QED BY <1>7, <1>8, <1>10, <2>1 DEF PricesFromApi
<1>11. CASE PricesFromStorage(n)
  <2>1. runtimeApiAvailable' = runtimeApiAvailable
    BY <1>11, Zenon DEF PricesFromStorage
  <2>2. ComputedFor(n)
    BY <1>4, <1>11 DEF PricesFromStorage, FlagExplained
  <2> QED BY <1>7, <1>8, <1>11, <2>1, <2>2 DEF PricesFromStorage
<1>12. CASE ApiUnavailable(n)
  <2>1. n < Deployed /\ Step(n, "storage", "none")
    BY <1>3, <1>4, <1>12 DEF ApiUnavailable
  <2>2. \A m \in DOMAIN jobs' : "storage" \in {jobs'[m].step, jobs'[m].source} => ComputedFor(m)'
    BY <1>7, <2>1 DEF ComputedFor
  <2>3. PICK j \in next + 1 .. IF next + Concurrency < Len(missing)
                               THEN next + Concurrency ELSE Len(missing) : n = missing[j]
    BY <1>1 DEF Gaps, JobsOK, Batch
  <2>4. next \in Nat /\ Len(missing) \in Nat
    BY Numbers DEF Gaps, MissingOK
  <2>5. j \in 1..Len(missing) /\ j <= next + Concurrency /\ j > next
    BY <2>3, <2>4, Bounds
  <2>6. j..next = {}
    BY <2>4, <2>5
  <2>7. BringsDown(j)'
    BY <1>1, <2>1, <2>3, <2>5, <2>6 DEF BringsDown
  <2> QED BY <1>1, <1>4, <1>5, <2>2, <2>5, <2>7 DEF FlagExplained
<1> QED BY <1>9, <1>10, <1>11, <1>12 DEF Fetch

LEMMA RecordResultPrices ==
  ASSUME IInv, Gaps, Prices, RecordResult
  PROVE  Prices'
<1>1. /\ UNCHANGED <<db, script, missing, next, skipped, orphans, failures>>
      /\ script = "fetching" /\ DOMAIN jobs' = DOMAIN jobs
  BY RecordResultKeeps DEF Gaps
<1>2. runtimeApiAvailable' = runtimeApiAvailable
  BY Zenon DEF RecordResult
<1>3. PICK n \in DOMAIN jobs :
        /\ BeginSnapshot("backfill", n, SnapshotRows(n, n, n, jobs[n].source))
        /\ jobs' = [jobs EXCEPT ![n] = [step |-> "recorded", attempt |-> jobs[n].attempt,
                                      source |-> jobs[n].source]]
  BY RecordResultKeeps DEF Gaps
<1>4. PlaceOK' /\ BotAsks'
  BY <1>1, <1>3 DEF Prices, PlaceOK, BatchBegins, BotAsks, BeginSnapshot, Begin, txnVars
<1> SUFFICES ASSUME failures = 0 PROVE FlagExplained'
  BY <1>1, <1>4 DEF Prices
<1>5. FlagExplained
  BY DEF Prices
<1>6. ~runtimeApiAvailable' => (\E j \in 1..Len(missing) : BringsDown(j))'
  <2>1. ~runtimeApiAvailable' => ~runtimeApiAvailable
    BY <1>2, Zenon
  <2>2. \A j \in 1..Len(missing) : BringsDown(j) => BringsDown(j)'
    BY <1>1 DEF BringsDown, FlagReset, BatchBegins
  <2> QED BY <1>1, <1>5, <2>1, <2>2 DEF FlagExplained
<1>7. \A m \in DOMAIN jobs' : "storage" \in {jobs'[m].step, jobs'[m].source} => ComputedFor(m)'
  <2>1. \A m \in DOMAIN jobs' : "storage" \in {jobs'[m].step, jobs'[m].source} =>
          "storage" \in {jobs[m].step, jobs[m].source} /\ m \in DOMAIN jobs
    BY <1>3
  <2> QED BY <1>1, <1>5, <2>1, ExplainedKept DEF FlagExplained
<1>8. \A r \in Computed' : ComputedFor(r.block)
  <2> SUFFICES ASSUME NEW r \in Computed', r \notin Computed PROVE ComputedFor(r.block)
    BY <1>5 DEF FlagExplained
  <2>1. r.table = "subnet_snapshots" /\ r.source = "storage" /\ r \in db' \cup pending' \cup left'
    BY DEF Computed
  <2>2. Begin("backfill", BlockRow(n), SnapshotRows(n, n, n, jobs[n].source))
    BY <1>1, <1>3, <2>1 DEF Computed, BeginSnapshot, txnVars
  <2>3. r \in SnapshotRows(n, n, n, jobs[n].source)
    BY <1>1, <2>1, <2>2 DEF Begin, Computed, BlockRow
  <2>4. r.block = n /\ jobs[n].source = "storage"
    BY <2>1, <2>3 DEF SnapshotRows
  <2> QED BY <1>5, <2>4 DEF FlagExplained
<1>9. \A r \in Computed' : ComputedFor(r.block)'
  BY <1>1, <1>8, ExplainedKept
<1> QED BY <1>1, <1>5, <1>6, <1>7, <1>9 DEF FlagExplained

\* What is missing when the script starts is nowhere on record, and nobody but the
\* script records computed prices.
LEMMA RunPrices ==
  ASSUME IInv, Gaps, Prices, Run
  PROVE  Prices'
<1>1. /\ UNCHANGED <<db, txnVars, failures>> /\ script \notin {"batching", "fetching"}
      /\ script' = "batching" /\ next' = 0 /\ jobs' = <<>> /\ orphans' = 0
      /\ runtimeApiAvailable' = TRUE
  BY DEF Run
<1>2. PlaceOK' /\ BotAsks'
  BY <1>1, Bounds DEF Prices, PlaceOK, BatchBegins, BotAsks, txnVars
<1>3. Computed' \subseteq db
  <2>1. writer # "backfill"
    BY <1>1 DEF Gaps, JobsOK
  <2>2. writer \in {"none", "bot", "backfill"} /\ (writer = "none" => pending = {} /\ left = {})
    BY DEF IInv, StatesOK, OpenTransaction
  <2> QED BY <1>1, <2>1, <2>2 DEF Computed, txnVars, Prices, BotAsks
<1>4. \A r \in Computed' : r.block \in Recorded
  <2>1. \A r \in Computed' : BlockRow(r.block) \in db
    BY <1>3 DEF Computed, IInv, Whole
  <2>2. \A n : BlockRow(n).table = "blocks" /\ BlockRow(n).block = n
    BY DEF BlockRow
  <2>3. \A n : BlockRow(n) \in db => n \in Recorded
    BY <2>2, Zenon DEF Recorded, Rows
  <2> QED BY <2>1, <2>3
<1>5. \A i \in 1..Len(missing') : missing'[i] \notin Recorded
  BY FoundMissing
<1>6. \A r \in Computed' : ComputedFor(r.block)'
  BY <1>4, <1>5 DEF ComputedFor
<1> QED BY <1>1, <1>2, <1>6 DEF Prices, FlagExplained

LEMMA OffPrices ==
  ASSUME ScriptOff, BotAsks'
  PROVE  Prices'
<1>1. PlaceOK'
  BY Bounds DEF ScriptOff, PlaceOK, BatchBegins
<1>2. FlagExplained'
  BY DEF ScriptOff, FlagExplained, ComputedFor
<1> QED BY <1>1, <1>2 DEF Prices

LEMMA PriceStep ==
  ASSUME IInv, Gaps, Prices, [Next]_vars
  PROVE  Prices'
<1>1. failures \in Nat
  BY Numbers
<1>2. CASE Elsewhere
  <2>1. UNCHANGED scriptVars /\ failures <= failures' /\ Computed' \subseteq Computed /\ BotAsks'
    BY <1>2, ElsewhereKeeps DEF Prices
  <2>2. UNCHANGED <<script, missing, next, jobs, orphans>>
    BY <2>1 DEF scriptVars
  <2>3. runtimeApiAvailable' = runtimeApiAvailable
    BY <2>1, Zenon DEF scriptVars
  <2>4. PlaceOK'
    BY <2>2 DEF Prices, PlaceOK, BatchBegins
  <2> SUFFICES ASSUME failures' = 0 PROVE FlagExplained'
    BY <2>1, <2>4 DEF Prices
  <2>5. FlagExplained
    <3>1. failures' \in {failures, failures + 1}
      BY <1>2 DEF Elsewhere, BotStep, FinalizeBlock, Insert, Commit, Tick, Answer, RecordSnapshot,
                  TickFails, RecordCycle, BotDies, vars
    <3> QED BY <1>1, <3>1 DEF Prices
  <2>6. ~runtimeApiAvailable' => (\E j \in 1..Len(missing) : BringsDown(j))'
        \/ script \notin {"batching", "fetching"}
    <3>1. ~runtimeApiAvailable' => ~runtimeApiAvailable
      BY <2>3, Zenon
    <3>2. \A j \in 1..Len(missing) : BringsDown(j) => BringsDown(j)'
      BY <2>2 DEF BringsDown, FlagReset, BatchBegins
    <3> QED BY <2>2, <2>5, <3>1, <3>2 DEF FlagExplained
  <2> QED BY <2>1, <2>2, <2>5, <2>6, ExplainedKept DEF FlagExplained
<1>3. CASE Complete
  <2>1. /\ UNCHANGED <<db, txnVars, missing, jobs, failures>>
        /\ script' = "complete" /\ next' = 0 /\ orphans' = 0
    BY <1>3 DEF Complete
  <2>2. PlaceOK' /\ BotAsks'
    BY <2>1, Bounds DEF Prices, PlaceOK, BatchBegins, BotAsks, txnVars
  <2>3. Computed' = Computed
    BY <2>1 DEF Computed, txnVars
  <2>4. FlagExplained => FlagExplained'
    BY <2>1, <2>3, ExplainedKept DEF FlagExplained
  <2> QED BY <2>1, <2>2, <2>4 DEF Prices
<1>4. CASE ScriptStep
  BY <1>3, <1>4, RunPrices, BeginBatchPrices, FetchPrices, RecordResultPrices, EndBatchPrices
  DEF ScriptStep
<1>5. ASSUME NEW n \in DOMAIN jobs, NEW timeout \in BOOLEAN, AttemptFails(n, timeout) PROVE Prices'
  <2>1. UNCHANGED <<txnVars, script, missing, next>> /\ failures' = failures + 1
    BY <1>5 DEF AttemptFails
  <2> QED BY <1>1, <2>1 DEF Prices, PlaceOK, BatchBegins, BotAsks, txnVars
<1>6. CASE OrphanFails
  <2>1. UNCHANGED <<txnVars, script, missing, next, failures>> /\ orphans > 0
    BY <1>6 DEF OrphanFails
  <2>2. failures # 0
    BY <2>1, Numbers DEF Prices, FlagExplained
  <2> QED BY <2>1, <2>2 DEF Prices, PlaceOK, BatchBegins, BotAsks, txnVars
<1>7. CASE Abort
  BY <1>7, OffPrices DEF Abort, Prices, BotAsks, txnVars
<1>8. CASE ScriptDies
  BY <1>8, OffPrices DEF ScriptDies, Rollback, Prices, BotAsks, txnVars
<1> QED BY <1>2, <1>4, <1>5, <1>6, <1>7, <1>8 DEF Next, Elsewhere

LEMMA InitPrices == Init => Prices
BY Bounds DEF Init, Prices, PlaceOK, BatchBegins, BotAsks, FlagExplained, Computed

\* While no request fails, a block whose runtime has the price API has computed
\* prices only if a block without it came before it, or in the same batch, since the
\* flag was last reset: the flag is the module's, shared by the jobs of a batch and
\* kept from one batch to the next.
THEOREM ComputedPricesExplained == Spec => []FallbackExplained
<1> DEFINE Inv == IInv /\ Gaps /\ Prices
<1>1. Init => Inv
  BY InitIInv, InitGaps, InitPrices
<1>2. Inv /\ [Next]_vars => Inv'
  <2> SUFFICES ASSUME IInv, Gaps, Prices, [Next]_vars PROVE IInv' /\ Gaps' /\ Prices'
    OBVIOUS
  <2>1. IInv'
    BY FlagStep, TypeStep, DbStep DEF IInv
  <2> QED BY <2>1, GapStep, PriceStep
<1>3. Inv => FallbackExplained
  <2> SUFFICES ASSUME Gaps, Prices, failures = 0,
                      NEW r \in Rows("subnet_snapshots"), NEW i \in DOMAIN missing,
                      r.block = missing[i], r.source = "storage"
               PROVE  missing[i] < Deployed \/ Explained(i)
    BY DEF FallbackExplained
  <2>1. r \in Computed
    BY DEF Rows, Computed
  <2>2. i \in 1..Len(missing)
    BY DEF Gaps, MissingOK
  <2> QED BY <2>1, <2>2 DEF Prices, FlagExplained, ComputedFor
<1> QED BY <1>1, <1>2, <1>3, PTL DEF Spec

=============================================================================
