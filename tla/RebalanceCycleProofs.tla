------------------------ MODULE RebalanceCycleProofs ------------------------
(***************************************************************************)
(* The rebalance cycle, for every number of cycles and operations: batches *)
(* in the clear have limit prices, what a cycle returned is what its last  *)
(* row says, and the rows tell the truth of the batches they speak of.     *)
(***************************************************************************)
EXTENDS RebalanceCycle, FiniteSetTheorems, TLAPS

\* The two computations of useLimits, from the same key and the same option.
LimitsInv ==
  /\ step \in {"simulate", "submit"} => (planLimits <=> enforceSlippage \/ ~mevKey)
  /\ step = "submit" => (callLimits <=> enforceSlippage \/ ~mevKey)
  /\ {planLimits, callLimits} \subseteq BOOLEAN
  /\ ClearBatchHasLimits

\* A cycle that has returned is over, and a notification follows the row it tells of.
RowInv ==
  /\ cycle \in 0..MaxCycles
  /\ step # "idle" => cycle > 0
  /\ outcome \in [Cycle -> Status \cup {"none", "skipped"}]
  /\ batchStatus \in {"none", "completed", "partial_failure", "timeout"}
  /\ \E S : rows \in Seq(S)
  /\ \A c \in Cycle : outcome[c] # "none" => c < cycle \/ (c = cycle /\ step = "idle")
  /\ step = "notify" /\ dbOpen =>
       /\ Len(rows) > 0
       /\ rows[Len(rows)].cycle = cycle /\ rows[Len(rows)].status = ResultStatus
  /\ OutcomeIsRecorded

IInv == LimitsInv /\ RowInv

LEMMA InitIInv == Init => IInv
<1> SUFFICES ASSUME Init PROVE IInv
  OBVIOUS
<1>1. {planLimits, callLimits} \subseteq BOOLEAN
  BY Zenon DEF Init
<1>2. rows \in Seq({})
  BY DEF Init
<1> QED
  BY <1>1, <1>2, CycleAssumption
  DEF Init, IInv, LimitsInv, RowInv, ClearBatchHasLimits, OutcomeIsRecorded, Status,
      CycleAssumption

-----------------------------------------------------------------------------
(* Limit prices.                                                           *)

LEMMA LimitsStep == LimitsInv /\ [Next]_vars => LimitsInv'
<1> SUFFICES ASSUME LimitsInv, [Next]_vars PROVE LimitsInv'
  OBVIOUS
<1> USE DEF LimitsInv, ClearBatchHasLimits, planVars, envVars
<1>1. CASE KeyRead
  <2>1. planLimits' \in BOOLEAN /\ callLimits' = callLimits /\ sent' = sent
    BY <1>1, Zenon DEF KeyRead
  <2>2. step' # "submit" /\ (planLimits' <=> enforceSlippage' \/ ~mevKey')
    BY <1>1 DEF KeyRead, Return
  <2> QED BY <2>1, <2>2
<1>2. CASE Simulated
  <2>1. callLimits' \in BOOLEAN /\ planLimits' = planLimits /\ sent' = sent
    BY <1>2, Zenon DEF Simulated, CallLimits
  <2>2. /\ callLimits' <=> enforceSlippage \/ ~mevKey
        /\ enforceSlippage' = enforceSlippage /\ mevKey' = mevKey
    BY <1>2, Zenon DEF Simulated, CallLimits
  <2>3. step = "simulate"
    BY <1>2 DEF Simulated
  <2> QED BY <2>1, <2>2, <2>3
<1>3. CASE Submit
  <2> DEFINE s == [cycle |-> cycle, shielded |-> mevKey, limits |-> callLimits,
                   planned |-> planLimits]
  <2>1. /\ step = "submit" /\ step' = "batch" /\ sent' = sent \cup {s}
        /\ planLimits' = planLimits /\ callLimits' = callLimits
    BY <1>3, Zenon DEF Submit
  <2>2. callLimits = planLimits /\ (mevKey \/ callLimits)
    <3>1. callLimits <=> planLimits
      BY <2>1
    <3>2. callLimits \in BOOLEAN /\ planLimits \in BOOLEAN
      OBVIOUS
    <3> QED BY <2>1, <3>1, <3>2, Zenon
  <2>3. s.limits = s.planned /\ (s.shielded \/ s.limits)
    BY <2>2, Zenon
  <2>4. ASSUME NEW t \in sent' PROVE t.limits = t.planned /\ (t.shielded \/ t.limits)
    BY <2>1, <2>3, <2>4, Zenon
  <2>5. step' \notin {"simulate", "submit"}
    BY <2>1
  <2> QED BY <2>1, <2>4, <2>5, Zenon
<1>4. CASE KeyChanges
  BY <1>4 DEF KeyChanges, ownVars
<1>5. CASE DbCloses \/ \E c \in Cycle : BatchLands(c)
  BY <1>5 DEF DbCloses, BatchLands, ownVars
<1>6. CASE BeginCycle \/ BalancesFetched
  BY <1>6 DEF BeginCycle, BalancesFetched
<1>7. CASE StrategySkips \/ TargetsReturned
  BY <1>7 DEF StrategySkips, TargetsReturned, Return
<1>8. CASE BatchReported \/ SubmissionFails \/ Fails
  BY <1>8 DEF BatchReported, SubmissionFails, Fails, Throw
<1>9. CASE PostBalancesFetched \/ NotificationSent
  BY <1>9 DEF PostBalancesFetched, NotificationSent, ReturnResult, Return
<1>10. CASE NotificationFails \/ CatchRecords
  BY <1>10 DEF NotificationFails, CatchRecords, Throw, Return
<1>11. CASE UNCHANGED vars
  BY <1>11 DEF vars
<1> QED
  BY <1>1, <1>2, <1>3, <1>4, <1>5, <1>6, <1>7, <1>8, <1>9, <1>10, <1>11 DEF Next

-----------------------------------------------------------------------------
(* Rows and outcomes.                                                      *)

LEMMA RecordAppends ==
  ASSUME \E S : rows \in Seq(S), NEW row, Record(row)
  PROVE  /\ \E S : rows' \in Seq(S)
         /\ ~dbOpen => rows' = rows
         /\ dbOpen => /\ Len(rows') = Len(rows) + 1 /\ Len(rows) \in Nat
                      /\ DOMAIN rows = 1..Len(rows)
                      /\ DOMAIN rows' = 1..(Len(rows) + 1)
                      /\ rows'[Len(rows) + 1] = row
                      /\ \A i \in DOMAIN rows : rows'[i] = rows[i]
<1> PICK S : rows \in Seq(S)
  OBVIOUS
<1>1. CASE dbOpen
  <2>1. rows' = Append(rows, row) /\ rows \in Seq(S \cup {row})
    BY <1>1 DEF Record
  <2>2. rows' \in Seq(S \cup {row})
    BY <2>1
  <2> QED BY <1>1, <2>1, <2>2
<1>2. CASE ~dbOpen
  BY <1>2 DEF Record
<1> QED BY <1>1, <1>2

\* The last row of cycle c, if the database is open, says o.
LastSays(c, o) ==
  \E i \in RowsOf(c) :
    /\ \A j \in RowsOf(c) : j <= i
    /\ rows[i].status = (IF o = "skipped" THEN "no_ops" ELSE o)

\* A row of the current cycle does not change what the others' last rows say, and is
\* its own last row.
LEMMA AppendedIsLast ==
  ASSUME \E S : rows \in Seq(S), NEW row, Record(row), row.cycle = cycle, dbOpen
  PROVE  /\ \A o : \A c \in Cycle : c # cycle /\ LastSays(c, o) => LastSays(c, o)'
         /\ \A o : row.status = (IF o = "skipped" THEN "no_ops" ELSE o)
                     => \A c \in Cycle : c = cycle => LastSays(c, o)'
<1>1. /\ Len(rows) \in Nat
      /\ DOMAIN rows = 1..Len(rows)
      /\ DOMAIN rows' = 1..(Len(rows) + 1)
      /\ rows'[Len(rows) + 1] = row
      /\ \A i \in DOMAIN rows : rows'[i] = rows[i]
  BY RecordAppends
<1>2. ASSUME NEW c \in Cycle, NEW o, c # cycle, LastSays(c, o)
      PROVE  LastSays(c, o)'
  <2>1. RowsOf(c)' = RowsOf(c)
    BY <1>1, <1>2 DEF RowsOf
  <2>2. \A i \in RowsOf(c) : rows'[i] = rows[i]
    BY <1>1 DEF RowsOf
  <2> QED BY <1>2, <2>1, <2>2 DEF LastSays
<1>3. ASSUME NEW o, row.status = (IF o = "skipped" THEN "no_ops" ELSE o),
             NEW c \in Cycle, c = cycle
      PROVE  LastSays(c, o)'
  <2>1. Len(rows) + 1 \in RowsOf(c)'
    BY <1>1, <1>3 DEF RowsOf
  <2>2. \A j \in RowsOf(c)' : j <= Len(rows) + 1
    BY <1>1 DEF RowsOf
  <2> QED BY <1>1, <1>3, <2>1, <2>2 DEF LastSays
<1> QED BY <1>2, <1>3

\* The steps that record a row and return what it says.
LEMMA RecordAndReturn ==
  ASSUME RowInv, NEW row, NEW o \in Status \cup {"skipped"},
         step # "idle", row.cycle = cycle,
         row.status = (IF o = "skipped" THEN "no_ops" ELSE o),
         Record(row), Return(o), UNCHANGED <<cycle, dbOpen, batchStatus>>
  PROVE  RowInv'
<1> USE DEF RowInv
<1>1. cycle \in Cycle
  BY DEF Cycle
<1>2. /\ outcome' = [outcome EXCEPT ![cycle] = o] /\ step' = "idle"
  BY DEF Return
<1>3. ASSUME dbOpen', NEW c \in Cycle, NEW r, r = outcome'[c], r # "none"
      PROVE  LastSays(c, r)'
  <2>1. CASE c = cycle
    <3>1. r = o
      BY <1>1, <1>2, <1>3, <2>1
    <3> QED BY <1>3, <2>1, <3>1, AppendedIsLast
  <2>2. CASE c # cycle
    <3>1. r = outcome[c]
      BY <1>2, <1>3, <2>2
    <3>2. LastSays(c, r)
      BY <1>3, <3>1 DEF OutcomeIsRecorded, LastSays
    <3> QED BY <1>3, <2>2, <3>2, AppendedIsLast
  <2> QED BY <2>1, <2>2
<1>4. OutcomeIsRecorded'
  BY <1>3 DEF OutcomeIsRecorded, LastSays
<1>5. \E S : rows' \in Seq(S)
  BY RecordAppends
<1> QED BY <1>1, <1>2, <1>4, <1>5 DEF Status

LEMMA RowFields ==
  ASSUME NEW a
  PROVE  /\ \A s : EmptyRow(s).cycle = cycle /\ EmptyRow(s).status = s
         /\ RowOfResult(a).cycle = cycle /\ RowOfResult(a).status = ResultStatus
BY DEF EmptyRow, RowOfResult

\* Steps that leave the rows, the outcomes and the cycle's number alone.
LEMMA RowsKept ==
  ASSUME RowInv, UNCHANGED <<cycle, rows, outcome>>, dbOpen' => dbOpen,
         batchStatus' \in {"none", "completed", "partial_failure", "timeout"},
         UNCHANGED step \/ (step # "idle" /\ step' # "notify" /\ step' # "idle"),
         step = "notify" => UNCHANGED batchStatus
  PROVE  RowInv'
BY DEF RowInv, OutcomeIsRecorded, RowsOf, ResultStatus

LEMMA RowStep == RowInv /\ [Next]_vars => RowInv'
<1> SUFFICES ASSUME RowInv, [Next]_vars PROVE RowInv'
  OBVIOUS
<1> USE DEF envVars, chainVars, planVars, resultVars, ownVars
<1>a. batchStatus \in {"none", "completed", "partial_failure", "timeout"} /\ ResultStatus \in Status
  BY DEF RowInv, ResultStatus, Status
<1>1. CASE KeyChanges \/ DbCloses \/ \E c \in Cycle : BatchLands(c)
  BY <1>1, <1>a, RowsKept DEF KeyChanges, DbCloses, BatchLands
<1>2. CASE BeginCycle
  <2>1. cycle' = cycle + 1 /\ cycle' \in 0..MaxCycles /\ cycle' > 0
    BY <1>2, CycleAssumption DEF BeginCycle, RowInv, CycleAssumption
  <2>2. step' = "balances" /\ batchStatus' = "none" /\ UNCHANGED <<rows, outcome, dbOpen>>
    BY <1>2 DEF BeginCycle
  <2>3. \A c \in Cycle : outcome[c] # "none" => c < cycle'
    BY <1>2, <2>1 DEF BeginCycle, RowInv, Cycle
  <2> QED
    BY <2>1, <2>2, <2>3 DEF RowInv, OutcomeIsRecorded, RowsOf
<1>3. CASE BalancesFetched \/ TargetsReturned \/ Submit
  BY <1>3, <1>a, RowsKept DEF BalancesFetched, TargetsReturned, Submit
<1>4. CASE StrategySkips
  BY <1>4, RecordAndReturn, RowFields DEF StrategySkips, Status
<1>5. CASE KeyRead
  <2>1. CASE opsTotal' > 0
    BY <1>5, <2>1, <1>a, RowsKept DEF KeyRead
  <2>2. CASE Record(EmptyRow("no_ops")) /\ Return("no_ops")
    BY <1>5, <2>2, RecordAndReturn, RowFields DEF KeyRead, Status
  <2> QED BY <1>5, <2>1, <2>2 DEF KeyRead
<1>6. CASE Simulated
  <2>1. CASE Record(RowOfResult(before)) /\ ReturnResult
    <3> DEFINE row == RowOfResult(before)
    <3>1. row.cycle = cycle /\ row.status = ResultStatus
      BY RowFields
    <3>2. ResultStatus # "skipped"
      BY <1>a DEF Status
    <3> HIDE DEF row
    <3>3. Record(row) /\ Return(ResultStatus) /\ step # "idle"
      BY <1>6, <2>1 DEF Simulated, ReturnResult, row
    <3>4. UNCHANGED <<cycle, dbOpen, batchStatus>>
      BY <1>6 DEF Simulated
    <3> QED BY <1>a, <3>1, <3>2, <3>3, <3>4, RecordAndReturn
  <2>2. CASE step' = "submit" /\ UNCHANGED <<after, rows, outcome>>
    BY <1>6, <2>2, <1>a, RowsKept DEF Simulated
  <2> QED BY <1>6, <2>1, <2>2 DEF Simulated
<1>7. CASE BatchReported
  <2>1. batchStatus' \in {"none", "completed", "partial_failure", "timeout"}
    BY <1>7 DEF BatchReported, StatusOf
  <2> QED BY <1>7, <2>1, RowsKept DEF BatchReported
<1>8. CASE SubmissionFails \/ Fails \/ NotificationFails
  BY <1>8, <1>a, RowsKept DEF SubmissionFails, Fails, NotificationFails, Throw
<1>9. CASE PostBalancesFetched
  <2> DEFINE row == RowOfResult(Balances)
  <2>1. row.cycle = cycle /\ row.status = ResultStatus
    BY RowFields
  <2>2. ResultStatus # "skipped"
    BY <1>a DEF Status
  <2> HIDE DEF row
  <2>3. Record(row) /\ step # "idle" /\ UNCHANGED <<cycle, dbOpen, batchStatus>>
    BY <1>9 DEF PostBalancesFetched, row
  <2>4. CASE ReturnResult
    BY <1>a, <2>1, <2>2, <2>3, <2>4, RecordAndReturn DEF ReturnResult
  <2>5. CASE step' = "notify" /\ UNCHANGED outcome
    <3>1. /\ \E S : rows' \in Seq(S)
          /\ dbOpen => Len(rows') = Len(rows) + 1 /\ Len(rows) \in Nat
                       /\ rows'[Len(rows) + 1] = row
      BY <2>3, RecordAppends DEF RowInv
    <3>2. ASSUME dbOpen, NEW c \in Cycle, NEW r, r = outcome[c], r # "none"
          PROVE  LastSays(c, r)'
      <4>1. c # cycle /\ LastSays(c, r)
        BY <2>3, <3>2 DEF RowInv, OutcomeIsRecorded, LastSays
      <4> QED BY <2>1, <2>3, <3>2, <4>1, AppendedIsLast DEF RowInv
    <3>3. OutcomeIsRecorded'
      BY <2>3, <2>5, <3>2 DEF OutcomeIsRecorded, LastSays
    <3>4. ResultStatus' = ResultStatus
      BY <2>3 DEF ResultStatus
    <3> QED BY <2>1, <2>3, <2>5, <3>1, <3>3, <3>4 DEF RowInv
  <2> QED BY <1>9, <2>4, <2>5 DEF PostBalancesFetched
<1>10. CASE NotificationSent
  <2>1. /\ outcome' = [outcome EXCEPT ![cycle] = ResultStatus] /\ step' = "idle"
        /\ step = "notify" /\ UNCHANGED <<cycle, dbOpen, batchStatus, rows>>
    BY <1>10 DEF NotificationSent, ReturnResult, Return
  <2>2. cycle \in Cycle /\ ResultStatus # "skipped"
    BY <2>1, <1>a DEF RowInv, Cycle, Status
  <2>3. dbOpen => \E S : rows \in Seq(S) /\ Len(rows) \in RowsOf(cycle)
    BY <2>1 DEF RowInv, RowsOf
  <2>4. dbOpen => LastSays(cycle, ResultStatus)
    <3>1. dbOpen => /\ Len(rows) \in RowsOf(cycle)
                    /\ \A j \in RowsOf(cycle) : j <= Len(rows)
      BY <2>3 DEF RowsOf
    <3> QED BY <2>1, <2>2, <3>1 DEF RowInv, LastSays
  <2>5. ASSUME dbOpen, NEW c \in Cycle, outcome'[c] # "none" PROVE LastSays(c, outcome'[c])
    <3>1. CASE c = cycle
      BY <2>1, <2>2, <2>4, <2>5, <3>1 DEF RowInv
    <3>2. CASE c # cycle
      BY <2>1, <2>5, <3>2 DEF RowInv, OutcomeIsRecorded, LastSays
    <3> QED BY <3>1, <3>2
  <2>6. OutcomeIsRecorded'
    BY <2>1, <2>5 DEF OutcomeIsRecorded, LastSays, RowsOf
  <2> QED BY <1>a, <2>1, <2>2, <2>6 DEF RowInv, Status
<1>11. CASE CatchRecords
  BY <1>11, RecordAndReturn, RowFields DEF CatchRecords, Status
<1>12. CASE UNCHANGED vars
  BY <1>12, <1>a, RowsKept DEF vars
<1> QED
  BY <1>1, <1>2, <1>3, <1>4, <1>5, <1>6, <1>7, <1>8, <1>9, <1>10, <1>11, <1>12 DEF Next

LEMMA Invariance == Spec => []IInv
<1>1. IInv /\ [Next]_vars => IInv'
  BY LimitsStep, RowStep DEF IInv
<1> QED
  BY InitIInv, <1>1, PTL DEF Spec

\* No batch is ever sent in the clear without limit prices, and every batch is built
\* the way it was planned (cycle.ts, executeRebalancePlan.ts).
THEOREM Limits == Spec => []ClearBatchHasLimits
  BY Invariance, PTL DEF IInv, LimitsInv

\* Whatever throws, the last row of a cycle says what the cycle returned, unless the
\* database was closed under it (recordCycleToDb).
THEOREM Recorded == Spec => []OutcomeIsRecorded
  BY Invariance, PTL DEF IInv, RowInv

-----------------------------------------------------------------------------
(* What the parsers make of a batch.                                       *)

LEMMA UptoIsFinite ==
  ASSUME NEW n \in Nat, NEW S \in SUBSET (1..n)
  PROVE  IsFiniteSet(S) /\ Cardinality(S) \in 0..n
<1>1. IsFiniteSet(1..n) /\ Cardinality(1..n) = n
  BY FS_Interval
<1>2. IsFiniteSet(S) /\ Cardinality(S) <= n
  BY <1>1, FS_Subset
<1> QED BY <1>2, FS_CardinalityType

\* The events of the operations before the first one the proxy refused are in their
\* places.
LEMMA NthOfPrefix ==
  ASSUME NEW n \in Nat, NEW ops \in SUBSET (1..n), NEW i \in 1..n, 1..i \subseteq ops
  PROVE  i <= Cardinality(ops) /\ Nth(ops, i) = i
<1> DEFINE Upto(m) == {j \in ops : j <= m}
<1>1. IsFiniteSet(ops) /\ Cardinality(ops) \in Nat
  BY UptoIsFinite
<1>2. \A m \in 1..i : Upto(m) = 1..m /\ Cardinality(Upto(m)) = m
  <2> SUFFICES ASSUME NEW m \in 1..i PROVE Upto(m) = 1..m /\ Cardinality(Upto(m)) = m
    OBVIOUS
  <2>1. ASSUME NEW j \in ops, j <= m PROVE j \in 1..m
    <3>1. j \in 1..n
      OBVIOUS
    <3> QED BY <2>1, <3>1
  <2>4. ASSUME NEW j \in 1..m PROVE j \in ops /\ j <= m
    <3>1. j \in 1..i
      OBVIOUS
    <3> QED BY <3>1
  <2>2. Upto(m) = 1..m
    BY <2>1, <2>4
  <2>3. Cardinality(1..m) = m
    BY FS_Interval
  <2> QED BY <2>2, <2>3
<1>3. \A m \in ops : m > i => Cardinality(Upto(m)) > i
  <2> SUFFICES ASSUME NEW m \in ops, m > i PROVE Cardinality(Upto(m)) > i
    OBVIOUS
  <2>1. m \in Nat /\ \A j \in ops : j \in Nat
    OBVIOUS
  <2>2. Upto(m) \in SUBSET (1..n)
    OBVIOUS
  <2>8. \A j \in ops : j <= i => j <= m
    BY <2>1
  <2>7. Upto(i) \subseteq Upto(m)
    BY <2>8
  <2>3. m \in Upto(m) /\ m \notin Upto(i)
    BY <2>1
  <2> HIDE DEF Upto
  <2>4. /\ IsFiniteSet(Upto(m)) /\ Cardinality(Upto(m)) \in Nat
        /\ IsFiniteSet(Upto(i)) /\ Cardinality(Upto(i)) = i
    BY <1>2, <2>2, <2>7, UptoIsFinite, FS_Subset
  <2>5. Cardinality(Upto(i)) <= Cardinality(Upto(m))
    BY <2>7, <2>4, FS_Subset
  <2>6. Cardinality(Upto(i)) # Cardinality(Upto(m))
    BY <2>7, <2>3, <2>4, FS_Subset
  <2> QED BY <2>4, <2>5, <2>6
<1>4. Upto(i) \subseteq ops /\ i \in ops
  OBVIOUS
<1> HIDE DEF Upto
<1>5. i <= Cardinality(ops)
  BY <1>1, <1>2, <1>4, FS_Subset
<1>6. \A m \in ops : Cardinality(Upto(m)) = i <=> m = i
  <2> SUFFICES ASSUME NEW m \in ops PROVE Cardinality(Upto(m)) = i <=> m = i
    OBVIOUS
  <2>1. m \in 1..n
    OBVIOUS
  <2>2. CASE m > i
    BY <1>3, <2>1, <2>2
  <2>3. CASE m <= i
    BY <1>2, <2>1, <2>3
  <2> QED BY <2>1, <2>2, <2>3
<1>7. Nth(ops, i) = CHOOSE m \in ops : Cardinality(Upto(m)) = i
  BY DEF Nth, Upto
<1>8. Nth(ops, i) = i
  BY <1>4, <1>6, <1>7
<1> QED BY <1>5, <1>8

\* What the results tell of a batch of n operations.
Tells(oks, batch, shielded, n) ==
  /\ oks \in UNION {[1..m -> BOOLEAN] : m \in 0..n}
  /\ \A i \in 1..n : (\A j \in 1..i : batch[j] \in {"executed", "failed"}) =>
       TradesOf(oks, n)[i] = (batch[i] = "executed")
  /\ StatusOf(oks) = "completed" <=> \A i \in 1..n : TradesOf(oks, n)[i]
  /\ shielded /\ batch[1] = "undispatched" => StatusOf(oks) # "completed"

LEMMA FullResults ==
  ASSUME NEW n \in Nat \ {0}, NEW oks \in [1..n -> BOOLEAN]
  PROVE  /\ \A i \in 1..n : TradesOf(oks, n)[i] = oks[i]
         /\ StatusOf(oks) = "completed" <=> \A i \in 1..n : TradesOf(oks, n)[i]
<1>1. DOMAIN oks = 1..n /\ Len(oks) = n
  OBVIOUS
<1>2. \A i \in 1..n : TradesOf(oks, n)[i] = oks[i]
  <2> SUFFICES ASSUME NEW i \in 1..n PROVE TradesOf(oks, n)[i] = oks[i]
    OBVIOUS
  <2>1. i <= Len(oks) /\ oks[i] \in BOOLEAN
    BY <1>1
  <2>2. TradesOf(oks, n)[i] = (i <= Len(oks) /\ oks[i])
    BY DEF TradesOf
  <2>3. CASE oks[i] = TRUE
    BY <2>1, <2>2, <2>3, Zenon
  <2>4. CASE oks[i] = FALSE
    BY <2>1, <2>2, <2>4, Zenon
  <2> QED BY <2>1, <2>3, <2>4, Zenon
<1>3. StatusOf(oks) = "completed" <=> \A i \in 1..n : oks[i]
  BY <1>1 DEF StatusOf
<1> QED BY <1>2, <1>3

\* The results of the proxy, at least for the operations before the first one refused.
LEMMA ProxyTells ==
  ASSUME NEW n \in Nat \ {0}, NEW batch \in BatchesOf(n)
  PROVE  LET proxy == ProxyResults(batch) IN
         /\ DOMAIN batch = 1..n /\ Len(batch) = n
         /\ DOMAIN proxy = 1..Len(proxy) /\ Len(proxy) \in Nat
         /\ \A i \in 1..Len(proxy) : proxy[i] \in BOOLEAN
         /\ \A i \in 1..n : (\A j \in 1..i : batch[j] \in {"executed", "failed"}) =>
              i <= Len(proxy) /\ proxy[i] = (batch[i] = "executed")
<1> DEFINE proxy == ProxyResults(batch)
           ops == ProxyExecuted(batch)
<1>1. DOMAIN batch = 1..n /\ Len(batch) = n
  BY DEF BatchesOf
<1>2. ops \in SUBSET (1..n)
  BY <1>1 DEF ProxyExecuted
<1>3. IsFiniteSet(ops) /\ Cardinality(ops) \in Nat
  <2> HIDE DEF ops
  <2> QED BY <1>2, UptoIsFinite
<1>4. proxy = [k \in 1..Cardinality(ops) |-> batch[Nth(ops, k)] = "executed"]
  BY DEF ProxyResults
<1>5. DOMAIN proxy = 1..Len(proxy) /\ Len(proxy) = Cardinality(ops)
  <2> HIDE DEF ops
  <2> QED BY <1>3, <1>4
<1>6. ASSUME NEW i \in 1..n, \A j \in 1..i : batch[j] \in {"executed", "failed"}
      PROVE  i <= Len(proxy) /\ proxy[i] = (batch[i] = "executed")
  <2>1. 1..i \subseteq ops
    BY <1>1, <1>6 DEF ProxyExecuted
  <2>2. i <= Cardinality(ops) /\ Nth(ops, i) = i
    <3> HIDE DEF ops
    <3> QED BY <1>2, <2>1, NthOfPrefix
  <2> HIDE DEF ops, proxy
  <2>3. i \in 1..Cardinality(ops)
    BY <1>3, <2>2
  <2> QED BY <1>4, <1>5, <2>2, <2>3, Zenon
<1>7. \A i \in 1..Len(proxy) : proxy[i] \in BOOLEAN
  <2> HIDE DEF ops
  <2> QED BY <1>4, <1>5, Zenon
<1> QED BY <1>1, <1>3, <1>5, <1>6, <1>7

\* The results of a batch, whichever parser read them.
LEMMA DirectTells ==
  ASSUME NEW n \in Nat \ {0}, NEW batch \in BatchesOf(n)
  PROVE  Tells(DirectResults(batch), batch, FALSE, n)
<1> DEFINE proxy == ProxyResults(batch)
           oks == DirectResults(batch)
<1>1. /\ Len(batch) = n
      /\ \A i \in 1..n : (\A j \in 1..i : batch[j] \in {"executed", "failed"}) =>
           i <= Len(proxy) /\ proxy[i] = (batch[i] = "executed")
  BY ProxyTells
<1>2. oks = [i \in 1..n |-> i <= Len(proxy) => proxy[i]]
  BY <1>1, Zenon DEF DirectResults
<1> HIDE DEF proxy, oks
<1>3. oks \in [1..n -> BOOLEAN]
  BY <1>2, Zenon
<1>4. ASSUME NEW i \in 1..n, \A j \in 1..i : batch[j] \in {"executed", "failed"}
      PROVE  oks[i] = (batch[i] = "executed")
  <2>1. oks[i] = (i <= Len(proxy) => proxy[i]) /\ oks[i] \in BOOLEAN
    BY <1>2, <1>3, Zenon
  <2>2. i <= Len(proxy) /\ proxy[i] = (batch[i] = "executed")
    BY <1>1, <1>4
  <2> QED BY <2>1, <2>2, Zenon
<1>5. n \in 0..n
  OBVIOUS
<1> QED BY <1>3, <1>4, <1>5, FullResults DEF Tells, oks

LEMMA ItemsTell ==
  ASSUME NEW n \in Nat \ {0}, NEW batch \in BatchesOf(n), ItemEvents(batch) # {}
  PROVE  Tells(ItemResults(batch), batch, TRUE, n)
<1> DEFINE proxy == ProxyResults(batch)
           oks == ItemResults(batch)
           items == ItemEvents(batch)
<1>1. /\ Len(batch) = n /\ DOMAIN batch = 1..n
      /\ \A i \in 1..n : (\A j \in 1..i : batch[j] \in {"executed", "failed"}) =>
           i <= Len(proxy) /\ proxy[i] = (batch[i] = "executed")
  BY ProxyTells
<1>2. oks = [i \in 1..n |-> ItemCompleted(batch, i) /\ (i <= Len(proxy) => proxy[i])]
  BY <1>1, Zenon DEF ItemResults
<1>3. batch[1] # "undispatched" /\ items = 1..n
  <2>1. batch \in [1..n -> Outcome]
    BY DEF ItemEvents, BatchesOf
  <2>2. \A i \in 1..n : batch[i] # "undispatched"
    BY <2>1 DEF Outcome
  <2> QED BY <1>1, <2>2 DEF ItemEvents
<1>4. \A i \in 1..n : ItemCompleted(batch, i) <=> batch[i] # "refused"
  <2> SUFFICES ASSUME NEW i \in 1..n
               PROVE  ItemCompleted(batch, i) <=> batch[i] # "refused"
    OBVIOUS
  <2>1. 1..i \subseteq 1..n
    OBVIOUS
  <2>2. i <= Cardinality(1..n) /\ Nth(1..n, i) = i
    BY <2>1, NthOfPrefix
  <2> QED BY <1>3, <2>2 DEF ItemCompleted
<1> HIDE DEF proxy, oks, items
<1>5. oks \in [1..n -> BOOLEAN]
  BY <1>2, Zenon DEF ItemCompleted
<1>6. ASSUME NEW i \in 1..n, \A j \in 1..i : batch[j] \in {"executed", "failed"}
      PROVE  oks[i] = (batch[i] = "executed")
  <2>1. oks[i] = (ItemCompleted(batch, i) /\ (i <= Len(proxy) => proxy[i]))
    BY <1>2, Zenon
  <2>2. i <= Len(proxy) /\ proxy[i] = (batch[i] = "executed")
    BY <1>1, <1>6
  <2>3. i \in 1..i
    OBVIOUS
  <2>4. batch[i] # "refused"
    BY <1>6, <2>3
  <2>5. ItemCompleted(batch, i)
    BY <1>4, <2>4
  <2>6. oks[i] \in BOOLEAN
    BY <1>5
  <2>7. oks[i] <=> batch[i] = "executed"
    BY <2>1, <2>2, <2>5, Zenon
  <2> QED BY <2>6, <2>7, Zenon
<1>7. n \in 0..n
  OBVIOUS
<1> QED BY <1>3, <1>5, <1>6, <1>7, FullResults DEF Tells, oks

\* Without items there was one call, or a batch that was not dispatched.
LEMMA SingleTells ==
  ASSUME NEW n \in Nat \ {0}, NEW batch \in BatchesOf(n), ItemEvents(batch) = {}
  PROVE  Tells(SingleResult(batch), batch, TRUE, n)
<1> DEFINE proxy == ProxyResults(batch)
           oks == SingleResult(batch)
           ok == Len(proxy) > 0 /\ proxy[1]
<1>1. /\ Len(batch) = n /\ DOMAIN batch = 1..n
      /\ Len(proxy) \in Nat
      /\ \A i \in 1..Len(proxy) : proxy[i] \in BOOLEAN
      /\ \A i \in 1..n : (\A j \in 1..i : batch[j] \in {"executed", "failed"}) =>
           i <= Len(proxy) /\ proxy[i] = (batch[i] = "executed")
  BY ProxyTells
<1>2. oks = <<ok>>
  BY Zenon DEF SingleResult
<1>3. ok \in BOOLEAN
  OBVIOUS
<1>4. batch[1] = "undispatched" => ~ok
  <2> SUFFICES ASSUME batch[1] = "undispatched" PROVE ~ok
    OBVIOUS
  <2>1. batch = [i \in 1..n |-> "undispatched"]
    BY DEF BatchesOf, Outcome
  <2>2. ProxyExecuted(batch) = {}
    BY <1>1, <2>1 DEF ProxyExecuted
  <2>3. Len(proxy) = 0
    BY <2>2, FS_EmptySet DEF ProxyResults
  <2> QED BY <2>3
<1>5. batch[1] \in {"executed", "failed"} => ok = (batch[1] = "executed")
  <2> SUFFICES ASSUME batch[1] \in {"executed", "failed"}
               PROVE  ok = (batch[1] = "executed")
    OBVIOUS
  <2>1. 1 \in 1..n /\ \A j \in 1..1 : batch[j] \in {"executed", "failed"}
    OBVIOUS
  <2>2. 1 <= Len(proxy) /\ proxy[1] = (batch[1] = "executed")
    BY <1>1, <2>1
  <2>3. Len(proxy) > 0
    BY <1>1, <2>2
  <2> QED BY <2>2, <2>3, Zenon
<1>6. n = 1 \/ batch[1] = "undispatched"
  <2>1. CASE n > 1
    <3>1. 1 \in DOMAIN batch /\ Len(batch) > 1
      BY <1>1, <2>1
    <3> QED BY <3>1 DEF ItemEvents
  <2> QED BY <2>1
<1> HIDE DEF ok, proxy, oks
<1>7. oks \in [1..1 -> BOOLEAN] /\ oks[1] = ok /\ Len(oks) = 1 /\ DOMAIN oks = 1..1
  BY <1>2, <1>3
<1>8. CASE n = 1
  <2>1. \A i \in 1..n : i = 1
    BY <1>8
  <2>2. /\ \A i \in 1..n : TradesOf(oks, n)[i] = oks[i]
        /\ StatusOf(oks) = "completed" <=> \A i \in 1..n : TradesOf(oks, n)[i]
    BY <1>7, <1>8, FullResults
  <2>3. oks \in UNION {[1..m -> BOOLEAN] : m \in 0..n}
    BY <1>7, <1>8
  <2>4. ASSUME NEW i \in 1..n, \A j \in 1..i : batch[j] \in {"executed", "failed"}
        PROVE  TradesOf(oks, n)[i] = (batch[i] = "executed")
    <3>1. i = 1 /\ 1 \in 1..i
      BY <2>1
    <3>2. batch[1] \in {"executed", "failed"}
      BY <2>4, <3>1
    <3> QED BY <1>5, <1>7, <2>2, <3>1, <3>2, Zenon
  <2>5. batch[1] = "undispatched" => StatusOf(oks) # "completed"
    <3>1. 1 \in DOMAIN oks
      BY <1>7
    <3> QED BY <1>4, <1>7, <3>1 DEF StatusOf
  <2> QED BY <2>2, <2>3, <2>4, <2>5, Zenon DEF Tells, oks
<1>9. CASE batch[1] = "undispatched"
  <2>1. oks[1] = FALSE
    BY <1>3, <1>4, <1>7, <1>9, Zenon
  <2>2. StatusOf(oks) # "completed"
    BY <1>7, <2>1 DEF StatusOf
  <2>3. oks \in UNION {[1..m -> BOOLEAN] : m \in 0..n}
    <3>1. 1 \in 0..n
      OBVIOUS
    <3> QED BY <1>7, <3>1
  <2>4. 1 \in 1..n /\ TradesOf(oks, n)[1] = FALSE
    <3>1. 1 \in 1..n
      OBVIOUS
    <3>2. TradesOf(oks, n)[1] = (1 <= Len(oks) /\ oks[1])
      BY <3>1 DEF TradesOf
    <3> QED BY <2>1, <3>1, <3>2, Zenon
  <2>5. \A i \in 1..n : ~ \A j \in 1..i : batch[j] \in {"executed", "failed"}
    <3> SUFFICES ASSUME NEW i \in 1..n PROVE 1 \in 1..i
      BY <1>9
    <3> QED OBVIOUS
  <2> QED BY <2>2, <2>3, <2>4, <2>5 DEF Tells, oks
<1> QED BY <1>6, <1>8, <1>9

LEMMA ResultsTell ==
  ASSUME NEW n \in Nat \ {0}, NEW batch \in BatchesOf(n), NEW shielded \in BOOLEAN
  PROVE  Tells(OperationResults(batch, shielded), batch, shielded, n)
<1>1. CASE shielded = FALSE
  <2>1. OperationResults(batch, shielded) = DirectResults(batch)
    BY <1>1 DEF OperationResults
  <2> QED BY <1>1, <2>1, DirectTells
<1>2. CASE shielded = TRUE
  <2>1. CASE ItemEvents(batch) = {}
    BY <1>2, <2>1, SingleTells DEF OperationResults, ShieldedResults
  <2>2. CASE ItemEvents(batch) # {}
    BY <1>2, <2>2, ItemsTell DEF OperationResults, ShieldedResults
  <2> QED BY <2>1, <2>2
<1> QED BY <1>1, <1>2


-----------------------------------------------------------------------------
(* The rows of batches.                                                    *)

\* The steps at which a cycle has not yet submitted.
Before == {"balances", "targets", "key", "simulate", "submit"}

FlagsInv ==
  /\ {dryRun, enforceSlippage, webhook, shieldKey, dbOpen} \subseteq BOOLEAN
  /\ {mevKey, planLimits, callLimits} \subseteq BOOLEAN

KindInv ==
  /\ step \in Before \cup {"idle", "batch", "post", "notify", "catch"}
  /\ before \in 0..MaxCycles /\ after \in 0..MaxCycles
  /\ cycle \in 0..MaxCycles /\ opsTotal \in 0..MaxOps
  /\ batchStatus \in {"none", "completed", "partial_failure", "timeout"}
  /\ step # "idle" => cycle > 0
  /\ step \in {"simulate", "submit", "batch", "post", "notify"} => opsTotal > 0

\* A batch is on the chain or may still get there, and once it is there it stays what it
\* is; the one of the present cycle has as many operations as its plan.
LandInv ==
  /\ pending \subseteq 1..cycle
  /\ landed \in [Cycle -> {NotLanded} \cup UNION {BatchesOf(n) : n \in 1..MaxOps}]
  /\ \A c \in Cycle : landed[c] # NotLanded => c <= cycle /\ c \notin pending
  /\ step \in Before => cycle \notin pending /\ landed[cycle] = NotLanded
  /\ step # "idle" /\ cycle \in pending => opsTotal > 0
  /\ step # "idle" /\ landed[cycle] # NotLanded => landed[cycle] \in BatchesOf(opsTotal)

\* The balances fetched first do not reflect the cycle's own batch.
BalanceInv ==
  step # "idle" => before <= Cardinality({c \in Cycle : landed[c] # NotLanded} \ {cycle})

\* What the cycle holds of its batch is what the parsers make of it.
ResultInv ==
  /\ results \in Trades
  /\ step \in Before \cup {"batch"} => batchStatus = "none" /\ results = <<>>
  /\ step \in {"batch", "post"} => \E b \in sent : b.cycle = cycle /\ b.shielded = mevKey
  /\ step = "post" =>
       \/ batchStatus = "timeout" /\ results = <<>>
       \/ /\ landed[cycle] # NotLanded
          /\ results = OperationResults(landed[cycle], mevKey)
          /\ batchStatus = StatusOf(results)

\* What RowsAreTrue says of a row, and that the batch of a row that speaks of it is on
\* the chain.
Truthful(row) ==
  LET batch == landed[row.cycle] IN
    ~dryRun =>
      /\ row.status \in {"completed", "partial_failure"} =>
           /\ batch # NotLanded
           /\ row.before < row.after
           /\ \A i \in 1..row.opsTotal :
                (\A j \in 1..i : batch[j] \in {"executed", "failed"}) =>
                  row.trades[i] = (batch[i] = "executed")
      /\ row.opsTotal > 0 =>
           /\ row.status = "completed" <=> \A i \in 1..row.opsTotal : row.trades[i]
           /\ row.status = "completed" /\ batch[1] = "undispatched" =>
                \E b \in sent : b.cycle = row.cycle /\ ~b.shielded

TruthInv ==
  /\ rows \in Seq(Row)
  /\ \A k \in DOMAIN rows : DOMAIN rows[k].trades = 1..rows[k].opsTotal
  /\ \A k \in DOMAIN rows : Truthful(rows[k])

SentInv == sent \subseteq [cycle : Cycle, shielded : BOOLEAN, limits : BOOLEAN,
                          planned : BOOLEAN]

LEMMA FlagsStep == FlagsInv /\ [Next]_vars => FlagsInv'
<1> SUFFICES ASSUME FlagsInv, [Next]_vars PROVE FlagsInv'
  OBVIOUS
<1> USE DEF planVars, envVars
<1>1. {dryRun, enforceSlippage, webhook, shieldKey, dbOpen}' \subseteq BOOLEAN
  <2>1. UNCHANGED <<dryRun, enforceSlippage, webhook>>
        /\ shieldKey' \in {shieldKey, ~shieldKey} /\ dbOpen' \in {dbOpen, FALSE}
    BY DEF Next, KeyChanges, DbCloses, BatchLands, BeginCycle, BalancesFetched, StrategySkips,
           TargetsReturned, KeyRead, Simulated, Submit, BatchReported, PostBalancesFetched,
           NotificationSent, NotificationFails, Fails, SubmissionFails, CatchRecords, vars
  <2> QED BY <2>1, Zenon DEF FlagsInv
<1>2. UNCHANGED <<mevKey, planLimits, callLimits>> \/ KeyRead \/ Simulated
  BY DEF Next, KeyChanges, DbCloses, BatchLands, BeginCycle, BalancesFetched, StrategySkips,
         TargetsReturned, Submit, BatchReported, PostBalancesFetched, ownVars,
         NotificationSent, NotificationFails, Fails, SubmissionFails, CatchRecords, vars
<1>3. CASE UNCHANGED <<mevKey, planLimits, callLimits>>
  BY <1>1, <1>3, Zenon DEF FlagsInv
<1>4. CASE KeyRead
  <2>1. mevKey' = shieldKey /\ planLimits' \in BOOLEAN /\ callLimits' = callLimits
    BY <1>4, Zenon DEF KeyRead
  <2> QED BY <1>1, <2>1, Zenon DEF FlagsInv
<1>5. CASE Simulated
  <2>1. mevKey' = mevKey /\ planLimits' = planLimits /\ callLimits' \in BOOLEAN
    BY <1>5, Zenon DEF Simulated, CallLimits
  <2> QED BY <1>1, <2>1, Zenon DEF FlagsInv
<1> QED BY <1>2, <1>3, <1>4, <1>5

LEMMA BalancesCount ==
  ASSUME NEW S \in SUBSET Cycle
  PROVE  IsFiniteSet(S) /\ Cardinality(S) \in 0..MaxCycles
BY UptoIsFinite, CycleAssumption DEF Cycle, CycleAssumption

LEMMA KindStep == KindInv /\ [Next]_vars => KindInv'
<1> SUFFICES ASSUME KindInv, [Next]_vars PROVE KindInv'
  OBVIOUS
<1> USE DEF KindInv, Before, envVars, chainVars, planVars, resultVars, ownVars
<1>1. CASE KeyChanges \/ DbCloses \/ \E c \in Cycle : BatchLands(c)
  BY <1>1 DEF KeyChanges, DbCloses, BatchLands
<1>2. CASE BeginCycle
  BY <1>2, CycleAssumption DEF BeginCycle, CycleAssumption
<1>3. CASE BalancesFetched
  <2>1. Balances \in 0..MaxCycles
    BY BalancesCount DEF Balances
  <2> QED BY <1>3, <2>1 DEF BalancesFetched
<1>4. CASE TargetsReturned \/ StrategySkips \/ Submit
  BY <1>4 DEF TargetsReturned, StrategySkips, Submit, Return
<1>5. CASE KeyRead
  BY <1>5 DEF KeyRead, Return
<1>6. CASE Simulated
  BY <1>6 DEF Simulated, ReturnResult, Return
<1>7. CASE BatchReported
  BY <1>7 DEF BatchReported, StatusOf
<1>8. CASE SubmissionFails \/ Fails \/ NotificationFails
  BY <1>8 DEF SubmissionFails, Fails, NotificationFails, Throw
<1>9. CASE PostBalancesFetched
  <2>1. Balances \in 0..MaxCycles
    BY BalancesCount DEF Balances
  <2> QED BY <1>9, <2>1 DEF PostBalancesFetched, ReturnResult, Return
<1>10. CASE NotificationSent \/ CatchRecords
  BY <1>10 DEF NotificationSent, CatchRecords, ReturnResult, Return
<1>11. CASE UNCHANGED vars
  BY <1>11 DEF vars
<1> QED
  BY <1>1, <1>2, <1>3, <1>4, <1>5, <1>6, <1>7, <1>8, <1>9, <1>10, <1>11 DEF Next

LEMMA BatchIsLanded ==
  ASSUME NEW n \in Nat \ {0}, NEW batch \in BatchesOf(n)
  PROVE  batch # NotLanded
<1>1. DOMAIN batch = 1..n /\ 1 \in 1..n
  BY ProxyTells
<1>2. DOMAIN NotLanded = {}
  BY DEF NotLanded
<1> QED BY <1>1, <1>2

LEMMA LandKept ==
  ASSUME KindInv, LandInv, UNCHANGED <<pending, landed, cycle, opsTotal>>,
         step' \in Before => step \in Before, step' # "idle" => step # "idle"
  PROVE  LandInv'
BY DEF LandInv

LEMMA LandStep == KindInv /\ LandInv /\ [Next]_vars => LandInv'
<1> SUFFICES ASSUME KindInv, LandInv, [Next]_vars PROVE LandInv'
  OBVIOUS
<1> USE DEF envVars, chainVars, planVars, resultVars, ownVars
<1>1. CASE KeyChanges \/ DbCloses \/ UNCHANGED vars
  BY <1>1, LandKept DEF KeyChanges, DbCloses, vars
<1>2. CASE \E c \in Cycle : BatchLands(c)
  <2>1. PICK c \in Cycle : BatchLands(c)
    BY <1>2
  <2>2. PICK batch \in (IF c = cycle /\ step # "idle" THEN BatchesOf(opsTotal)
                         ELSE {<<"executed">>}) :
          landed' = [landed EXCEPT ![c] = batch]
    BY <2>1 DEF BatchLands
  <2>3. c \in pending /\ pending' = pending \ {c} /\ UNCHANGED <<cycle, step, opsTotal>>
    BY <2>1 DEF BatchLands
  <2>4. c = cycle /\ step # "idle" => opsTotal \in 1..MaxOps /\ batch \in BatchesOf(opsTotal)
    BY <2>2, <2>3 DEF KindInv, LandInv
  <2>5. batch \in UNION {BatchesOf(n) : n \in 1..MaxOps}
    <3>1. CASE c = cycle /\ step # "idle"
      BY <2>4, <3>1
    <3>2. CASE ~(c = cycle /\ step # "idle")
      <4>1. batch = <<"executed">>
        BY <2>2, <3>2
      <4>2. batch \in BatchesOf(1)
        BY <4>1 DEF BatchesOf, Outcome
      <4>3. 1 \in 1..MaxOps
        BY CycleAssumption DEF CycleAssumption
      <4> QED BY <4>2, <4>3
    <3> QED BY <3>1, <3>2
  <2>6. landed' \in [Cycle -> {NotLanded} \cup UNION {BatchesOf(n) : n \in 1..MaxOps}]
    BY <2>2, <2>5 DEF LandInv
  <2>7. step \in Before => c # cycle
    BY <2>3 DEF LandInv
  <2>8. \A d \in Cycle : landed'[d] = (IF d = c THEN batch ELSE landed[d])
    BY <2>2 DEF LandInv
  <2>9. step # "idle" => cycle \in Cycle
    BY DEF KindInv, Cycle
  <2>10. step \in Before => step # "idle"
    BY DEF Before
  <2>11. \A d \in Cycle : landed'[d] # NotLanded => d <= cycle' /\ d \notin pending'
    BY <2>3, <2>8 DEF LandInv, KindInv
  <2>12. step \in Before => landed'[cycle] = landed[cycle]
    BY <2>7, <2>8, <2>9, <2>10
  <2>13. step # "idle" /\ landed'[cycle] # NotLanded => landed'[cycle] \in BatchesOf(opsTotal)
    BY <2>4, <2>8, <2>9 DEF LandInv
  <2> QED BY <2>3, <2>6, <2>11, <2>12, <2>13 DEF LandInv
<1>3. CASE BeginCycle
  <2>1. cycle' = cycle + 1 /\ cycle \in Nat /\ cycle' \in Cycle /\ opsTotal' = 0
        /\ UNCHANGED <<pending, landed>>
    BY <1>3, CycleAssumption DEF BeginCycle, KindInv, Cycle, CycleAssumption
  <2>2. cycle' \notin pending /\ landed[cycle'] = NotLanded
    BY <2>1 DEF LandInv
  <2>3. pending \subseteq 1..cycle' /\ \A c \in Cycle : c <= cycle => c <= cycle'
    BY <2>1 DEF LandInv, Cycle
  <2> QED BY <2>1, <2>2, <2>3 DEF LandInv
<1>4. CASE KeyRead
  <2>1. step \in Before /\ UNCHANGED <<pending, landed, cycle>> /\ step # "idle"
    BY <1>4 DEF KeyRead, Before
  <2> QED BY <2>1 DEF LandInv
<1>5. CASE Submit
  <2>1. /\ step = "submit" /\ step' = "batch" /\ pending' = pending \cup {cycle}
        /\ UNCHANGED <<landed, cycle, opsTotal>> /\ cycle > 0 /\ opsTotal > 0 /\ cycle \in Nat
    BY <1>5 DEF Submit, KindInv
  <2>2. landed[cycle] = NotLanded
    BY <2>1 DEF LandInv, Before
  <2> QED BY <2>1, <2>2 DEF LandInv, Before
<1>6. CASE BalancesFetched \/ TargetsReturned
  BY <1>6, LandKept DEF BalancesFetched, TargetsReturned, Before
<1>7. CASE StrategySkips \/ Simulated
  BY <1>7, LandKept DEF StrategySkips, Simulated, ReturnResult, Return, Before
<1>8. CASE BatchReported \/ SubmissionFails \/ Fails \/ NotificationFails
  BY <1>8, LandKept DEF BatchReported, SubmissionFails, Fails, NotificationFails, Throw, Before
<1>9. CASE PostBalancesFetched \/ NotificationSent \/ CatchRecords
  BY <1>9, LandKept
  DEF PostBalancesFetched, NotificationSent, CatchRecords, ReturnResult, Return, Before
<1> QED
  BY <1>1, <1>2, <1>3, <1>4, <1>5, <1>6, <1>7, <1>8, <1>9 DEF Next

\* Batches that have landed only become more.
LEMMA LandedGrows ==
  ASSUME LandInv, [Next]_vars
  PROVE  \A c \in Cycle : landed[c] # NotLanded => landed'[c] = landed[c]
<1>1. CASE \E c \in Cycle : BatchLands(c)
  <2>1. PICK c \in Cycle : BatchLands(c)
    BY <1>1
  <2>3. c \in pending /\ \E batch : landed' = [landed EXCEPT ![c] = batch]
    BY <2>1 DEF BatchLands
  <2>2. \A d \in Cycle : d # c => landed'[d] = landed[d]
    BY <2>3 DEF LandInv
  <2> QED BY <2>2, <2>3 DEF LandInv
<1>2. CASE ~ \E c \in Cycle : BatchLands(c)
  <2>1. landed' = landed
    BY <1>2 DEF Next, KeyChanges, DbCloses, BeginCycle, BalancesFetched, StrategySkips,
         TargetsReturned, KeyRead, Simulated, Submit, BatchReported, PostBalancesFetched,
         NotificationSent, NotificationFails, Fails, SubmissionFails, CatchRecords, vars,
         chainVars
  <2> QED BY <2>1
<1> QED BY <1>1, <1>2

LEMMA BalanceStep == KindInv /\ LandInv /\ BalanceInv /\ [Next]_vars => BalanceInv'
<1> DEFINE L == {c \in Cycle : landed[c] # NotLanded}
<1> SUFFICES ASSUME KindInv, LandInv, BalanceInv, [Next]_vars PROVE BalanceInv'
  OBVIOUS
<1> USE DEF planVars, chainVars, resultVars, ownVars
<1>1. L \subseteq L' /\ L \subseteq Cycle /\ L' \subseteq Cycle
  BY LandedGrows
<1>2. \A c : Cardinality(L \ {c}) <= Cardinality(L' \ {c}) /\ Cardinality(L \ {c}) \in Nat
             /\ Cardinality(L' \ {c}) \in Nat
  <2> SUFFICES ASSUME NEW c
               PROVE  /\ Cardinality(L \ {c}) <= Cardinality(L' \ {c})
                      /\ Cardinality(L \ {c}) \in Nat /\ Cardinality(L' \ {c}) \in Nat
    OBVIOUS
  <2> HIDE DEF L
  <2>1. L \ {c} \in SUBSET Cycle /\ L' \ {c} \in SUBSET Cycle /\ L \ {c} \subseteq L' \ {c}
    BY <1>1
  <2>2. IsFiniteSet(L' \ {c}) /\ Cardinality(L' \ {c}) \in Nat /\ Cardinality(L \ {c}) \in Nat
    BY <2>1, BalancesCount
  <2> QED BY <2>1, <2>2, FS_Subset
<1>3. CASE UNCHANGED <<before, cycle>> /\ (step' # "idle" => step # "idle")
  <2> HIDE DEF L
  <2>1. step' # "idle" => before <= Cardinality(L \ {cycle})
    BY <1>3 DEF BalanceInv, L
  <2>2. step' # "idle" => before' <= Cardinality(L' \ {cycle'})
    BY <1>2, <1>3, <2>1 DEF KindInv
  <2> QED BY <2>2 DEF BalanceInv, L
<1>4. CASE BeginCycle
  <2>1. before' = 0
    BY <1>4 DEF BeginCycle
  <2> HIDE DEF L
  <2>3. Cardinality(L' \ {cycle'}) \in Nat
    BY <1>2
  <2>2. before' <= Cardinality(L' \ {cycle'})
    BY <2>1, <2>3
  <2> QED BY <2>2 DEF BalanceInv, L
<1>5. CASE BalancesFetched
  <2>1. before' = Cardinality(L) /\ cycle' = cycle /\ landed' = landed
    BY <1>5 DEF BalancesFetched, Balances
  <2>2. cycle \notin L
    BY <1>5 DEF BalancesFetched, LandInv, Before
  <2>3. L' = L /\ L \ {cycle} = L
    BY <2>1, <2>2
  <2> HIDE DEF L
  <2>4. before' <= Cardinality(L' \ {cycle'})
    BY <1>2, <2>1, <2>3
  <2> QED BY <2>4 DEF BalanceInv, L
<1>6. \/ UNCHANGED <<before, cycle>> /\ (step' # "idle" => step # "idle")
      \/ BeginCycle
      \/ BalancesFetched
  BY DEF Next, KeyChanges, DbCloses, BatchLands, StrategySkips,
         TargetsReturned, KeyRead, Simulated, Submit, BatchReported, PostBalancesFetched,
         NotificationSent, NotificationFails, Fails, SubmissionFails, CatchRecords, vars,
         ReturnResult, Return
<1> QED BY <1>3, <1>4, <1>5, <1>6

LEMMA ResultStep == FlagsInv /\ KindInv /\ LandInv /\ ResultInv /\ [Next]_vars => ResultInv'
<1> SUFFICES ASSUME FlagsInv, KindInv, LandInv, ResultInv, [Next]_vars PROVE ResultInv'
  OBVIOUS
<1> USE DEF envVars, chainVars, planVars, resultVars, ownVars
<1>1. ASSUME UNCHANGED <<resultVars, sent, cycle>>, step' \in {"batch", "post"} => step' = step,
             step' \in Before => step \in Before, step' = "post" => UNCHANGED <<landed, mevKey>>,
             step' = "batch" => UNCHANGED mevKey
      PROVE  ResultInv'
  BY <1>1 DEF ResultInv
<1>2. CASE KeyChanges \/ DbCloses \/ UNCHANGED vars
  BY <1>1, <1>2 DEF KeyChanges, DbCloses, vars
<1>3. CASE \E c \in Cycle : BatchLands(c)
  <2>1. UNCHANGED <<resultVars, sent, cycle, step, mevKey>>
    BY <1>3 DEF BatchLands
  <2>2. step = "post" /\ landed[cycle] # NotLanded =>
          landed'[cycle'] = landed[cycle]
    <3>1. step = "post" => cycle \in Cycle
      BY DEF KindInv, Cycle
    <3> QED BY <2>1, <3>1, LandedGrows
  <2> QED BY <2>1, <2>2 DEF ResultInv
<1>4. CASE BeginCycle
  <2>1. batchStatus' = "none" /\ results' = <<>> /\ step' = "balances"
    BY <1>4 DEF BeginCycle
  <2>2. <<>> \in [1..0 -> BOOLEAN] /\ 0 \in 0..MaxOps
    BY CycleAssumption DEF CycleAssumption
  <2>3. results' \in Trades
    BY <2>1, <2>2 DEF Trades
  <2> QED BY <2>1, <2>3 DEF ResultInv
<1>5. CASE BalancesFetched \/ TargetsReturned
  BY <1>1, <1>5 DEF BalancesFetched, TargetsReturned, Before
<1>6. CASE StrategySkips \/ KeyRead \/ Simulated
  BY <1>1, <1>6 DEF StrategySkips, KeyRead, Simulated, ReturnResult, Return, Before
<1>7. CASE SubmissionFails \/ Fails \/ NotificationFails
  BY <1>1, <1>7 DEF SubmissionFails, Fails, NotificationFails, Throw, Before
<1>8. CASE PostBalancesFetched \/ NotificationSent \/ CatchRecords
  BY <1>1, <1>8
  DEF PostBalancesFetched, NotificationSent, CatchRecords, ReturnResult, Return, Before
<1>9. CASE Submit
  <2> DEFINE b == [cycle |-> cycle, shielded |-> mevKey, limits |-> callLimits,
                   planned |-> planLimits]
  <2>1. /\ step = "submit" /\ step' = "batch" /\ sent' = sent \cup {b}
        /\ UNCHANGED <<cycle, mevKey, batchStatus, results>>
    BY <1>9, Zenon DEF Submit
  <2>2. b.cycle = cycle' /\ b.shielded = mevKey'
    BY <2>1, Zenon
  <2>3. b \in sent'
    BY <2>1, Zenon
  <2>4. \E d \in sent' : d.cycle = cycle' /\ d.shielded = mevKey'
    BY <2>2, <2>3, Zenon
  <2>5. batchStatus = "none" /\ results = <<>>
    BY <2>1 DEF ResultInv, Before
  <2> QED BY <2>1, <2>4, <2>5 DEF ResultInv
<1>10. CASE BatchReported
  <2>1. /\ step = "batch" /\ step' = "post" /\ UNCHANGED <<landed, cycle, mevKey, sent>>
    BY <1>10 DEF BatchReported
  <2>2. \E b \in sent' : b.cycle = cycle' /\ b.shielded = mevKey'
    BY <2>1 DEF ResultInv
  <2>3. CASE batchStatus' = "timeout" /\ UNCHANGED results
    BY <2>1, <2>2, <2>3 DEF ResultInv, Before
  <2>4. CASE /\ landed[cycle] # NotLanded
             /\ results' = OperationResults(landed[cycle], mevKey)
             /\ batchStatus' = StatusOf(results')
    <3>1. opsTotal \in 1..MaxOps /\ landed[cycle] \in BatchesOf(opsTotal) /\ mevKey \in BOOLEAN
      BY <2>1, <2>4 DEF LandInv, KindInv, FlagsInv
    <3>2. opsTotal \in Nat \ {0} /\ 0..opsTotal \subseteq 0..MaxOps
      BY <3>1, CycleAssumption DEF CycleAssumption
    <3>3. results' \in UNION {[1..m -> BOOLEAN] : m \in 0..opsTotal}
      BY <2>4, <3>1, <3>2, ResultsTell DEF Tells
    <3>4. results' \in Trades
      BY <3>2, <3>3 DEF Trades
    <3> QED BY <2>1, <2>2, <2>4, <3>4 DEF ResultInv, Before
  <2> QED BY <1>10, <2>3, <2>4 DEF BatchReported
<1> QED
  BY <1>2, <1>3, <1>4, <1>5, <1>6, <1>7, <1>8, <1>9, <1>10 DEF Next

LEMMA SentStep == FlagsInv /\ KindInv /\ SentInv /\ [Next]_vars => SentInv'
<1> SUFFICES ASSUME FlagsInv, KindInv, SentInv, [Next]_vars PROVE SentInv'
  OBVIOUS
<1>1. sent' = sent \/ Submit
  BY DEF Next, KeyChanges, DbCloses, BatchLands, BeginCycle, BalancesFetched, StrategySkips,
         TargetsReturned, KeyRead, Simulated, BatchReported, PostBalancesFetched, ownVars,
         NotificationSent, NotificationFails, Fails, SubmissionFails, CatchRecords, vars
<1>2. CASE Submit
  <2> DEFINE b == [cycle |-> cycle, shielded |-> mevKey, limits |-> callLimits,
                   planned |-> planLimits]
  <2>1. cycle \in Cycle
    BY <1>2 DEF Submit, KindInv, Cycle
  <2>2. mevKey \in BOOLEAN /\ callLimits \in BOOLEAN /\ planLimits \in BOOLEAN
    BY Zenon DEF FlagsInv
  <2>3. sent' = sent \cup {b}
    BY <1>2, Zenon DEF Submit
  <2>4. b \in [cycle : Cycle, shielded : BOOLEAN, limits : BOOLEAN, planned : BOOLEAN]
    BY <2>1, <2>2, Zenon
  <2> QED BY <2>3, <2>4, Zenon DEF SentInv
<1> QED BY <1>1, <1>2 DEF SentInv

\* What was true of a row stays true.
LEMMA TruthKept ==
  ASSUME LandInv, [Next]_vars, NEW row \in Row, Truthful(row)
  PROVE  Truthful(row)'
<1> USE DEF envVars, chainVars, planVars, resultVars, ownVars
<1>1. dryRun' = dryRun /\ sent \subseteq sent'
  BY DEF Next, KeyChanges, DbCloses, BatchLands, BeginCycle, BalancesFetched, StrategySkips,
         TargetsReturned, KeyRead, Simulated, Submit, BatchReported, PostBalancesFetched,
         NotificationSent, NotificationFails, Fails, SubmissionFails, CatchRecords, vars
<1>2. row.cycle \in Cycle
  BY DEF Row
<1>3. landed[row.cycle] # NotLanded => landed'[row.cycle] = landed[row.cycle]
  BY <1>2, LandedGrows
<1> QED BY <1>1, <1>3 DEF Truthful

LEMMA TruthAppended ==
  ASSUME TruthInv, NEW row \in Row, Record(row), DOMAIN row.trades = 1..row.opsTotal,
         Truthful(row)', \A r \in Row : Truthful(r) => Truthful(r)'
  PROVE  TruthInv'
<1>1. /\ rows \in Seq(Row) /\ \A k \in DOMAIN rows : rows[k] \in Row
      /\ \A k \in DOMAIN rows : DOMAIN rows[k].trades = 1..rows[k].opsTotal
      /\ \A k \in DOMAIN rows : Truthful(rows[k])
  BY DEF TruthInv
<1> DEFINE Sound == {r \in Row : DOMAIN r.trades = 1..r.opsTotal /\ Truthful(r)'}
<1>2. \A k \in DOMAIN rows : rows[k] \in Sound
  BY <1>1
<1>3. row \in Sound
  OBVIOUS
<1>4. /\ rows' \in Seq(Row)
      /\ \A k \in DOMAIN rows' :
           rows'[k] = row \/ \E j \in DOMAIN rows : rows'[k] = rows[j]
  BY <1>1 DEF Record
<1> HIDE DEF Sound
<1>5. \A k \in DOMAIN rows' : rows'[k] \in Sound
  BY <1>2, <1>3, <1>4
<1> QED BY <1>4, <1>5 DEF Sound, TruthInv

LEMMA TruthUntouched ==
  ASSUME TruthInv, UNCHANGED rows, \A r \in Row : Truthful(r) => Truthful(r)'
  PROVE  TruthInv'
<1>1. \A k \in DOMAIN rows : rows[k] \in Row /\ Truthful(rows[k])
  BY DEF TruthInv
<1> QED BY <1>1 DEF TruthInv

LEMMA EmptyRowIsTrue ==
  ASSUME KindInv, step # "idle", NEW s \in {"no_ops", "error"}, NEW row, row = EmptyRow(s)
  PROVE  row \in Row /\ DOMAIN row.trades = 1..row.opsTotal /\ Truthful(row)'
<1>1. cycle \in Cycle /\ before \in 0..MaxCycles /\ s \in Status
  BY DEF KindInv, Cycle, Status
<1>2. <<>> \in [1..0 -> BOOLEAN] /\ 0 \in 0..MaxOps
  BY CycleAssumption DEF CycleAssumption
<1>3. <<>> \in Trades /\ 0 \in 0..MaxOps
  BY <1>2 DEF Trades
<1>4. row \in Row
  BY <1>1, <1>3 DEF EmptyRow, Row
<1>5. row.status = s /\ row.opsTotal = 0 /\ row.trades = <<>>
  BY DEF EmptyRow
<1> QED BY <1>4, <1>5 DEF Truthful

LEMMA ResultRowIsARow ==
  ASSUME KindInv, ResultInv, step # "idle", NEW a \in 0..MaxCycles, NEW row,
         row = RowOfResult(a)
  PROVE  /\ row \in Row /\ DOMAIN row.trades = 1..row.opsTotal
         /\ row.cycle = cycle /\ row.status = ResultStatus /\ row.opsTotal = opsTotal
         /\ row.trades = TradesOf(results, opsTotal) /\ row.before = before /\ row.after = a
<1>1. /\ cycle \in Cycle /\ before \in 0..MaxCycles
      /\ ResultStatus \in Status /\ opsTotal \in 0..MaxOps
  BY DEF KindInv, Cycle, Status, ResultStatus
<1>2. TradesOf(results, opsTotal) \in [1..opsTotal -> BOOLEAN]
  BY Zenon DEF TradesOf
<1>3. TradesOf(results, opsTotal) \in Trades
  BY <1>1, <1>2 DEF Trades
<1>4. OpsSucceeded(results) \in 0..MaxOps
  <2>1. PICK m \in 0..MaxOps : results \in [1..m -> BOOLEAN]
    BY DEF ResultInv, Trades
  <2> DEFINE S == {i \in DOMAIN results : results[i]}
  <2>2. S \in SUBSET (1..m) /\ m \in Nat
    BY <2>1
  <2> HIDE DEF S
  <2>3. Cardinality(S) \in 0..m
    BY <2>2, UptoIsFinite
  <2>4. Cardinality(S) \in 0..MaxOps
    BY <2>3, CycleAssumption DEF CycleAssumption
  <2> QED BY <2>4 DEF S, OpsSucceeded
<1>5. row = [cycle |-> cycle, status |-> ResultStatus, opsTotal |-> opsTotal,
             opsSucceeded |-> OpsSucceeded(results), trades |-> TradesOf(results, opsTotal),
             before |-> before, after |-> a]
  BY DEF RowOfResult, EmptyRow
<1> HIDE DEF ResultStatus
<1>6. row \in Row
  BY <1>1, <1>3, <1>4, <1>5 DEF Row
<1>7. DOMAIN TradesOf(results, opsTotal) = 1..opsTotal
  BY DEF TradesOf
<1> QED BY <1>5, <1>6, <1>7

\* The row that is written after the balances were fetched again.
LEMMA ReportedRowIsTrue ==
  ASSUME FlagsInv, KindInv, LandInv, BalanceInv, ResultInv, step = "post",
         NEW row, row = RowOfResult(Balances)
  PROVE  Truthful(row)
<1> DEFINE L == {c \in Cycle : landed[c] # NotLanded}
<1>1. Balances \in 0..MaxCycles /\ Balances = Cardinality(L) /\ IsFiniteSet(L)
  BY BalancesCount DEF Balances
<1>2. /\ row.cycle = cycle /\ row.status = ResultStatus /\ row.opsTotal = opsTotal
      /\ row.trades = TradesOf(results, opsTotal) /\ row.before = before /\ row.after = Balances
  BY <1>1, ResultRowIsARow
<1>3. cycle \in Cycle /\ opsTotal \in Nat \ {0} /\ before \in Nat
  BY CycleAssumption DEF KindInv, Cycle, CycleAssumption
<1>4. CASE batchStatus = "timeout" /\ results = <<>>
  <2>1. row.status = "timeout"
    BY <1>2, <1>4 DEF ResultStatus
  <2>2. 1 \in 1..opsTotal /\ ~(1 <= Len(results))
    BY <1>3, <1>4
  <2>3. TradesOf(results, opsTotal)[1] = FALSE
    <3>1. TradesOf(results, opsTotal)[1] = (1 <= Len(results) /\ results[1])
      BY <2>2 DEF TradesOf
    <3> QED BY <2>2, <3>1, Zenon
  <2>4. ~ \A i \in 1..row.opsTotal : row.trades[i]
    BY <1>2, <2>2, <2>3
  <2> QED BY <2>1, <2>4 DEF Truthful
<1>5. CASE /\ landed[cycle] # NotLanded
           /\ results = OperationResults(landed[cycle], mevKey)
           /\ batchStatus = StatusOf(results)
  <2> DEFINE batch == landed[cycle]
  <2>1. batch \in BatchesOf(opsTotal) /\ mevKey \in BOOLEAN
    BY <1>5 DEF LandInv, FlagsInv
  <2>2. Tells(results, batch, mevKey, opsTotal)
    BY <1>3, <1>5, <2>1, ResultsTell
  <2>3. row.status = StatusOf(results)
    BY <1>2, <1>5 DEF ResultStatus, StatusOf
  <2>4. row.before < row.after
    <3>1. cycle \in L
      BY <1>3, <1>5
    <3>2. before <= Cardinality(L \ {cycle})
      BY DEF BalanceInv
    <3> HIDE DEF L
    <3>3. Cardinality(L \ {cycle}) = Cardinality(L) - 1
      BY <1>1, <3>1, FS_RemoveElement
    <3> QED BY <1>1, <1>2, <1>3, <3>2, <3>3
  <2>5. \A i \in 1..row.opsTotal :
          (\A j \in 1..i : batch[j] \in {"executed", "failed"}) =>
            row.trades[i] = (batch[i] = "executed")
    BY <1>2, <2>2 DEF Tells
  <2>6. row.status = "completed" <=> \A i \in 1..row.opsTotal : row.trades[i]
    BY <1>2, <2>2, <2>3 DEF Tells
  <2>7. row.status = "completed" /\ batch[1] = "undispatched" =>
          \E b \in sent : b.cycle = row.cycle /\ ~b.shielded
    <3> SUFFICES ASSUME row.status = "completed", batch[1] = "undispatched"
                 PROVE  \E b \in sent : b.cycle = row.cycle /\ ~b.shielded
      OBVIOUS
    <3>1. ~mevKey
      BY <2>2, <2>3 DEF Tells
    <3>2. PICK b \in sent : b.cycle = cycle /\ b.shielded = mevKey
      BY DEF ResultInv
    <3> QED BY <1>2, <3>1, <3>2, Zenon
  <2>8. landed[row.cycle] = batch /\ batch # NotLanded
    BY <1>2, <1>5
  <2> HIDE DEF batch
  <2> QED BY <2>4, <2>5, <2>6, <2>7, <2>8, Zenon DEF Truthful
<1> QED BY <1>4, <1>5 DEF ResultInv

\* That of a dry run says nothing of a batch.
LEMMA DryRowIsTrue ==
  ASSUME dryRun, NEW row
  PROVE  Truthful(row)
BY DEF Truthful

LEMMA TruthStep ==
  FlagsInv /\ KindInv /\ LandInv /\ BalanceInv /\ ResultInv /\ TruthInv /\ [Next]_vars
    => TruthInv'
<1> SUFFICES ASSUME FlagsInv, KindInv, LandInv, BalanceInv, ResultInv, TruthInv, [Next]_vars
             PROVE  TruthInv'
  OBVIOUS
<1> USE DEF envVars, chainVars, planVars, resultVars, ownVars
<1>1. \A r \in Row : Truthful(r) => Truthful(r)'
  BY TruthKept
<1>2. CASE UNCHANGED rows
  BY <1>1, <1>2, TruthUntouched
<1>3. ASSUME NEW s \in {"no_ops", "error"}, step # "idle", Record(EmptyRow(s))
      PROVE  TruthInv'
  <2>1. PICK row : row = EmptyRow(s)
    OBVIOUS
  <2>2. row \in Row /\ DOMAIN row.trades = 1..row.opsTotal /\ Truthful(row)'
    BY <1>3, <2>1, EmptyRowIsTrue
  <2>3. Record(row)
    BY <1>3, <2>1
  <2> QED BY <1>1, <2>2, <2>3, TruthAppended
<1>4. CASE Simulated /\ ~UNCHANGED rows
  <2>1. PICK row : row = RowOfResult(before)
    OBVIOUS
  <2>2. dryRun /\ Record(row) /\ step = "simulate" /\ before \in 0..MaxCycles
    BY <1>4, <2>1 DEF Simulated, KindInv
  <2>3. row \in Row /\ DOMAIN row.trades = 1..row.opsTotal
    BY <2>1, <2>2, ResultRowIsARow
  <2>4. Truthful(row)'
    BY <1>1, <2>2, <2>3, DryRowIsTrue
  <2> QED BY <1>1, <2>2, <2>3, <2>4, TruthAppended
<1>5. CASE PostBalancesFetched
  <2>1. PICK row : row = RowOfResult(Balances)
    OBVIOUS
  <2>2. Record(row) /\ step = "post" /\ Balances \in 0..MaxCycles
    BY <1>5, <2>1, BalancesCount DEF PostBalancesFetched, Balances
  <2>3. row \in Row /\ DOMAIN row.trades = 1..row.opsTotal
    BY <2>1, <2>2, ResultRowIsARow
  <2>4. Truthful(row)'
    BY <1>1, <2>1, <2>2, <2>3, ReportedRowIsTrue
  <2> QED BY <1>1, <2>2, <2>3, <2>4, TruthAppended
<1>6. CASE StrategySkips
  BY <1>3, <1>6 DEF StrategySkips
<1>7. CASE CatchRecords
  BY <1>3, <1>7 DEF CatchRecords
<1>8. CASE KeyRead
  BY <1>2, <1>3, <1>8 DEF KeyRead
<1> QED
  BY <1>2, <1>4, <1>5, <1>6, <1>7, <1>8
  DEF Next, KeyChanges, DbCloses, BatchLands, BeginCycle, BalancesFetched,
      TargetsReturned, Submit, BatchReported, NotificationSent, NotificationFails, Fails,
      SubmissionFails, vars

ReportInv ==
  FlagsInv /\ KindInv /\ LandInv /\ BalanceInv /\ ResultInv /\ TruthInv /\ SentInv

LEMMA InitReportInv == Init => ReportInv
<1> SUFFICES ASSUME Init PROVE ReportInv
  OBVIOUS
<1>1. FlagsInv
  BY Zenon DEF Init, FlagsInv
<1>2. KindInv /\ SentInv
  BY CycleAssumption DEF Init, KindInv, SentInv, Before, CycleAssumption
<1>3. LandInv /\ BalanceInv
  BY DEF Init, LandInv, BalanceInv, Before
<1>4. ResultInv
  <2>1. <<>> \in [1..0 -> BOOLEAN] /\ 0 \in 0..MaxOps
    BY CycleAssumption DEF CycleAssumption
  <2>2. results \in Trades
    BY <2>1 DEF Init, Trades
  <2> QED BY <2>2 DEF Init, ResultInv, Before
<1>5. TruthInv
  BY DEF Init, TruthInv
<1> QED BY <1>1, <1>2, <1>3, <1>4, <1>5 DEF ReportInv

LEMMA RowsTrue == IInv /\ ReportInv => RowsAreTrue
<1> SUFFICES ASSUME IInv, ReportInv PROVE RowsAreTrue
  OBVIOUS
<1> USE DEF ReportInv
<1>1. TypeOK
  <2>1. {mevKey, planLimits, callLimits} \subseteq BOOLEAN
        /\ {dryRun, enforceSlippage, webhook, shieldKey, dbOpen} \subseteq BOOLEAN
    BY DEF FlagsInv
  <2>2. pending \subseteq Cycle
    <3>1. pending \subseteq 1..cycle /\ cycle \in 0..MaxCycles /\ MaxCycles \in Nat
      BY CycleAssumption DEF LandInv, KindInv, CycleAssumption
    <3>2. 1..cycle \subseteq 1..MaxCycles
      BY <3>1
    <3> QED BY <3>1, <3>2 DEF Cycle
  <2>3. outcome \in [Cycle -> Status \cup {"none", "skipped"}]
    BY DEF IInv, RowInv
  <2>4. step \in {"idle", "balances", "targets", "key", "simulate", "submit", "batch",
                  "post", "notify", "catch"}
    BY DEF KindInv, Before
  <2> QED BY <2>1, <2>2, <2>3, <2>4
          DEF TypeOK, LandInv, KindInv, ResultInv, TruthInv, SentInv
<1>2. \A k \in DOMAIN rows : Truthful(rows[k])
  BY DEF TruthInv
<1> QED BY <1>1, <1>2 DEF RowsAreTrue, Truthful

\* The rows of a live cycle tell the truth of the operations before the first one the
\* proxy refused, the balances beside them bracket the batch, and a batch that was
\* shielded and not dispatched is never called completed (executeRebalanceCycle with
\* extractOperationResults, parseBatchResultFromEvents and buildTradeRecords).
THEOREM RowsTell == Spec => []RowsAreTrue
<1>1. ReportInv /\ [Next]_vars => ReportInv'
  BY FlagsStep, KindStep, LandStep, BalanceStep, ResultStep, TruthStep, SentStep
  DEF ReportInv
<1> QED
  BY InitReportInv, <1>1, RowsTrue, Invariance, PTL DEF Spec

=============================================================================
