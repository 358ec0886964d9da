--------------------------- MODULE RebalanceCycle ---------------------------
(***************************************************************************)
(* executeRebalanceCycle (src/src/rebalance/cycle.ts) with                 *)
(* executeRebalancePlan and executeRebalance: one cycle after another of a *)
(* process.  Every await may throw, the MEV shield's key may come and go,  *)
(* a shutdown may close the database under a cycle (src/src/scheduler.ts), *)
(* and a batch whose cycle gave up may land later.                         *)
(*                                                                         *)
(* Balances are counted in the batches they reflect.  What a cycle reads   *)
(* of its batch is module BatchResults.                                    *)
(***************************************************************************)
EXTENDS Integers, FiniteSets, BatchResults

CONSTANTS MaxCycles,     \* bound on the cycles of a process
          MaxOps         \* bound on the operations of a plan

ASSUME CycleAssumption == MaxCycles \in Nat /\ MaxOps \in Nat \ {0}

Cycle == 1..MaxCycles
NotLanded == <<>>

VARIABLES
  dryRun, enforceSlippage, webhook,   \* the options of the process
  shieldKey,      \* MevShield.NextKey is set on chain
  dbOpen,         \* the history database is open
  pending,        \* cycles whose batch may still be executed
  landed,         \* each cycle's batch, as the chain executed it
  cycle,          \* the last cycle that began, 0 before the first
  step,           \* what it awaits
  before,         \* balances fetched first
  after,          \* balances fetched after the batch
  mevKey,         \* the key it read
  planLimits,     \* useLimits, as computeRebalance got it
  callLimits,     \* useLimits, as the calls were built with
  opsTotal,       \* operations of its plan
  batchStatus,    \* batchResult's status, "none" if null
  results,        \* its operationResults
  sent,           \* history: the batches submitted
  rows,           \* the table of cycles
  outcome         \* what each cycle returned

envVars == <<dryRun, enforceSlippage, webhook, shieldKey, dbOpen>>
chainVars == <<pending, landed>>
planVars == <<mevKey, planLimits, opsTotal>>
resultVars == <<batchStatus, results>>
vars == <<dryRun, enforceSlippage, webhook, shieldKey, dbOpen, pending, landed, cycle,
          step, before, after, mevKey, planLimits, callLimits, opsTotal, batchStatus,
          results, sent, rows, outcome>>

Status == {"completed", "partial_failure", "timeout", "no_ops", "error"}
Trades == UNION {[1..n -> BOOLEAN] : n \in 0..MaxOps}
Row == [cycle : Cycle, status : Status, opsTotal : 0..MaxOps, opsSucceeded : 0..MaxOps,
        trades : Trades, before : 0..MaxCycles, after : 0..MaxCycles]

TypeOK ==
  /\ {dryRun, enforceSlippage, webhook, shieldKey, dbOpen} \subseteq BOOLEAN
  /\ pending \subseteq Cycle
  /\ landed \in [Cycle -> {NotLanded} \cup UNION {BatchesOf(n) : n \in 1..MaxOps}]
  /\ cycle \in 0..MaxCycles
  /\ step \in {"idle", "balances", "targets", "key", "simulate", "submit", "batch",
               "post", "notify", "catch"}
  /\ before \in 0..MaxCycles /\ after \in 0..MaxCycles
  /\ {mevKey, planLimits, callLimits} \subseteq BOOLEAN
  /\ opsTotal \in 0..MaxOps
  /\ batchStatus \in {"none", "completed", "partial_failure", "timeout"}
  /\ results \in Trades
  /\ sent \subseteq [cycle : Cycle, shielded : BOOLEAN, limits : BOOLEAN,
                     planned : BOOLEAN]
  /\ rows \in Seq(Row)
  /\ \A k \in DOMAIN rows : DOMAIN rows[k].trades = 1..rows[k].opsTotal
  /\ outcome \in [Cycle -> Status \cup {"none", "skipped"}]

Init ==
  /\ dryRun \in BOOLEAN /\ enforceSlippage \in BOOLEAN /\ webhook \in BOOLEAN
  /\ shieldKey \in BOOLEAN /\ dbOpen = TRUE
  /\ pending = {} /\ landed = [c \in Cycle |-> NotLanded]
  /\ cycle = 0 /\ step = "idle"
  /\ before = 0 /\ after = 0
  /\ mevKey = FALSE /\ planLimits = TRUE /\ callLimits = TRUE
  /\ opsTotal = 0 /\ batchStatus = "none" /\ results = <<>>
  /\ sent = {} /\ rows = <<>>
  /\ outcome = [c \in Cycle |-> "none"]

-----------------------------------------------------------------------------
(* The environment.                                                        *)

Balances == Cardinality({c \in Cycle : landed[c] # NotLanded})

ownVars == <<cycle, step, before, after, planVars, callLimits, resultVars, sent, rows,
             outcome>>

\* The shield's key is rotated in or out.
KeyChanges ==
  /\ shieldKey' = ~shieldKey
  /\ UNCHANGED <<dryRun, enforceSlippage, webhook, dbOpen, chainVars, ownVars>>

\* Nobody reads what became of a batch that lands after its cycle.
BatchLands(c) ==
  /\ c \in pending
  /\ pending' = pending \ {c}
  /\ \E batch \in (IF c = cycle /\ step # "idle" THEN BatchesOf(opsTotal)
                    ELSE {<<"executed">>}) :
       landed' = [landed EXCEPT ![c] = batch]
  /\ UNCHANGED <<envVars, ownVars>>

DbCloses ==
  /\ dbOpen
  /\ dbOpen' = FALSE
  /\ UNCHANGED <<dryRun, enforceSlippage, webhook, shieldKey, chainVars, ownVars>>

-----------------------------------------------------------------------------
(* Recording and returning.                                                *)

OpsSucceeded(oks) == Cardinality({i \in DOMAIN oks : oks[i]})

EmptyRow(status) ==
  [cycle |-> cycle, status |-> status, opsTotal |-> 0, opsSucceeded |-> 0,
   trades |-> <<>>, before |-> before, after |-> before]

\* recordCycleToDb: one transaction; a database that is gone is only logged.
Record(row) == rows' = IF dbOpen THEN Append(rows, row) ELSE rows

Return(result) ==
  /\ step' = "idle"
  /\ outcome' = [outcome EXCEPT ![cycle] = result]

Notifies == ~dryRun /\ webhook

Throw == step' = "catch"

\* Mutant of CatchRecords: no row.
CatchOnlyReturns ==
  /\ step = "catch"
  /\ Return("error")
  /\ UNCHANGED <<envVars, chainVars, cycle, before, after, planVars, callLimits,
                 resultVars, sent, rows>>

\* The catch, which first awaits the error notification, whose failure it
\* swallows.
CatchRecords ==
  /\ step = "catch"
  /\ Record(EmptyRow("error"))
  /\ Return("error")
  /\ UNCHANGED <<envVars, chainVars, cycle, before, after, planVars, callLimits,
                 resultVars, sent>>

\* An await before the submission throws.
Fails ==
  /\ step \in {"balances", "targets", "key", "simulate"}
  /\ Throw
  /\ UNCHANGED <<envVars, chainVars, cycle, before, after, planVars, callLimits,
                 resultVars, sent, rows, outcome>>

-----------------------------------------------------------------------------
(* The steps of a cycle.                                                   *)

BeginCycle ==
  /\ step = "idle"
  /\ cycle < MaxCycles
  /\ cycle' = cycle + 1
  /\ step' = "balances"
  /\ before' = 0 /\ after' = 0 /\ opsTotal' = 0
  /\ batchStatus' = "none" /\ results' = <<>>
  /\ UNCHANGED <<envVars, chainVars, mevKey, planLimits, callLimits, sent, rows, outcome>>

BalancesFetched ==
  /\ step = "balances"
  /\ before' = Balances
  /\ step' = "targets"
  /\ UNCHANGED <<envVars, chainVars, cycle, after, planVars, callLimits, resultVars,
                 sent, rows, outcome>>

\* The strategy lacks data (skipReason), or returns targets.
StrategySkips ==
  /\ step = "targets"
  /\ Record(EmptyRow("no_ops"))
  /\ Return("skipped")
  /\ UNCHANGED <<envVars, chainVars, cycle, before, after, planVars, callLimits,
                 resultVars, sent>>

TargetsReturned ==
  /\ step = "targets"
  /\ step' = "key"
  /\ UNCHANGED <<envVars, chainVars, cycle, before, after, planVars, callLimits,
                 resultVars, sent, rows, outcome>>

\* getNextKey answers; the plan is computed with or without limit prices.
KeyRead ==
  /\ step = "key"
  /\ mevKey' = shieldKey
  /\ planLimits' = (enforceSlippage \/ ~mevKey')
  /\ opsTotal' \in 0..MaxOps
  /\ \/ /\ opsTotal' > 0
        /\ step' = "simulate"
        /\ UNCHANGED <<rows, outcome>>
     \/ /\ opsTotal' = 0
        /\ Record(EmptyRow("no_ops"))
        /\ Return("no_ops")
  /\ UNCHANGED <<envVars, chainVars, cycle, before, after, callLimits, resultVars, sent>>

\* Mutant of CallLimits: the key is asked for again.
CallLimitsByKeyNow == enforceSlippage \/ ~shieldKey

\* The second computation of useLimits, in executeRebalancePlan.
CallLimits == enforceSlippage \/ ~mevKey

ResultStatus == IF batchStatus = "none" THEN "completed" ELSE batchStatus

\* The row of a plan with operations: without a batch, or with one that was
\* not found in time, there are no results.
RowOfResult(a) ==
  [EmptyRow(ResultStatus) EXCEPT
     !.opsTotal = opsTotal, !.opsSucceeded = OpsSucceeded(results),
     !.trades = TradesOf(results, opsTotal), !.after = a]

ReturnResult == Return(ResultStatus)

\* simulateAllOperations returns; a dry run submits nothing, keeps the
\* balances and records at once.
Simulated ==
  /\ step = "simulate"
  /\ callLimits' = CallLimits
  /\ \/ /\ dryRun
        /\ after' = before
        /\ Record(RowOfResult(before))
        /\ ReturnResult
     \/ /\ ~dryRun
        /\ step' = "submit"
        /\ UNCHANGED <<after, rows, outcome>>
  /\ UNCHANGED <<envVars, chainVars, cycle, before, planVars, resultVars, sent>>

Submit ==
  /\ step = "submit"
  /\ step' = "batch"
  /\ pending' = pending \cup {cycle}
  /\ sent' = sent \cup {[cycle |-> cycle, shielded |-> mevKey, limits |-> callLimits,
                         planned |-> planLimits]}
  /\ UNCHANGED <<envVars, landed, cycle, before, after, planVars, callLimits, resultVars,
                 rows, outcome>>

BatchReported ==
  /\ step = "batch"
  /\ step' = "post"
  /\ \/ /\ landed[cycle] # NotLanded
        /\ results' = OperationResults(landed[cycle], mevKey)
        /\ batchStatus' = StatusOf(results')
     \/ mevKey /\ batchStatus' = "timeout" /\ UNCHANGED results
  /\ UNCHANGED <<envVars, chainVars, cycle, before, after, planVars, callLimits, sent,
                 rows, outcome>>

\* The submission, the wait or the balances after it throw, whether or not
\* the batch was, or will be, executed.
SubmissionFails ==
  /\ step \in {"submit", "batch", "post"}
  /\ Throw
  /\ UNCHANGED <<envVars, chainVars, cycle, before, after, planVars, callLimits,
                 resultVars, sent, rows, outcome>>

\* The balances after the batch: the row is written, then the notification is
\* awaited.
PostBalancesFetched ==
  /\ step = "post"
  /\ after' = Balances
  /\ Record(RowOfResult(Balances))
  /\ \/ Notifies /\ step' = "notify" /\ UNCHANGED outcome
     \/ ~Notifies /\ ReturnResult
  /\ UNCHANGED <<envVars, chainVars, cycle, before, planVars, callLimits, resultVars, sent>>

NotificationSent ==
  /\ step = "notify"
  /\ ReturnResult
  /\ UNCHANGED <<envVars, chainVars, cycle, before, after, planVars, callLimits,
                 resultVars, sent, rows>>

\* The webhook fails twice: the cycle throws after it recorded its row.
NotificationFails ==
  /\ step = "notify"
  /\ Throw
  /\ UNCHANGED <<envVars, chainVars, cycle, before, after, planVars, callLimits,
                 resultVars, sent, rows, outcome>>

Next ==
  \/ KeyChanges
  \/ \E c \in Cycle : BatchLands(c)
  \/ DbCloses
  \/ BeginCycle
  \/ BalancesFetched
  \/ StrategySkips
  \/ TargetsReturned
  \/ KeyRead
  \/ Simulated
  \/ Submit
  \/ BatchReported
  \/ PostBalancesFetched
  \/ NotificationSent
  \/ NotificationFails
  \/ Fails
  \/ SubmissionFails
  \/ CatchRecords

Spec == Init /\ [][Next]_vars

-----------------------------------------------------------------------------
(* Properties.                                                             *)

RowsOf(c) == {i \in DOMAIN rows : rows[i].cycle = c}

\* A batch is built the way it was planned, and one sent in the clear always
\* has limit prices, though the key may come or go while the cycle runs and
\* useLimits is computed twice.
ClearBatchHasLimits ==
  \A s \in sent : s.limits = s.planned /\ (s.shielded \/ s.limits)

\* The rows of live batches that were found tell the truth of every operation
\* before the first one the proxy refused -- the results of those after it are
\* out of step -- and the balances beside them bracket the batch.  A live row says
\* "completed" exactly if all of its trades succeeded, and a shielded batch that the
\* chain did not dispatch is never one (extractOperationResults, executeRebalance).
RowsAreTrue ==
  /\ TypeOK
  /\ \A k \in DOMAIN rows :
       LET row == rows[k] batch == landed[row.cycle] IN
         ~dryRun =>
           /\ row.status \in {"completed", "partial_failure"} =>
                /\ row.before < row.after
                /\ \A i \in 1..row.opsTotal :
                     (\A j \in 1..i : batch[j] \in {"executed", "failed"}) =>
                       row.trades[i] = (batch[i] = "executed")
           /\ row.opsTotal > 0 =>
                /\ row.status = "completed" <=> \A i \in 1..row.opsTotal : row.trades[i]
                /\ row.status = "completed" /\ batch[1] = "undispatched" =>
                     \E b \in sent : b.cycle = row.cycle /\ ~b.shielded

\* What a cycle returns is what its last row says, whatever threw on the way;
\* only a database closed under it leaves it without one.
OutcomeIsRecorded ==
  \A c \in Cycle :
    outcome[c] # "none" /\ dbOpen =>
      \E i \in RowsOf(c) :
        /\ \A j \in RowsOf(c) : j <= i
        /\ rows[i].status = (IF outcome[c] = "skipped" THEN "no_ops" ELSE outcome[c])
=============================================================================
