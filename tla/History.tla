------------------------------ MODULE History ------------------------------
(***************************************************************************)
(* The history database, src/src/history/db.ts, and the two processes that *)
(* write it: the bot, which records the finalized block of a tick          *)
(* (record.ts, fetch.ts) and its rebalance cycles, and the script that     *)
(* backfills from an archive node (src/scripts/backfill-history.ts,        *)
(* priceFallback.ts).  Either may die between any two statements.          *)
(*                                                                         *)
(* Blocks are numbered, and as only finalized ones are read their numbers  *)
(* stand for their hashes.  A row of subnet_snapshots holds the blocks at  *)
(* which its two kinds of data were read, and where its price came from.   *)
(***************************************************************************)
EXTENDS Integers, Sequences, FiniteSets

CONSTANTS
  Interval,       \* DB_HISTORY_BLOCK_INTERVAL
  Oldest,         \* OLDEST_BACKFILL_BLOCK
  Deployed,       \* the first block whose runtime has the price API
  Netuids,        \* the subnets there are at each block
  Concurrency,    \* --concurrency
  MaxRetries,     \* MAX_RETRIES
  ResetEvery,     \* 500: how often the runtime API is tried again
  FirstHead, MaxHead,   \* the chain's finalized blocks
  MaxCycles,      \* bound on the cycles recorded
  MaxTrades,      \* bound on the trades of a cycle
  MaxFailures,    \* bound on failing requests
  MaxCrashes      \* bound on the deaths of a process

ASSUME HistoryAssumption ==
  /\ {Interval, Concurrency, MaxRetries, ResetEvery} \subseteq Nat \ {0}
  /\ {Oldest, Deployed, FirstHead, MaxHead, MaxCycles, MaxTrades} \subseteq Nat
  /\ {MaxFailures, MaxCrashes} \subseteq Nat
  /\ FirstHead <= MaxHead

VARIABLES
  head,                      \* the chain's finalized block
  db,                        \* the committed rows
  writer, pending, left,     \* the open transaction: whose, rows written, rows to write
  cycles,                    \* cycles handed to the database
  bot, at, got, ticked,      \* of the bot
  script, missing, next, jobs, skipped,   \* of the script
  runtimeApiAvailable, orphans,
  failures, crashes

txnVars == <<writer, pending, left>>
botVars == <<bot, at, got, ticked>>
scriptVars == <<script, missing, next, jobs, skipped, runtimeApiAvailable, orphans>>
vars == <<head, db, txnVars, cycles, botVars, scriptVars, failures, crashes>>

-----------------------------------------------------------------------------
(* Rows.                                                                   *)

BlockRow(n) == [table |-> "blocks", block |-> n]
SnapshotRows(n, info, price, source) ==
  {[table |-> "subnet_snapshots", block |-> n, netuid |-> s, info |-> info, price |-> price,
    source |-> source] : s \in Netuids[n]}

CycleRow(id, ops) == [table |-> "cycles", id |-> id, opsTotal |-> ops]
TradeRows(id, ops) == {[table |-> "trades", cycle |-> id, opIndex |-> i] : i \in 1..ops}

Rows(table) == {r \in db : r.table = table}
Recorded == {r.block : r \in Rows("blocks")}

IsDbHistoryBlock(n) == n % Interval = 0
SnapToDbHistory(n) == n - (n % Interval)

-----------------------------------------------------------------------------
(* A transaction of one process.  One connection writes at a time; another *)
(* waits or is told that the database is busy.                             *)

Begin(p, row, rows) ==
  /\ writer = "none"
  /\ writer' = p /\ pending' = {row} /\ left' = rows

\* INSERT OR IGNORE of a block that is there, or off the grid, changes nothing, and
\* recordSnapshotTxn leaves it at that.
BeginSnapshot(p, n, rows) ==
  /\ writer = "none"
  /\ IF n \in Recorded \/ ~IsDbHistoryBlock(n) THEN UNCHANGED txnVars
     ELSE Begin(p, BlockRow(n), rows)

\* Mutant of Insert: without a transaction each row commits.
InsertCommits ==
  \E row \in left :
    /\ pending' = pending \cup {row} /\ left' = left \ {row}
    /\ db' = db \cup pending'
    /\ UNCHANGED <<head, writer, cycles, botVars, scriptVars, failures, crashes>>

Insert ==
  \E row \in left :
    /\ pending' = pending \cup {row} /\ left' = left \ {row}
    /\ UNCHANGED <<head, db, writer, cycles, botVars, scriptVars, failures, crashes>>

Commit ==
  /\ writer # "none" /\ left = {}
  /\ db' = db \cup pending
  /\ writer' = "none" /\ pending' = {} /\ left' = {}
  /\ UNCHANGED <<head, cycles, botVars, scriptVars, failures, crashes>>

\* The open transaction of a process that dies is rolled back.
Rollback(p) ==
  IF writer = p THEN writer' = "none" /\ pending' = {} /\ left' = {} ELSE UNCHANGED txnVars

-----------------------------------------------------------------------------
(* The chain.                                                              *)

FinalizeBlock ==
  /\ head < MaxHead
  /\ head' = head + 1
  /\ UNCHANGED <<db, txnVars, cycles, botVars, scriptVars, failures, crashes>>

-----------------------------------------------------------------------------
(* The bot.                                                                *)

NoAnswer == -1
NoAnswers == [info |-> NoAnswer, price |-> NoAnswer]

BotIdle == bot' = "idle" /\ at' = 0 /\ got' = NoAnswers

\* recordCurrentBlock asks which block is finalized now, and leaves one off the grid.
Tick ==
  /\ bot = "idle" /\ writer # "bot" /\ head > ticked
  /\ ticked' = head
  /\ IF IsDbHistoryBlock(head) THEN bot' = "fetching" /\ at' = head ELSE UNCHANGED <<bot, at>>
  /\ got' = NoAnswers
  /\ UNCHANGED <<head, db, txnVars, cycles, scriptVars, failures, crashes>>

\* The queries of fetchHistorySnapshot run in parallel, each at the block's hash.
Answer(query) ==
  /\ bot = "fetching" /\ got[query] = NoAnswer
  /\ got' = [got EXCEPT ![query] = at]
  /\ UNCHANGED <<head, db, txnVars, cycles, bot, at, ticked, scriptVars, failures, crashes>>

RecordSnapshot ==
  /\ bot = "fetching" /\ NoAnswer \notin {got["info"], got["price"]}
  /\ BeginSnapshot("bot", at, SnapshotRows(at, got["info"], got["price"], "api"))
  /\ BotIdle
  /\ UNCHANGED <<head, db, cycles, ticked, scriptVars, failures, crashes>>

\* A query fails or the database is busy: the tick goes on without a record.
TickFails ==
  /\ bot = "fetching"
  /\ \/ failures < MaxFailures /\ failures' = failures + 1
     \/ writer = "backfill" /\ UNCHANGED failures
  /\ BotIdle
  /\ UNCHANGED <<head, db, txnVars, cycles, ticked, scriptVars, crashes>>

\* recordCycleWithTrades
RecordCycle(ops) ==
  /\ bot = "idle" /\ cycles < MaxCycles
  /\ Begin("bot", CycleRow(cycles + 1, ops), TradeRows(cycles + 1, ops))
  /\ cycles' = cycles + 1
  /\ UNCHANGED <<head, db, botVars, scriptVars, failures, crashes>>

BotDies ==
  /\ crashes < MaxCrashes
  /\ crashes' = crashes + 1
  /\ BotIdle
  /\ Rollback("bot")
  /\ UNCHANGED <<head, db, cycles, ticked, scriptVars, failures>>

-----------------------------------------------------------------------------
(* The script.  A job is the fetching of one block of the batch,           *)
(* [step, attempt, source].                                                *)

\* The grid blocks up to the last one finalized.
BackfillRange(to) == {n \in SnapToDbHistory(Oldest)..to : IsDbHistoryBlock(n)}

Ascending(S) == CHOOSE s \in [1..Cardinality(S) -> S] : \A i, j \in DOMAIN s : i < j => s[i] < s[j]

\* Mutant of Missing: resume after the last block.
MissingAfterLast(to) == Ascending({n \in BackfillRange(to) : \A m \in Recorded : m < n})

Missing(to) == Ascending(BackfillRange(to) \ Recorded)

\* What the process remembers goes with it.
ScriptOff ==
  /\ script' = "off"
  /\ missing' = <<>> /\ next' = 0 /\ skipped' = {} /\ jobs' = <<>>
  /\ runtimeApiAvailable' = TRUE /\ orphans' = 0

NewJob(attempt) == [step |-> "reading", attempt |-> attempt, source |-> "none"]

\* One operator starts the script, at any time, until nothing is missing.
Run ==
  /\ script \in {"off", "complete"}
  /\ missing' = Missing(SnapToDbHistory(head))
  /\ missing' # <<>>
  /\ script' = "batching" /\ next' = 0 /\ skipped' = {} /\ jobs' = <<>>
  /\ runtimeApiAvailable' = TRUE /\ orphans' = 0
  /\ UNCHANGED <<head, db, txnVars, cycles, botVars, failures, crashes>>

Batch == {missing[i] : i \in next + 1 .. IF next + Concurrency < Len(missing)
                                          THEN next + Concurrency ELSE Len(missing)}

\* Mutant of ResetDue: only once.
ResetAtStart == next = 0

ResetDue == next % ResetEvery = 0

BeginBatch ==
  /\ script = "batching" /\ next < Len(missing)
  /\ runtimeApiAvailable' = (runtimeApiAvailable \/ ResetDue)
  /\ jobs' = [n \in Batch |-> NewJob(1)]
  /\ script' = "fetching"
  /\ UNCHANGED <<head, db, txnVars, cycles, botVars, missing, next, skipped, orphans, failures,
                 crashes>>

Step(n, step, source) ==
  jobs' = [jobs EXCEPT ![n] = [step |-> step, attempt |-> @.attempt, source |-> source]]

\* The queries before the prices are answered; fetchAlphaPricesWithFallback reads
\* the flag.
AskPrices(n) ==
  /\ script = "fetching" /\ jobs[n].step = "reading"
  /\ Step(n, IF runtimeApiAvailable THEN "asking" ELSE "storage", "none")
  /\ UNCHANGED <<head, db, txnVars, cycles, botVars, script, missing, next, skipped,
                 runtimeApiAvailable, orphans, failures, crashes>>

PricesFromApi(n) ==
  /\ script = "fetching" /\ jobs[n].step = "asking" /\ n >= Deployed
  /\ Step(n, "done", "api")
  /\ UNCHANGED <<head, db, txnVars, cycles, botVars, script, missing, next, skipped,
                 runtimeApiAvailable, orphans, failures, crashes>>

\* The runtime has no such API, or the request fails: not asked again.
ApiUnavailable(n) ==
  /\ script = "fetching" /\ jobs[n].step = "asking"
  /\ IF n < Deployed THEN UNCHANGED failures
     ELSE failures < MaxFailures /\ failures' = failures + 1
  /\ runtimeApiAvailable' = FALSE
  /\ Step(n, "storage", "none")
  /\ UNCHANGED <<head, db, txnVars, cycles, botVars, script, missing, next, skipped, orphans,
                 crashes>>

PricesFromStorage(n) ==
  /\ script = "fetching" /\ jobs[n].step = "storage"
  /\ Step(n, "done", "storage")
  /\ UNCHANGED <<head, db, txnVars, cycles, botVars, script, missing, next, skipped,
                 runtimeApiAvailable, orphans, failures, crashes>>

\* An attempt fails or takes too long.  In the second case it goes on by itself.
AttemptFails(n, timeout) ==
  /\ script = "fetching" /\ jobs[n].step \in {"reading", "asking", "storage"}
  /\ failures < MaxFailures /\ failures' = failures + 1
  /\ orphans' = IF timeout /\ jobs[n].step # "storage" THEN orphans + 1 ELSE orphans
  /\ IF jobs[n].attempt < MaxRetries
     THEN jobs' = [jobs EXCEPT ![n] = NewJob(@.attempt + 1)]
     ELSE Step(n, "failed", "none")
  /\ UNCHANGED <<head, db, txnVars, cycles, botVars, script, missing, next, skipped,
                 runtimeApiAvailable, crashes>>

\* The price request of an abandoned attempt fails; the flag is the module's.
OrphanFails ==
  /\ script \in {"batching", "fetching"} /\ orphans > 0
  /\ orphans' = orphans - 1
  /\ runtimeApiAvailable' = FALSE
  /\ UNCHANGED <<head, db, txnVars, cycles, botVars, script, missing, next, jobs, skipped,
                 failures, crashes>>

Settled == \A n \in DOMAIN jobs : jobs[n].step \in {"done", "failed", "recorded"}

Unrecorded == {n \in DOMAIN jobs : jobs[n].step = "done"}

\* When all of a batch are settled they are recorded, oldest first.
RecordResult ==
  /\ script = "fetching" /\ Settled /\ writer # "backfill"
  /\ \E n \in Unrecorded :
       /\ \A m \in Unrecorded : n <= m
       /\ BeginSnapshot("backfill", n, SnapshotRows(n, n, n, jobs[n].source))
       /\ Step(n, "recorded", jobs[n].source)
  /\ UNCHANGED <<head, db, cycles, botVars, script, missing, next, skipped,
                 runtimeApiAvailable, orphans, failures, crashes>>

EndBatch ==
  /\ script = "fetching" /\ writer # "backfill"
  /\ \A n \in DOMAIN jobs : jobs[n].step \in {"recorded", "failed"}
  /\ skipped' = skipped \cup {n \in DOMAIN jobs : jobs[n].step = "failed"}
  /\ next' = next + Concurrency
  /\ jobs' = <<>>
  /\ script' = "batching"
  /\ UNCHANGED <<head, db, txnVars, cycles, botVars, missing, runtimeApiAvailable, orphans,
                 failures, crashes>>

Complete ==
  /\ script = "batching" /\ next >= Len(missing)
  /\ script' = "complete" /\ next' = 0
  /\ runtimeApiAvailable' = TRUE /\ orphans' = 0
  /\ UNCHANGED <<head, db, txnVars, cycles, botVars, missing, jobs, skipped, failures, crashes>>

\* The database is busy: the error ends the script.
Abort ==
  /\ script = "fetching" /\ Settled /\ Unrecorded # {} /\ writer = "bot"
  /\ ScriptOff
  /\ UNCHANGED <<head, db, txnVars, cycles, botVars, failures, crashes>>

ScriptDies ==
  /\ script \in {"batching", "fetching"}
  /\ crashes < MaxCrashes
  /\ crashes' = crashes + 1
  /\ ScriptOff
  /\ Rollback("backfill")
  /\ UNCHANGED <<head, db, cycles, botVars, failures>>

-----------------------------------------------------------------------------

Init ==
  /\ head = FirstHead /\ ticked = FirstHead
  /\ db = {} /\ cycles = 0
  /\ writer = "none" /\ pending = {} /\ left = {}
  /\ bot = "idle" /\ at = 0 /\ got = NoAnswers
  /\ script = "off" /\ missing = <<>> /\ next = 0 /\ jobs = <<>> /\ skipped = {}
  /\ runtimeApiAvailable = TRUE /\ orphans = 0
  /\ failures = 0 /\ crashes = 0

BotStep ==
  \/ Tick
  \/ \E query \in {"info", "price"} : Answer(query)
  \/ RecordSnapshot
  \/ TickFails
  \/ \E ops \in 0..MaxTrades : RecordCycle(ops)

Fetch(n) == AskPrices(n) \/ PricesFromApi(n) \/ ApiUnavailable(n) \/ PricesFromStorage(n)

ScriptStep ==
  \/ Run
  \/ BeginBatch
  \/ \E n \in DOMAIN jobs : Fetch(n)
  \/ RecordResult
  \/ EndBatch
  \/ Complete

Next ==
  \/ FinalizeBlock
  \/ Insert
  \/ Commit
  \/ BotStep
  \/ BotDies
  \/ ScriptStep
  \/ \E n \in DOMAIN jobs, timeout \in BOOLEAN : AttemptFails(n, timeout)
  \/ OrphanFails
  \/ Abort
  \/ ScriptDies

\* A process that runs goes on, and the script is started again until nothing is
\* missing.
Spec == Init /\ [][Next]_vars /\ WF_vars(Insert) /\ WF_vars(Commit) /\ WF_vars(ScriptStep)

-----------------------------------------------------------------------------

TypeOK ==
  /\ head \in FirstHead..MaxHead /\ ticked \in FirstHead..head /\ at \in 0..head
  /\ cycles \in 0..MaxCycles
  /\ writer \in {"none", "bot", "backfill"}
  /\ writer = "none" => pending = {} /\ left = {}
  /\ bot \in {"idle", "fetching"}
  /\ script \in {"off", "batching", "fetching", "complete"}
  /\ runtimeApiAvailable \in BOOLEAN /\ orphans \in Nat /\ next \in Nat
  /\ failures \in 0..MaxFailures /\ crashes \in 0..MaxCrashes

\* A set of rows is whole if every block in it has all the subnets of its time, of
\* that one block, every cycle has its trades, and no row is without its parent.
Whole(S) ==
  /\ \A r \in S :
       /\ r.table = "blocks" =>
            /\ IsDbHistoryBlock(r.block)
            /\ \E source \in {"api", "storage"} :
                 {q \in S : q.table = "subnet_snapshots" /\ q.block = r.block}
                   = SnapshotRows(r.block, r.block, r.block, source)
       /\ r.table = "subnet_snapshots" => BlockRow(r.block) \in S
       /\ r.table = "cycles" =>
            {q \in S : q.table = "trades" /\ q.cycle = r.id} = TradeRows(r.id, r.opsTotal)
       /\ r.table = "trades" => \E q \in S : q.table = "cycles" /\ q.id = r.cycle

\* Whatever two processes write at once and wherever one of them dies, what is in
\* the database is whole: backtests and warm-ups never see half a block, two
\* blocks mixed or a cycle without its trades (db.ts, fetch.ts).
DbWhole == TypeOK /\ Whole(db)

\* A run of the script that completes leaves no gap in its range but the blocks it
\* reports as skipped, each after MAX_RETRIES failures.
CompleteLeavesNoGap ==
  script = "complete" =>
    /\ \A i \in DOMAIN missing : missing[i] \in Recorded \cup skipped
    /\ Cardinality(skipped) * MaxRetries <= failures
    /\ BackfillRange(missing[Len(missing)]) \subseteq Recorded \cup skipped

\* A batch begins after the first p missing blocks, and the flag is reset.
BatchBegins(p) == p % Concurrency = 0
FlagReset(p) == BatchBegins(p) /\ p % ResetEvery = 0

\* While no request fails, a block whose runtime has the API gets computed prices
\* only if a block without it was fetched before it, or in the same batch, since the
\* flag was last reset.
Explained(i) ==
  \E j \in DOMAIN missing :
    /\ missing[j] < Deployed
    /\ \A p \in i..j - 1 : ~BatchBegins(p)
    /\ \A p \in j..i - 1 : ~FlagReset(p)

FallbackExplained ==
  failures = 0 =>
    \A r \in Rows("subnet_snapshots"), i \in DOMAIN missing :
      r.block = missing[i] /\ r.source = "storage" =>
        missing[i] < Deployed \/ Explained(i)

\* The backfill can be resumed: if failures and deaths end, every grid block there
\* was when the chain stood still is recorded in the end.
BackfillEnds == <>[](BackfillRange(SnapToDbHistory(head)) \subseteq Recorded)

=============================================================================
