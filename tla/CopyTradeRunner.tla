--------------------------- MODULE CopyTradeRunner ---------------------------
(***************************************************************************)
(* The event-driven runner of the copy-trade strategy                      *)
(* (src/src/strategies/copy-trade/runner.ts): every finalized block starts *)
(* a handler of its own that fetches the block's events; a staking event   *)
(* of the leader starts a run, or leaves a mark for the run in flight,     *)
(* which starts the next one when it ends.  Handlers overlap and their     *)
(* fetches end in any order, or fail.                                      *)
(***************************************************************************)
EXTENDS Integers

CONSTANT MaxBlock        \* bound on the chain's length

ASSUME MaxBlockAssumption == MaxBlock \in Nat

Block == 1..MaxBlock

VARIABLES
  height,        \* the last finalized block
  leaderBlocks,  \* the finalized blocks with a staking event of the leader
  started,       \* start() was called
  subscribed,    \* sub is defined
  stopped,
  exitCode,      \* process.exitCode
  fetching,      \* blocks whose handler awaits System.Events
  inflightRun,   \* inflightRun is not null
  running,       \* how many runs are executing
  phase,         \* what the run awaits: recordCurrentBlock or the cycle
  pendingRerun,
  stopCall,      \* where the call of stop() is
  runStart,      \* history: the height at which the last run began
  detected       \* history: the last block in which an event was detected

runVars == <<inflightRun, running, phase, runStart>>
vars == <<height, leaderBlocks, started, subscribed, stopped, exitCode, fetching,
          inflightRun, running, phase, pendingRerun, stopCall, runStart, detected>>

FlagsOK ==
  /\ started \in BOOLEAN /\ subscribed \in BOOLEAN /\ stopped \in BOOLEAN
  /\ inflightRun \in BOOLEAN /\ pendingRerun \in BOOLEAN

TypeOK ==
  /\ FlagsOK
  /\ height \in 0..MaxBlock
  /\ leaderBlocks \in SUBSET Block
  /\ exitCode \in {0, 1}
  /\ fetching \in SUBSET Block
  /\ running \in Nat
  /\ phase \in {"idle", "record", "cycle"}
  /\ stopCall \in {"none", "requested", "resolved"}
  /\ runStart \in 0..MaxBlock
  /\ detected \in 0..MaxBlock

Init ==
  /\ height = 0 /\ leaderBlocks = {}
  /\ started = FALSE /\ subscribed = FALSE /\ stopped = FALSE /\ exitCode = 0
  /\ fetching = {}
  /\ inflightRun = FALSE /\ running = 0 /\ phase = "idle" /\ pendingRerun = FALSE
  /\ stopCall = "none"
  /\ runStart = 0 /\ detected = 0

-----------------------------------------------------------------------------

\* inflightRun = run(), up to its first await.
BeginRun ==
  /\ inflightRun' = TRUE
  /\ running' = running + 1
  /\ phase' = "record"
  /\ runStart' = height

\* start(): the initial sync begins before the subscription.
Start ==
  /\ ~started
  /\ started' = TRUE
  /\ subscribed' = TRUE
  /\ BeginRun
  /\ UNCHANGED <<height, leaderBlocks, stopped, exitCode, fetching, pendingRerun,
                 stopCall, detected>>

\* A block is finalized, with or without an event of the leader; while
\* subscribed its handler asks for its events.
FinalizeBlock ==
  /\ height < MaxBlock
  /\ height' = height + 1
  /\ leaderBlocks' \in {leaderBlocks, leaderBlocks \cup {height + 1}}
  /\ fetching' = IF subscribed /\ ~stopped THEN fetching \cup {height + 1} ELSE fetching
  /\ UNCHANGED <<started, subscribed, stopped, exitCode, pendingRerun, stopCall,
                 detected>>
  /\ UNCHANGED runVars

\* Mutant of HandleEvents: no test of inflightRun.
HandleAlwaysRuns(b) ==
  \/ /\ stopped \/ b \notin leaderBlocks
     /\ UNCHANGED <<pendingRerun, detected>> /\ UNCHANGED runVars
  \/ /\ ~stopped /\ b \in leaderBlocks
     /\ detected' = IF b > detected THEN b ELSE detected
     /\ BeginRun /\ UNCHANGED pendingRerun

\* Mutant of HandleEvents: an event during a run is dropped.
HandleDropsDuringRun(b) ==
  \/ /\ stopped \/ b \notin leaderBlocks
     /\ UNCHANGED <<pendingRerun, detected>> /\ UNCHANGED runVars
  \/ /\ ~stopped /\ b \in leaderBlocks
     /\ detected' = IF b > detected THEN b ELSE detected
     /\ \/ inflightRun /\ UNCHANGED pendingRerun /\ UNCHANGED runVars
        \/ ~inflightRun /\ BeginRun /\ UNCHANGED pendingRerun

\* Mutant of HandleEvents: `stopped' is not tested again after the await.
HandleAfterStop(b) ==
  \/ /\ b \notin leaderBlocks
     /\ UNCHANGED <<pendingRerun, detected>> /\ UNCHANGED runVars
  \/ /\ b \in leaderBlocks
     /\ detected' = IF b > detected THEN b ELSE detected
     /\ \/ inflightRun /\ pendingRerun' = TRUE /\ UNCHANGED runVars
        \/ ~inflightRun /\ BeginRun /\ UNCHANGED pendingRerun

\* The handler after its await.
HandleEvents(b) ==
  \/ /\ stopped \/ b \notin leaderBlocks
     /\ UNCHANGED <<pendingRerun, detected>> /\ UNCHANGED runVars
  \/ /\ ~stopped /\ b \in leaderBlocks
     /\ detected' = IF b > detected THEN b ELSE detected
     /\ \/ inflightRun /\ pendingRerun' = TRUE /\ UNCHANGED runVars
        \/ ~inflightRun /\ BeginRun /\ UNCHANGED pendingRerun

EventsFetched(b) ==
  /\ b \in fetching
  /\ fetching' = fetching \ {b}
  /\ HandleEvents(b)
  /\ UNCHANGED <<height, leaderBlocks, started, subscribed, stopped, exitCode, stopCall>>

\* Events.getValue rejects: the handler logs and the block is forgotten.
FetchFails(b) ==
  /\ b \in fetching
  /\ fetching' = fetching \ {b}
  /\ UNCHANGED <<height, leaderBlocks, started, subscribed, stopped, exitCode,
                 pendingRerun, stopCall, detected>>
  /\ UNCHANGED runVars

SubscriptionError ==
  /\ subscribed
  /\ exitCode' = 1
  /\ stopped' = TRUE
  /\ subscribed' = FALSE
  /\ UNCHANGED <<height, leaderBlocks, started, fetching, pendingRerun, stopCall,
                 detected>>
  /\ UNCHANGED runVars

BlockRecorded ==
  /\ phase = "record"
  /\ phase' = "cycle"
  /\ UNCHANGED <<height, leaderBlocks, started, subscribed, stopped, exitCode,
                 fetching, inflightRun, running, pendingRerun, stopCall, runStart,
                 detected>>

\* Mutant of Settle: the mark is not looked at.
SettleForgetsMark ==
  /\ inflightRun' = FALSE
  /\ running' = running - 1
  /\ phase' = "idle"
  /\ UNCHANGED <<pendingRerun, runStart>>

\* Mutant of Settle: inflightRun is not reset.
SettleKeepsInflight ==
  /\ ~(pendingRerun /\ ~stopped)
  /\ running' = running - 1
  /\ phase' = "idle"
  /\ UNCHANGED <<inflightRun, pendingRerun, runStart>>

\* run()'s finally: the mark left by a handler starts the next run in the
\* same turn, and the promise of the run that ends then waits for it.
Settle ==
  \/ /\ pendingRerun /\ ~stopped
     /\ pendingRerun' = FALSE
     /\ inflightRun' = TRUE
     /\ phase' = "record"
     /\ runStart' = height
     /\ UNCHANGED running
  \/ /\ ~(pendingRerun /\ ~stopped)
     /\ inflightRun' = FALSE
     /\ running' = running - 1
     /\ phase' = "idle"
     /\ UNCHANGED <<pendingRerun, runStart>>

\* recordCurrentBlock throws, or the cycle returns or throws: all end the run.
RecordFails ==
  /\ phase = "record"
  /\ Settle
  /\ UNCHANGED <<height, leaderBlocks, started, subscribed, stopped, exitCode,
                 fetching, stopCall, detected>>

CycleEnds ==
  /\ phase = "cycle"
  /\ Settle
  /\ UNCHANGED <<height, leaderBlocks, started, subscribed, stopped, exitCode,
                 fetching, stopCall, detected>>

\* The synchronous part of stop(); the rest waits for the run in flight, if
\* there is one.
Stop ==
  /\ started
  /\ stopCall = "none"
  /\ stopped' = TRUE
  /\ subscribed' = FALSE
  /\ stopCall' = "requested"
  /\ UNCHANGED <<height, leaderBlocks, started, exitCode, fetching, pendingRerun,
                 detected>>
  /\ UNCHANGED runVars

ResumeStop ==
  /\ stopCall = "requested"
  /\ ~inflightRun
  /\ stopCall' = "resolved"
  /\ UNCHANGED <<height, leaderBlocks, started, subscribed, stopped, exitCode,
                 fetching, pendingRerun, detected>>
  /\ UNCHANGED runVars

Next ==
  \/ Start
  \/ FinalizeBlock
  \/ \E b \in Block : EventsFetched(b) \/ FetchFails(b)
  \/ SubscriptionError
  \/ BlockRecorded
  \/ RecordFails
  \/ CycleEnds
  \/ Stop
  \/ ResumeStop

Spec == Init /\ [][Next]_vars

\* Every RPC request and every cycle ends, one way or another; blocks, errors
\* and signals need never come.
Fairness ==
  /\ \A b \in Block : WF_vars(EventsFetched(b) \/ FetchFails(b))
  /\ WF_vars(BlockRecorded \/ RecordFails)
  /\ WF_vars(CycleEnds)
  /\ WF_vars(ResumeStop)

FairSpec == Spec /\ Fairness

-----------------------------------------------------------------------------
(* Properties.                                                             *)

\* "At most one rebalance cycle runs at a time" (STRATEGY.md).
OneRunAtATime == running <= 1

\* stop() resolves only when no run executes; from then on the database the
\* run writes to is closed.
StopQuiescent == stopCall = "resolved" => running = 0 /\ ~inflightRun

\* No run begins once the runner is stopped, not even the one a handler had
\* queued and not for events fetched before the stop.
NoRunAfterStop ==
  [][stopped => /\ running' <= running
                /\ runStart' = runStart
                /\ (phase = "cycle" => phase' # "record")]_vars

\* Whatever the interleaving of handlers and runs, a run begins at or after
\* every detected event, or is marked to, so that it reads the portfolio the
\* leader has since.
DetectedEventCovered == detected <= runStart \/ pendingRerun \/ stopped

\* A mark always has a run that will find it: none is left behind by a
\* handler that looks while a run ends.
PendingRerunHasRun == pendingRerun /\ ~stopped => inflightRun /\ running = 1

\* The run a detected event asks for does begin.
DetectedEventRuns ==
  \A b \in Block : (detected = b) ~> (runStart >= b \/ stopped)

\* Graceful shutdown ends.
StopResolves == (stopCall # "none") ~> (stopCall = "resolved")

\* The runner keeps the contract of every StrategyRunner.
Contract == INSTANCE StrategyRunner WITH cycles <- running, shutdown <- stopCall
ContractSpec == Contract!Spec
=============================================================================
