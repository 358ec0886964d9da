----------------------------- MODULE Scheduler -----------------------------
(***************************************************************************)
(* runScheduler (src/src/scheduler.ts): warm-up, preview and an initial    *)
(* cycle, then the strategy's runner; SIGTERM and SIGINT shut the process  *)
(* down from any await of that sequence.  The runner itself is the         *)
(* contract of StrategyRunner: its cycles begin and end by themselves and  *)
(* its stop() resolves once none is in flight.                             *)
(***************************************************************************)
EXTENDS Naturals

CONSTANT MaxSignals      \* bound on the signals delivered

ASSUME SignalsAssumption == MaxSignals \in Nat

VARIABLES
  main,            \* the await runScheduler is at
  isShuttingDown,
  shutdownAt,      \* where the one effective call of shutdown() is
  runner,          \* runner is defined
  started,         \* runner.start() went through
  cycles,          \* the runner's cycles in flight
  runnerStop,      \* how far runner.stop() has come
  historyDb,       \* "open" or "closed"
  closes,          \* how often historyDb.close() was called
  client,          \* "none", "open" or "destroyed"
  signals          \* signals delivered

vars == <<main, isShuttingDown, shutdownAt, runner, started, cycles, runnerStop,
          historyDb, closes, client, signals>>

\* The contract's calls, on the runner's part of the state.
Runner == INSTANCE StrategyRunner WITH shutdown <- runnerStop

TypeOK ==
  /\ main \in {"opening", "warmup", "preview", "cycle", "starting", "started",
               "catching", "rethrowing", "thrown"}
  /\ isShuttingDown \in BOOLEAN
  /\ shutdownAt \in {"none", "stopping", "done"}
  /\ runner \in BOOLEAN /\ started \in BOOLEAN
  /\ cycles \in 0..1
  /\ runnerStop \in {"none", "requested", "resolved"}
  /\ historyDb \in {"open", "closed"} /\ closes \in Nat
  /\ client \in {"none", "open", "destroyed"}
  /\ signals \in 0..MaxSignals

Init ==
  /\ main = "opening"
  /\ isShuttingDown = FALSE /\ shutdownAt = "none"
  /\ runner = FALSE /\ started = FALSE /\ Runner!Init
  /\ historyDb = "open" /\ closes = 0
  /\ client = "none"
  /\ signals = 0

-----------------------------------------------------------------------------

CloseDb == historyDb' = "closed" /\ closes' = closes + 1

runnerVars == <<runner, started, cycles, runnerStop>>
shutdownVars == <<isShuttingDown, shutdownAt>>
dbVars == <<historyDb, closes>>

\* Mutant of Shutdown: a second call is not refused.
ShutdownAgain(r) ==
  /\ isShuttingDown' = TRUE
  /\ \/ /\ r
        /\ Runner!RequestStop
        /\ shutdownAt' = "stopping"
        /\ UNCHANGED <<dbVars, client>>
     \/ /\ ~r
        /\ CloseDb
        /\ client' = "destroyed"
        /\ shutdownAt' = "done"
        /\ UNCHANGED <<cycles, runnerStop>>

\* Mutant of Shutdown: it leaves everything to a runner that may not exist.
ShutdownNeedsRunner(r) ==
  \/ isShuttingDown /\ UNCHANGED <<shutdownVars, dbVars, client, cycles, runnerStop>>
  \/ /\ ~isShuttingDown
     /\ isShuttingDown' = TRUE
     /\ \/ r /\ Runner!RequestStop /\ shutdownAt' = "stopping"
        \/ ~r /\ UNCHANGED <<shutdownAt, cycles, runnerStop>>
     /\ UNCHANGED <<dbVars, client>>

\* shutdown() up to its first await, called when the runner is r.
Shutdown(r) ==
  \/ isShuttingDown /\ UNCHANGED <<shutdownVars, dbVars, client, cycles, runnerStop>>
  \/ /\ ~isShuttingDown
     /\ isShuttingDown' = TRUE
     /\ \/ /\ r
           /\ Runner!RequestStop
           /\ shutdownAt' = "stopping"
           /\ UNCHANGED <<dbVars, client>>
        \/ /\ ~r
           /\ CloseDb
           /\ client' = "destroyed"
           /\ shutdownAt' = "done"
           /\ UNCHANGED <<cycles, runnerStop>>

\* assertEmissionData and createBittensorClient; when one throws, only the
\* finally of runScheduler runs.
Open ==
  /\ main = "opening"
  /\ client' = "open"
  /\ main' \in {"warmup", "preview", "cycle"}
  /\ UNCHANGED <<shutdownVars, runnerVars, dbVars, signals>>

OpenThrows ==
  /\ main = "opening"
  /\ main' = "thrown"
  /\ CloseDb
  /\ UNCHANGED <<shutdownVars, runnerVars, client, signals>>

WarmupReturns ==
  /\ main = "warmup"
  /\ main' \in {"preview", "cycle"}
  /\ UNCHANGED <<shutdownVars, runnerVars, dbVars, client, signals>>

PreviewReturns ==
  /\ main = "preview"
  /\ main' = "cycle"
  /\ UNCHANGED <<shutdownVars, runnerVars, dbVars, client, signals>>

\* The initial cycle returns, whatever its exit code: the runner is created,
\* and start() goes through in the same turn or awaits a warm-up of its own.
CycleReturns ==
  /\ main = "cycle"
  /\ runner' = TRUE
  /\ \/ main' = "started" /\ started' = TRUE
     \/ main' = "starting" /\ UNCHANGED started
  /\ UNCHANGED <<shutdownVars, cycles, runnerStop, dbVars, client, signals>>

\* A runner whose start() awaited is not stopped yet; stopped in between, it
\* finds its database gone and throws.
StartReturns ==
  /\ main = "starting"
  /\ runnerStop = "none"
  /\ main' = "started"
  /\ started' = TRUE
  /\ UNCHANGED <<shutdownVars, runner, cycles, runnerStop, dbVars, client, signals>>

\* An await throws, createRunner throws, or start() does: the catch awaits
\* shutdown(), which returns at once when it was called before.
Throws ==
  /\ main \in {"warmup", "preview", "cycle", "starting"}
  /\ runner' \in (IF main = "cycle" THEN BOOLEAN ELSE {runner})
  /\ main' = IF runner' /\ ~isShuttingDown THEN "catching" ELSE "rethrowing"
  /\ Shutdown(runner')
  /\ UNCHANGED <<started, signals>>

\* Mutant of Rethrow: the finally closes the database of an active runner.
RethrowCloses ==
  /\ main = "rethrowing" \/ (main = "catching" /\ shutdownAt = "done")
  /\ main' = "thrown"
  /\ \/ historyDb = "open" /\ CloseDb
     \/ historyDb = "closed" /\ UNCHANGED dbVars
  /\ UNCHANGED <<shutdownVars, runnerVars, client, signals>>

\* The finally closes the database when nobody else does.
Rethrow ==
  /\ main = "rethrowing" \/ (main = "catching" /\ shutdownAt = "done")
  /\ main' = "thrown"
  /\ \/ ~isShuttingDown /\ ~runner /\ CloseDb
     \/ (isShuttingDown \/ runner) /\ UNCHANGED dbVars
  /\ UNCHANGED <<shutdownVars, runnerVars, client, signals>>

Signal ==
  /\ main \notin {"opening", "thrown"}
  /\ signals < MaxSignals
  /\ signals' = signals + 1
  /\ Shutdown(runner)
  /\ UNCHANGED <<main, runner, started>>

\* shutdown() after `await runner.stop()'.
ResumeShutdown ==
  /\ shutdownAt = "stopping"
  /\ runnerStop = "resolved"
  /\ CloseDb
  /\ client' = "destroyed"
  /\ shutdownAt' = "done"
  /\ UNCHANGED <<main, isShuttingDown, runnerVars, signals>>

\* The runner's own steps, by its contract.
ownVars == <<main, shutdownVars, runner, started, dbVars, client, signals>>

BeginCycle == started /\ Runner!BeginCycle /\ UNCHANGED ownVars
EndCycle == Runner!EndCycle /\ UNCHANGED ownVars
ResolveStop == Runner!ResolveStop /\ UNCHANGED ownVars

Next ==
  \/ Open
  \/ OpenThrows
  \/ WarmupReturns
  \/ PreviewReturns
  \/ CycleReturns
  \/ StartReturns
  \/ Throws
  \/ Rethrow
  \/ Signal
  \/ ResumeShutdown
  \/ BeginCycle
  \/ EndCycle
  \/ ResolveStop

Spec == Init /\ [][Next]_vars

\* Cycles end, stop() then resolves, its continuation runs and a rethrow
\* propagates; the start-up need not end and signals need never come.
Fairness ==
  /\ WF_vars(EndCycle)
  /\ SF_vars(ResolveStop)
  /\ WF_vars(ResumeShutdown)
  /\ WF_vars(Rethrow)

FairSpec == Spec /\ Fairness

-----------------------------------------------------------------------------
(* Properties.                                                             *)

\* Once there is a runner, the database and the client go only after its
\* stop() resolved, so never under one of its cycles: neither a signal nor a
\* failing start() takes a short cut.
ClosedAfterRunner ==
  [][runner /\ historyDb = "open" /\ historyDb' = "closed" =>
       runnerStop = "resolved" /\ cycles = 0]_vars

\* Signals and the catch may both ask: the database is closed once, and the
\* client is destroyed with it.  A start-up that fails leaves no database
\* open, unless a signal's shutdown is still at it.
ClosedOnce ==
  /\ TypeOK
  /\ closes <= 1
  /\ closes = 1 <=> historyDb = "closed"
  /\ shutdownAt = "done" => historyDb = "closed" /\ client = "destroyed"
  /\ main = "thrown" => historyDb = "closed" \/ shutdownAt = "stopping"

\* Whatever asked for the shutdown, and however the start-up goes on, the
\* database and the client are closed in the end.
ShutdownEnds == isShuttingDown ~> (shutdownAt = "done")
=============================================================================
