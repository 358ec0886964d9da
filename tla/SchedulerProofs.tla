-------------------------- MODULE SchedulerProofs --------------------------
(***************************************************************************)
(* runScheduler closes the database and the client exactly once, and never *)
(* under a cycle of its runner, for any number of signals.                 *)
(***************************************************************************)
EXTENDS Scheduler, TLAPS

FlagsOK == isShuttingDown \in BOOLEAN /\ runner \in BOOLEAN /\ started \in BOOLEAN

StatesOK ==
  /\ main \in {"opening", "warmup", "preview", "cycle", "starting", "started",
               "catching", "rethrowing", "thrown"}
  /\ shutdownAt \in {"none", "stopping", "done"}
  /\ cycles \in 0..1
  /\ runnerStop \in {"none", "requested", "resolved"}
  /\ historyDb \in {"open", "closed"}
  /\ client \in {"none", "open", "destroyed"}
  /\ signals \in 0..MaxSignals

\* The runner exists from the end of the initial cycle on, and is stopped by nothing
\* but a shutdown.
RunnerInv ==
  /\ main \in {"opening", "warmup", "preview", "cycle"} => ~runner
  /\ main \in {"starting", "started", "catching"} => runner
  /\ shutdownAt = "none" => runnerStop = "none"
  /\ runnerStop = "resolved" => cycles = 0

\* A shutdown is under way or over once it was asked for, as it is when an error is
\* thrown on.
ShutdownInv ==
  /\ isShuttingDown <=> shutdownAt # "none"
  /\ main \in {"catching", "rethrowing"} => isShuttingDown
  /\ main = "opening" => ~isShuttingDown

\* Who closes the database, and when it is open.
CloseInv ==
  /\ closes = IF historyDb = "closed" THEN 1 ELSE 0
  /\ shutdownAt = "none" /\ main # "thrown" => historyDb = "open"
  /\ shutdownAt = "stopping" => historyDb = "open"
  /\ shutdownAt = "done" => historyDb = "closed" /\ client = "destroyed"
  /\ main = "thrown" => historyDb = "closed" \/ shutdownAt = "stopping"

IInv == FlagsOK /\ StatesOK /\ RunnerInv /\ ShutdownInv /\ CloseInv

LEMMA InitIInv == Init => IInv
<1> SUFFICES ASSUME Init PROVE IInv
  OBVIOUS
<1>1. FlagsOK
  BY Zenon DEF Init, FlagsOK
<1>2. StatesOK /\ RunnerInv /\ ShutdownInv /\ CloseInv
  BY SignalsAssumption
  DEF Init, Runner!Init, SignalsAssumption, StatesOK, RunnerInv, ShutdownInv, CloseInv
<1> QED BY <1>1, <1>2 DEF IInv

\* Flags stay flags.
LEMMA FlagsStep == FlagsOK /\ [Next]_vars => FlagsOK'
<1> SUFFICES ASSUME FlagsOK, [Next]_vars PROVE FlagsOK'
  OBVIOUS
<1> USE DEF FlagsOK, shutdownVars, runnerVars, ownVars
<1>1. CASE Open \/ OpenThrows \/ WarmupReturns \/ PreviewReturns
  BY <1>1, Zenon DEF Open, OpenThrows, WarmupReturns, PreviewReturns
<1>2. CASE CycleReturns \/ StartReturns
  BY <1>2, Zenon DEF CycleReturns, StartReturns
<1>3. CASE Throws
  <2>1. runner' \in BOOLEAN
    <3>1. CASE main = "cycle"
      BY <1>3, <3>1, Zenon DEF Throws
    <3>2. CASE main # "cycle"
      BY <1>3, <3>2, Zenon DEF Throws
    <3> QED BY <3>1, <3>2
  <2> QED BY <1>3, <2>1, Zenon DEF Throws, Shutdown
<1>4. CASE Signal
  BY <1>4, Zenon DEF Signal, Shutdown
<1>5. CASE Rethrow \/ ResumeShutdown
  BY <1>5, Zenon DEF Rethrow, ResumeShutdown
<1>6. CASE BeginCycle \/ EndCycle \/ ResolveStop
  BY <1>6, Zenon DEF BeginCycle, EndCycle, ResolveStop
<1>7. CASE UNCHANGED vars
  BY <1>7, Zenon DEF vars
<1> QED
  BY <1>1, <1>2, <1>3, <1>4, <1>5, <1>6, <1>7, Zenon DEF Next

\* Every step of the start-up, of a shutdown and of the runner keeps the order in
\* which things are closed.
LEMMA StateStep ==
  IInv /\ [Next]_vars => StatesOK' /\ RunnerInv' /\ ShutdownInv' /\ CloseInv'
<1> SUFFICES ASSUME IInv, [Next]_vars
             PROVE  StatesOK' /\ RunnerInv' /\ ShutdownInv' /\ CloseInv'
  OBVIOUS
<1> USE SignalsAssumption
    DEF IInv, StatesOK, RunnerInv, ShutdownInv, CloseInv, SignalsAssumption,
        shutdownVars, runnerVars, dbVars, CloseDb
<1>1. CASE Open
  BY <1>1 DEF Open
<1>2. CASE OpenThrows
  BY <1>2 DEF OpenThrows
<1>3. CASE WarmupReturns \/ PreviewReturns
  BY <1>3 DEF WarmupReturns, PreviewReturns
<1>4. CASE CycleReturns
  BY <1>4 DEF CycleReturns
<1>5. CASE StartReturns
  BY <1>5 DEF StartReturns
<1>6. CASE Throws
  <2>1. CASE isShuttingDown
    BY <1>6, <2>1 DEF Throws, Shutdown
  <2>2. CASE ~isShuttingDown /\ runner'
    BY <1>6, <2>2 DEF Throws, Shutdown, Runner!RequestStop
  <2>3. CASE ~isShuttingDown /\ ~runner'
    BY <1>6, <2>3 DEF Throws, Shutdown
  <2> QED BY <2>1, <2>2, <2>3
<1>7. CASE Rethrow
  BY <1>7 DEF Rethrow
<1>8. CASE Signal
  <2>1. CASE isShuttingDown
    BY <1>8, <2>1 DEF Signal, Shutdown
  <2>2. CASE ~isShuttingDown /\ runner
    BY <1>8, <2>2 DEF Signal, Shutdown, Runner!RequestStop
  <2>3. CASE ~isShuttingDown /\ ~runner
    BY <1>8, <2>3 DEF Signal, Shutdown
  <2> QED BY <2>1, <2>2, <2>3
<1>9. CASE ResumeShutdown
  BY <1>9 DEF ResumeShutdown
<1>10. CASE BeginCycle
  BY <1>10 DEF BeginCycle, Runner!BeginCycle, ownVars
<1>11. CASE EndCycle
  BY <1>11 DEF EndCycle, Runner!EndCycle, ownVars
<1>12. CASE ResolveStop
  BY <1>12 DEF ResolveStop, Runner!ResolveStop, ownVars
<1>13. CASE UNCHANGED vars
  BY <1>13 DEF vars
<1> QED
  BY <1>1, <1>2, <1>3, <1>4, <1>5, <1>6, <1>7, <1>8, <1>9, <1>10, <1>11, <1>12, <1>13 DEF Next

LEMMA Inductive == Spec => []IInv
<1>1. IInv /\ [Next]_vars => IInv'
  BY FlagsStep, StateStep DEF IInv
<1> QED BY InitIInv, <1>1, PTL DEF Spec

\* Signals, the catch and the finally close the database once between them, the
\* client with it, and a start-up that failed leaves it to nobody.
THEOREM CloseOnce == Spec => []ClosedOnce
<1>1. IInv => TypeOK
  <2> SUFFICES ASSUME IInv PROVE TypeOK
    OBVIOUS
  <2>1. isShuttingDown \in BOOLEAN /\ runner \in BOOLEAN /\ started \in BOOLEAN
    BY Zenon DEF IInv, FlagsOK
  <2>2. closes \in Nat
    BY DEF IInv, CloseInv, StatesOK
  <2> QED BY <2>1, <2>2, Zenon DEF IInv, StatesOK, TypeOK
<1>2. IInv => ClosedOnce
  BY <1>1 DEF IInv, StatesOK, CloseInv, ClosedOnce
<1> QED BY Inductive, <1>2, PTL

\* No step closes the database while there is a runner, unless the runner's stop()
\* has resolved and no cycle is in flight.
THEOREM CloseAfterRunner == Spec => ClosedAfterRunner
<1>1. ASSUME IInv, [Next]_vars
      PROVE  [runner /\ historyDb = "open" /\ historyDb' = "closed" =>
                runnerStop = "resolved" /\ cycles = 0]_vars
  <2> SUFFICES ASSUME Next, runner, historyDb = "open", historyDb' = "closed"
               PROVE  runnerStop = "resolved" /\ cycles = 0
    BY <1>1
  <2> USE <1>1 DEF IInv, RunnerInv, ShutdownInv, StatesOK, dbVars
  <2>1. CASE Throws
    BY <2>1 DEF Throws, Shutdown, Runner!RequestStop, CloseDb
  <2>2. CASE Signal
    BY <2>2 DEF Signal, Shutdown, Runner!RequestStop, CloseDb
  <2>3. CASE ResumeShutdown
    BY <2>3 DEF ResumeShutdown
  <2>4. CASE OpenThrows
    BY <2>4 DEF OpenThrows
  <2>5. CASE Rethrow
    BY <2>5 DEF Rethrow
  <2>6. CASE Open \/ WarmupReturns \/ PreviewReturns \/ CycleReturns \/ StartReturns
    BY <2>6 DEF Open, WarmupReturns, PreviewReturns, CycleReturns, StartReturns
  <2>7. CASE BeginCycle \/ EndCycle \/ ResolveStop
    BY <2>7 DEF BeginCycle, EndCycle, ResolveStop, ownVars
  <2> QED BY <2>1, <2>2, <2>3, <2>4, <2>5, <2>6, <2>7 DEF Next
<1> QED BY Inductive, <1>1, PTL DEF Spec, ClosedAfterRunner

=============================================================================
