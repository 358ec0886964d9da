--------------------------- MODULE StrategyRunner ---------------------------
(***************************************************************************)
(* What every StrategyRunner promises the scheduler, whatever makes it     *)
(* start a cycle (src/src/scheduling/types.ts): at most one rebalance      *)
(* cycle is in flight, and the promise returned by stop() resolves only    *)
(* when none is, after which none ever starts -- the scheduler then closes *)
(* the database and the RPC client under the runner.                       *)
(***************************************************************************)
EXTENDS Naturals

VARIABLES cycles,       \* how many cycles are in flight
          shutdown      \* how far a call of stop() has come

vars == <<cycles, shutdown>>

Init ==
  /\ cycles = 0
  /\ shutdown = "none"

\* A trigger starts a cycle. The contract lets a trigger that was accepted
\* before stop() still start one while stop() waits.
BeginCycle ==
  /\ cycles = 0
  /\ shutdown # "resolved"
  /\ cycles' = 1
  /\ UNCHANGED shutdown

EndCycle ==
  /\ cycles = 1
  /\ cycles' = 0
  /\ UNCHANGED shutdown

RequestStop ==
  /\ shutdown = "none"
  /\ shutdown' = "requested"
  /\ UNCHANGED cycles

ResolveStop ==
  /\ shutdown = "requested"
  /\ cycles = 0
  /\ shutdown' = "resolved"
  /\ UNCHANGED cycles

Next ==
  \/ BeginCycle
  \/ EndCycle
  \/ RequestStop
  \/ ResolveStop

Spec == Init /\ [][Next]_vars
=============================================================================
