-------------------------- MODULE ScheduledRunner --------------------------
(***************************************************************************)
(* What createBlockIntervalRunner (src/src/scheduling/blockInterval.ts)    *)
(* and createCronRunner (src/src/scheduling/cron.ts) have in common: a run *)
(* of onTick with its stale timer, the heartbeat, and a call of stop().    *)
(* Each of them drives this state in its own way.                          *)
(***************************************************************************)
EXTENDS Integers

MaxConsecutiveStale == 3

VARIABLES
  inflightRun,     \* inflightRun is not null
  running,         \* how many onTick are executing
  runStart,        \* when the last run began
  staleTimer,      \* "off", "armed" or "fired"
  consecutiveStaleTimeouts,
  heartbeat,       \* the deadline last written, 0 before the first
  stopCall         \* "none", an await of stop(), or "resolved"

\* A call of stop() as its caller sees it.
Shutdown ==
  IF stopCall \in {"awaitChain", "awaitRun"} THEN "requested" ELSE stopCall

\* The runner keeps the contract of every StrategyRunner: one cycle at a time, and
\* none once stop() has resolved.
Contract == INSTANCE StrategyRunner
  WITH cycles <- running, shutdown <- Shutdown
ContractSpec == Contract!Spec
=============================================================================
