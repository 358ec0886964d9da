----------------------------- MODULE CronRunner -----------------------------
(***************************************************************************)
(* createCronRunner (src/src/scheduling/cron.ts), used by root-emission    *)
(* and coward: a cron job fires `tick', which skips while a run is in      *)
(* flight.  The schedule is periodic; time is counted in its units, and a  *)
(* due timer fires before time goes on.  Names that the block-interval     *)
(* runner has too begin with Cron, so that one module can reason about     *)
(* both.                                                                   *)
(***************************************************************************)
EXTENDS ScheduledRunner

CONSTANTS Period,                \* distance between two cron fires
          StaleTimeoutMinutes,
          Fallback,              \* deadline used when there is no job: one hour
          MaxTime                \* bound on the clock

ASSUME CronAssumption ==
  /\ Period \in Nat \ {0} /\ StaleTimeoutMinutes \in Nat \ {0}
  /\ Fallback \in Nat /\ MaxTime \in Nat

VARIABLES
  now,
  job,             \* "unset", "running" or "stopped" (job is undefined again)
  nextFire,        \* the fire time the job waits for
  runSettled,      \* the promise of inflightRun is settled
  exitCode         \* process.exitCode

cronRunVars == <<inflightRun, running, runStart, runSettled>>
cronVars == <<now, job, nextFire, inflightRun, running, runStart, runSettled, staleTimer,
              consecutiveStaleTimeouts, heartbeat, exitCode, stopCall>>

CronTypeOK ==
  /\ now \in 0..MaxTime
  /\ job \in {"unset", "running", "stopped"}
  /\ nextFire \in Nat
  /\ inflightRun \in BOOLEAN /\ runSettled \in BOOLEAN
  /\ running \in Nat
  /\ runStart \in 0..MaxTime
  /\ staleTimer \in {"off", "armed", "fired"}
  /\ consecutiveStaleTimeouts \in Nat
  /\ heartbeat \in Nat
  /\ exitCode \in {0, 1}
  /\ stopCall \in {"none", "awaitRun", "resolved"}

CronInit ==
  /\ now = 0
  /\ job = "unset" /\ nextFire = 0
  /\ inflightRun = FALSE /\ running = 0 /\ runStart = 0 /\ runSettled = FALSE
  /\ staleTimer = "off" /\ consecutiveStaleTimeouts = 0
  /\ heartbeat = 0 /\ exitCode = 0
  /\ stopCall = "none"

-----------------------------------------------------------------------------

\* job.nextRun(): the first fire time after now.
NextRun == Period * (now \div Period + 1)

\* Mutant of HeartbeatDeadline: a run may not take any time.
DeadlineAtNextRun == IF job' = "running" THEN NextRun ELSE now + Fallback

HeartbeatDeadline ==
  (IF job' = "running" THEN NextRun ELSE now + Fallback) + StaleTimeoutMinutes

FireDue == job = "running" /\ now >= nextFire
CronStaleTimerDue == staleTimer = "armed" /\ now >= runStart + StaleTimeoutMinutes

\* The continuation of tick() runs before the next timer or I/O event.
CronMacrotask == ~runSettled

CronStart ==
  /\ job = "unset"
  /\ job' = "running"
  /\ nextFire' = NextRun
  /\ heartbeat' = HeartbeatDeadline
  /\ UNCHANGED <<now, staleTimer, consecutiveStaleTimeouts, exitCode, stopCall>>
  /\ UNCHANGED cronRunVars

AdvanceClock ==
  /\ CronMacrotask
  /\ ~FireDue /\ ~CronStaleTimerDue
  /\ now < MaxTime
  /\ now' = now + 1
  /\ UNCHANGED <<job, nextFire, staleTimer, consecutiveStaleTimeouts, heartbeat,
                 exitCode, stopCall>>
  /\ UNCHANGED cronRunVars

\* Mutant of Tick: no overlap protection.
TickAlways ==
  /\ CronMacrotask
  /\ FireDue
  /\ nextFire' = NextRun
  /\ inflightRun' = TRUE
  /\ running' = running + 1
  /\ runStart' = now
  /\ staleTimer' = "armed"
  /\ UNCHANGED <<now, job, runSettled, consecutiveStaleTimeouts, heartbeat, exitCode,
                 stopCall>>

\* tick() up to the await of inflightRun.
Tick ==
  /\ CronMacrotask
  /\ FireDue
  /\ nextFire' = NextRun
  /\ \/ inflightRun /\ UNCHANGED <<cronRunVars, staleTimer>>
     \/ /\ ~inflightRun
        /\ inflightRun' = TRUE
        /\ running' = running + 1
        /\ runStart' = now
        /\ staleTimer' = "armed"
        /\ UNCHANGED runSettled
  /\ UNCHANGED <<now, job, consecutiveStaleTimeouts, heartbeat, exitCode, stopCall>>

\* onTick settles: run()'s finally clears the timer and writes the heartbeat.
CronFinishRun ==
  /\ CronMacrotask
  /\ running > 0
  /\ running' = running - 1
  /\ runSettled' = TRUE
  /\ staleTimer' = "off"
  /\ UNCHANGED job
  /\ heartbeat' = HeartbeatDeadline
  /\ UNCHANGED <<now, nextFire, inflightRun, runStart, exitCode, stopCall>>

CronTickReturns == CronFinishRun /\ consecutiveStaleTimeouts' = 0
CronTickThrows == CronFinishRun /\ UNCHANGED consecutiveStaleTimeouts

\* tick()'s finally, then stop() if it awaited this run.
CronResumeTick ==
  /\ runSettled
  /\ runSettled' = FALSE
  /\ inflightRun' = FALSE
  /\ UNCHANGED <<now, job, nextFire, running, runStart, staleTimer,
                 consecutiveStaleTimeouts, heartbeat, exitCode, stopCall>>

\* After the third consecutive timeout the job is stopped and forgotten.
StaleTimerFires ==
  /\ CronMacrotask
  /\ CronStaleTimerDue
  /\ staleTimer' = "fired"
  /\ consecutiveStaleTimeouts' = consecutiveStaleTimeouts + 1
  /\ \/ /\ consecutiveStaleTimeouts' >= MaxConsecutiveStale
        /\ exitCode' = 1
        /\ job' = "stopped"
     \/ /\ consecutiveStaleTimeouts' < MaxConsecutiveStale
        /\ UNCHANGED <<exitCode, job>>
  /\ UNCHANGED <<now, nextFire, heartbeat, stopCall>>
  /\ UNCHANGED cronRunVars

CronStop ==
  /\ CronMacrotask
  /\ job # "unset"
  /\ stopCall = "none"
  /\ job' = "stopped"
  /\ stopCall' = "awaitRun"
  /\ UNCHANGED <<now, nextFire, staleTimer, consecutiveStaleTimeouts, heartbeat,
                 exitCode>>
  /\ UNCHANGED cronRunVars

ResumeStop ==
  /\ stopCall = "awaitRun"
  /\ ~inflightRun
  /\ stopCall' = "resolved"
  /\ UNCHANGED <<now, job, nextFire, staleTimer, consecutiveStaleTimeouts, heartbeat,
                 exitCode>>
  /\ UNCHANGED cronRunVars

CronNext ==
  \/ CronStart
  \/ AdvanceClock
  \/ Tick
  \/ CronTickReturns
  \/ CronTickThrows
  \/ CronResumeTick
  \/ StaleTimerFires
  \/ CronStop
  \/ ResumeStop

CronSpec == CronInit /\ [][CronNext]_cronVars

-----------------------------------------------------------------------------
(* Properties.                                                             *)

\* The Docker healthcheck passes while the job lives and no run has exceeded
\* its stale timeout, however many fires a slow run made the job skip.
CronHeartbeatFresh ==
  /\ CronTypeOK
  /\ job = "running" /\ staleTimer # "fired" => heartbeat >= now
=============================================================================
