--------------------------- MODULE RpcRateLimiter ---------------------------
(***************************************************************************)
(* RpcRateLimiter (src/src/api/rateLimiter.ts): a semaphore with a FIFO    *)
(* queue in front of a token bucket.  Each task is one call of run().      *)
(* The unit of time is the time in which one token is refilled, so a       *)
(* minute has `rpm' units.  Microtasks run before time goes on; a due timer  *)
(* fires before time goes on.                                              *)
(***************************************************************************)
EXTENDS Integers, Sequences, FiniteSets, Functions

CONSTANTS Task,           \* the calls of run()
          Cost,           \* the cost each call declares
          Concurrency,    \* opts.concurrency
          RpmOptions,     \* the values of opts.rpm; 0 means unlimited
          MinSleep        \* 50 ms

ASSUME LimiterAssumption ==
  /\ IsFiniteSet(Task)
  /\ Cost \in [Task -> Nat \ {0}]
  /\ Concurrency \in Nat \ {0}
  /\ RpmOptions \subseteq Nat
  /\ MinSleep \in Nat

VARIABLES
  rpm,          \* opts.rpm
  status,       \* where each call is
  waitQueue,    \* calls waiting for a slot, oldest first
  running,      \* the semaphore's counter
  tokens,
  sinceRefill,  \* now - lastRefill, capped where it fills the bucket
  sleep,        \* time left on each sleeping call's timer
  minuteLog     \* history: the cost spent in each unit of the last minute

MaxTokens == rpm
Limited == rpm > 0

vars == <<rpm, status, waitQueue, running, tokens, sinceRefill, sleep, minuteLog>>

Status == {"idle", "queued", "slot", "asleep", "working", "done"}

TypeOK ==
  /\ rpm \in RpmOptions
  /\ status \in [Task -> Status]
  /\ waitQueue \in Seq(Task)
  /\ running \in Int
  /\ tokens \in 0..MaxTokens
  /\ sinceRefill \in 0..MaxTokens
  /\ sleep \in [Task -> Nat]
  /\ minuteLog \in [1..rpm -> Nat]

Init ==
  /\ rpm \in RpmOptions
  /\ status = [t \in Task |-> "idle"]
  /\ waitQueue = <<>>
  /\ running = 0
  /\ tokens = MaxTokens
  /\ sinceRefill = 0
  /\ sleep = [t \in Task |-> 0]
  /\ minuteLog = [i \in 1..rpm |-> 0]

-----------------------------------------------------------------------------

Lesser(a, b) == IF a < b THEN a ELSE b
Greater(a, b) == IF a > b THEN a ELSE b

bucketVars == <<rpm, tokens, sinceRefill, sleep, minuteLog>>

\* Mutant of Call: off by one.
CallOneMore(t) ==
  /\ status[t] = "idle"
  /\ \/ /\ running <= Concurrency
        /\ running' = running + 1
        /\ status' = [status EXCEPT ![t] = "slot"]
        /\ UNCHANGED waitQueue
     \/ /\ running > Concurrency
        /\ waitQueue' = Append(waitQueue, t)
        /\ status' = [status EXCEPT ![t] = "queued"]
        /\ UNCHANGED running
  /\ UNCHANGED bucketVars

\* acquireConcurrencySlot
Call(t) ==
  /\ status[t] = "idle"
  /\ \/ /\ running < Concurrency
        /\ running' = running + 1
        /\ status' = [status EXCEPT ![t] = "slot"]
        /\ UNCHANGED waitQueue
     \/ /\ running >= Concurrency
        /\ waitQueue' = Append(waitQueue, t)
        /\ status' = [status EXCEPT ![t] = "queued"]
        /\ UNCHANGED running
  /\ UNCHANGED bucketVars

\* Mutant of Refilled: the bucket overflows.
RefilledUncapped == tokens + sinceRefill

Refilled == Lesser(MaxTokens, tokens + sinceRefill)

\* acquireTokens, on entry and whenever its timer fires: refill, then take
\* the cost or sleep until it should have been refilled.
CheckBucket(t) ==
  /\ status[t] = "slot" \/ (status[t] = "asleep" /\ sleep[t] = 0)
  /\ \/ /\ ~Limited
        /\ status' = [status EXCEPT ![t] = "working"]
        /\ UNCHANGED bucketVars
     \/ /\ Limited /\ Refilled < Cost[t]
        /\ tokens' = Refilled
        /\ sinceRefill' = 0
        /\ status' = [status EXCEPT ![t] = "asleep"]
        /\ sleep' = [sleep EXCEPT ![t] = Greater(Cost[t] - Refilled, MinSleep)]
        /\ UNCHANGED <<rpm, minuteLog>>
     \/ /\ Limited /\ Refilled >= Cost[t]
        /\ tokens' = Refilled - Cost[t]
        /\ sinceRefill' = 0
        /\ status' = [status EXCEPT ![t] = "working"]
        /\ minuteLog' = [minuteLog EXCEPT ![rpm] = @ + Cost[t]]
        /\ UNCHANGED <<rpm, sleep>>
  /\ UNCHANGED <<waitQueue, running>>

\* Mutant of Finish: nobody is woken.
FinishWakesNobody(t) ==
  /\ status[t] = "working"
  /\ running' = running - 1
  /\ status' = [status EXCEPT ![t] = "done"]
  /\ UNCHANGED waitQueue /\ UNCHANGED bucketVars

\* Mutant of Finish: pop() in place of shift().
FinishWakesNewest(t) ==
  /\ status[t] = "working"
  /\ \/ /\ waitQueue = <<>>
        /\ running' = running - 1
        /\ status' = [status EXCEPT ![t] = "done"]
        /\ UNCHANGED waitQueue
     \/ /\ waitQueue # <<>>
        /\ UNCHANGED running
        /\ status' = [status EXCEPT ![t] = "done", ![waitQueue[Len(waitQueue)]] = "slot"]
        /\ waitQueue' = SubSeq(waitQueue, 1, Len(waitQueue) - 1)
  /\ UNCHANGED bucketVars

\* fn() settles; the finally hands the slot to the oldest waiter.
Finish(t) ==
  /\ status[t] = "working"
  /\ \/ /\ waitQueue = <<>>
        /\ running' = running - 1
        /\ status' = [status EXCEPT ![t] = "done"]
        /\ UNCHANGED waitQueue
     \/ /\ waitQueue # <<>>
        /\ running' = (running - 1) + 1
        /\ status' = [status EXCEPT ![t] = "done", ![Head(waitQueue)] = "slot"]
        /\ waitQueue' = Tail(waitQueue)
  /\ UNCHANGED bucketVars

\* Time passes when no continuation is ready and no timer is due.
ClockTick ==
  /\ \A t \in Task :
       status[t] # "slot" /\ ~(status[t] = "asleep" /\ sleep[t] = 0)
  /\ sinceRefill' = Lesser(MaxTokens, sinceRefill + 1)
  /\ sleep' = [t \in Task |-> Greater(0, sleep[t] - 1)]
  /\ minuteLog' = [i \in 1..rpm |-> IF i < rpm THEN minuteLog[i + 1] ELSE 0]
  /\ UNCHANGED <<rpm, status, waitQueue, running, tokens>>

Next ==
  \/ \E t \in Task : Call(t) \/ CheckBucket(t) \/ Finish(t)
  \/ ClockTick

Spec == Init /\ [][Next]_vars

\* Time passes, ready continuations run and the limited functions settle.
Fairness ==
  /\ \A t \in Task : WF_vars(CheckBucket(t)) /\ WF_vars(Finish(t))
  /\ WF_vars(ClockTick)

FairSpec == Spec /\ Fairness

-----------------------------------------------------------------------------
(* Properties.                                                             *)

Holders == {t \in Task : status[t] \in {"slot", "asleep", "working"}}

\* The semaphore, though its counter is decremented and incremented again at
\* every hand-over: never more than `concurrency' calls past it, and no lost
\* wake-up -- calls wait only while every slot is taken.
SlotsExact ==
  /\ TypeOK
  /\ Cardinality(Holders) <= Concurrency
  /\ waitQueue # <<>> => Cardinality(Holders) = Concurrency

\* A call never overtakes one that waits.
NoOvertaking ==
  [][\A t \in Task :
       status[t] \in {"idle", "queued"} /\ status'[t] = "slot" =>
         waitQueue = <<>> \/ t = Head(waitQueue)]_vars

SpentInMinute == FoldFunction(+, 0, minuteLog)

\* A full bucket plus one minute's refill is all a minute can see.
BurstBound == Limited => SpentInMinute <= 2 * rpm

\* Every call whose cost the bucket can hold eventually runs.
EveryCallRuns ==
  \A t \in Task : (status[t] # "idle" /\ (Limited => Cost[t] <= MaxTokens)) ~> (status[t] = "done")
=============================================================================
