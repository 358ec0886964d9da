------------------------ MODULE BlockIntervalRunner ------------------------
(***************************************************************************)
(* createBlockIntervalRunner (src/src/scheduling/blockInterval.ts) on the  *)
(* JavaScript event loop.  A step is either a macrotask (a finalized       *)
(* block, the end of a callback's I/O, a timer, a call of stop()), taken   *)
(* only when the microtask queue is empty, or the microtask at the head of *)
(* that queue.  Awaiting a promise puts the continuation in the promise's  *)
(* reactions, in order of registration; settling it moves them to the      *)
(* microtask queue.  The runner relies on this order: no continuation      *)
(* tests `stopped' again after its await.                                  *)
(*                                                                         *)
(* Time is counted in blocks (SECONDS_PER_BLOCK seconds each).             *)
(***************************************************************************)
EXTENDS ScheduledRunner, Sequences

CONSTANTS Grid,              \* DB_HISTORY_BLOCK_INTERVAL
          IntervalBlocks,    \* intervalBlocks
          ObserveInterval,   \* observeIntervalBlocks
          StaleBlocks,       \* staleTimeoutBlocks
          FirstBlock,        \* the finalized block when start() is called
          MaxBlock           \* bound on the chain's length

\* What createBlockIntervalRunner throws on, and positive intervals.
ASSUME RunnerAssumption ==
  /\ Grid \in Nat \ {0} /\ IntervalBlocks \in Nat \ {0}
  /\ ObserveInterval \in Nat \ {0} /\ StaleBlocks \in Nat \ {0}
  /\ IntervalBlocks % Grid = 0
  /\ ObserveInterval % Grid = 0
  /\ IntervalBlocks % ObserveInterval = 0
  /\ FirstBlock \in Nat \ {0} /\ MaxBlock \in Nat /\ FirstBlock <= MaxBlock

Block == FirstBlock..MaxBlock
RunPromise == 0                      \* the promise inflightRun refers to
Promise == Block \cup {RunPromise}   \* a block stands for its nextObserve

\* Continuations, named by what they resume.
Job == [kind : {"observe", "handler", "tickDone", "stopChain", "stopRun"},
        block : Block \cup {0}]
JobOf(kind, b) == [kind |-> kind, block |-> b]

VARIABLES
  hasObserve,      \* onObserve is given
  height,          \* the last finalized block: the clock
  started,         \* start() was called
  subscribed,      \* sub is defined
  stopped,
  observeChain,    \* blocks whose nextObserve is not settled, oldest first
  observing,       \* the block whose onObserve is executing, 0 if none
  lastRun,         \* the block of the last run, 0 before the first
  reactions,       \* continuations registered on each unsettled promise
  microtasks       \* the microtask queue

loopVars  == <<reactions, microtasks>>
runVars   == <<inflightRun, running, runStart, lastRun, staleTimer>>
staleVars == <<consecutiveStaleTimeouts, heartbeat>>
vars == <<hasObserve, height, started, subscribed, stopped, observeChain, observing,
          inflightRun, running, runStart, lastRun, staleTimer,
          consecutiveStaleTimeouts, heartbeat, reactions, microtasks, stopCall>>

TypeOK ==
  /\ hasObserve \in BOOLEAN
  /\ height \in Block
  /\ started \in BOOLEAN /\ subscribed \in BOOLEAN /\ stopped \in BOOLEAN
  /\ observeChain \in Seq(Block)
  /\ observing \in Block \cup {0}
  /\ inflightRun \in BOOLEAN
  /\ running \in Nat
  /\ runStart \in Block \cup {0}
  /\ lastRun \in Block \cup {0}
  /\ staleTimer \in {"off", "armed", "fired"}
  /\ consecutiveStaleTimeouts \in Nat
  /\ heartbeat \in Nat
  /\ reactions \in [Promise -> Seq(Job)]
  /\ microtasks \in Seq(Job)
  /\ stopCall \in {"none", "awaitChain", "awaitRun", "resolved"}

Init ==
  /\ hasObserve \in BOOLEAN
  /\ height = FirstBlock
  /\ started = FALSE /\ subscribed = FALSE /\ stopped = FALSE
  /\ observeChain = <<>> /\ observing = 0
  /\ inflightRun = FALSE /\ running = 0 /\ runStart = 0 /\ lastRun = 0
  /\ staleTimer = "off" /\ consecutiveStaleTimeouts = 0 /\ heartbeat = 0
  /\ reactions = [p \in Promise |-> <<>>]
  /\ microtasks = <<>>
  /\ stopCall = "none"

-----------------------------------------------------------------------------
(* The event loop.                                                         *)

Macrotask == microtasks = <<>>

ObserveTail == observeChain[Len(observeChain)]

\* Mutant of HeartbeatWindow: a run may not take any time.
HeartbeatWindowOfInterval == IntervalBlocks

HeartbeatWindow == IntervalBlocks + StaleBlocks

ShouldObserve(b) == hasObserve /\ b % ObserveInterval = 0
ShouldTick(b) == b % IntervalBlocks = 0

-----------------------------------------------------------------------------
(* Macrotasks.                                                             *)

Start ==
  /\ Macrotask
  /\ ~started
  /\ started' = TRUE
  /\ subscribed' = TRUE
  /\ heartbeat' = height + HeartbeatWindow
  /\ UNCHANGED <<hasObserve, height, stopped, observeChain, observing,
                 consecutiveStaleTimeouts, stopCall>>
  /\ UNCHANGED runVars /\ UNCHANGED loopVars

\* Mutant of OnBlock: the handler does not wait for its observe.
OnBlockForgetsObserve(b) ==
  /\ ShouldObserve(b)
  /\ observeChain' = Append(observeChain, b)
  /\ \/ /\ observeChain = <<>>
        /\ microtasks' = microtasks \o <<JobOf("observe", b), JobOf("handler", b)>>
        /\ UNCHANGED reactions
     \/ /\ observeChain # <<>>
        /\ microtasks' = Append(microtasks, JobOf("handler", b))
        /\ reactions' = [reactions EXCEPT ![ObserveTail] = Append(@, JobOf("observe", b))]

\* The subscription's handler up to its first await.  enqueueObserve chains
\* this block's onObserve behind the chain and waits for it; without an
\* observe the handler waits for the chain as it is.
OnBlock(b) ==
  \/ /\ ShouldObserve(b)
     /\ observeChain' = Append(observeChain, b)
     /\ \/ /\ observeChain = <<>>
           /\ microtasks' = Append(microtasks, JobOf("observe", b))
           /\ reactions' = [reactions EXCEPT ![b] = Append(@, JobOf("handler", b))]
        \/ /\ observeChain # <<>>
           /\ reactions' = [reactions EXCEPT
                              ![ObserveTail] = Append(@, JobOf("observe", b)),
                              ![b] = Append(@, JobOf("handler", b))]
           /\ UNCHANGED microtasks
  \/ /\ ~ShouldObserve(b) /\ ShouldTick(b)
     /\ \/ /\ observeChain = <<>>
           /\ microtasks' = Append(microtasks, JobOf("handler", b))
           /\ UNCHANGED reactions
        \/ /\ observeChain # <<>>
           /\ reactions' = [reactions EXCEPT
                              ![ObserveTail] = Append(@, JobOf("handler", b))]
           /\ UNCHANGED microtasks
     /\ UNCHANGED observeChain
  \/ /\ ~ShouldObserve(b) /\ ~ShouldTick(b)
     /\ UNCHANGED <<observeChain, reactions, microtasks>>

StaleTimerDue == staleTimer = "armed" /\ height >= runStart + StaleBlocks

\* A block is finalized; time passes whether or not the runner listens, but
\* never past a timer that is due.
FinalizeBlock ==
  /\ Macrotask
  /\ height < MaxBlock
  /\ ~StaleTimerDue
  /\ height' = height + 1
  /\ \/ subscribed /\ ~stopped /\ OnBlock(height + 1)
     \/ /\ ~subscribed \/ stopped
        /\ UNCHANGED <<observeChain, reactions, microtasks>>
  /\ UNCHANGED <<hasObserve, started, subscribed, stopped, observing, stopCall>>
  /\ UNCHANGED runVars /\ UNCHANGED staleVars

SubscriptionError ==
  /\ Macrotask
  /\ subscribed
  /\ stopped' = TRUE
  /\ subscribed' = FALSE
  /\ UNCHANGED <<hasObserve, height, started, observeChain, observing, stopCall>>
  /\ UNCHANGED runVars /\ UNCHANGED staleVars /\ UNCHANGED loopVars

\* Mutant of ObserveSettles: an observe that throws settles nothing.
ObserveThrows ==
  /\ Macrotask
  /\ observing # 0
  /\ observing' = 0
  /\ UNCHANGED <<hasObserve, height, started, subscribed, stopped, observeChain, stopCall>>
  /\ UNCHANGED runVars /\ UNCHANGED staleVars /\ UNCHANGED loopVars

\* onObserve returns or throws (its error is caught): nextObserve settles.
ObserveSettles ==
  /\ Macrotask
  /\ observing # 0
  /\ observing' = 0
  /\ observeChain' = Tail(observeChain)
  /\ microtasks' = microtasks \o reactions[observing]
  /\ reactions' = [reactions EXCEPT ![observing] = <<>>]
  /\ UNCHANGED <<hasObserve, height, started, subscribed, stopped, stopCall>>
  /\ UNCHANGED runVars /\ UNCHANGED staleVars

\* The end of run(): its finally clears the timer and writes the heartbeat;
\* inflightRun stays set until the continuation of runTick.
FinishRun ==
  /\ Macrotask
  /\ running > 0
  /\ running' = running - 1
  /\ staleTimer' = "off"
  /\ heartbeat' = height + HeartbeatWindow
  /\ microtasks' = microtasks \o reactions[RunPromise]
  /\ reactions' = [reactions EXCEPT ![RunPromise] = <<>>]
  /\ UNCHANGED <<hasObserve, height, started, subscribed, stopped, observeChain, observing,
                 inflightRun, runStart, lastRun, stopCall>>

TickReturns == FinishRun /\ consecutiveStaleTimeouts' = 0
TickThrows == FinishRun /\ UNCHANGED consecutiveStaleTimeouts

StaleTimeout ==
  /\ Macrotask
  /\ StaleTimerDue
  /\ staleTimer' = "fired"
  /\ consecutiveStaleTimeouts' = consecutiveStaleTimeouts + 1
  /\ \/ /\ consecutiveStaleTimeouts' >= MaxConsecutiveStale
        /\ stopped' = TRUE
        /\ subscribed' = FALSE
     \/ /\ consecutiveStaleTimeouts' < MaxConsecutiveStale
        /\ UNCHANGED <<stopped, subscribed>>
  /\ UNCHANGED <<hasObserve, height, started, observeChain, observing, inflightRun, running,
                 runStart, lastRun, heartbeat, stopCall>>
  /\ UNCHANGED loopVars

\* The synchronous part of stop().
Stop ==
  /\ Macrotask
  /\ started
  /\ stopCall = "none"
  /\ stopped' = TRUE
  /\ subscribed' = FALSE
  /\ stopCall' = "awaitChain"
  /\ \/ /\ observeChain = <<>>
        /\ microtasks' = Append(microtasks, JobOf("stopChain", 0))
        /\ UNCHANGED reactions
     \/ /\ observeChain # <<>>
        /\ reactions' = [reactions EXCEPT
                           ![ObserveTail] = Append(@, JobOf("stopChain", 0))]
        /\ UNCHANGED microtasks
  /\ UNCHANGED <<hasObserve, height, started, observeChain, observing>>
  /\ UNCHANGED runVars /\ UNCHANGED staleVars

-----------------------------------------------------------------------------
(* Microtasks: each takes the head of the queue.                           *)

Resumes(kind) == microtasks # <<>> /\ Head(microtasks).kind = kind

RunObserve ==
  /\ Resumes("observe")
  /\ observing' = Head(microtasks).block
  /\ microtasks' = Tail(microtasks)
  /\ UNCHANGED <<hasObserve, height, started, subscribed, stopped, observeChain, reactions,
                 stopCall>>
  /\ UNCHANGED runVars /\ UNCHANGED staleVars

\* Mutant of BeginRun: no overlap protection.
BeginRunAlways(b) ==
  /\ inflightRun' = TRUE
  /\ running' = running + 1
  /\ runStart' = height
  /\ lastRun' = b
  /\ staleTimer' = "armed"
  /\ reactions' = [reactions EXCEPT ![RunPromise] = Append(@, JobOf("tickDone", b))]

\* runTick when no run is in flight, up to the await of inflightRun.
BeginRun(b) ==
  /\ ~inflightRun
  /\ inflightRun' = TRUE
  /\ running' = running + 1
  /\ runStart' = height
  /\ lastRun' = b
  /\ staleTimer' = "armed"
  /\ reactions' = [reactions EXCEPT ![RunPromise] = Append(@, JobOf("tickDone", b))]

\* The handler after its await: a tick block runs, or is skipped when a run
\* is in flight.
ResumeHandler ==
  /\ Resumes("handler")
  /\ microtasks' = Tail(microtasks)
  /\ LET b == Head(microtasks).block IN
       \/ ShouldTick(b) /\ BeginRun(b)
       \/ (~ShouldTick(b) \/ inflightRun) /\ UNCHANGED runVars /\ UNCHANGED reactions
  /\ UNCHANGED <<hasObserve, height, started, subscribed, stopped, observeChain, observing,
                 stopCall>>
  /\ UNCHANGED staleVars

ResumeTick ==
  /\ Resumes("tickDone")
  /\ inflightRun' = FALSE
  /\ microtasks' = Tail(microtasks)
  /\ UNCHANGED <<hasObserve, height, started, subscribed, stopped, observeChain, observing,
                 running, runStart, lastRun, staleTimer, reactions, stopCall>>
  /\ UNCHANGED staleVars

\* stop() after `await observeChain'.  A run whose promise is settled but
\* whose runTick has not resumed is awaited for one more microtask.
ResumeStopAfterChain ==
  /\ Resumes("stopChain")
  /\ \/ /\ ~inflightRun
        /\ stopCall' = "resolved"
        /\ microtasks' = Tail(microtasks)
        /\ UNCHANGED reactions
     \/ /\ inflightRun /\ running > 0
        /\ stopCall' = "awaitRun"
        /\ microtasks' = Tail(microtasks)
        /\ reactions' = [reactions EXCEPT ![RunPromise] = Append(@, JobOf("stopRun", 0))]
     \/ /\ inflightRun /\ running = 0
        /\ stopCall' = "awaitRun"
        /\ microtasks' = Append(Tail(microtasks), JobOf("stopRun", 0))
        /\ UNCHANGED reactions
  /\ UNCHANGED <<hasObserve, height, started, subscribed, stopped, observeChain, observing>>
  /\ UNCHANGED runVars /\ UNCHANGED staleVars

ResumeStopAfterRun ==
  /\ Resumes("stopRun")
  /\ stopCall' = "resolved"
  /\ microtasks' = Tail(microtasks)
  /\ UNCHANGED <<hasObserve, height, started, subscribed, stopped, observeChain, observing,
                 reactions>>
  /\ UNCHANGED runVars /\ UNCHANGED staleVars

-----------------------------------------------------------------------------

Microtask ==
  \/ RunObserve
  \/ ResumeHandler
  \/ ResumeTick
  \/ ResumeStopAfterChain
  \/ ResumeStopAfterRun

Next ==
  \/ Start
  \/ FinalizeBlock
  \/ SubscriptionError
  \/ ObserveSettles
  \/ TickReturns
  \/ TickThrows
  \/ StaleTimeout
  \/ Stop
  \/ Microtask

Spec == Init /\ [][Next]_vars

\* The event loop drains its microtasks and the callbacks' promises settle;
\* blocks, errors and signals need never come.
Fairness ==
  /\ WF_vars(Microtask)
  /\ WF_vars(ObserveSettles)
  /\ WF_vars(TickReturns \/ TickThrows)

FairSpec == Spec /\ Fairness

-----------------------------------------------------------------------------
(* Properties.                                                             *)

\* A tick begins only after the observe of its own block and those of all
\* earlier blocks have settled, however late they are.
TickAfterItsObserves ==
  [][lastRun' # lastRun =>
       \A i \in DOMAIN observeChain' : observeChain'[i] > lastRun']_vars

\* The Docker healthcheck passes while the runner lives and no run is over
\* its stale timeout (without observes, which nothing bounds in time).
HeartbeatFresh ==
  /\ TypeOK
  /\ ~hasObserve /\ started /\ ~stopped /\ staleTimer # "fired" => heartbeat >= height

\* Graceful shutdown ends.
StopResolves == (stopCall # "none") ~> (stopCall = "resolved")
=============================================================================
