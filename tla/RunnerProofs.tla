---------------------------- MODULE RunnerProofs ----------------------------
(***************************************************************************)
(* The two runners that fire on a schedule, for every interval, period and *)
(* stale timeout: the heartbeat covers every run that is not stale, and    *)
(* both keep the contract of a StrategyRunner.                             *)
(*                                                                         *)
(* The block-interval runner tests nothing after its awaits: what it may   *)
(* do then follows from where its continuations stand, in the microtask    *)
(* queue or behind a promise.  Its invariant relates these queues to the   *)
(* chain of observes, to the run in flight, to the call of stop() and to   *)
(* the clock.                                                              *)
(***************************************************************************)
EXTENDS BlockIntervalRunner, CronRunner, TLAPS

\* The jobs of a queue, or of the reactions of a promise.
Jobs(s) == {s[i] : i \in DOMAIN s}

Has(s, kind) == \E m \in Jobs(s) : m.kind = kind

\* Nothing that could begin a run comes after stop()'s continuation, nor a second one.
StopLast(s) ==
  \A i, j \in DOMAIN s :
    i < j /\ s[i].kind = "stopChain" => s[j].kind \notin {"handler", "stopChain"}

\* runTick resumes once.
TickOnce(s) ==
  \A i, j \in DOMAIN s : i < j /\ s[i].kind = "tickDone" => s[j].kind # "tickDone"

InChain(p) == \E i \in DOMAIN observeChain : observeChain[i] = p

\* Each block of the chain waits for the one before it.
ChainInv ==
  /\ \A i, j \in DOMAIN observeChain : i < j => observeChain[i] < observeChain[j]
  /\ \A i \in DOMAIN observeChain : observeChain[i] <= height
  /\ \A p \in Block : reactions[p] # <<>> => InChain(p)
  /\ observing # 0 => observeChain # <<>> /\ observing = observeChain[1]
  /\ \A m \in Jobs(microtasks) :
       m.kind = "observe" => observeChain # <<>> /\ m.block = observeChain[1]
  /\ \A i \in DOMAIN observeChain : \A m \in Jobs(reactions[observeChain[i]]) :
       m.kind = "observe" => i + 1 \in DOMAIN observeChain /\ m.block = observeChain[i + 1]
  /\ ~hasObserve => observeChain = <<>>

\* What a handler waits for lies behind it, what it does not wait for is later.
HandlerInv ==
  /\ \A m \in Jobs(microtasks) :
       m.kind = "handler" =>
         m.block <= height /\ \A i \in DOMAIN observeChain : observeChain[i] > m.block
  /\ \A i \in DOMAIN observeChain : \A m \in Jobs(reactions[observeChain[i]]) :
       m.kind = "handler" =>
         m.block <= height
         /\ \A j \in DOMAIN observeChain : j > i => observeChain[j] > m.block

KindInv ==
  /\ \A p \in Block : \A m \in Jobs(reactions[p]) :
       m.kind \in {"observe", "handler", "stopChain"}
  /\ \A m \in Jobs(reactions[RunPromise]) : m.kind \in {"tickDone", "stopRun"}

\* The promise in inflightRun is that of the one run, or has settled and its
\* continuation is in the queue.
RunInv ==
  /\ running \in {0, 1}
  /\ inflightRun <=> (running = 1 \/ Has(microtasks, "tickDone"))
  /\ running = 1 => ~Has(microtasks, "tickDone") /\ Has(reactions[RunPromise], "tickDone")
  /\ running = 0 => reactions[RunPromise] = <<>>
  /\ TickOnce(microtasks) /\ TickOnce(reactions[RunPromise])

\* stop()'s continuation is the last of what was registered before it, and once it has
\* resumed nothing is left that could begin a run.
StopInv ==
  /\ ~started =>
       microtasks = <<>> /\ staleTimer = "off" /\ \A p \in Promise : reactions[p] = <<>>
  /\ subscribed <=> started /\ ~stopped
  /\ stopped => started
  /\ stopCall # "none" => stopped
  /\ stopCall = "none" =>
       ~Has(microtasks, "stopChain") /\ \A p \in Block : ~Has(reactions[p], "stopChain")
  /\ StopLast(microtasks) /\ \A p \in Block : StopLast(reactions[p])
  /\ Has(microtasks, "stopChain") => observeChain = <<>>
  /\ \A i \in DOMAIN observeChain :
       Has(reactions[observeChain[i]], "stopChain") => i = Len(observeChain)
  /\ stopCall \in {"awaitRun", "resolved"} =>
       /\ observeChain = <<>>
       /\ ~Has(microtasks, "handler") /\ ~Has(microtasks, "stopChain")
  /\ Has(microtasks, "stopRun") => running = 0 /\ stopCall \in {"awaitRun", "resolved"}
  /\ Has(reactions[RunPromise], "stopRun") => stopCall \in {"awaitRun", "resolved"}
  /\ stopCall = "resolved" => running = 0

\* Without observes: the heartbeat was written for the first tick block after it,
\* which has not been reached, or is being handled; a run is covered until it is stale.
ClockInv ==
  ~hasObserve =>
    /\ \A m \in Jobs(microtasks) :
         m.kind = "handler" => microtasks = <<JobOf("handler", height)>>
    /\ staleTimer = "off" <=> running = 0
    /\ started /\ ~stopped /\ staleTimer = "off" =>
         \E w \in Nat :
           /\ heartbeat = w + HeartbeatWindow /\ w <= height
           /\ \A b \in (w + 1)..height :
                ShouldTick(b) => b = height /\ microtasks = <<JobOf("handler", b)>>
    /\ staleTimer = "armed" => height <= runStart + StaleBlocks
    /\ started /\ ~stopped /\ staleTimer = "armed" => heartbeat >= runStart + StaleBlocks

IInv ==
  TypeOK /\ ChainInv /\ HandlerInv /\ KindInv /\ RunInv /\ StopInv /\ ClockInv

-----------------------------------------------------------------------------
(* Queues.                                                                 *)

LEMMA OfNone == Jobs(<<>>) = {} /\ StopLast(<<>>) /\ TickOnce(<<>>)
BY DEF Jobs, StopLast, TickOnce

LEMMA OfAppended ==
  ASSUME NEW s \in Seq(Job), NEW m \in Job
  PROVE  /\ Append(s, m) \in Seq(Job) /\ Append(s, m) # <<>>
         /\ Jobs(Append(s, m)) = Jobs(s) \cup {m}
         /\ StopLast(s) /\ (m.kind \in {"handler", "stopChain"} => ~Has(s, "stopChain"))
              => StopLast(Append(s, m))
         /\ TickOnce(s) /\ (m.kind = "tickDone" => ~Has(s, "tickDone"))
              => TickOnce(Append(s, m))
<1> DEFINE t == Append(s, m)
<1>1. /\ t \in Seq(Job) /\ t # <<>> /\ Len(s) \in Nat
      /\ DOMAIN s = 1..Len(s) /\ DOMAIN t = 1..(Len(s) + 1)
      /\ t[Len(s) + 1] = m /\ \A i \in 1..Len(s) : t[i] = s[i]
  OBVIOUS
<1> HIDE DEF t
<1>2. Jobs(t) = Jobs(s) \cup {m}
  <2>1. ASSUME NEW i \in DOMAIN t PROVE t[i] \in Jobs(s) \cup {m}
    BY <1>1 DEF Jobs
  <2>2. ASSUME NEW i \in DOMAIN s PROVE s[i] \in Jobs(t)
    BY <1>1 DEF Jobs
  <2>3. m \in Jobs(t)
    BY <1>1 DEF Jobs
  <2> QED BY <2>1, <2>2, <2>3 DEF Jobs
<1>3. ASSUME StopLast(s), m.kind \in {"handler", "stopChain"} => ~Has(s, "stopChain")
      PROVE  StopLast(t)
  BY <1>1, <1>3 DEF StopLast, Has, Jobs
<1>4. ASSUME TickOnce(s), m.kind = "tickDone" => ~Has(s, "tickDone")
      PROVE  TickOnce(t)
  BY <1>1, <1>4 DEF TickOnce, Has, Jobs
<1> QED BY <1>1, <1>2, <1>3, <1>4 DEF t

LEMMA OfTail ==
  ASSUME NEW s \in Seq(Job), s # <<>>
  PROVE  /\ Tail(s) \in Seq(Job) /\ Head(s) \in Jobs(s) /\ Head(s) \in Job
         /\ Jobs(s) = {Head(s)} \cup Jobs(Tail(s))
         /\ StopLast(s) =>
              /\ StopLast(Tail(s))
              /\ Head(s).kind = "stopChain" =>
                   ~Has(Tail(s), "stopChain") /\ ~Has(Tail(s), "handler")
         /\ TickOnce(s) =>
              /\ TickOnce(Tail(s))
              /\ Head(s).kind = "tickDone" => ~Has(Tail(s), "tickDone")
<1> DEFINE t == Tail(s)
<1>1. /\ t \in Seq(Job) /\ Len(s) \in Nat \ {0} /\ Head(s) = s[1] /\ s[1] \in Job
      /\ DOMAIN s = 1..Len(s) /\ DOMAIN t = 1..(Len(s) - 1)
      /\ \A i \in 1..(Len(s) - 1) : t[i] = s[i + 1]
  OBVIOUS
<1> HIDE DEF t
<1>2. Jobs(s) = {Head(s)} \cup Jobs(t)
  <2>1. ASSUME NEW i \in DOMAIN t PROVE t[i] \in Jobs(s)
    BY <1>1 DEF Jobs
  <2>2. ASSUME NEW i \in DOMAIN s PROVE s[i] \in {Head(s)} \cup Jobs(t)
    <3>1. CASE i = 1
      BY <1>1, <3>1
    <3>2. CASE i # 1
      <4>1. i - 1 \in DOMAIN t /\ t[i - 1] = s[i]
        BY <1>1, <3>2
      <4> QED BY <4>1 DEF Jobs
    <3> QED BY <3>1, <3>2
  <2>3. Head(s) \in Jobs(s)
    BY <1>1 DEF Jobs
  <2> QED BY <2>1, <2>2, <2>3 DEF Jobs
<1>5. /\ 1 \in DOMAIN s
      /\ \A i \in DOMAIN t : i \in Nat /\ i + 1 \in DOMAIN s /\ 1 < i + 1 /\ t[i] = s[i + 1]
  BY <1>1
<1>6. \A m \in Jobs(t) : \E i \in DOMAIN s : 1 < i /\ s[i] = m
  BY <1>5 DEF Jobs
<1>3. ASSUME StopLast(s)
      PROVE  /\ StopLast(t)
             /\ Head(s).kind = "stopChain" => ~Has(t, "stopChain") /\ ~Has(t, "handler")
  <2>1. StopLast(t)
    <3> SUFFICES ASSUME NEW i \in DOMAIN t, NEW j \in DOMAIN t, i < j, t[i].kind = "stopChain"
                 PROVE  t[j].kind \notin {"handler", "stopChain"}
      BY DEF StopLast
    <3>1. i + 1 < j + 1
      BY <1>5
    <3> QED BY <1>3, <1>5, <3>1 DEF StopLast
  <2>2. Head(s).kind = "stopChain" => \A m \in Jobs(t) : m.kind \notin {"handler", "stopChain"}
    BY <1>1, <1>3, <1>5, <1>6 DEF StopLast
  <2> QED BY <2>1, <2>2 DEF Has
<1>4. ASSUME TickOnce(s)
      PROVE  /\ TickOnce(t)
             /\ Head(s).kind = "tickDone" => ~Has(t, "tickDone")
  <2>1. TickOnce(t)
    <3> SUFFICES ASSUME NEW i \in DOMAIN t, NEW j \in DOMAIN t, i < j, t[i].kind = "tickDone"
                 PROVE  t[j].kind # "tickDone"
      BY DEF TickOnce
    <3>1. i + 1 < j + 1
      BY <1>5
    <3> QED BY <1>4, <1>5, <3>1 DEF TickOnce
  <2>2. Head(s).kind = "tickDone" => \A m \in Jobs(t) : m.kind # "tickDone"
    BY <1>1, <1>4, <1>5, <1>6 DEF TickOnce
  <2> QED BY <2>1, <2>2 DEF Has
<1> QED BY <1>1, <1>2, <1>3, <1>4 DEF t

LEMMA OfOne ==
  ASSUME NEW m \in Job
  PROVE  Append(<<>>, m) = <<m>> /\ <<m>> \in Seq(Job) /\ Jobs(<<m>>) = {m}
<1>1. <<>> \in Seq(Job) /\ Append(<<>>, m) = <<m>> /\ <<m>> \in Seq(Job)
  OBVIOUS
<1>2. Jobs(Append(<<>>, m)) = Jobs(<<>>) \cup {m}
  BY <1>1, OfAppended
<1> QED BY <1>1, <1>2, OfNone

LEMMA Moved ==
  ASSUME NEW s \in Seq(Job)
  PROVE  <<>> \o s = s
OBVIOUS

LEMMA IsJob ==
  ASSUME NEW kind \in {"observe", "handler", "tickDone", "stopChain", "stopRun"},
         NEW b \in Block \cup {0}
  PROVE  /\ JobOf(kind, b) \in Job
         /\ JobOf(kind, b).kind = kind /\ JobOf(kind, b).block = b
BY DEF JobOf, Job

LEMMA Blocks ==
  ASSUME NEW b \in Block
  PROVE  b \in Nat \ {0} /\ b # RunPromise /\ b \in Promise /\ RunPromise \in Promise
BY RunnerAssumption DEF RunnerAssumption, Block, RunPromise, Promise

-----------------------------------------------------------------------------
(* What a block and a call of stop() register.                             *)

\* The block has an observe: its handler waits for it, and it waits for the chain.
Observed(b) ==
  /\ ShouldObserve(b) /\ observeChain' = Append(observeChain, b)
  /\ reactions'[b] = <<JobOf("handler", b)>>
  /\ \/ /\ observeChain = <<>>
        /\ microtasks' = <<JobOf("observe", b)>>
        /\ \A p \in Promise : p # b => reactions'[p] = reactions[p]
     \/ /\ observeChain # <<>>
        /\ microtasks' = <<>>
        /\ reactions'[ObserveTail] = Append(reactions[ObserveTail], JobOf("observe", b))
        /\ \A p \in Promise : p \notin {b, ObserveTail} => reactions'[p] = reactions[p]

\* A continuation waits for the chain as it is.
Registered(m) ==
  \/ /\ observeChain = <<>> /\ microtasks' = <<m>> /\ UNCHANGED <<observeChain, reactions>>
  \/ /\ observeChain # <<>> /\ microtasks' = <<>> /\ UNCHANGED observeChain
     /\ reactions'[ObserveTail] = Append(reactions[ObserveTail], m)
     /\ \A p \in Promise : p # ObserveTail => reactions'[p] = reactions[p]

LEMMA ChainTail ==
  ASSUME TypeOK, observeChain # <<>>
  PROVE  /\ Len(observeChain) \in DOMAIN observeChain /\ Len(observeChain) \in Nat \ {0}
         /\ DOMAIN observeChain = 1..Len(observeChain)
         /\ ObserveTail \in Block /\ ObserveTail \in Promise /\ ObserveTail # RunPromise
         /\ ObserveTail = observeChain[Len(observeChain)]
<1>1. observeChain \in Seq(Block)
  BY DEF TypeOK
<1>2. /\ Len(observeChain) \in DOMAIN observeChain /\ Len(observeChain) \in Nat \ {0}
      /\ DOMAIN observeChain = 1..Len(observeChain)
      /\ observeChain[Len(observeChain)] \in Block
  BY <1>1
<1> QED BY <1>2, Blocks DEF ObserveTail

LEMMA Singletons == \A m : Append(<<>>, m) = <<m>>
OBVIOUS

\* A block that the runner hears of is later than those it waits for.
LEMMA BlockEffect ==
  ASSUME TypeOK, ChainInv, FinalizeBlock
  PROVE  \E b \in Block :
           /\ height' = b /\ b = height + 1 /\ microtasks = <<>>
           /\ reactions[b] = <<>> /\ reactions' \in [Promise -> Seq(Job)]
           /\ JobOf("handler", b) \in Job /\ JobOf("observe", b) \in Job
           /\ observeChain # <<>> => ObserveTail # b
           /\ \/ subscribed /\ ~stopped /\ Observed(b)
              \/ /\ subscribed /\ ~stopped /\ ~ShouldObserve(b) /\ ShouldTick(b)
                 /\ Registered(JobOf("handler", b))
              \/ /\ UNCHANGED <<observeChain, reactions, microtasks>>
                 /\ subscribed /\ ~stopped => ~ShouldTick(b)
<1> PICK b : b = height + 1
  OBVIOUS
<1>1. b \in Block /\ height' = b /\ height \in Block /\ microtasks = <<>> /\ height < MaxBlock
  BY RunnerAssumption DEF FinalizeBlock, TypeOK, Block, RunnerAssumption, Macrotask
<1> DEFINE Effect ==
      \/ subscribed /\ ~stopped /\ Observed(b)
      \/ /\ subscribed /\ ~stopped /\ ~ShouldObserve(b) /\ ShouldTick(b)
         /\ Registered(JobOf("handler", b))
      \/ /\ UNCHANGED <<observeChain, reactions, microtasks>>
         /\ subscribed /\ ~stopped => ~ShouldTick(b)
<1>2. b \in Promise /\ b # RunPromise /\ b \in Nat
  BY <1>1, Blocks
<1>3. reactions[b] = <<>>
  <2>1. ~InChain(b)
    <3>1. \A i \in DOMAIN observeChain : observeChain[i] <= height /\ observeChain[i] \in Block
      BY DEF ChainInv, TypeOK
    <3>2. \A c \in Block : c <= height => c # b
      BY <1>1, Blocks
    <3> QED BY <3>1, <3>2 DEF InChain
  <2> QED BY <1>1, <2>1 DEF ChainInv
<1>4. /\ JobOf("handler", b) \in Job /\ JobOf("observe", b) \in Job
      /\ reactions \in [Promise -> Seq(Job)]
  BY <1>1, IsJob DEF TypeOK
<1>5. observeChain # <<>> => ObserveTail \in Promise /\ ObserveTail # b
  <2> SUFFICES ASSUME observeChain # <<>> PROVE ObserveTail \in Promise /\ ObserveTail # b
    OBVIOUS
  <2>1. ObserveTail \in Block /\ ObserveTail \in Promise
    BY ChainTail
  <2>2. ObserveTail <= height
    BY ChainTail DEF ChainInv
  <2> QED BY <1>1, <2>1, <2>2, Blocks
<1>6. ASSUME subscribed /\ ~stopped /\ OnBlock(b)
      PROVE  reactions' \in [Promise -> Seq(Job)] /\ Effect
  <2>1. CASE ShouldObserve(b) /\ observeChain = <<>>
    <3>1. /\ observeChain' = Append(observeChain, b)
          /\ microtasks' = Append(microtasks, JobOf("observe", b))
          /\ reactions' = [reactions EXCEPT ![b] = Append(@, JobOf("handler", b))]
      BY <1>6, <2>1 DEF OnBlock
    <3>2. reactions'[b] = <<JobOf("handler", b)>> /\ microtasks' = <<JobOf("observe", b)>>
      BY <1>1, <1>2, <1>3, <1>4, <3>1, Singletons
    <3>3. reactions' \in [Promise -> Seq(Job)]
      BY <1>2, <1>4, <3>1, OfAppended
    <3>4. \A p \in Promise : p # b => reactions'[p] = reactions[p]
      BY <1>4, <3>1
    <3> QED BY <1>1, <1>6, <2>1, <3>1, <3>2, <3>3, <3>4 DEF Observed
  <2>2. CASE ShouldObserve(b) /\ observeChain # <<>>
    <3>1. /\ observeChain' = Append(observeChain, b) /\ microtasks' = microtasks
          /\ reactions' = [reactions EXCEPT ![ObserveTail] = Append(@, JobOf("observe", b)),
                                            ![b] = Append(@, JobOf("handler", b))]
      BY <1>6, <2>2 DEF OnBlock
    <3>2. /\ reactions'[b] = <<JobOf("handler", b)>>
          /\ reactions'[ObserveTail] = Append(reactions[ObserveTail], JobOf("observe", b))
          /\ \A p \in Promise : p \notin {b, ObserveTail} => reactions'[p] = reactions[p]
      BY <1>2, <1>3, <1>4, <1>5, <2>2, <3>1, Singletons
    <3>3. reactions' \in [Promise -> Seq(Job)]
      <4>1. reactions[ObserveTail] \in Seq(Job) /\ reactions[b] \in Seq(Job)
        BY <1>2, <1>4, <1>5, <2>2
      <4>2. Append(reactions[ObserveTail], JobOf("observe", b)) \in Seq(Job)
        BY <1>4, <4>1, OfAppended
      <4>3. Append(reactions[b], JobOf("handler", b)) \in Seq(Job)
        BY <1>4, <4>1, OfAppended
      <4> QED BY <1>4, <1>5, <2>2, <3>1, <4>2, <4>3
    <3> QED BY <1>1, <1>6, <2>2, <3>1, <3>2, <3>3 DEF Observed
  <2>3. CASE ~ShouldObserve(b) /\ ShouldTick(b)
    <3>1. CASE observeChain = <<>>
      <4>1. /\ microtasks' = Append(microtasks, JobOf("handler", b))
            /\ UNCHANGED <<observeChain, reactions>>
        BY <1>6, <2>3, <3>1 DEF OnBlock
      <4>2. microtasks' = <<JobOf("handler", b)>>
        BY <1>1, <4>1, Singletons
      <4> QED BY <1>1, <1>4, <1>6, <2>3, <3>1, <4>1, <4>2 DEF Registered
    <3>2. CASE observeChain # <<>>
      <4>1. /\ microtasks' = microtasks /\ observeChain' = observeChain
            /\ reactions' = [reactions EXCEPT ![ObserveTail] = Append(@, JobOf("handler", b))]
        BY <1>6, <2>3, <3>2 DEF OnBlock
      <4>2. /\ reactions'[ObserveTail] = Append(reactions[ObserveTail], JobOf("handler", b))
            /\ \A p \in Promise : p # ObserveTail => reactions'[p] = reactions[p]
        BY <1>4, <1>5, <3>2, <4>1
      <4>3. Append(reactions[ObserveTail], JobOf("handler", b)) \in Seq(Job)
        BY <1>4, <1>5, <3>2, OfAppended
      <4>4. reactions' \in [Promise -> Seq(Job)]
        BY <1>4, <1>5, <3>2, <4>1, <4>3
      <4> QED BY <1>1, <1>6, <2>3, <3>2, <4>1, <4>2, <4>4 DEF Registered
    <3> QED BY <3>1, <3>2
  <2>4. CASE ~ShouldObserve(b) /\ ~ShouldTick(b)
    BY <1>1, <1>4, <1>6, <2>4 DEF OnBlock
  <2> QED BY <2>1, <2>2, <2>3, <2>4
<1>7. ASSUME ~subscribed \/ stopped, UNCHANGED <<observeChain, reactions, microtasks>>
      PROVE  reactions' \in [Promise -> Seq(Job)] /\ Effect
  BY <1>1, <1>4, <1>7
<1>8. OnBlock(height + 1) => OnBlock(b)
  OBVIOUS
<1>9. reactions' \in [Promise -> Seq(Job)] /\ Effect
  BY <1>6, <1>7, <1>8 DEF FinalizeBlock
<1> QED BY <1>1, <1>3, <1>4, <1>5, <1>9 DEF Effect

LEMMA StopEffect ==
  ASSUME TypeOK, Stop
  PROVE  /\ Registered(JobOf("stopChain", 0)) /\ reactions' \in [Promise -> Seq(Job)]
         /\ microtasks = <<>> /\ JobOf("stopChain", 0) \in Job
<1>1. /\ JobOf("stopChain", 0) \in Job /\ microtasks = <<>>
      /\ reactions \in [Promise -> Seq(Job)] /\ observeChain' = observeChain
  BY IsJob DEF TypeOK, Stop, Macrotask
<1>2. CASE observeChain = <<>>
  <2>1. microtasks' = Append(microtasks, JobOf("stopChain", 0)) /\ UNCHANGED reactions
    BY <1>2 DEF Stop
  <2> QED BY <1>1, <1>2, <2>1, Singletons DEF Registered
<1>3. CASE observeChain # <<>>
  <2>1. /\ microtasks' = microtasks
        /\ reactions' = [reactions EXCEPT ![ObserveTail] = Append(@, JobOf("stopChain", 0))]
    BY <1>3 DEF Stop
  <2>2. ObserveTail \in Promise
    BY <1>3, ChainTail
  <2>3. Append(reactions[ObserveTail], JobOf("stopChain", 0)) \in Seq(Job)
    BY <1>1, <2>2, OfAppended
  <2> QED BY <1>1, <1>3, <2>1, <2>2, <2>3 DEF Registered
<1> QED BY <1>2, <1>3

-----------------------------------------------------------------------------
(* The queues.                                                             *)

QueueInv == ChainInv /\ HandlerInv /\ KindInv

LEMMA OfQueue ==
  ASSUME NEW s \in Seq(Job)
  PROVE  \A m \in Jobs(s) : m \in Job
BY DEF Jobs

\* What TypeOK says of the chain and the queues.
LEMMA Typing ==
  ASSUME TypeOK
  PROVE  /\ observeChain \in Seq(Block)
         /\ \A i \in DOMAIN observeChain : observeChain[i] \in Block
         /\ height \in Nat /\ height \in Block
         /\ \A p \in Block : p \in Nat /\ p # 0 /\ p \in Promise /\ p # RunPromise
         /\ \A m \in Job : m.block \in Nat
         /\ \A p \in Promise : reactions[p] \in Seq(Job)
         /\ RunPromise \in Promise
         /\ \A m \in Jobs(microtasks) : m \in Job
         /\ \A p \in Promise : \A m \in Jobs(reactions[p]) : m \in Job
<1>1. \A p \in Block : p \in Nat /\ p # 0 /\ p \in Promise /\ p # RunPromise
  BY Blocks
<1>2. RunPromise \in Promise
  BY DEF Promise
<1>3. \A m \in Job : m.block \in Nat
  <2>1. \A m \in Job : m.block \in Block \cup {0}
    BY DEF Job
  <2> QED BY <1>1, <2>1
<1>4. /\ observeChain \in Seq(Block) /\ height \in Block
      /\ reactions \in [Promise -> Seq(Job)] /\ microtasks \in Seq(Job)
  BY DEF TypeOK
<1>5. \A i \in DOMAIN observeChain : observeChain[i] \in Block
  BY <1>4
<1> QED BY <1>1, <1>2, <1>3, <1>4, <1>5, OfQueue

\* What neither registers nor settles an observe: the microtasks are among those of
\* before, or belong to a run.
LEMMA SameChain ==
  ASSUME TypeOK, TypeOK', QueueInv, height' >= height, UNCHANGED <<hasObserve, observeChain>>,
         observing' # 0 => observeChain # <<>> /\ observing' = observeChain[1],
         \A p \in Block : reactions'[p] = reactions[p],
         \A m \in Jobs(microtasks') :
           m \in Jobs(microtasks) \/ m.kind \in {"tickDone", "stopRun"},
         \A m \in Jobs(reactions'[RunPromise]) : m.kind \in {"tickDone", "stopRun"}
  PROVE  QueueInv'
<1>1. /\ observeChain \in Seq(Block)
      /\ \A i \in DOMAIN observeChain : observeChain[i] \in Block
      /\ height \in Nat /\ height' \in Nat /\ \A p \in Block : p \in Nat
      /\ \A m \in Job : m.block \in Nat
      /\ \A m \in Jobs(microtasks) : m \in Job
      /\ \A p \in Block : \A m \in Jobs(reactions[p]) : m \in Job
  <2>1. height' \in Nat
    BY Blocks DEF TypeOK
  <2> QED BY <2>1, Typing
<1>2. ChainInv'
  BY <1>1 DEF QueueInv, ChainInv, InChain
<1>3. HandlerInv'
  BY <1>1 DEF QueueInv, HandlerInv
<1>4. KindInv'
  BY DEF QueueInv, KindInv
<1> QED BY <1>2, <1>3, <1>4 DEF QueueInv

\* A handler or stop() behind the chain as it is.
LEMMA Behind ==
  ASSUME NEW m \in Job, m.kind \in {"handler", "stopChain"},
         m.kind = "handler" => m.block = height',
         Registered(m), TypeOK, TypeOK', QueueInv, height' >= height, microtasks = <<>>,
         UNCHANGED <<hasObserve, observing>>
  PROVE  QueueInv'
<1>1. /\ observeChain \in Seq(Block) /\ observeChain' = observeChain
      /\ \A i \in DOMAIN observeChain : observeChain[i] \in Block
      /\ height \in Nat /\ height' \in Nat
      /\ \A p \in Block : p \in Nat /\ p \in Promise /\ reactions[p] \in Seq(Job)
      /\ \A j \in Job : j.block \in Nat
      /\ \A p \in Block : \A j \in Jobs(reactions[p]) : j \in Job
  <2>1. height' \in Nat
    BY Blocks DEF TypeOK
  <2>2. observeChain' = observeChain
    BY DEF Registered
  <2> QED BY <2>1, <2>2, Typing
<1>2. CASE observeChain = <<>>
  <2>1. microtasks' = <<m>> /\ reactions' = reactions
    BY <1>2 DEF Registered
  <2>2. Jobs(microtasks') = {m}
    <3>1. <<>> \in Seq(Job) /\ <<m>> = Append(<<>>, m)
      BY Singletons
    <3>2. Jobs(<<m>>) = Jobs(<<>>) \cup {m}
      BY <3>1, OfAppended
    <3> QED BY <2>1, <3>2, OfNone
  <2>3. ChainInv'
    BY <1>1, <2>1, <2>2 DEF QueueInv, ChainInv, InChain
  <2>4. HandlerInv'
    BY <1>1, <1>2, <2>1, <2>2 DEF QueueInv, HandlerInv
  <2>5. KindInv'
    BY <2>1 DEF QueueInv, KindInv
  <2> QED BY <2>3, <2>4, <2>5 DEF QueueInv
<1>3. CASE observeChain # <<>>
  <2> DEFINE n == Len(observeChain)
  <2>1. /\ n \in DOMAIN observeChain /\ DOMAIN observeChain = 1..n /\ n \in Nat \ {0}
        /\ ObserveTail = observeChain[n] /\ ObserveTail \in Block /\ ObserveTail # RunPromise
    BY <1>3, ChainTail
  <2> HIDE DEF n
  <2>2. /\ microtasks' = <<>>
        /\ reactions'[ObserveTail] = Append(reactions[ObserveTail], m)
        /\ \A p \in Promise : p # ObserveTail => reactions'[p] = reactions[p]
    BY <1>3 DEF Registered
  <2>3. Jobs(microtasks') = {} /\ Jobs(microtasks) = {}
    BY <2>2, OfNone
  <2>4. Jobs(reactions'[ObserveTail]) = Jobs(reactions[ObserveTail]) \cup {m}
    BY <1>1, <2>1, <2>2, OfAppended
  <2>5. \A i \in DOMAIN observeChain :
          /\ i # n => observeChain[i] # ObserveTail
          /\ \A j \in Jobs(reactions'[observeChain[i]]) :
               j \in Jobs(reactions[observeChain[i]]) \/ (j = m /\ i = n)
    <3>1. \A i \in DOMAIN observeChain : i # n => observeChain[i] < observeChain[n]
      BY <2>1 DEF QueueInv, ChainInv
    <3>2. \A i \in DOMAIN observeChain : i # n => observeChain[i] # ObserveTail
      BY <1>1, <2>1, <3>1
    <3> QED BY <1>1, <2>1, <2>2, <2>4, <3>2
  <2>6. ChainInv'
    <3>1. \A p \in Block : reactions'[p] # <<>> => InChain(p)
      BY <1>1, <2>1, <2>2 DEF QueueInv, ChainInv, InChain
    <3>2. \A i \in DOMAIN observeChain : observeChain[i] <= height'
      BY <1>1 DEF QueueInv, ChainInv
    <3>3. \A i \in DOMAIN observeChain : \A j \in Jobs(reactions'[observeChain[i]]) :
            j.kind = "observe" =>
              i + 1 \in DOMAIN observeChain /\ j.block = observeChain[i + 1]
      BY <2>5 DEF QueueInv, ChainInv
    <3> QED BY <1>1, <2>3, <3>1, <3>2, <3>3 DEF QueueInv, ChainInv, InChain
  <2>7. HandlerInv'
    <3>1. ASSUME NEW i \in DOMAIN observeChain, NEW j \in Jobs(reactions'[observeChain[i]]),
                 j.kind = "handler"
          PROVE  j.block <= height'
                 /\ \A k \in DOMAIN observeChain : k > i => observeChain[k] > j.block
      <4>1. CASE j \in Jobs(reactions[observeChain[i]])
        <5>1. j.block <= height
              /\ \A k \in DOMAIN observeChain : k > i => observeChain[k] > j.block
          BY <3>1, <4>1 DEF QueueInv, HandlerInv
        <5>2. j.block \in Nat
          BY <1>1, <4>1
        <5> QED BY <1>1, <5>1, <5>2
      <4>2. CASE j = m /\ i = n
        BY <1>1, <2>1, <3>1, <4>2
      <4> QED BY <2>5, <4>1, <4>2
    <3> QED BY <1>1, <2>3, <3>1 DEF HandlerInv
  <2>8. KindInv'
    <3>1. \A p \in Block : \A j \in Jobs(reactions'[p]) :
            j \in Jobs(reactions[p]) \/ j = m
      BY <1>1, <2>1, <2>2, <2>4
    <3>2. reactions'[RunPromise] = reactions[RunPromise]
      BY <2>1, <2>2 DEF Promise
    <3> QED BY <3>1, <3>2 DEF QueueInv, KindInv
  <2> QED BY <2>6, <2>7, <2>8 DEF QueueInv
<1> QED BY <1>2, <1>3

\* A handler behind its own observe, which is behind the chain.
LEMMA Enqueued ==
  ASSUME NEW b \in Block, b = height + 1, height' = b, Observed(b), reactions[b] = <<>>,
         JobOf("handler", b) \in Job, JobOf("observe", b) \in Job,
         observeChain # <<>> => ObserveTail # b,
         TypeOK, TypeOK', QueueInv, microtasks = <<>>, UNCHANGED <<hasObserve, observing>>
  PROVE  QueueInv'
<1> DEFINE n == Len(observeChain)
           handler == JobOf("handler", b)
           observe == JobOf("observe", b)
<1>1. /\ observeChain \in Seq(Block)
      /\ \A i \in DOMAIN observeChain : observeChain[i] \in Block
      /\ height \in Nat /\ b \in Nat
      /\ \A p \in Block :
           p \in Nat /\ p \in Promise /\ p # RunPromise /\ reactions[p] \in Seq(Job)
      /\ \A j \in Job : j.block \in Nat
      /\ \A p \in Block : \A j \in Jobs(reactions[p]) : j \in Job
  BY Typing
<1>2. /\ n \in Nat /\ DOMAIN observeChain = 1..n /\ DOMAIN observeChain' = 1..(n + 1)
      /\ observeChain'[n + 1] = b
      /\ \A i \in 1..n : observeChain'[i] = observeChain[i]
      /\ observeChain = <<>> <=> n = 0
      /\ observeChain # <<>> => ObserveTail = observeChain[n] /\ n \in 1..n
      /\ \A i \in 1..n : observeChain[i] \in Block
  BY <1>1 DEF Observed, ObserveTail
<1>3. /\ handler.kind = "handler" /\ handler.block = b
      /\ observe.kind = "observe" /\ observe.block = b
  BY IsJob
<1>4. Jobs(<<handler>>) = {handler} /\ Jobs(<<observe>>) = {observe}
  <2>1. <<>> \in Seq(Job) /\ \A m : <<m>> = Append(<<>>, m)
    BY Singletons
  <2>2. \A m \in Job : Jobs(<<m>>) = Jobs(<<>>) \cup {m}
    BY <2>1, OfAppended
  <2> QED BY <2>2, OfNone
<1> HIDE DEF n, handler, observe
<1>5. Jobs(reactions'[b]) = {handler}
  BY <1>4 DEF Observed, handler
<1>6. \A m \in Jobs(microtasks') : m = observe /\ n = 0
  BY <1>2, <1>4, OfNone DEF Observed, observe
<1>7. \A i \in 1..n : observeChain[i] <= height /\ observeChain[i] # b
  BY <1>1, <1>2 DEF QueueInv, ChainInv
<1>8. \A i \in 1..n : i # n => observeChain[i] # observeChain[n]
  <2>1. \A i \in 1..n : i # n => observeChain[i] < observeChain[n]
    BY <1>2 DEF QueueInv, ChainInv
  <2>2. \A i \in 1..n : n \in 1..n
    BY <1>2
  <2>3. \A i \in 1..n : observeChain[i] \in Nat
    BY <1>1, <1>2
  <2> QED BY <1>2, <2>1, <2>2, <2>3
<1>9. \A i \in 1..n : \A j \in Jobs(reactions'[observeChain[i]]) :
        j \in Jobs(reactions[observeChain[i]]) \/ (i = n /\ j = observe)
  <2> SUFFICES ASSUME NEW i \in 1..n, NEW j \in Jobs(reactions'[observeChain[i]])
               PROVE  j \in Jobs(reactions[observeChain[i]]) \/ (i = n /\ j = observe)
    OBVIOUS
  <2>1. observeChain # <<>> /\ observeChain[i] \in Block /\ observeChain[n] \in Block
    BY <1>1, <1>2
  <2>2. CASE i = n
    <3>1. reactions'[ObserveTail] = Append(reactions[ObserveTail], observe)
      BY <2>1 DEF Observed, observe
    <3>2. Jobs(reactions'[ObserveTail]) = Jobs(reactions[ObserveTail]) \cup {observe}
      BY <1>1, <1>2, <2>1, <3>1, OfAppended DEF observe
    <3> QED BY <1>2, <2>1, <2>2, <3>2
  <2>3. CASE i # n
    <3>1. observeChain[i] \notin {b, ObserveTail} /\ observeChain[i] \in Promise
      BY <1>1, <1>2, <1>7, <1>8, <2>1, <2>3
    <3> QED BY <2>1, <3>1 DEF Observed
  <2> QED BY <2>2, <2>3
<1>10. ChainInv'
  <2>1. \A i, j \in 1..(n + 1) : i < j => observeChain'[i] < observeChain'[j]
    <3>1. \A i, j \in 1..n : i < j => observeChain[i] < observeChain[j]
      BY <1>2 DEF QueueInv, ChainInv
    <3>2. \A i \in 1..n : observeChain[i] \in Nat
      BY <1>1, <1>2
    <3>3. \A i \in 1..n : observeChain[i] < b
      BY <1>1, <1>7, <3>2
    <3> QED BY <1>2, <3>1, <3>3
  <2>2. \A i \in 1..(n + 1) : observeChain'[i] <= height'
    <3>1. \A i \in 1..n : observeChain[i] \in Nat
      BY <1>1, <1>2
    <3>2. \A i \in 1..n : observeChain[i] <= b
      BY <1>1, <1>7, <3>1
    <3> QED BY <1>1, <1>2, <3>2
  <2>3. ASSUME NEW p \in Block, reactions'[p] # <<>>
        PROVE  \E i \in 1..(n + 1) : observeChain'[i] = p
    <3>1. CASE p = b
      BY <1>2, <3>1
    <3>2. CASE observeChain # <<>> /\ p = ObserveTail
      BY <1>2, <3>2
    <3>3. CASE p # b /\ ~(observeChain # <<>> /\ p = ObserveTail)
      <4>1. reactions'[p] = reactions[p]
        BY <1>1, <3>3 DEF Observed
      <4>2. PICK i \in 1..n : observeChain[i] = p
        BY <1>2, <2>3, <4>1 DEF QueueInv, ChainInv, InChain
      <4> QED BY <1>2, <4>2
    <3> QED BY <3>1, <3>2, <3>3
  <2>4. observing' # 0 => observeChain' # <<>> /\ observing' = observeChain'[1]
    <3>1. observing # 0 => n # 0 /\ observing = observeChain[1]
      BY <1>2 DEF QueueInv, ChainInv
    <3> QED BY <1>2, <3>1
  <2>5. \A m \in Jobs(microtasks') : observeChain' # <<>> /\ m.block = observeChain'[1]
    BY <1>2, <1>3, <1>6
  <2>6. ASSUME NEW i \in 1..(n + 1), NEW m \in Jobs(reactions'[observeChain'[i]]),
               m.kind = "observe"
        PROVE  i + 1 \in 1..(n + 1) /\ m.block = observeChain'[i + 1]
    <3>1. CASE i = n + 1
      BY <1>2, <1>3, <1>5, <2>6, <3>1
    <3>2. CASE i \in 1..n /\ m \in Jobs(reactions[observeChain[i]])
      <4>1. i + 1 \in 1..n /\ m.block = observeChain[i + 1]
        BY <1>2, <2>6, <3>2 DEF QueueInv, ChainInv
      <4> QED BY <1>2, <4>1
    <3>3. CASE i = n /\ i \in 1..n /\ m = observe
      BY <1>2, <1>3, <3>3
    <3> QED BY <1>2, <1>9, <3>1, <3>2, <3>3
  <2>7. hasObserve'
    BY DEF Observed, ShouldObserve
  <2> QED BY <1>2, <2>1, <2>2, <2>3, <2>4, <2>5, <2>6, <2>7 DEF ChainInv, InChain
<1>11. HandlerInv'
  <2>1. ASSUME NEW i \in 1..(n + 1), NEW m \in Jobs(reactions'[observeChain'[i]]),
               m.kind = "handler"
        PROVE  m.block <= height'
               /\ \A j \in 1..(n + 1) : j > i => observeChain'[j] > m.block
    <3>1. CASE i = n + 1
      <4>1. m = handler /\ m.block = b
        BY <1>2, <1>3, <1>5, <3>1
      <4> QED BY <1>1, <1>2, <3>1, <4>1
    <3>2. CASE i \in 1..n
      <4>1. m \in Jobs(reactions[observeChain[i]])
        BY <1>2, <1>3, <1>9, <2>1, <3>2
      <4>2. m.block <= height /\ \A j \in 1..n : j > i => observeChain[j] > m.block
        BY <1>2, <2>1, <3>2, <4>1 DEF QueueInv, HandlerInv
      <4>3. m.block \in Nat
        BY <1>1, <1>2, <3>2, <4>1
      <4> QED BY <1>1, <1>2, <4>2, <4>3
    <3> QED BY <1>2, <3>1, <3>2
  <2> QED BY <1>2, <1>3, <1>6, <2>1 DEF HandlerInv
<1>12. KindInv'
  <2>1. ASSUME NEW p \in Block, NEW m \in Jobs(reactions'[p])
        PROVE  m.kind \in {"observe", "handler", "stopChain"}
    <3>1. CASE p = b
      BY <1>3, <1>5, <2>1, <3>1
    <3>2. CASE observeChain # <<>> /\ p = ObserveTail
      <4>1. m \in Jobs(reactions[p]) \/ m = observe
        BY <1>2, <1>9, <2>1, <3>2
      <4> QED BY <1>3, <4>1 DEF QueueInv, KindInv
    <3>3. CASE p # b /\ ~(observeChain # <<>> /\ p = ObserveTail)
      <4>1. reactions'[p] = reactions[p]
        BY <1>1, <3>3 DEF Observed
      <4> QED BY <2>1, <4>1 DEF QueueInv, KindInv
    <3> QED BY <3>1, <3>2, <3>3
  <2>2. reactions'[RunPromise] = reactions[RunPromise]
    <3>1. RunPromise \in Promise /\ RunPromise # b
      BY Blocks
    <3>2. observeChain # <<>> => RunPromise # ObserveTail
      BY ChainTail
    <3> QED BY <3>1, <3>2 DEF Observed
  <2> QED BY <2>1, <2>2 DEF QueueInv, KindInv
<1> QED BY <1>10, <1>11, <1>12 DEF QueueInv

\* What waited for the first of the chain goes to the queue.
LEMMA Settled ==
  ASSUME TypeOK, TypeOK', QueueInv, ObserveSettles
  PROVE  QueueInv'
<1> DEFINE n == Len(observeChain)
<1>1. /\ observeChain \in Seq(Block)
      /\ \A i \in DOMAIN observeChain : observeChain[i] \in Block
      /\ height \in Nat
      /\ \A p \in Block :
           p \in Nat /\ p \in Promise /\ p # RunPromise /\ reactions[p] \in Seq(Job)
      /\ RunPromise \in Promise
  BY Typing
<1>2. /\ observing # 0 /\ observeChain # <<>> /\ observing = observeChain[1]
      /\ observing' = 0 /\ observeChain' = Tail(observeChain)
      /\ microtasks = <<>> /\ microtasks' = microtasks \o reactions[observing]
      /\ reactions' = [reactions EXCEPT ![observing] = <<>>]
      /\ UNCHANGED <<hasObserve, height>>
  BY DEF ObserveSettles, Macrotask, QueueInv, ChainInv
<1>3. /\ n \in Nat \ {0} /\ DOMAIN observeChain = 1..n /\ DOMAIN observeChain' = 1..(n - 1)
      /\ \A i \in 1..(n - 1) : i + 1 \in 1..n /\ observeChain'[i] = observeChain[i + 1]
      /\ observing \in Block
  BY <1>1, <1>2
<1> HIDE DEF n
<1>4. microtasks' = reactions[observing]
  BY <1>1, <1>2, <1>3, Moved
<1>5. /\ reactions'[observing] = <<>>
      /\ \A p \in Promise : p # observing => reactions'[p] = reactions[p]
  BY <1>1, <1>2, <1>3 DEF TypeOK
<1>6. \A i \in 1..(n - 1) : observing < observeChain'[i] /\ observeChain'[i] # observing
  <2>1. \A i \in 2..n : observeChain[1] < observeChain[i]
    BY <1>3 DEF QueueInv, ChainInv
  <2>2. \A i \in 1..(n - 1) : observing < observeChain'[i]
    BY <1>2, <1>3, <2>1
  <2> QED BY <1>1, <1>3, <2>2
<1>7. \A i \in 1..(n - 1) : reactions'[observeChain'[i]] = reactions[observeChain[i + 1]]
  BY <1>1, <1>3, <1>5, <1>6
<1>8. ChainInv'
  <2>1. \A i, j \in 1..(n - 1) : i < j => observeChain'[i] < observeChain'[j]
    <3>1. \A i, j \in 1..n : i < j => observeChain[i] < observeChain[j]
      BY <1>3 DEF QueueInv, ChainInv
    <3> QED BY <1>3, <3>1
  <2>2. \A i \in 1..(n - 1) : observeChain'[i] <= height'
    BY <1>2, <1>3 DEF QueueInv, ChainInv
  <2>3. ASSUME NEW p \in Block, reactions'[p] # <<>>
        PROVE  \E i \in 1..(n - 1) : observeChain'[i] = p
    <3>1. p # observing /\ reactions[p] # <<>>
      BY <1>1, <1>5, <2>3
    <3>2. PICK i \in 1..n : observeChain[i] = p
      BY <1>3, <3>1 DEF QueueInv, ChainInv, InChain
    <3>3. i # 1 /\ i - 1 \in 1..(n - 1) /\ (i - 1) + 1 = i
      BY <1>2, <1>3, <3>1, <3>2
    <3>4. observeChain'[i - 1] = observeChain[(i - 1) + 1]
      BY <1>3, <3>3
    <3> QED BY <3>2, <3>3, <3>4
  <2>4. ASSUME NEW m \in Jobs(microtasks'), m.kind = "observe"
        PROVE  observeChain' # <<>> /\ m.block = observeChain'[1]
    <3>1. 1 + 1 \in 1..n /\ m.block = observeChain[1 + 1]
      BY <1>2, <1>3, <1>4, <2>4 DEF QueueInv, ChainInv
    <3>2. 1 \in 1..(n - 1)
      BY <1>3, <3>1
    <3> QED BY <1>3, <3>1, <3>2
  <2>5. ASSUME NEW i \in 1..(n - 1), NEW m \in Jobs(reactions'[observeChain'[i]]),
               m.kind = "observe"
        PROVE  i + 1 \in 1..(n - 1) /\ m.block = observeChain'[i + 1]
    <3>1. (i + 1) + 1 \in 1..n /\ m.block = observeChain[(i + 1) + 1]
      BY <1>3, <1>7, <2>5 DEF QueueInv, ChainInv
    <3>2. i + 1 \in 1..(n - 1)
      BY <1>3, <3>1
    <3> QED BY <1>3, <3>1, <3>2
  <2>6. ~hasObserve' => observeChain' = <<>>
    BY <1>2 DEF QueueInv, ChainInv
  <2> QED BY <1>2, <1>3, <2>1, <2>2, <2>3, <2>4, <2>5, <2>6 DEF ChainInv, InChain
<1>9. HandlerInv'
  <2>1. ASSUME NEW m \in Jobs(microtasks'), m.kind = "handler"
        PROVE  m.block <= height' /\ \A i \in 1..(n - 1) : observeChain'[i] > m.block
    <3>1. m.block <= height /\ \A i \in 1..n : i > 1 => observeChain[i] > m.block
      BY <1>2, <1>3, <1>4, <2>1 DEF QueueInv, HandlerInv
    <3>2. \A i \in 1..(n - 1) : i + 1 > 1
      BY <1>3
    <3> QED BY <1>2, <1>3, <3>1, <3>2
  <2>2. ASSUME NEW i \in 1..(n - 1), NEW m \in Jobs(reactions'[observeChain'[i]]),
               m.kind = "handler"
        PROVE  m.block <= height'
               /\ \A j \in 1..(n - 1) : j > i => observeChain'[j] > m.block
    <3>1. m.block <= height /\ \A j \in 1..n : j > i + 1 => observeChain[j] > m.block
      BY <1>3, <1>7, <2>2 DEF QueueInv, HandlerInv
    <3>2. \A j \in 1..(n - 1) : j > i => j + 1 > i + 1
      BY <1>3
    <3> QED BY <1>2, <1>3, <3>1, <3>2
  <2> QED BY <1>3, <2>1, <2>2 DEF HandlerInv
<1>10. KindInv'
  <2>1. ASSUME NEW p \in Block PROVE reactions'[p] \in {reactions[p], <<>>}
    BY <1>1, <1>5
  <2>2. reactions'[RunPromise] = reactions[RunPromise]
    BY <1>1, <1>3, <1>5
  <2> QED BY <2>1, <2>2, OfNone DEF QueueInv, KindInv
<1> QED BY <1>8, <1>9, <1>10 DEF QueueInv

-----------------------------------------------------------------------------
(* What the other steps do to the queues.                                  *)

\* The end of a run.
LEMMA FinishEffect ==
  ASSUME TypeOK, FinishRun
  PROVE  /\ microtasks = <<>> /\ microtasks' = reactions[RunPromise]
         /\ reactions' \in [Promise -> Seq(Job)] /\ reactions'[RunPromise] = <<>>
         /\ \A p \in Promise : p # RunPromise => reactions'[p] = reactions[p]
<1>1. /\ microtasks = <<>> /\ microtasks' = microtasks \o reactions[RunPromise]
      /\ reactions' = [reactions EXCEPT ![RunPromise] = <<>>]
      /\ reactions \in [Promise -> Seq(Job)] /\ RunPromise \in Promise
  BY DEF FinishRun, Macrotask, TypeOK, Promise
<1>2. microtasks' = reactions[RunPromise]
  BY <1>1, Moved
<1> QED BY <1>1, <1>2

\* A run begins, or the handler ends.
LEMMA HandlerEffect ==
  ASSUME TypeOK, ResumeHandler
  PROVE  LET b == Head(microtasks).block IN
         /\ b \in Block \cup {0} /\ JobOf("tickDone", b) \in Job
         /\ reactions' \in [Promise -> Seq(Job)]
         /\ \A p \in Promise : p # RunPromise => reactions'[p] = reactions[p]
         /\ \/ /\ ShouldTick(b) /\ BeginRun(b)
               /\ reactions'[RunPromise] = Append(reactions[RunPromise], JobOf("tickDone", b))
            \/ UNCHANGED runVars /\ UNCHANGED reactions /\ (~ShouldTick(b) \/ inflightRun)
<1> DEFINE b == Head(microtasks).block
<1>1. Head(microtasks) \in Job
  BY OfTail DEF TypeOK, ResumeHandler, Resumes
<1>2. b \in Block \cup {0}
  BY <1>1 DEF Job
<1> HIDE DEF b
<1>3. /\ JobOf("tickDone", b) \in Job /\ RunPromise \in Promise
      /\ reactions \in [Promise -> Seq(Job)]
  BY <1>2, IsJob DEF TypeOK, Promise
<1>4. \/ ShouldTick(b) /\ BeginRun(b)
      \/ (~ShouldTick(b) \/ inflightRun) /\ UNCHANGED runVars /\ UNCHANGED reactions
  BY DEF ResumeHandler, b
<1>5. CASE ShouldTick(b) /\ BeginRun(b)
  <2>1. reactions' = [reactions EXCEPT ![RunPromise] = Append(@, JobOf("tickDone", b))]
    BY <1>5 DEF BeginRun
  <2>2. Append(reactions[RunPromise], JobOf("tickDone", b)) \in Seq(Job)
    BY <1>3, OfAppended
  <2>3. /\ reactions' \in [Promise -> Seq(Job)]
        /\ \A p \in Promise : p # RunPromise => reactions'[p] = reactions[p]
        /\ reactions'[RunPromise] = Append(reactions[RunPromise], JobOf("tickDone", b))
    BY <1>3, <2>1, <2>2
  <2> QED BY <1>2, <1>3, <1>5, <2>3 DEF b
<1>6. CASE (~ShouldTick(b) \/ inflightRun) /\ UNCHANGED runVars /\ UNCHANGED reactions
  BY <1>2, <1>3, <1>6 DEF b
<1> QED BY <1>4, <1>5, <1>6

\* stop() ends, awaits the run, or awaits one more microtask.
LEMMA StopChainEffect ==
  ASSUME TypeOK, ResumeStopAfterChain
  PROVE  /\ JobOf("stopRun", 0) \in Job /\ reactions' \in [Promise -> Seq(Job)]
         /\ \A p \in Promise : p # RunPromise => reactions'[p] = reactions[p]
         /\ \/ /\ ~inflightRun /\ stopCall' = "resolved"
               /\ microtasks' = Tail(microtasks) /\ UNCHANGED reactions
            \/ /\ inflightRun /\ running > 0 /\ stopCall' = "awaitRun"
               /\ microtasks' = Tail(microtasks)
               /\ reactions'[RunPromise] = Append(reactions[RunPromise], JobOf("stopRun", 0))
            \/ /\ inflightRun /\ running = 0 /\ stopCall' = "awaitRun"
               /\ microtasks' = Append(Tail(microtasks), JobOf("stopRun", 0))
               /\ UNCHANGED reactions
<1>1. /\ JobOf("stopRun", 0) \in Job /\ RunPromise \in Promise
      /\ reactions \in [Promise -> Seq(Job)]
  BY IsJob DEF TypeOK, Promise
<1>2. CASE /\ inflightRun /\ running > 0 /\ stopCall' = "awaitRun"
           /\ microtasks' = Tail(microtasks)
           /\ reactions' = [reactions EXCEPT ![RunPromise] = Append(@, JobOf("stopRun", 0))]
  <2>1. Append(reactions[RunPromise], JobOf("stopRun", 0)) \in Seq(Job)
    BY <1>1, OfAppended
  <2>2. /\ reactions' \in [Promise -> Seq(Job)]
        /\ \A p \in Promise : p # RunPromise => reactions'[p] = reactions[p]
        /\ reactions'[RunPromise] = Append(reactions[RunPromise], JobOf("stopRun", 0))
    BY <1>1, <1>2, <2>1
  <2> QED BY <1>1, <1>2, <2>2
<1>3. CASE /\ ~inflightRun /\ stopCall' = "resolved"
           /\ microtasks' = Tail(microtasks) /\ UNCHANGED reactions
  BY <1>1, <1>3
<1>4. CASE /\ inflightRun /\ running = 0 /\ stopCall' = "awaitRun"
           /\ microtasks' = Append(Tail(microtasks), JobOf("stopRun", 0))
           /\ UNCHANGED reactions
  BY <1>1, <1>4
<1> QED BY <1>2, <1>3, <1>4 DEF ResumeStopAfterChain

LEMMA TypeStep == TypeOK /\ QueueInv /\ [Next]_vars => TypeOK'
<1> SUFFICES ASSUME TypeOK, QueueInv, [Next]_vars PROVE TypeOK'
  OBVIOUS
<1>1. /\ height \in Nat /\ height + HeartbeatWindow \in Nat
      /\ consecutiveStaleTimeouts + 1 \in Nat /\ running + 1 \in Nat
      /\ running > 0 => running - 1 \in Nat
  BY RunnerAssumption, Typing DEF RunnerAssumption, HeartbeatWindow, TypeOK
<1>2. microtasks # <<>> =>
        Tail(microtasks) \in Seq(Job) /\ Head(microtasks).block \in Block \cup {0}
  <2>1. microtasks # <<>> => Tail(microtasks) \in Seq(Job) /\ Head(microtasks) \in Job
    BY OfTail DEF TypeOK
  <2> QED BY <2>1 DEF Job
<1>3. CASE Start
  BY <1>1, <1>3 DEF Start, TypeOK, runVars, loopVars
<1>4. CASE FinalizeBlock
  <2>1. PICK b \in Block :
           /\ height' = b /\ reactions' \in [Promise -> Seq(Job)]
           /\ JobOf("handler", b) \in Job /\ JobOf("observe", b) \in Job
           /\ \/ Observed(b)
              \/ Registered(JobOf("handler", b))
              \/ UNCHANGED <<observeChain, reactions, microtasks>>
    BY <1>4, BlockEffect DEF QueueInv
  <2>2. observeChain' \in Seq(Block)
    <3>1. observeChain \in Seq(Block)
      BY DEF TypeOK
    <3>2. Append(observeChain, b) \in Seq(Block)
      BY <3>1
    <3>3. observeChain' \in {observeChain, Append(observeChain, b)}
      BY <2>1 DEF Observed, Registered
    <3> QED BY <3>1, <3>2, <3>3
  <2>3. microtasks' \in Seq(Job)
    <3>1. \A m \in Job : <<m>> \in Seq(Job)
      OBVIOUS
    <3>2. <<>> \in Seq(Job) /\ microtasks \in Seq(Job)
      BY DEF TypeOK
    <3>3. microtasks' \in {<<>>, microtasks, <<JobOf("handler", b)>>, <<JobOf("observe", b)>>}
      BY <2>1 DEF Observed, Registered
    <3> QED BY <2>1, <3>1, <3>2, <3>3
  <2>4. UNCHANGED <<hasObserve, started, subscribed, stopped, observing, stopCall>>
        /\ UNCHANGED runVars /\ UNCHANGED staleVars
    BY <1>4 DEF FinalizeBlock
  <2> QED BY <2>1, <2>2, <2>3, <2>4 DEF TypeOK, runVars, staleVars
<1>5. CASE SubscriptionError
  BY <1>5 DEF SubscriptionError, TypeOK, runVars, staleVars, loopVars
<1>6. CASE ObserveSettles
  <2>1. observeChain # <<>> /\ observing \in Promise
    BY <1>6, Typing DEF ObserveSettles, QueueInv, ChainInv, TypeOK
  <2>2. observeChain' \in Seq(Block)
    BY <1>6, <2>1 DEF ObserveSettles, TypeOK
  <2>3. microtasks' \in Seq(Job)
    <3>1. reactions[observing] \in Seq(Job)
      BY <2>1 DEF TypeOK
    <3>2. microtasks' = reactions[observing]
      BY <1>6, <3>1, Moved DEF ObserveSettles, Macrotask
    <3> QED BY <3>1, <3>2
  <2>4. reactions' \in [Promise -> Seq(Job)]
    <3>1. reactions \in [Promise -> Seq(Job)] /\ <<>> \in Seq(Job)
      BY DEF TypeOK
    <3>2. reactions' = [reactions EXCEPT ![observing] = <<>>]
      BY <1>6 DEF ObserveSettles
    <3> QED BY <3>1, <3>2
  <2> QED BY <1>6, <2>2, <2>3, <2>4 DEF ObserveSettles, TypeOK, runVars, staleVars
<1>7. CASE TickReturns \/ TickThrows
  <2>1. FinishRun /\ consecutiveStaleTimeouts' \in {0, consecutiveStaleTimeouts}
    BY <1>7 DEF TickReturns, TickThrows
  <2>2. microtasks' \in Seq(Job) /\ reactions' \in [Promise -> Seq(Job)]
    BY <2>1, FinishEffect, Typing
  <2>3. /\ running' = running - 1 /\ running > 0 /\ staleTimer' = "off"
        /\ heartbeat' = height + HeartbeatWindow
        /\ UNCHANGED <<hasObserve, height, started, subscribed, stopped, observeChain, observing,
                       inflightRun, runStart, lastRun, stopCall>>
    BY <2>1 DEF FinishRun
  <2> QED BY <1>1, <2>1, <2>2, <2>3 DEF TypeOK
<1>8. CASE StaleTimeout
  BY <1>1, <1>8 DEF StaleTimeout, TypeOK, loopVars
<1>9. CASE Stop
  <2>1. /\ Registered(JobOf("stopChain", 0)) /\ reactions' \in [Promise -> Seq(Job)]
        /\ JobOf("stopChain", 0) \in Job
    BY <1>9, StopEffect
  <2>2. microtasks' \in Seq(Job)
    <3>1. <<>> \in Seq(Job) /\ \A m \in Job : <<m>> \in Seq(Job)
      OBVIOUS
    <3>2. microtasks' \in {<<>>, <<JobOf("stopChain", 0)>>}
      BY <2>1 DEF Registered
    <3> QED BY <2>1, <3>1, <3>2
  <2> QED BY <1>9, <2>1, <2>2 DEF Stop, TypeOK, runVars, staleVars
<1>10. CASE RunObserve
  BY <1>2, <1>10 DEF RunObserve, Resumes, TypeOK, runVars, staleVars
<1>11. CASE ResumeHandler
  <2> DEFINE b == Head(microtasks).block
  <2>1. /\ b \in Block \cup {0} /\ reactions' \in [Promise -> Seq(Job)]
        /\ BeginRun(b) \/ UNCHANGED runVars
    BY <1>11, HandlerEffect
  <2> HIDE DEF b
  <2>2. /\ inflightRun' \in BOOLEAN /\ running' \in Nat /\ runStart' \in Block \cup {0}
        /\ lastRun' \in Block \cup {0} /\ staleTimer' \in {"off", "armed", "fired"}
    <3>1. CASE BeginRun(b)
      BY <1>1, <2>1, <3>1 DEF BeginRun, TypeOK
    <3>2. CASE UNCHANGED runVars
      BY <3>2 DEF runVars, TypeOK
    <3> QED BY <2>1, <3>1, <3>2
  <2>3. microtasks' \in Seq(Job)
    BY <1>2, <1>11 DEF ResumeHandler, Resumes
  <2>4. UNCHANGED <<hasObserve, height, started, subscribed, stopped, observeChain, observing,
                    stopCall>>
        /\ UNCHANGED staleVars
    BY <1>11 DEF ResumeHandler
  <2> QED BY <2>1, <2>2, <2>3, <2>4 DEF TypeOK, staleVars
<1>12. CASE ResumeTick
  BY <1>2, <1>12 DEF ResumeTick, Resumes, TypeOK, staleVars
<1>13. CASE ResumeStopAfterChain
  <2>1. microtasks' \in Seq(Job)
    <3>1. microtasks # <<>> /\ Tail(microtasks) \in Seq(Job)
      BY <1>2, <1>13 DEF ResumeStopAfterChain, Resumes
    <3>2. JobOf("stopRun", 0) \in Job
      BY <1>13, StopChainEffect
    <3>3. Append(Tail(microtasks), JobOf("stopRun", 0)) \in Seq(Job)
      BY <3>1, <3>2, OfAppended
    <3>4. microtasks' \in {Tail(microtasks), Append(Tail(microtasks), JobOf("stopRun", 0))}
      BY <1>13, StopChainEffect
    <3> QED BY <3>1, <3>3, <3>4
  <2>2. reactions' \in [Promise -> Seq(Job)]
    BY <1>13, StopChainEffect
  <2>3. stopCall' \in {"resolved", "awaitRun"}
    BY <1>13, StopChainEffect
  <2>4. UNCHANGED <<hasObserve, height, started, subscribed, stopped, observeChain, observing>>
        /\ UNCHANGED runVars /\ UNCHANGED staleVars
    BY <1>13 DEF ResumeStopAfterChain
  <2> QED BY <2>1, <2>2, <2>3, <2>4 DEF TypeOK, runVars, staleVars
<1>14. CASE ResumeStopAfterRun
  BY <1>2, <1>14 DEF ResumeStopAfterRun, Resumes, TypeOK, runVars, staleVars
<1>15. CASE UNCHANGED vars
  BY <1>15 DEF vars, TypeOK
<1> QED
  BY <1>3, <1>4, <1>5, <1>6, <1>7, <1>8, <1>9, <1>10, <1>11, <1>12, <1>13, <1>14, <1>15
  DEF Next, Microtask

\* A microtask leaves the rest of the queue.
LEMMA Popped ==
  ASSUME TypeOK, microtasks # <<>>
  PROVE  /\ Head(microtasks) \in Jobs(microtasks) /\ Tail(microtasks) \in Seq(Job)
         /\ Jobs(microtasks) = {Head(microtasks)} \cup Jobs(Tail(microtasks))
BY OfTail DEF TypeOK

LEMMA QueueStep == TypeOK /\ TypeOK' /\ QueueInv /\ [Next]_vars => QueueInv'
<1> SUFFICES ASSUME TypeOK, TypeOK', QueueInv, [Next]_vars PROVE QueueInv'
  OBVIOUS
<1>1. /\ height \in Nat /\ RunPromise \in Promise
      /\ \A p \in Block : p \in Promise /\ p # RunPromise
  BY Typing
<1>2. observing # 0 => observeChain # <<>> /\ observing = observeChain[1]
  BY DEF QueueInv, ChainInv
<1>3. \A m \in Jobs(reactions[RunPromise]) : m.kind \in {"tickDone", "stopRun"}
  BY DEF QueueInv, KindInv
<1>4. CASE Start \/ SubscriptionError \/ StaleTimeout \/ UNCHANGED vars
  <2>1. UNCHANGED <<hasObserve, height, observeChain, observing, reactions, microtasks>>
    BY <1>4 DEF Start, SubscriptionError, StaleTimeout, vars, loopVars
  <2> QED BY <1>1, <1>2, <1>3, <2>1, SameChain
<1>5. CASE FinalizeBlock
  <2>1. PICK b \in Block :
           /\ height' = b /\ b = height + 1 /\ microtasks = <<>> /\ reactions[b] = <<>>
           /\ JobOf("handler", b) \in Job /\ JobOf("observe", b) \in Job
           /\ observeChain # <<>> => ObserveTail # b
           /\ \/ Observed(b)
              \/ Registered(JobOf("handler", b))
              \/ UNCHANGED <<observeChain, reactions, microtasks>>
    BY <1>5, BlockEffect DEF QueueInv
  <2>2. UNCHANGED <<hasObserve, observing>>
    BY <1>5 DEF FinalizeBlock
  <2>3. height' >= height
    BY <1>1, <2>1
  <2>4. CASE Observed(b)
    BY <2>1, <2>2, <2>4, Enqueued
  <2>5. CASE Registered(JobOf("handler", b))
    <3>1. JobOf("handler", b).kind = "handler" /\ JobOf("handler", b).block = height'
      BY <2>1, IsJob
    <3> QED BY <2>1, <2>2, <2>3, <2>5, <3>1, Behind
  <2>6. CASE UNCHANGED <<observeChain, reactions, microtasks>>
    BY <1>2, <1>3, <2>2, <2>3, <2>6, SameChain
  <2> QED BY <2>1, <2>4, <2>5, <2>6
<1>6. CASE ObserveSettles
  BY <1>6, Settled
<1>7. CASE TickReturns \/ TickThrows
  <2>1. FinishRun
    BY <1>7 DEF TickReturns, TickThrows
  <2>2. UNCHANGED <<hasObserve, height, observeChain, observing>>
    BY <2>1 DEF FinishRun
  <2>3. /\ \A p \in Block : reactions'[p] = reactions[p]
        /\ \A m \in Jobs(microtasks') : m.kind \in {"tickDone", "stopRun"}
        /\ \A m \in Jobs(reactions'[RunPromise]) : m.kind \in {"tickDone", "stopRun"}
    BY <1>1, <1>3, <2>1, FinishEffect, OfNone
  <2> QED BY <1>1, <1>2, <2>2, <2>3, SameChain
<1>8. CASE Stop
  <2>1. /\ Registered(JobOf("stopChain", 0)) /\ microtasks = <<>>
        /\ JobOf("stopChain", 0) \in Job
    BY <1>8, StopEffect
  <2>2. JobOf("stopChain", 0).kind = "stopChain"
    BY IsJob
  <2>3. UNCHANGED <<hasObserve, height, observing>>
    BY <1>8 DEF Stop
  <2> QED BY <1>1, <2>1, <2>2, <2>3, Behind
<1>9. CASE Microtask
  <2>1. microtasks # <<>>
    BY <1>9 DEF Microtask, RunObserve, ResumeHandler, ResumeTick, ResumeStopAfterChain,
                ResumeStopAfterRun, Resumes
  <2>2. /\ Head(microtasks) \in Jobs(microtasks) /\ Tail(microtasks) \in Seq(Job)
        /\ \A m \in Jobs(Tail(microtasks)) : m \in Jobs(microtasks)
    BY <2>1, Popped
  <2>3. CASE RunObserve
    <3>1. /\ Head(microtasks).kind = "observe" /\ observing' = Head(microtasks).block
          /\ microtasks' = Tail(microtasks)
          /\ UNCHANGED <<hasObserve, height, observeChain, reactions>>
      BY <2>3 DEF RunObserve, Resumes
    <3>2. observeChain # <<>> /\ observing' = observeChain[1]
      BY <2>2, <3>1 DEF QueueInv, ChainInv
    <3> QED BY <1>1, <1>3, <2>2, <3>1, <3>2, SameChain
  <2>4. CASE ResumeHandler
    <3>1. /\ microtasks' = Tail(microtasks)
          /\ UNCHANGED <<hasObserve, height, observeChain, observing>>
      BY <2>4 DEF ResumeHandler
    <3>2. PICK b \in Block \cup {0} :
             /\ JobOf("tickDone", b) \in Job
             /\ \A p \in Promise : p # RunPromise => reactions'[p] = reactions[p]
             /\ \/ reactions'[RunPromise] = Append(reactions[RunPromise], JobOf("tickDone", b))
                \/ UNCHANGED reactions
      BY <2>4, HandlerEffect
    <3>3. JobOf("tickDone", b).kind = "tickDone"
      BY IsJob
    <3>4. \A m \in Jobs(reactions'[RunPromise]) : m.kind \in {"tickDone", "stopRun"}
      <4>1. CASE reactions'[RunPromise] = Append(reactions[RunPromise], JobOf("tickDone", b))
        <5>1. Jobs(reactions'[RunPromise])
                = Jobs(reactions[RunPromise]) \cup {JobOf("tickDone", b)}
          BY <3>2, <4>1, Typing, OfAppended
        <5> QED BY <1>3, <3>3, <5>1
      <4>2. CASE UNCHANGED reactions
        BY <1>3, <4>2
      <4> QED BY <3>2, <4>1, <4>2
    <3> QED BY <1>1, <1>2, <2>2, <3>1, <3>2, <3>4, SameChain
  <2>5. CASE ResumeTick \/ ResumeStopAfterRun
    <3>1. /\ microtasks' = Tail(microtasks)
          /\ UNCHANGED <<hasObserve, height, observeChain, observing, reactions>>
      BY <2>5 DEF ResumeTick, ResumeStopAfterRun
    <3> QED BY <1>1, <1>2, <1>3, <2>2, <3>1, SameChain
  <2>6. CASE ResumeStopAfterChain
    <3> DEFINE stopRun == JobOf("stopRun", 0)
    <3>1. UNCHANGED <<hasObserve, height, observeChain, observing>>
      BY <2>6 DEF ResumeStopAfterChain
    <3>2. /\ stopRun \in Job
          /\ \A p \in Promise : p # RunPromise => reactions'[p] = reactions[p]
          /\ microtasks' = Tail(microtasks) \/ microtasks' = Append(Tail(microtasks), stopRun)
          /\ \/ reactions'[RunPromise] = reactions[RunPromise]
             \/ reactions'[RunPromise] = Append(reactions[RunPromise], stopRun)
      BY <2>6, StopChainEffect
    <3>3. stopRun.kind = "stopRun"
      BY IsJob
    <3> HIDE DEF stopRun
    <3>4. \A m \in Jobs(microtasks') : m \in Jobs(microtasks) \/ m = stopRun
      <4>1. Jobs(Append(Tail(microtasks), stopRun)) = Jobs(Tail(microtasks)) \cup {stopRun}
        BY <2>2, <3>2, OfAppended
      <4> QED BY <2>2, <3>2, <4>1
    <3>5. \A m \in Jobs(reactions'[RunPromise]) : m.kind \in {"tickDone", "stopRun"}
      <4>1. Jobs(Append(reactions[RunPromise], stopRun))
              = Jobs(reactions[RunPromise]) \cup {stopRun}
        BY <3>2, Typing, OfAppended
      <4> QED BY <1>3, <3>2, <3>3, <4>1
    <3> QED BY <1>1, <1>2, <3>1, <3>2, <3>3, <3>4, <3>5, SameChain
  <2> QED BY <1>9, <2>3, <2>4, <2>5, <2>6 DEF Microtask
<1> QED BY <1>4, <1>5, <1>6, <1>7, <1>8, <1>9 DEF Next

LEMMA RunStep == TypeOK /\ TypeOK' /\ QueueInv /\ RunInv /\ [Next]_vars => RunInv'
<1> SUFFICES ASSUME TypeOK, TypeOK', QueueInv, RunInv, [Next]_vars PROVE RunInv'
  OBVIOUS
<1>1. RunPromise \in Promise /\ reactions[RunPromise] \in Seq(Job)
      /\ \A p \in Block : p \in Promise /\ p # RunPromise
  BY Typing
<1>2. ASSUME microtasks = <<>>, \A m \in Jobs(microtasks') : m.kind # "tickDone",
             reactions'[RunPromise] = reactions[RunPromise], UNCHANGED <<inflightRun, running>>
      PROVE  RunInv'
  <2>1. ~Has(microtasks, "tickDone") /\ ~Has(microtasks', "tickDone")
    BY <1>2, OfNone DEF Has
  <2>2. TickOnce(microtasks')
    BY <1>2 DEF TickOnce, Jobs
  <2> QED BY <1>2, <2>1, <2>2 DEF RunInv
<1>3. CASE Start \/ SubscriptionError \/ StaleTimeout \/ UNCHANGED vars
  <2>1. UNCHANGED <<inflightRun, running, reactions, microtasks>>
    BY <1>3 DEF Start, SubscriptionError, StaleTimeout, vars, loopVars, runVars
  <2> QED BY <2>1 DEF RunInv
<1>4. CASE FinalizeBlock
  <2>1. PICK b \in Block :
           /\ microtasks = <<>> /\ JobOf("handler", b) \in Job /\ JobOf("observe", b) \in Job
           /\ \/ Observed(b)
              \/ Registered(JobOf("handler", b))
              \/ UNCHANGED <<observeChain, reactions, microtasks>>
    BY <1>4, BlockEffect DEF QueueInv
  <2>2. /\ microtasks' \in {<<>>, <<JobOf("handler", b)>>, <<JobOf("observe", b)>>}
        /\ reactions'[RunPromise] = reactions[RunPromise]
    BY <1>1, <2>1, ChainTail DEF Observed, Registered
  <2>3. \A m \in Jobs(microtasks') : m.kind # "tickDone"
    <3>1. JobOf("handler", b).kind = "handler" /\ JobOf("observe", b).kind = "observe"
      BY IsJob
    <3>2. \A m \in Job : Jobs(<<m>>) = {m}
      BY OfOne
    <3> QED BY <2>1, <2>2, <3>1, <3>2, OfNone
  <2>4. UNCHANGED <<inflightRun, running>>
    BY <1>4 DEF FinalizeBlock, runVars
  <2> QED BY <1>2, <2>1, <2>2, <2>3, <2>4
<1>5. CASE ObserveSettles
  <2>1. /\ microtasks = <<>> /\ microtasks' = reactions[observing] /\ observing \in Block
        /\ reactions'[RunPromise] = reactions[RunPromise]
    <3>1. observing \in Block
      BY <1>5 DEF ObserveSettles, TypeOK
    <3>2. microtasks = <<>> /\ microtasks' = microtasks \o reactions[observing]
          /\ reactions' = [reactions EXCEPT ![observing] = <<>>]
      BY <1>5 DEF ObserveSettles, Macrotask
    <3>3. microtasks' = reactions[observing]
      BY <3>1, <3>2, Typing, Moved
    <3>4. reactions'[RunPromise] = reactions[RunPromise]
      BY <1>1, <3>1, <3>2 DEF TypeOK
    <3> QED BY <3>1, <3>2, <3>3, <3>4
  <2>2. \A m \in Jobs(microtasks') : m.kind # "tickDone"
    BY <2>1 DEF QueueInv, KindInv
  <2>3. UNCHANGED <<inflightRun, running>>
    BY <1>5 DEF ObserveSettles, runVars
  <2> QED BY <1>2, <2>1, <2>2, <2>3
<1>6. CASE TickReturns \/ TickThrows
  <2>1. FinishRun
    BY <1>6 DEF TickReturns, TickThrows
  <2>2. /\ running > 0 /\ running' = running - 1 /\ inflightRun' = inflightRun
        /\ microtasks' = reactions[RunPromise] /\ reactions'[RunPromise] = <<>>
    BY <2>1, FinishEffect DEF FinishRun
  <2>3. running = 1 /\ running' = 0
    BY <2>2 DEF RunInv
  <2>4. Has(microtasks', "tickDone") /\ TickOnce(microtasks')
        /\ (inflightRun \in BOOLEAN) /\ inflightRun
    BY <2>2, <2>3 DEF RunInv, TypeOK
  <2> QED BY <2>2, <2>3, <2>4, OfNone DEF RunInv
<1>7. CASE Stop
  <2>1. /\ Registered(JobOf("stopChain", 0)) /\ microtasks = <<>>
        /\ JobOf("stopChain", 0) \in Job
    BY <1>7, StopEffect
  <2>2. /\ microtasks' \in {<<>>, <<JobOf("stopChain", 0)>>}
        /\ reactions'[RunPromise] = reactions[RunPromise]
    BY <1>1, <2>1, ChainTail DEF Registered
  <2>3. \A m \in Jobs(microtasks') : m.kind # "tickDone"
    <3>1. JobOf("stopChain", 0).kind = "stopChain"
      BY IsJob
    <3>2. \A m \in Job : Jobs(<<m>>) = {m}
      BY OfOne
    <3> QED BY <2>1, <2>2, <3>1, <3>2, OfNone
  <2>4. UNCHANGED <<inflightRun, running>>
    BY <1>7 DEF Stop, runVars
  <2> QED BY <1>2, <2>1, <2>2, <2>3, <2>4
<1>8. CASE Microtask
  <2>1. microtasks # <<>>
    BY <1>8 DEF Microtask, RunObserve, ResumeHandler, ResumeTick, ResumeStopAfterChain,
                ResumeStopAfterRun, Resumes
  <2>2. /\ Tail(microtasks) \in Seq(Job)
        /\ Jobs(microtasks) = {Head(microtasks)} \cup Jobs(Tail(microtasks))
        /\ TickOnce(Tail(microtasks))
        /\ Head(microtasks).kind = "tickDone" => ~Has(Tail(microtasks), "tickDone")
    BY <2>1, OfTail DEF TypeOK, RunInv
  <2>3. Head(microtasks).kind # "tickDone" =>
          (Has(Tail(microtasks), "tickDone") <=> Has(microtasks, "tickDone"))
    BY <2>2 DEF Has
  <2>4. CASE RunObserve \/ ResumeStopAfterRun
    <3>1. /\ Head(microtasks).kind # "tickDone" /\ microtasks' = Tail(microtasks)
          /\ UNCHANGED <<inflightRun, running, reactions>>
      BY <2>4 DEF RunObserve, ResumeStopAfterRun, Resumes, runVars
    <3> QED BY <2>2, <2>3, <3>1 DEF RunInv
  <2>5. CASE ResumeHandler
    <3>1. Head(microtasks).kind # "tickDone" /\ microtasks' = Tail(microtasks)
      BY <2>5 DEF ResumeHandler, Resumes
    <3>2. PICK b \in Block \cup {0} :
             /\ JobOf("tickDone", b) \in Job
             /\ \/ /\ BeginRun(b)
                   /\ reactions'[RunPromise] = Append(reactions[RunPromise], JobOf("tickDone", b))
                \/ UNCHANGED runVars /\ UNCHANGED reactions
      BY <2>5, HandlerEffect
    <3>3. CASE /\ BeginRun(b)
               /\ reactions'[RunPromise] = Append(reactions[RunPromise], JobOf("tickDone", b))
      <4>1. ~inflightRun /\ running = 0 /\ ~Has(microtasks, "tickDone")
            /\ reactions[RunPromise] = <<>>
        BY <3>3 DEF BeginRun, RunInv
      <4>2. inflightRun' = TRUE /\ running' = 1
        BY <3>3, <4>1 DEF BeginRun
      <4>3. JobOf("tickDone", b).kind = "tickDone"
        BY IsJob
      <4>4. Has(reactions'[RunPromise], "tickDone") /\ TickOnce(reactions'[RunPromise])
        <5>1. reactions'[RunPromise] = <<JobOf("tickDone", b)>>
          BY <3>2, <3>3, <4>1, OfOne
        <5>2. Jobs(reactions'[RunPromise]) = {JobOf("tickDone", b)}
          BY <3>2, <5>1, OfOne
        <5>3. TickOnce(<<JobOf("tickDone", b)>>)
          BY DEF TickOnce
        <5> QED BY <4>3, <5>1, <5>2, <5>3 DEF Has
      <4> QED BY <2>2, <2>3, <3>1, <4>1, <4>2, <4>4 DEF RunInv
    <3>4. CASE UNCHANGED runVars /\ UNCHANGED reactions
      BY <2>2, <2>3, <3>1, <3>4 DEF RunInv, runVars
    <3> QED BY <3>2, <3>3, <3>4
  <2>6. CASE ResumeTick
    <3>1. /\ Head(microtasks).kind = "tickDone" /\ microtasks' = Tail(microtasks)
          /\ inflightRun' = FALSE /\ UNCHANGED <<running, reactions>>
      BY <2>6 DEF ResumeTick, Resumes
    <3>2. Has(microtasks, "tickDone")
      BY <2>2, <3>1 DEF Has
    <3> QED BY <2>2, <3>1, <3>2 DEF RunInv
  <2>7. CASE ResumeStopAfterChain
    <3> DEFINE stopRun == JobOf("stopRun", 0)
    <3>1. Head(microtasks).kind # "tickDone" /\ UNCHANGED <<inflightRun, running>>
      BY <2>7 DEF ResumeStopAfterChain, Resumes, runVars
    <3>2. /\ stopRun \in Job
          /\ microtasks' = Tail(microtasks) \/ microtasks' = Append(Tail(microtasks), stopRun)
          /\ \/ reactions'[RunPromise] = reactions[RunPromise]
             \/ running > 0 /\ reactions'[RunPromise] = Append(reactions[RunPromise], stopRun)
      BY <2>7, StopChainEffect
    <3>3. stopRun.kind = "stopRun"
      BY IsJob
    <3> HIDE DEF stopRun
    <3>4. TickOnce(microtasks') /\ (Has(microtasks', "tickDone") <=> Has(microtasks, "tickDone"))
      <4>1. /\ Jobs(Append(Tail(microtasks), stopRun)) = Jobs(Tail(microtasks)) \cup {stopRun}
            /\ TickOnce(Append(Tail(microtasks), stopRun))
        BY <2>2, <3>2, <3>3, OfAppended
      <4> QED BY <2>2, <2>3, <3>1, <3>2, <3>3, <4>1 DEF Has
    <3>5. /\ TickOnce(reactions'[RunPromise])
          /\ Has(reactions'[RunPromise], "tickDone") <=> Has(reactions[RunPromise], "tickDone")
          /\ running = 0 => reactions'[RunPromise] = reactions[RunPromise]
      <4>1. /\ Jobs(Append(reactions[RunPromise], stopRun))
                 = Jobs(reactions[RunPromise]) \cup {stopRun}
            /\ TickOnce(Append(reactions[RunPromise], stopRun))
        BY <1>1, <3>2, <3>3, OfAppended DEF RunInv
      <4>2. CASE reactions'[RunPromise] = reactions[RunPromise]
        BY <4>2 DEF RunInv
      <4>3. CASE running > 0 /\ reactions'[RunPromise] = Append(reactions[RunPromise], stopRun)
        <5>1. Has(reactions'[RunPromise], "tickDone") <=> Has(reactions[RunPromise], "tickDone")
          BY <3>3, <4>1, <4>3 DEF Has
        <5> QED BY <4>1, <4>3, <5>1 DEF RunInv
      <4> QED BY <3>2, <4>2, <4>3
    <3> QED BY <3>1, <3>4, <3>5 DEF RunInv
  <2> QED BY <1>8, <2>4, <2>5, <2>6, <2>7 DEF Microtask
<1> QED BY <1>3, <1>4, <1>5, <1>6, <1>7, <1>8 DEF Next

\* Steps that only take jobs out of the queue.
LEMMA SameStop ==
  ASSUME StopInv, UNCHANGED <<started, subscribed, stopped, stopCall, observeChain>>,
         running' = running \/ running' = 0,
         \A p \in Block : reactions'[p] = reactions[p],
         ~started => \A p \in Promise : reactions'[p] = <<>>,
         ~started => microtasks' = <<>> /\ staleTimer' = "off",
         Has(reactions'[RunPromise], "stopRun") => Has(reactions[RunPromise], "stopRun"),
         StopLast(microtasks'), \A m \in Jobs(microtasks') : m \in Jobs(microtasks),
         \A i \in DOMAIN observeChain : observeChain[i] \in Block
  PROVE  StopInv'
<1>1. \A kind : Has(microtasks', kind) => Has(microtasks, kind)
  BY DEF Has
<1> QED BY <1>1 DEF StopInv

LEMMA StopStep ==
  TypeOK /\ TypeOK' /\ QueueInv /\ RunInv /\ StopInv /\ [Next]_vars => StopInv'
<1> SUFFICES ASSUME TypeOK, TypeOK', QueueInv, RunInv, StopInv, [Next]_vars PROVE StopInv'
  OBVIOUS
<1>1. /\ RunPromise \in Promise /\ reactions[RunPromise] \in Seq(Job)
      /\ \A p \in Block : p \in Promise /\ p # RunPromise /\ reactions[p] \in Seq(Job)
      /\ \A i \in DOMAIN observeChain : observeChain[i] \in Block
  BY Typing
<1>2. started \in BOOLEAN /\ stopped \in BOOLEAN /\ subscribed \in BOOLEAN
  BY DEF TypeOK
<1>3. CASE Start
  <2>1. /\ started' /\ subscribed' /\ ~started
        /\ UNCHANGED <<stopped, stopCall, observeChain, running, reactions, microtasks>>
    BY <1>3 DEF Start, runVars, loopVars
  <2> QED BY <1>2, <2>1 DEF StopInv
<1>4. CASE SubscriptionError \/ StaleTimeout
  <2>1. UNCHANGED <<started, stopCall, observeChain, running, reactions, microtasks>>
    BY <1>4 DEF SubscriptionError, StaleTimeout, runVars, loopVars
  <2>2. started
    BY <1>4 DEF SubscriptionError, StaleTimeout, StaleTimerDue, StopInv
  <2>3. (stopped' /\ ~subscribed') \/ UNCHANGED <<stopped, subscribed>>
    BY <1>4 DEF SubscriptionError, StaleTimeout
  <2> QED BY <2>1, <2>2, <2>3 DEF StopInv
<1>5. CASE FinalizeBlock
  <2>1. PICK b \in Block :
           /\ microtasks = <<>> /\ reactions[b] = <<>>
           /\ JobOf("handler", b) \in Job /\ JobOf("observe", b) \in Job
           /\ observeChain # <<>> => ObserveTail # b
           /\ \/ subscribed /\ ~stopped /\ Observed(b)
              \/ subscribed /\ ~stopped /\ Registered(JobOf("handler", b))
              \/ UNCHANGED <<observeChain, reactions, microtasks>>
    BY <1>5, BlockEffect DEF QueueInv
  <2>2. UNCHANGED <<started, subscribed, stopped, stopCall, running, staleTimer>>
    BY <1>5 DEF FinalizeBlock, runVars
  <2>3. CASE UNCHANGED <<observeChain, reactions, microtasks>>
    BY <2>2, <2>3 DEF StopInv
  <2>4. CASE subscribed /\ ~stopped /\ (Observed(b) \/ Registered(JobOf("handler", b)))
    <3> DEFINE handler == JobOf("handler", b)
               observe == JobOf("observe", b)
    <3>1. /\ started /\ stopCall = "none"
          /\ \A p \in Block : ~Has(reactions[p], "stopChain") /\ StopLast(reactions[p])
          /\ ~Has(reactions[RunPromise], "stopRun")
      BY <2>4 DEF StopInv
    <3>2. handler.kind = "handler" /\ observe.kind = "observe"
      BY IsJob
    <3> HIDE DEF handler, observe
    <3>3. microtasks' \in {<<>>, <<handler>>, <<observe>>}
      BY <2>4 DEF Observed, Registered, handler, observe
    <3>4. /\ Jobs(microtasks') \subseteq {handler, observe}
          /\ StopLast(microtasks')
      <4>1. \A m \in Job : Jobs(<<m>>) = {m} /\ StopLast(<<m>>)
        BY OfOne DEF StopLast
      <4> QED BY <2>1, <3>3, <4>1, OfNone DEF handler, observe
    <3>5. ~Has(microtasks', "stopChain") /\ ~Has(microtasks', "stopRun")
      BY <3>2, <3>4 DEF Has
    <3>6. reactions'[RunPromise] = reactions[RunPromise]
      BY <1>1, <2>1, <2>4, ChainTail DEF Observed, Registered
    <3>7. ASSUME NEW p \in Block
          PROVE  ~Has(reactions'[p], "stopChain") /\ StopLast(reactions'[p])
      <4>1. \/ reactions'[p] = reactions[p]
            \/ reactions'[p] = <<handler>>
            \/ reactions'[p] = Append(reactions[p], handler)
            \/ reactions'[p] = Append(reactions[p], observe)
        BY <1>1, <2>4 DEF Observed, Registered, handler, observe
      <4>2. /\ Jobs(<<handler>>) = {handler} /\ StopLast(<<handler>>)
            /\ Jobs(Append(reactions[p], handler)) = Jobs(reactions[p]) \cup {handler}
            /\ StopLast(Append(reactions[p], handler))
            /\ Jobs(Append(reactions[p], observe)) = Jobs(reactions[p]) \cup {observe}
            /\ StopLast(Append(reactions[p], observe))
        <5>1. handler \in Job /\ observe \in Job /\ reactions[p] \in Seq(Job)
          BY <1>1, <2>1 DEF handler, observe
        <5>2. StopLast(<<handler>>)
          BY DEF StopLast
        <5> QED BY <3>1, <3>2, <5>1, <5>2, OfOne, OfAppended
      <4>3. CASE reactions'[p] = reactions[p]
        BY <3>1, <4>3
      <4>4. CASE reactions'[p] = <<handler>>
        BY <3>2, <4>2, <4>4 DEF Has
      <4>5. CASE reactions'[p] = Append(reactions[p], handler)
        BY <3>1, <3>2, <4>2, <4>5 DEF Has
      <4>6. CASE reactions'[p] = Append(reactions[p], observe)
        BY <3>1, <3>2, <4>2, <4>6 DEF Has
      <4> QED BY <4>1, <4>3, <4>4, <4>5, <4>6
    <3>8. \A i \in DOMAIN observeChain' : observeChain'[i] \in Block
      BY DEF TypeOK
    <3> QED BY <2>2, <3>1, <3>4, <3>5, <3>6, <3>7, <3>8 DEF StopInv
  <2> QED BY <2>1, <2>3, <2>4
<1>6. CASE ObserveSettles
  <2>1. /\ observing # 0 /\ observeChain # <<>> /\ observing = observeChain[1]
        /\ observeChain' = Tail(observeChain) /\ observing \in Block
        /\ microtasks' = reactions[observing]
        /\ reactions'[observing] = <<>>
        /\ \A p \in Promise : p # observing => reactions'[p] = reactions[p]
        /\ UNCHANGED <<started, subscribed, stopped, stopCall, running, staleTimer>>
    <3>1. observing # 0 /\ observing \in Block /\ observeChain # <<>>
          /\ observing = observeChain[1]
      BY <1>6 DEF ObserveSettles, TypeOK, QueueInv, ChainInv
    <3>2. microtasks = <<>> /\ microtasks' = microtasks \o reactions[observing]
          /\ observeChain' = Tail(observeChain)
          /\ reactions' = [reactions EXCEPT ![observing] = <<>>]
          /\ UNCHANGED <<started, subscribed, stopped, stopCall, running, staleTimer>>
      BY <1>6 DEF ObserveSettles, Macrotask, runVars
    <3>3. microtasks' = reactions[observing]
      BY <1>1, <3>1, <3>2, Moved
    <3>4. /\ reactions'[observing] = <<>>
          /\ \A p \in Promise : p # observing => reactions'[p] = reactions[p]
      BY <1>1, <3>1, <3>2 DEF TypeOK
    <3> QED BY <3>1, <3>2, <3>3, <3>4
  <2> DEFINE n == Len(observeChain)
  <2>2. /\ n \in Nat \ {0} /\ DOMAIN observeChain = 1..n /\ DOMAIN observeChain' = 1..(n - 1)
        /\ Len(observeChain') = n - 1 /\ (n = 1 => observeChain' = <<>>)
        /\ \A i \in 1..(n - 1) : i + 1 \in 1..n /\ observeChain'[i] = observeChain[i + 1]
    <3>1. observeChain \in Seq(Block)
      BY DEF TypeOK
    <3> QED BY <2>1, <3>1
  <2> HIDE DEF n
  <2>3. stopCall \notin {"awaitRun", "resolved"}
    BY <2>1 DEF StopInv
  <2>4. Has(microtasks', "stopChain") => observeChain' = <<>>
    <3>1. Has(reactions[observeChain[1]], "stopChain") => 1 = n
      BY <2>2 DEF StopInv, n
    <3> QED BY <2>1, <2>2, <3>1
  <2>5. \A p \in Block : reactions'[p] = reactions[p] \/ reactions'[p] = <<>>
    BY <1>1, <2>1
  <2>6. ~Has(<<>>, "stopChain")
    BY OfNone DEF Has
  <2>7. ~Has(microtasks', "stopRun")
    BY <2>1 DEF Has, QueueInv, KindInv
  <2>8. \A i \in 1..(n - 1) : Has(reactions'[observeChain'[i]], "stopChain") => i = n - 1
    <3> SUFFICES ASSUME NEW i \in 1..(n - 1), Has(reactions'[observeChain'[i]], "stopChain")
                 PROVE  i = n - 1
      OBVIOUS
    <3>1. observeChain'[i] = observeChain[i + 1] /\ i + 1 \in 1..n
          /\ observeChain[i + 1] \in Block
      BY <1>1, <2>2
    <3>2. Has(reactions[observeChain[i + 1]], "stopChain")
      BY <2>5, <2>6, <3>1
    <3>3. i + 1 = n
      <4>1. \A k \in DOMAIN observeChain :
              Has(reactions[observeChain[k]], "stopChain") => k = Len(observeChain)
        BY DEF StopInv
      <4>2. \A k \in 1..n : Has(reactions[observeChain[k]], "stopChain") => k = n
        BY <2>2, <4>1 DEF n
      <4> QED BY <3>1, <3>2, <4>2
    <3> QED BY <2>2, <3>3
  <2>9. reactions'[RunPromise] = reactions[RunPromise]
    BY <1>1, <2>1
  <2>10. StopLast(microtasks') /\ \A p \in Block : StopLast(reactions'[p])
    BY <2>1, <2>5, OfNone DEF StopInv
  <2>11. stopCall = "none" =>
           ~Has(microtasks', "stopChain") /\ \A p \in Block : ~Has(reactions'[p], "stopChain")
    BY <2>1, <2>5, <2>6 DEF StopInv
  <2>12. ~started => microtasks' = <<>> /\ \A p \in Promise : reactions'[p] = <<>>
    BY <1>1, <2>1 DEF StopInv
  <2> QED
    BY <2>1, <2>2, <2>3, <2>4, <2>7, <2>8, <2>9, <2>10, <2>11, <2>12 DEF StopInv
<1>7. CASE TickReturns \/ TickThrows
  <2>1. FinishRun
    BY <1>7 DEF TickReturns, TickThrows
  <2>2. /\ running > 0 /\ running' = running - 1 /\ staleTimer' = "off"
        /\ microtasks' = reactions[RunPromise] /\ reactions'[RunPromise] = <<>>
        /\ \A p \in Promise : p # RunPromise => reactions'[p] = reactions[p]
        /\ UNCHANGED <<started, subscribed, stopped, stopCall, observeChain>>
    BY <2>1, FinishEffect DEF FinishRun
  <2>3. running' = 0
    BY <2>2 DEF RunInv
  <2>4. \A m \in Jobs(microtasks') : m.kind \in {"tickDone", "stopRun"}
    BY <2>2 DEF QueueInv, KindInv
  <2>5. ~Has(microtasks', "stopChain") /\ ~Has(microtasks', "handler") /\ StopLast(microtasks')
    BY <2>4 DEF Has, StopLast, Jobs
  <2>6. ~Has(reactions'[RunPromise], "stopRun")
    BY <2>2, OfNone DEF Has
  <2>7. \A p \in Block : reactions'[p] = reactions[p]
    BY <1>1, <2>2
  <2>8. Has(microtasks', "stopRun") => stopCall' \in {"awaitRun", "resolved"}
    BY <2>2 DEF StopInv
  <2>9. ~started' => microtasks' = <<>> /\ \A p \in Promise : reactions'[p] = <<>>
    BY <1>1, <2>2 DEF StopInv
  <2> QED BY <1>1, <2>2, <2>3, <2>5, <2>6, <2>7, <2>8, <2>9 DEF StopInv
<1>8. CASE Stop
  <2> DEFINE stopChain == JobOf("stopChain", 0)
  <2>1. /\ Registered(stopChain) /\ microtasks = <<>> /\ stopChain \in Job
    BY <1>8, StopEffect
  <2>2. /\ started /\ stopCall = "none" /\ stopped' /\ ~subscribed' /\ stopCall' = "awaitChain"
        /\ UNCHANGED <<started, observeChain, running>>
    BY <1>8 DEF Stop, runVars
  <2>3. stopChain.kind = "stopChain"
    BY IsJob
  <2> HIDE DEF stopChain
  <2>4. /\ ~Has(reactions[RunPromise], "stopRun")
        /\ \A p \in Block : ~Has(reactions[p], "stopChain") /\ StopLast(reactions[p])
    BY <2>2 DEF StopInv
  <2>5. Jobs(<<stopChain>>) = {stopChain} /\ StopLast(<<stopChain>>)
    BY <2>1, OfOne DEF StopLast
  <2>6. ~Has(microtasks', "stopRun") /\ StopLast(microtasks')
    BY <2>1, <2>3, <2>5, OfNone DEF Registered, Has
  <2>7. Has(microtasks', "stopChain") => observeChain = <<>>
    BY <2>1, OfNone DEF Registered, Has
  <2>8. reactions'[RunPromise] = reactions[RunPromise]
    BY <1>1, <2>1, ChainTail DEF Registered
  <2>9. \A p \in Block :
          /\ StopLast(reactions'[p])
          /\ Has(reactions'[p], "stopChain") => observeChain # <<>> /\ p = ObserveTail
    <3> SUFFICES ASSUME NEW p \in Block
                 PROVE  /\ StopLast(reactions'[p])
                        /\ Has(reactions'[p], "stopChain")
                             => observeChain # <<>> /\ p = ObserveTail
      OBVIOUS
    <3>1. CASE reactions'[p] = reactions[p]
      BY <2>4, <3>1
    <3>2. CASE /\ observeChain # <<>> /\ p = ObserveTail
               /\ reactions'[p] = Append(reactions[p], stopChain)
      <4>1. StopLast(Append(reactions[p], stopChain))
        BY <1>1, <2>1, <2>4, OfAppended
      <4> QED BY <3>2, <4>1
    <3> QED BY <1>1, <2>1, <3>1, <3>2 DEF Registered
  <2>10. \A i \in DOMAIN observeChain :
           Has(reactions'[observeChain[i]], "stopChain") => i = Len(observeChain)
    <3> SUFFICES ASSUME NEW i \in DOMAIN observeChain,
                        Has(reactions'[observeChain[i]], "stopChain")
                 PROVE  i = Len(observeChain)
      OBVIOUS
    <3>1. observeChain # <<>> /\ observeChain[i] = ObserveTail
      BY <1>1, <2>9
    <3>2. /\ Len(observeChain) \in DOMAIN observeChain
          /\ ObserveTail = observeChain[Len(observeChain)]
          /\ i \in Nat /\ i <= Len(observeChain) /\ ObserveTail \in Nat
      BY <3>1, ChainTail, Typing
    <3>3. i < Len(observeChain) => observeChain[i] < ObserveTail
      BY <3>2 DEF QueueInv, ChainInv
    <3> QED BY <3>1, <3>2, <3>3
  <2> QED BY <2>2, <2>4, <2>6, <2>7, <2>8, <2>9, <2>10 DEF StopInv
<1>9. CASE UNCHANGED vars
  BY <1>9 DEF vars, StopInv
<1>10. CASE Microtask
  <2>1. microtasks # <<>>
    BY <1>10 DEF Microtask, RunObserve, ResumeHandler, ResumeTick, ResumeStopAfterChain,
                 ResumeStopAfterRun, Resumes
  <2>2. /\ Tail(microtasks) \in Seq(Job) /\ Head(microtasks) \in Jobs(microtasks)
        /\ \A m \in Jobs(Tail(microtasks)) : m \in Jobs(microtasks)
        /\ StopLast(Tail(microtasks))
        /\ Head(microtasks).kind = "stopChain" =>
             ~Has(Tail(microtasks), "stopChain") /\ ~Has(Tail(microtasks), "handler")
    BY <2>1, OfTail DEF TypeOK, StopInv
  <2>3. /\ started
        /\ \A kind : Has(Tail(microtasks), kind) => Has(microtasks, kind)
        /\ Has(microtasks, Head(microtasks).kind)
    BY <2>1, <2>2 DEF StopInv, Has
  <2>4. CASE RunObserve \/ ResumeTick
    <3>1. /\ microtasks' = Tail(microtasks)
          /\ UNCHANGED <<started, subscribed, stopped, stopCall, observeChain, running, reactions>>
      BY <2>4 DEF RunObserve, ResumeTick, runVars
    <3> QED BY <1>1, <2>2, <2>3, <3>1, SameStop
  <2>5. CASE ResumeHandler
    <3>1. /\ microtasks' = Tail(microtasks) /\ Head(microtasks).kind = "handler"
          /\ UNCHANGED <<started, subscribed, stopped, stopCall, observeChain>>
      BY <2>5 DEF ResumeHandler, Resumes
    <3>2. stopCall \notin {"awaitRun", "resolved"} /\ ~Has(microtasks, "stopRun")
          /\ ~Has(reactions[RunPromise], "stopRun")
      BY <2>3, <3>1 DEF StopInv
    <3>3. PICK b \in Block \cup {0} :
             /\ JobOf("tickDone", b) \in Job
             /\ \A p \in Promise : p # RunPromise => reactions'[p] = reactions[p]
             /\ \/ reactions'[RunPromise] = Append(reactions[RunPromise], JobOf("tickDone", b))
                \/ UNCHANGED reactions
      BY <2>5, HandlerEffect
    <3>4. ~Has(reactions'[RunPromise], "stopRun")
      <4>1. JobOf("tickDone", b).kind = "tickDone"
        BY IsJob
      <4>2. Jobs(Append(reactions[RunPromise], JobOf("tickDone", b)))
              = Jobs(reactions[RunPromise]) \cup {JobOf("tickDone", b)}
        BY <1>1, <3>3, OfAppended
      <4>3. CASE UNCHANGED reactions
        BY <3>2, <4>3
      <4>4. CASE reactions'[RunPromise] = Append(reactions[RunPromise], JobOf("tickDone", b))
        BY <3>2, <4>1, <4>2, <4>4 DEF Has
      <4> QED BY <3>3, <4>3, <4>4
    <3>5. \A p \in Block : reactions'[p] = reactions[p]
      BY <1>1, <3>3
    <3> QED BY <1>1, <2>2, <2>3, <3>1, <3>2, <3>4, <3>5 DEF StopInv
  <2>6. CASE ResumeStopAfterChain
    <3> DEFINE stopRun == JobOf("stopRun", 0)
    <3>1. Head(microtasks).kind = "stopChain"
          /\ UNCHANGED <<started, subscribed, stopped, observeChain, running>>
      BY <2>6 DEF ResumeStopAfterChain, Resumes, runVars
    <3>2. /\ stopRun \in Job /\ stopCall' \in {"awaitRun", "resolved"}
          /\ \A p \in Promise : p # RunPromise => reactions'[p] = reactions[p]
          /\ \/ ~inflightRun /\ microtasks' = Tail(microtasks)
             \/ stopCall' = "awaitRun" /\ microtasks' = Tail(microtasks)
             \/ /\ running = 0 /\ stopCall' = "awaitRun"
                /\ microtasks' = Append(Tail(microtasks), stopRun)
      BY <2>6, StopChainEffect
    <3>3. stopRun.kind = "stopRun"
      BY IsJob
    <3> HIDE DEF stopRun
    <3>4. observeChain = <<>> /\ stopped /\ ~subscribed /\ ~Has(microtasks, "stopRun")
      BY <2>3, <3>1 DEF StopInv
    <3>5. /\ Jobs(Append(Tail(microtasks), stopRun)) = Jobs(Tail(microtasks)) \cup {stopRun}
          /\ StopLast(Append(Tail(microtasks), stopRun))
      BY <2>2, <3>2, <3>3, OfAppended
    <3>6. /\ StopLast(microtasks') /\ ~Has(microtasks', "stopChain")
          /\ ~Has(microtasks', "handler")
          /\ Has(microtasks', "stopRun") => running = 0
      <4>1. CASE microtasks' = Tail(microtasks)
        BY <2>2, <2>3, <3>1, <3>4, <4>1
      <4>2. CASE running = 0 /\ microtasks' = Append(Tail(microtasks), stopRun)
        BY <2>2, <3>1, <3>3, <3>5, <4>2 DEF Has
      <4> QED BY <3>2, <4>1, <4>2
    <3>7. stopCall' = "resolved" => running = 0
      BY <3>2 DEF RunInv
    <3>8. \A p \in Block : reactions'[p] = reactions[p]
      BY <1>1, <3>2
    <3> QED BY <1>1, <2>3, <3>1, <3>2, <3>4, <3>6, <3>7, <3>8 DEF StopInv
  <2>7. CASE ResumeStopAfterRun
    <3>1. /\ Head(microtasks).kind = "stopRun" /\ microtasks' = Tail(microtasks)
          /\ stopCall' = "resolved"
          /\ UNCHANGED <<started, subscribed, stopped, observeChain, running, reactions>>
      BY <2>7 DEF ResumeStopAfterRun, Resumes, runVars
    <3>2. running = 0 /\ stopCall \in {"awaitRun", "resolved"}
      BY <2>3, <3>1 DEF StopInv
    <3> QED BY <1>1, <2>2, <2>3, <3>1, <3>2 DEF StopInv
  <2> QED BY <1>10, <2>4, <2>5, <2>6, <2>7 DEF Microtask
<1> QED BY <1>3, <1>4, <1>5, <1>6, <1>7, <1>8, <1>9, <1>10 DEF Next

-----------------------------------------------------------------------------
(* The clock.                                                              *)

LEMMA Division ==
  ASSUME NEW a \in Nat, NEW b \in Nat \ {0}
  PROVE  /\ a \div b \in Nat
         /\ b * (a \div b) <= a
         /\ a < b * ((a \div b) + 1)
OBVIOUS

LEMMA Multiple ==
  ASSUME NEW k \in Nat, NEW b \in Nat \ {0}
  PROVE  (b * k) % b = 0
OBVIOUS

\* One of any IntervalBlocks consecutive blocks is a tick block.
LEMMA NextTick ==
  ASSUME NEW w \in Nat
  PROVE  \E c \in Nat : w < c /\ c <= w + IntervalBlocks /\ ShouldTick(c)
<1> DEFINE q == w \div IntervalBlocks
<1>1. IntervalBlocks \in Nat \ {0}
  BY RunnerAssumption DEF RunnerAssumption
<1>2. q \in Nat /\ IntervalBlocks * q <= w /\ w < IntervalBlocks * (q + 1)
  BY <1>1, Division
<1> HIDE DEF q
<1>3. IntervalBlocks * (q + 1) <= w + IntervalBlocks /\ IntervalBlocks * (q + 1) \in Nat
  BY <1>1, <1>2
<1>4. ShouldTick(IntervalBlocks * (q + 1))
  <2>1. q + 1 \in Nat
    BY <1>2
  <2>2. (IntervalBlocks * (q + 1)) % IntervalBlocks = 0
    BY <1>1, <2>1, Multiple
  <2> QED BY <2>2 DEF ShouldTick
<1> QED BY <1>2, <1>3, <1>4

\* The tick block the heartbeat was written for is at most IntervalBlocks ahead.
LEMMA WithinInterval ==
  ASSUME NEW w \in Nat, height \in Nat,
         \A b \in (w + 1)..height : ShouldTick(b) => b = height
  PROVE  height <= w + IntervalBlocks
<1>1. PICK c \in Nat : w < c /\ c <= w + IntervalBlocks /\ ShouldTick(c)
  BY NextTick
<1>2. IntervalBlocks \in Nat
  BY RunnerAssumption DEF RunnerAssumption
<1> SUFFICES ASSUME height > w + IntervalBlocks PROVE FALSE
  BY <1>2
<1>3. c \in (w + 1)..height
  BY <1>1, <1>2
<1> QED BY <1>1, <1>2, <1>3

LEMMA ClockStep ==
  TypeOK /\ TypeOK' /\ QueueInv /\ RunInv /\ StopInv /\ ClockInv /\ [Next]_vars => ClockInv'
<1> SUFFICES ASSUME TypeOK, TypeOK', QueueInv, RunInv, StopInv, ClockInv, [Next]_vars
             PROVE  ClockInv'
  OBVIOUS
<1> SUFFICES ASSUME ~hasObserve PROVE ClockInv'
  <2>1. hasObserve' = hasObserve
    <3>1. CASE Start \/ SubscriptionError \/ StaleTimeout \/ Stop \/ UNCHANGED vars
      BY <3>1, Zenon DEF Start, SubscriptionError, StaleTimeout, Stop, vars
    <3>2. CASE FinalizeBlock \/ ObserveSettles \/ TickReturns \/ TickThrows
      BY <3>2, Zenon DEF FinalizeBlock, ObserveSettles, TickReturns, TickThrows, FinishRun
    <3>3. CASE RunObserve \/ ResumeHandler \/ ResumeTick
      BY <3>3, Zenon DEF RunObserve, ResumeHandler, ResumeTick
    <3>4. CASE ResumeStopAfterChain \/ ResumeStopAfterRun
      BY <3>4, Zenon DEF ResumeStopAfterChain, ResumeStopAfterRun
    <3> QED BY <3>1, <3>2, <3>3, <3>4 DEF Next, Microtask
  <2> QED BY <2>1 DEF ClockInv
<1>1. /\ observeChain = <<>> /\ height \in Nat /\ height' \in Nat
      /\ runStart \in Nat /\ running \in Nat /\ heartbeat \in Nat
      /\ IntervalBlocks \in Nat \ {0} /\ StaleBlocks \in Nat \ {0}
      /\ started \in BOOLEAN /\ stopped \in BOOLEAN
      /\ \A b : ~ShouldObserve(b)
  <2>1. height' \in Nat /\ runStart \in Nat
    <3>1. height' \in Block /\ runStart \in Block \cup {0} /\ 0 \in Nat
      BY DEF TypeOK
    <3> QED BY <3>1, Blocks
  <2> QED
    BY <2>1, Typing, RunnerAssumption
    DEF RunnerAssumption, TypeOK, QueueInv, ChainInv, ShouldObserve
<1>2. /\ \A m \in Jobs(microtasks) :
           m.kind = "handler" => microtasks = <<JobOf("handler", height)>>
      /\ staleTimer = "off" <=> running = 0
      /\ started /\ ~stopped /\ staleTimer = "off" =>
           \E w \in Nat :
             /\ heartbeat = w + HeartbeatWindow /\ w <= height
             /\ \A b \in (w + 1)..height :
                  ShouldTick(b) => b = height /\ microtasks = <<JobOf("handler", b)>>
      /\ staleTimer = "armed" => height <= runStart + StaleBlocks
      /\ started /\ ~stopped /\ staleTimer = "armed" => heartbeat >= runStart + StaleBlocks
  BY DEF ClockInv
<1>3. CASE Start
  <2>1. /\ started' /\ ~started /\ heartbeat' = height + HeartbeatWindow
        /\ microtasks = <<>> /\ staleTimer = "off" /\ \A b \in (height + 1)..height : FALSE
        /\ UNCHANGED <<height, runStart, running, staleTimer, microtasks>>
    BY <1>1, <1>3 DEF Start, Macrotask, runVars, loopVars, StopInv
  <2>2. \A m \in Jobs(microtasks') : FALSE
    BY <2>1, OfNone
  <2> QED BY <1>1, <1>2, <2>1, <2>2 DEF ClockInv
<1>4. CASE FinalizeBlock
  <2>1. PICK b \in Block :
           /\ height' = b /\ b = height + 1 /\ microtasks = <<>>
           /\ JobOf("handler", b) \in Job
           /\ \/ microtasks' = <<JobOf("handler", b)>>
              \/ microtasks' = <<>> /\ (subscribed /\ ~stopped => ~ShouldTick(b))
    BY <1>1, <1>4, BlockEffect DEF QueueInv, Observed, Registered
  <2>2. /\ ~StaleTimerDue
        /\ UNCHANGED <<started, stopped, running, runStart, staleTimer, heartbeat>>
    BY <1>4 DEF FinalizeBlock, runVars, staleVars
  <2>3. \A m \in Jobs(microtasks') : microtasks' = <<JobOf("handler", height')>>
    BY <2>1, OfNone
  <2>4. staleTimer = "armed" => height' <= runStart + StaleBlocks
    BY <1>1, <2>1, <2>2 DEF StaleTimerDue
  <2>5. ASSUME started, ~stopped, staleTimer = "off"
        PROVE  \E w \in Nat :
                 /\ heartbeat = w + HeartbeatWindow /\ w <= height'
                 /\ \A c \in (w + 1)..height' :
                      ShouldTick(c) => c = height' /\ microtasks' = <<JobOf("handler", c)>>
    <3>1. PICK w \in Nat :
             /\ heartbeat = w + HeartbeatWindow /\ w <= height
             /\ \A c \in (w + 1)..height :
                  ShouldTick(c) => c = height /\ microtasks = <<JobOf("handler", c)>>
      BY <1>2, <2>5
    <3>2. \A c \in (w + 1)..height : ~ShouldTick(c)
      BY <2>1, <3>1
    <3>3. ShouldTick(b) => microtasks' = <<JobOf("handler", b)>>
      BY <2>1, <2>5 DEF StopInv
    <3>4. \A c \in (w + 1)..height' : c \in (w + 1)..height \/ c = b
      BY <1>1, <2>1
    <3> QED BY <1>1, <2>1, <3>1, <3>2, <3>3, <3>4
  <2> QED BY <1>2, <2>2, <2>3, <2>4, <2>5 DEF ClockInv
<1>5. CASE SubscriptionError \/ StaleTimeout \/ Stop
  <2>1. microtasks = <<>> /\ UNCHANGED <<height, runStart, running, heartbeat>>
    BY <1>5 DEF SubscriptionError, StaleTimeout, Stop, Macrotask, runVars, staleVars
  <2>2. \/ stopped' /\ UNCHANGED staleTimer
        \/ staleTimer = "armed" /\ staleTimer' = "fired"
    BY <1>5 DEF SubscriptionError, StaleTimeout, StaleTimerDue, Stop, runVars
  <2>3. \A m \in Jobs(microtasks') : m.kind # "handler"
    <3>1. CASE SubscriptionError \/ StaleTimeout
      BY <2>1, <3>1, OfNone DEF SubscriptionError, StaleTimeout, loopVars
    <3>2. CASE Stop
      <4>1. /\ microtasks' = <<JobOf("stopChain", 0)>> /\ JobOf("stopChain", 0) \in Job
            /\ JobOf("stopChain", 0).kind = "stopChain"
        BY <1>1, <3>2, StopEffect, IsJob DEF Registered
      <4> QED BY <4>1, OfOne
    <3> QED BY <1>5, <3>1, <3>2
  <2> QED BY <1>2, <2>1, <2>2, <2>3 DEF ClockInv
<1>6. CASE ObserveSettles
  BY <1>1, <1>6 DEF ObserveSettles, QueueInv, ChainInv
<1>7. CASE TickReturns \/ TickThrows
  <2>1. FinishRun
    BY <1>7 DEF TickReturns, TickThrows
  <2>2. /\ running > 0 /\ running' = running - 1 /\ staleTimer' = "off"
        /\ heartbeat' = height + HeartbeatWindow /\ height' = height
        /\ microtasks' = reactions[RunPromise]
    BY <2>1, FinishEffect DEF FinishRun
  <2>3. running' = 0 /\ \A b \in (height + 1)..height : FALSE
    BY <1>1, <2>2 DEF RunInv
  <2>4. \A m \in Jobs(microtasks') : m.kind # "handler"
    BY <2>2 DEF QueueInv, KindInv
  <2> QED BY <1>1, <2>2, <2>3, <2>4 DEF ClockInv
<1>8. CASE UNCHANGED vars
  BY <1>8 DEF vars, ClockInv
<1>9. CASE Microtask
  <2>1. microtasks # <<>>
    BY <1>9 DEF Microtask, RunObserve, ResumeHandler, ResumeTick, ResumeStopAfterChain,
                ResumeStopAfterRun, Resumes
  <2>2. /\ Tail(microtasks) \in Seq(Job) /\ Head(microtasks) \in Jobs(microtasks)
        /\ \A m \in Jobs(Tail(microtasks)) : m \in Jobs(microtasks)
    BY <2>1, OfTail DEF TypeOK
  <2>3. CASE RunObserve
    BY <1>1, <2>2, <2>3 DEF RunObserve, Resumes, QueueInv, ChainInv
  <2>4. CASE ResumeHandler
    <3> DEFINE b == Head(microtasks).block
    <3>1. /\ microtasks = <<JobOf("handler", height)>> /\ microtasks' = <<>>
          /\ Head(microtasks) = JobOf("handler", height) /\ b = height
      <4>1. microtasks = <<JobOf("handler", height)>> /\ microtasks' = Tail(microtasks)
        BY <1>2, <2>2, <2>4 DEF ResumeHandler, Resumes
      <4>2. Head(<<JobOf("handler", height)>>) = JobOf("handler", height)
            /\ Tail(<<JobOf("handler", height)>>) = <<>>
        OBVIOUS
      <4> QED BY <4>1, <4>2 DEF JobOf
    <3>2. UNCHANGED <<height, started, stopped, heartbeat>>
      BY <2>4 DEF ResumeHandler, staleVars
    <3>3. \A m \in Jobs(microtasks') : FALSE
      BY <3>1, OfNone
    <3>4. ~Has(microtasks, "tickDone")
      <4>1. JobOf("handler", height).kind = "handler" /\ JobOf("handler", height) \in Job
        BY Typing, IsJob
      <4> QED BY <3>1, <4>1, OfOne DEF Has
    <3>5. inflightRun => running = 1
      BY <3>4 DEF RunInv
    <3>6. CASE ShouldTick(height) /\ BeginRun(height)
      <4>1. /\ ~inflightRun /\ running = 0 /\ staleTimer = "off"
            /\ running' = 1 /\ runStart' = height /\ staleTimer' = "armed"
        BY <1>2, <3>6 DEF BeginRun, RunInv
      <4>2. started /\ ~stopped => heartbeat >= height + StaleBlocks
        <5> SUFFICES ASSUME started, ~stopped PROVE heartbeat >= height + StaleBlocks
          OBVIOUS
        <5>1. PICK w \in Nat :
                 /\ heartbeat = w + HeartbeatWindow
                 /\ \A c \in (w + 1)..height : ShouldTick(c) => c = height
          BY <1>2, <4>1
        <5>2. height <= w + IntervalBlocks
          BY <1>1, <5>1, WithinInterval
        <5> QED BY <1>1, <5>1, <5>2 DEF HeartbeatWindow
      <4> QED BY <1>1, <3>2, <3>3, <4>1, <4>2 DEF ClockInv
    <3>7. CASE UNCHANGED runVars /\ (~ShouldTick(height) \/ inflightRun)
      <4>1. UNCHANGED <<running, runStart, staleTimer>>
        BY <3>7 DEF runVars
      <4>2. staleTimer = "off" => ~ShouldTick(height)
        BY <1>2, <3>5, <3>7
      <4> QED BY <1>2, <3>2, <3>3, <4>1, <4>2 DEF ClockInv
    <3> QED BY <2>4, <3>1, <3>6, <3>7, HandlerEffect
  <2>5. CASE ResumeTick \/ ResumeStopAfterChain \/ ResumeStopAfterRun
    <3>1. /\ Head(microtasks).kind # "handler"
          /\ UNCHANGED <<height, started, stopped, heartbeat, running, runStart, staleTimer>>
      BY <2>5
      DEF ResumeTick, ResumeStopAfterChain, ResumeStopAfterRun, Resumes, staleVars, runVars
    <3>2. microtasks # <<JobOf("handler", height)>>
      <4>1. Head(<<JobOf("handler", height)>>).kind = "handler"
        BY DEF JobOf
      <4> QED BY <3>1, <4>1
    <3>3. \A m \in Jobs(microtasks) : m.kind # "handler"
      BY <1>2, <3>2
    <3>4. \A m \in Jobs(microtasks') : m.kind # "handler"
      <4>1. CASE microtasks' = Tail(microtasks)
        BY <2>2, <3>3, <4>1
      <4>2. CASE microtasks' = Append(Tail(microtasks), JobOf("stopRun", 0))
        <5>1. JobOf("stopRun", 0) \in Job /\ JobOf("stopRun", 0).kind = "stopRun"
          BY IsJob
        <5>2. Jobs(microtasks') = Jobs(Tail(microtasks)) \cup {JobOf("stopRun", 0)}
          BY <2>2, <4>2, <5>1, OfAppended
        <5> QED BY <2>2, <3>3, <5>1, <5>2
      <4> QED
        BY <2>5, <4>1, <4>2, StopChainEffect DEF ResumeTick, ResumeStopAfterRun
    <3> QED BY <1>2, <3>1, <3>2, <3>4 DEF ClockInv
  <2> QED BY <1>9, <2>3, <2>4, <2>5 DEF Microtask
<1> QED BY <1>3, <1>4, <1>5, <1>6, <1>7, <1>8, <1>9 DEF Next

LEMMA InitIInv == Init => IInv
<1> SUFFICES ASSUME Init PROVE IInv
  OBVIOUS
<1>1. /\ observeChain = <<>> /\ microtasks = <<>> /\ reactions = [p \in Promise |-> <<>>]
      /\ height = FirstBlock /\ observing = 0 /\ inflightRun = FALSE /\ running = 0
      /\ runStart = 0 /\ lastRun = 0 /\ staleTimer = "off" /\ consecutiveStaleTimeouts = 0
      /\ heartbeat = 0 /\ started = FALSE /\ subscribed = FALSE /\ stopped = FALSE
      /\ stopCall = "none"
  BY DEF Init
<1>2. hasObserve \in BOOLEAN
  BY Zenon DEF Init
<1>3. FirstBlock \in Block
  BY RunnerAssumption DEF RunnerAssumption, Block
<1>4. RunPromise \in Promise /\ \A p \in Block : p \in Promise
  BY DEF Promise
<1>5. \A p \in Promise : reactions[p] = <<>>
  BY <1>1
<1>6. \A kind : ~Has(<<>>, kind)
  BY OfNone DEF Has
<1>7. TypeOK
  <2>1. <<>> \in Seq(Job) /\ <<>> \in Seq(Block) /\ 0 \in Nat
    OBVIOUS
  <2>2. reactions \in [Promise -> Seq(Job)]
    BY <1>1, <2>1
  <2> QED BY <1>1, <1>2, <1>3, <2>1, <2>2 DEF TypeOK
<1>8. QueueInv
  BY <1>1, <1>4, <1>5, OfNone DEF QueueInv, ChainInv, HandlerInv, KindInv
<1>9. RunInv
  BY <1>1, <1>4, <1>5, <1>6, OfNone DEF RunInv
<1>10. StopInv
  BY <1>1, <1>4, <1>5, <1>6, OfNone DEF StopInv
<1>11. ClockInv
  BY <1>1, OfNone DEF ClockInv
<1> QED BY <1>7, <1>8, <1>9, <1>10, <1>11 DEF IInv, QueueInv

LEMMA Invariance == Spec => []IInv
<1>1. IInv /\ [Next]_vars => IInv'
  BY TypeStep, QueueStep, RunStep, StopStep, ClockStep DEF IInv, QueueInv
<1> QED BY InitIInv, <1>1, PTL DEF Spec

\* The healthcheck passes while the runner lives and no run is over its stale timeout:
\* whatever the interval, a tick block is at most IntervalBlocks after the heartbeat was
\* written, and its run is covered for StaleBlocks more (heartbeat and run of
\* createBlockIntervalRunner).
THEOREM Freshness == Spec => []HeartbeatFresh
<1>1. IInv => HeartbeatFresh
  <2> SUFFICES ASSUME IInv, ~hasObserve, started, ~stopped, staleTimer # "fired"
               PROVE  heartbeat >= height
    BY DEF IInv, HeartbeatFresh
  <2>1. /\ height \in Nat /\ heartbeat \in Nat /\ IntervalBlocks \in Nat /\ StaleBlocks \in Nat
        /\ runStart \in Nat /\ staleTimer \in {"off", "armed"}
    <3>1. runStart \in Block \cup {0} /\ 0 \in Nat
      BY DEF IInv, TypeOK
    <3> QED
      BY <3>1, Blocks, Typing, RunnerAssumption DEF RunnerAssumption, IInv, TypeOK
  <2>2. CASE staleTimer = "off"
    <3>1. PICK w \in Nat :
             /\ heartbeat = w + HeartbeatWindow
             /\ \A b \in (w + 1)..height : ShouldTick(b) => b = height
      BY <2>2 DEF IInv, ClockInv
    <3>2. height <= w + IntervalBlocks
      BY <2>1, <3>1, WithinInterval
    <3> QED BY <2>1, <3>1, <3>2 DEF HeartbeatWindow
  <2>3. CASE staleTimer = "armed"
    BY <2>1, <2>3 DEF IInv, ClockInv
  <2> QED BY <2>1, <2>2, <2>3
<1> QED BY Invariance, <1>1, PTL

\* A tick begins only when no observe of its block or of an earlier one is unsettled,
\* though onBlock tests nothing after its await: the order of the continuations and of
\* the chain is enough.
THEOREM ObservesComeFirst == Spec => TickAfterItsObserves
<1>1. ASSUME IInv, [Next]_vars
      PROVE  [lastRun' # lastRun =>
                \A i \in DOMAIN observeChain' : observeChain'[i] > lastRun']_vars
  <2> SUFFICES ASSUME lastRun' # lastRun
               PROVE  \A i \in DOMAIN observeChain' : observeChain'[i] > lastRun'
    OBVIOUS
  <2>1. ResumeHandler
    <3>1. ~(Start \/ SubscriptionError \/ StaleTimeout \/ Stop \/ UNCHANGED vars)
      BY DEF Start, SubscriptionError, StaleTimeout, Stop, vars, runVars
    <3>2. ~(FinalizeBlock \/ ObserveSettles \/ TickReturns \/ TickThrows)
      BY DEF FinalizeBlock, ObserveSettles, TickReturns, TickThrows, FinishRun, runVars
    <3>3. ~(RunObserve \/ ResumeTick \/ ResumeStopAfterChain \/ ResumeStopAfterRun)
      BY DEF RunObserve, ResumeTick, ResumeStopAfterChain, ResumeStopAfterRun, runVars
    <3> QED BY <1>1, <3>1, <3>2, <3>3 DEF Next, Microtask
  <2>2. lastRun' = Head(microtasks).block /\ UNCHANGED observeChain
    BY <2>1, HandlerEffect DEF IInv, BeginRun, runVars, ResumeHandler
  <2>3. Head(microtasks).kind = "handler" /\ Head(microtasks) \in Jobs(microtasks)
    BY <1>1, <2>1, OfTail DEF ResumeHandler, Resumes, IInv, TypeOK
  <2> QED BY <1>1, <2>2, <2>3 DEF IInv, HandlerInv
<1> QED BY Invariance, <1>1, PTL DEF Spec, TickAfterItsObserves

\* A handler that runs, the end of a run and the three parts of stop() are the steps of
\* the contract; in particular stop() resolves only when no run is in flight and nothing
\* that could begin one is left in a queue.
THEOREM Refinement == Spec => ContractSpec
<1>1. Init => Contract!Init
  BY DEF Init, Contract!Init, Shutdown
<1>2. ASSUME IInv, [Next]_vars PROVE [Contract!Next]_(Contract!vars)
  <2> USE DEF Contract!vars
  <2>1. TypeOK /\ StopInv /\ RunInv
    BY <1>2 DEF IInv
  <2>2. CASE ResumeHandler
    <3>1. \/ ~inflightRun /\ running' = running + 1
          \/ running' = running
      BY <2>1, <2>2, HandlerEffect DEF BeginRun, runVars
    <3>2. stopCall \notin {"awaitRun", "resolved"} /\ stopCall' = stopCall
      <4>1. Has(microtasks, "handler")
        BY <2>1, <2>2, OfTail DEF ResumeHandler, Resumes, TypeOK, Has
      <4> QED BY <2>1, <2>2, <4>1 DEF ResumeHandler, StopInv
    <3>3. ~inflightRun => running = 0
      BY <2>1 DEF RunInv
    <3>4. Contract!BeginCycle \/ UNCHANGED <<running, Shutdown>>
      BY <3>1, <3>2, <3>3 DEF Contract!BeginCycle, Shutdown
    <3> QED BY <3>4 DEF Contract!Next
  <2>3. CASE TickReturns \/ TickThrows
    <3>1. running > 0 /\ running' = running - 1 /\ stopCall' = stopCall
      BY <2>3 DEF TickReturns, TickThrows, FinishRun
    <3>2. Contract!EndCycle
      BY <2>1, <3>1 DEF Contract!EndCycle, Shutdown, RunInv
    <3> QED BY <3>2 DEF Contract!Next
  <2>4. CASE Stop
    <3>1. Contract!RequestStop
      BY <2>4 DEF Stop, Contract!RequestStop, Shutdown, runVars
    <3> QED BY <3>1 DEF Contract!Next
  <2>5. CASE ResumeStopAfterChain
    <3>1. running' = running /\ (stopCall' = "awaitRun" \/ (~inflightRun /\ stopCall' = "resolved"))
      BY <2>1, <2>5, StopChainEffect DEF ResumeStopAfterChain, runVars
    <3>2. stopCall = "awaitChain"
      <4>1. Has(microtasks, "stopChain")
        BY <2>1, <2>5, OfTail DEF ResumeStopAfterChain, Resumes, TypeOK, Has
      <4> QED BY <2>1, <4>1 DEF StopInv, TypeOK
    <3>3. Contract!ResolveStop \/ UNCHANGED <<running, Shutdown>>
      BY <2>1, <3>1, <3>2 DEF Contract!ResolveStop, Shutdown, RunInv
    <3> QED BY <3>3 DEF Contract!Next
  <2>6. CASE ResumeStopAfterRun
    <3>1. Has(microtasks, "stopRun")
      BY <2>1, <2>6, OfTail DEF ResumeStopAfterRun, Resumes, TypeOK, Has
    <3>2. running = 0 /\ stopCall \in {"awaitRun", "resolved"}
      BY <2>1, <3>1 DEF StopInv
    <3>3. Contract!ResolveStop \/ UNCHANGED <<running, Shutdown>>
      BY <2>6, <3>2 DEF ResumeStopAfterRun, runVars, Contract!ResolveStop, Shutdown
    <3> QED BY <3>3 DEF Contract!Next
  <2>7. CASE Start \/ SubscriptionError \/ StaleTimeout \/ UNCHANGED vars
    BY <2>7 DEF Start, SubscriptionError, StaleTimeout, vars, runVars, Shutdown
  <2>8. CASE FinalizeBlock \/ ObserveSettles \/ RunObserve \/ ResumeTick
    BY <2>8 DEF FinalizeBlock, ObserveSettles, RunObserve, ResumeTick, runVars, Shutdown
  <2> QED
    BY <1>2, <2>2, <2>3, <2>4, <2>5, <2>6, <2>7, <2>8 DEF Next, Microtask
<1> QED BY <1>1, <1>2, Invariance, PTL DEF Spec, ContractSpec, Contract!Spec

-----------------------------------------------------------------------------
(* The cron runner.                                                        *)

\* The promise in inflightRun is that of the one run, or has just settled.
CronRunInv ==
  /\ running \in {0, 1}
  /\ inflightRun <=> (running = 1 \/ runSettled)
  /\ running = 1 => ~runSettled
  /\ staleTimer = "off" <=> running = 0
  /\ job = "unset" => running = 0 /\ ~runSettled /\ stopCall = "none"
  /\ stopCall # "none" => job = "stopped"
  /\ stopCall = "resolved" => running = 0 /\ ~runSettled

\* While nothing runs the heartbeat covers the next run; while a run may not yet be
\* stale it covers that run.
CronClockInv ==
  /\ job = "running" =>
       /\ now <= nextFire /\ nextFire <= NextRun
       /\ staleTimer = "off" => heartbeat >= nextFire + StaleTimeoutMinutes
       /\ staleTimer = "armed" => heartbeat >= runStart + StaleTimeoutMinutes
  /\ staleTimer = "armed" => now <= runStart + StaleTimeoutMinutes

CronInv == CronTypeOK /\ CronRunInv /\ CronClockInv

LEMMA Less ==
  ASSUME NEW a \in Int, NEW b \in Int, NEW c \in Nat \ {0}, c * a < c * b
  PROVE  a < b
OBVIOUS

LEMMA Times ==
  ASSUME NEW a \in Int, NEW b \in Int, NEW c \in Nat, a <= b
  PROVE  c * a <= c * b
OBVIOUS

\* The next fire is ahead of the clock, and never moves back as the clock goes on.
LEMMA NextRunAhead ==
  ASSUME now \in Nat
  PROVE  NextRun \in Nat /\ now < NextRun
<1> DEFINE q == now \div Period
<1>1. q \in Nat /\ now < Period * (q + 1)
  BY CronAssumption, Division DEF CronAssumption
<1> HIDE DEF q
<1>2. Period * (q + 1) \in Nat
  BY <1>1, CronAssumption DEF CronAssumption
<1> QED BY <1>1, <1>2 DEF NextRun, q

LEMMA NextRunGrows ==
  ASSUME now \in Nat, now' = now + 1
  PROVE  NextRun <= NextRun'
<1> USE CronAssumption DEF CronAssumption
<1> DEFINE q == now \div Period
           r == (now + 1) \div Period
<1>1. q \in Nat /\ Period * q <= now
  BY Division
<1>2. r \in Nat /\ now + 1 < Period * (r + 1)
  <2>1. now + 1 \in Nat
    OBVIOUS
  <2> QED BY <2>1, Division
<1>3. NextRun = Period * (q + 1) /\ NextRun' = Period * (r + 1)
  BY DEF NextRun
<1> HIDE DEF q, r
<1>4. Period * q < Period * (r + 1)
  BY <1>1, <1>2
<1>5. q + 1 <= r + 1
  BY <1>1, <1>2, <1>4, Less
<1>6. Period * (q + 1) <= Period * (r + 1)
  BY <1>1, <1>2, <1>5, Times
<1> QED BY <1>3, <1>6

LEMMA CronInitInv == CronInit => CronInv
<1> SUFFICES ASSUME CronInit PROVE CronInv
  OBVIOUS
<1>1. inflightRun \in BOOLEAN /\ runSettled \in BOOLEAN
  BY Zenon DEF CronInit
<1> QED
  BY <1>1, CronAssumption
  DEF CronInit, CronInv, CronTypeOK, CronRunInv, CronClockInv, CronAssumption

LEMMA CronTypeStep == CronTypeOK /\ [CronNext]_cronVars => CronTypeOK'
<1> SUFFICES ASSUME CronTypeOK, [CronNext]_cronVars PROVE CronTypeOK'
  OBVIOUS
<1> USE CronAssumption DEF CronAssumption, CronTypeOK, cronRunVars
<1>1. NextRun \in Nat /\ HeartbeatDeadline \in Nat
  BY NextRunAhead DEF HeartbeatDeadline
<1>2. CASE CronStart
  BY <1>1, <1>2 DEF CronStart
<1>3. CASE AdvanceClock
  BY <1>3 DEF AdvanceClock
<1>4. CASE Tick
  <2>1. inflightRun' \in BOOLEAN /\ runSettled' \in BOOLEAN
    BY <1>4, Zenon DEF Tick
  <2> QED BY <1>1, <1>4, <2>1 DEF Tick
<1>5. CASE CronTickReturns \/ CronTickThrows
  <2>1. inflightRun' \in BOOLEAN /\ runSettled' \in BOOLEAN
    BY <1>5, Zenon DEF CronTickReturns, CronTickThrows, CronFinishRun
  <2> QED BY <1>1, <1>5, <2>1 DEF CronTickReturns, CronTickThrows, CronFinishRun
<1>6. CASE CronResumeTick \/ ResumeStop
  BY <1>6 DEF CronResumeTick, ResumeStop
<1>7. CASE StaleTimerFires
  BY <1>7 DEF StaleTimerFires
<1>8. CASE CronStop
  BY <1>8 DEF CronStop
<1>9. CASE UNCHANGED cronVars
  BY <1>9 DEF cronVars
<1> QED
  BY <1>2, <1>3, <1>4, <1>5, <1>6, <1>7, <1>8, <1>9 DEF CronNext

\* Overlap protection and the two halves of stop().
LEMMA CronRunStep == CronTypeOK /\ CronRunInv /\ [CronNext]_cronVars => CronRunInv'
<1> SUFFICES ASSUME CronTypeOK, CronRunInv, [CronNext]_cronVars PROVE CronRunInv'
  OBVIOUS
<1> USE DEF CronTypeOK, CronRunInv, cronRunVars, CronMacrotask, FireDue, CronStaleTimerDue
<1>1. CASE CronStart
  BY <1>1 DEF CronStart
<1>2. CASE AdvanceClock
  BY <1>2 DEF AdvanceClock
<1>3. CASE Tick
  BY <1>3 DEF Tick
<1>4. CASE CronTickReturns \/ CronTickThrows
  BY <1>4 DEF CronTickReturns, CronTickThrows, CronFinishRun
<1>5. CASE CronResumeTick \/ ResumeStop
  BY <1>5 DEF CronResumeTick, ResumeStop
<1>6. CASE StaleTimerFires
  BY <1>6 DEF StaleTimerFires
<1>7. CASE CronStop
  BY <1>7 DEF CronStop
<1>8. CASE UNCHANGED cronVars
  BY <1>8 DEF cronVars
<1> QED
  BY <1>1, <1>2, <1>3, <1>4, <1>5, <1>6, <1>7, <1>8 DEF CronNext

\* The clock waits for due timers, so a fire finds the heartbeat that was written
\* for it, and the end of a run writes one for the fire that is then awaited.
LEMMA CronClockStep == CronInv /\ [CronNext]_cronVars => CronClockInv'
<1> SUFFICES ASSUME CronInv, [CronNext]_cronVars PROVE CronClockInv'
  OBVIOUS
<1> USE CronAssumption
    DEF CronAssumption, CronInv, CronTypeOK, CronRunInv, CronClockInv, cronRunVars,
        CronMacrotask
<1>1. NextRun \in Nat /\ now < NextRun
  BY NextRunAhead
<1>2. CASE UNCHANGED now
  <2>1. NextRun' = NextRun
    BY <1>2 DEF NextRun
  <2>2. CASE CronStart
    BY <1>1, <2>1, <2>2 DEF CronStart, HeartbeatDeadline
  <2>3. CASE Tick
    BY <1>1, <2>1, <2>3 DEF Tick, FireDue
  <2>4. CASE CronTickReturns \/ CronTickThrows
    BY <1>1, <2>1, <2>4 DEF CronTickReturns, CronTickThrows, CronFinishRun, HeartbeatDeadline
  <2>5. CASE CronResumeTick \/ ResumeStop
    BY <2>1, <2>5 DEF CronResumeTick, ResumeStop
  <2>6. CASE StaleTimerFires
    BY <2>1, <2>6 DEF StaleTimerFires
  <2>7. CASE CronStop
    BY <2>1, <2>7 DEF CronStop
  <2>8. CASE UNCHANGED cronVars
    BY <2>1, <2>8 DEF cronVars
  <2>9. CASE AdvanceClock
    BY <1>2, <2>9 DEF AdvanceClock
  <2> QED
    BY <2>2, <2>3, <2>4, <2>5, <2>6, <2>7, <2>8, <2>9 DEF CronNext
<1>3. CASE AdvanceClock
  <2>1. NextRun <= NextRun' /\ NextRun' \in Nat
    <3>1. now' \in Nat
      BY <1>3 DEF AdvanceClock
    <3>2. NextRun' \in Nat
      <4>1. now' \div Period \in Nat
        BY <3>1, Division
      <4> QED BY <4>1 DEF NextRun
    <3> QED BY <1>3, <3>2, NextRunGrows DEF AdvanceClock
  <2> QED
    BY <1>1, <1>3, <2>1 DEF AdvanceClock, FireDue, CronStaleTimerDue
<1>4. UNCHANGED now \/ AdvanceClock
  BY DEF CronNext, cronVars, CronStart, Tick, CronTickReturns, CronTickThrows,
         CronFinishRun, CronResumeTick, StaleTimerFires, CronStop, ResumeStop
<1> QED
  BY <1>2, <1>3, <1>4

LEMMA CronInvariance == CronSpec => []CronInv
<1>1. CronInv /\ [CronNext]_cronVars => CronInv'
  BY CronTypeStep, CronRunStep, CronClockStep DEF CronInv
<1> QED
  BY CronInitInv, <1>1, PTL DEF CronSpec

\* The healthcheck passes while the job lives and no run is stale, however long the
\* runs and however many fires they make the job skip (heartbeatDeadline).
THEOREM CronFreshness == CronSpec => []CronHeartbeatFresh
<1>1. CronInv => CronHeartbeatFresh
  BY CronAssumption
  DEF CronAssumption, CronInv, CronTypeOK, CronRunInv, CronClockInv, CronHeartbeatFresh
<1> QED
  BY CronInvariance, <1>1, PTL

\* A fire that is not skipped, the end of a run and the two halves of stop() are the
\* steps of the contract; nothing else touches its state.
THEOREM CronRefinement == CronSpec => ContractSpec
<1>1. CronInit => Contract!Init
  BY DEF CronInit, Contract!Init, Shutdown
<1>2. ASSUME CronInv, [CronNext]_cronVars PROVE [Contract!Next]_(Contract!vars)
  <2> USE <1>2 DEF CronInv, CronTypeOK, CronRunInv, cronRunVars, CronMacrotask, Shutdown,
                   Contract!vars
  <2>1. CASE Tick
    <3>1. Contract!BeginCycle \/ UNCHANGED <<running, stopCall>>
      BY <2>1 DEF Tick, FireDue, Contract!BeginCycle
    <3> QED
      BY <3>1 DEF Contract!Next
  <2>2. CASE CronTickReturns \/ CronTickThrows
    <3>1. Contract!EndCycle
      BY <2>2 DEF CronTickReturns, CronTickThrows, CronFinishRun, Contract!EndCycle
    <3> QED
      BY <3>1 DEF Contract!Next
  <2>3. CASE CronStop
    <3>1. Contract!RequestStop
      BY <2>3 DEF CronStop, Contract!RequestStop
    <3> QED
      BY <3>1 DEF Contract!Next
  <2>4. CASE ResumeStop
    <3>1. Contract!ResolveStop
      BY <2>4 DEF ResumeStop, Contract!ResolveStop
    <3> QED
      BY <3>1 DEF Contract!Next
  <2>5. CASE CronStart \/ AdvanceClock \/ CronResumeTick \/ StaleTimerFires
    BY <2>5 DEF CronStart, AdvanceClock, CronResumeTick, StaleTimerFires
  <2>6. CASE UNCHANGED cronVars
    BY <2>6 DEF cronVars
  <2> QED
    BY <2>1, <2>2, <2>3, <2>4, <2>5, <2>6 DEF CronNext
<1> QED
  BY <1>1, <1>2, CronInvariance, PTL DEF CronSpec, ContractSpec, Contract!Spec
=============================================================================
