---------------------------- MODULE ScriptProofs ----------------------------
(***************************************************************************)
(* What the scripts rely on.  The semaphore of the RPC limiter is exact    *)
(* and first in, first out, and its bucket bounds a minute, for any calls, *)
(* costs, concurrency and rate.  The pools of the backtest never give too  *)
(* much, its ledger balances and its stops protect, for any history and    *)
(* any fees.                                                               *)
(***************************************************************************)
EXTENDS RpcRateLimiter, Backtest, FiniteSetTheorems, WellFoundedInduction, TLAPS

BucketOK ==
  /\ rpm \in RpmOptions
  /\ tokens \in 0..MaxTokens
  /\ sinceRefill \in 0..MaxTokens
  /\ sleep \in [Task -> Nat]
  /\ minuteLog \in [1..rpm -> Nat]

SlotsOK ==
  /\ status \in [Task -> Status]
  /\ waitQueue \in Seq(Task)
  /\ running \in Int

\* The queue holds the calls that wait, each once.
QueueInv ==
  /\ \A i \in 1..Len(waitQueue) : status[waitQueue[i]] = "queued"
  /\ \A i, j \in 1..Len(waitQueue) : waitQueue[i] = waitQueue[j] => i = j

\* The counter is the number of calls inside.
CounterInv ==
  /\ running = Cardinality(Holders)
  /\ running <= Concurrency
  /\ waitQueue # <<>> => running = Concurrency

IInv == BucketOK /\ SlotsOK /\ QueueInv /\ CounterInv

LEMMA HoldersFinite == IsFiniteSet(Holders)
BY FS_Subset, LimiterAssumption DEF Holders, LimiterAssumption

LEMMA InitIInv == Init => IInv
<1> SUFFICES ASSUME Init PROVE IInv
  OBVIOUS
<1> USE LimiterAssumption DEF Init, LimiterAssumption
<1>1. BucketOK
  BY DEF BucketOK, MaxTokens
<1>2. SlotsOK /\ QueueInv
  BY DEF SlotsOK, QueueInv, Status
<1>3. Holders = {}
  BY DEF Holders
<1>4. CounterInv
  BY <1>3, FS_EmptySet DEF CounterInv
<1> QED BY <1>1, <1>2, <1>4 DEF IInv

\* The bucket stays between empty and full.
LEMMA BucketStep == BucketOK /\ [Next]_vars => BucketOK'
<1> SUFFICES ASSUME BucketOK, [Next]_vars PROVE BucketOK'
  OBVIOUS
<1> USE LimiterAssumption
    DEF BucketOK, LimiterAssumption, MaxTokens, Limited, Lesser, Greater, bucketVars
<1>1. ASSUME NEW t \in Task, Call(t) \/ Finish(t) PROVE BucketOK'
  BY <1>1 DEF Call, Finish
<1>2. ASSUME NEW t \in Task, CheckBucket(t) PROVE BucketOK'
  <2>1. Refilled \in 0..rpm /\ rpm \in Nat /\ Cost[t] \in Nat
    BY DEF Refilled
  <2>2. CASE ~Limited
    BY <1>2, <2>2 DEF CheckBucket
  <2>3. CASE Limited /\ Refilled < Cost[t]
    BY <1>2, <2>1, <2>3 DEF CheckBucket
  <2>4. CASE Limited /\ Refilled >= Cost[t]
    BY <1>2, <2>1, <2>4 DEF CheckBucket
  <2> QED BY <2>1, <2>2, <2>3, <2>4
<1>3. CASE ClockTick
  BY <1>3 DEF ClockTick
<1>4. CASE UNCHANGED vars
  BY <1>4 DEF vars
<1> QED BY <1>1, <1>2, <1>3, <1>4 DEF Next

\* Every call that comes, leaves or is handed a slot keeps counter, queue and the
\* calls inside together.
LEMMA SlotStep ==
  IInv /\ [Next]_vars => SlotsOK' /\ QueueInv' /\ CounterInv'
<1> SUFFICES ASSUME IInv, [Next]_vars PROVE SlotsOK' /\ QueueInv' /\ CounterInv'
  OBVIOUS
<1>a. SlotsOK /\ QueueInv /\ CounterInv /\ IsFiniteSet(Holders)
  BY HoldersFinite DEF IInv
<1> USE LimiterAssumption DEF LimiterAssumption
<1>1. ASSUME UNCHANGED <<waitQueue, running>>, status' \in [Task -> Status], Holders' = Holders,
             \A t \in Task : status[t] = "queued" => status'[t] = "queued"
      PROVE  SlotsOK' /\ QueueInv' /\ CounterInv'
  BY <1>1, <1>a DEF SlotsOK, QueueInv, CounterInv
<1>2. ASSUME NEW t \in Task, Call(t), running < Concurrency
      PROVE  SlotsOK' /\ QueueInv' /\ CounterInv'
  <2>1. /\ status[t] = "idle" /\ status' = [status EXCEPT ![t] = "slot"]
        /\ running' = running + 1 /\ waitQueue' = waitQueue /\ waitQueue = <<>>
    BY <1>2, <1>a DEF Call, CounterInv, SlotsOK
  <2>2. Holders' = Holders \cup {t} /\ t \notin Holders
    BY <1>a, <2>1 DEF Holders, SlotsOK
  <2>3. CounterInv'
    <3>1. Cardinality(Holders') = Cardinality(Holders) + 1
      BY <1>a, <2>2, FS_AddElement
    <3> QED BY <1>2, <1>a, <2>1, <3>1 DEF CounterInv, SlotsOK
  <2>4. SlotsOK' /\ QueueInv'
    BY <1>a, <2>1 DEF SlotsOK, QueueInv, Status
  <2> QED BY <2>3, <2>4
<1>3. ASSUME NEW t \in Task, Call(t), running >= Concurrency
      PROVE  SlotsOK' /\ QueueInv' /\ CounterInv'
  <2>1. /\ status[t] = "idle" /\ status' = [status EXCEPT ![t] = "queued"]
        /\ running' = running /\ waitQueue' = Append(waitQueue, t)
    BY <1>3, <1>a DEF Call, SlotsOK
  <2>2. Holders' = Holders
    BY <1>a, <2>1 DEF Holders, SlotsOK
  <2>3. CounterInv'
    BY <1>3, <1>a, <2>1, <2>2 DEF CounterInv, SlotsOK
  <2>4. SlotsOK'
    BY <1>a, <2>1 DEF SlotsOK, Status
  <2>5. /\ Len(waitQueue') = Len(waitQueue) + 1 /\ waitQueue'[Len(waitQueue')] = t
        /\ \A i \in 1..Len(waitQueue) : waitQueue'[i] = waitQueue[i] /\ waitQueue[i] # t
        /\ Len(waitQueue) \in Nat
    BY <1>a, <2>1 DEF SlotsOK, QueueInv
  <2>6. \A i \in 1..Len(waitQueue') : i = Len(waitQueue') \/ i \in 1..Len(waitQueue)
    BY <2>5
  <2>7. \A i \in 1..Len(waitQueue) : status'[waitQueue[i]] = "queued"
    BY <1>a, <2>1, <2>5 DEF SlotsOK, QueueInv
  <2>8. QueueInv'
    BY <1>a, <2>1, <2>5, <2>6, <2>7 DEF SlotsOK, QueueInv
  <2> QED BY <2>3, <2>4, <2>8
<1>4. ASSUME NEW t \in Task, CheckBucket(t)
      PROVE  SlotsOK' /\ QueueInv' /\ CounterInv'
  <2>1. /\ status[t] \in {"slot", "asleep"} /\ UNCHANGED <<waitQueue, running>>
        /\ \E s \in {"working", "asleep"} : status' = [status EXCEPT ![t] = s]
    BY <1>4 DEF CheckBucket
  <2>2. Holders' = Holders /\ status' \in [Task -> Status]
        /\ \A u \in Task : status[u] = "queued" => status'[u] = "queued"
    BY <1>a, <2>1 DEF Holders, SlotsOK, Status
  <2> QED BY <1>1, <2>1, <2>2
<1>5. ASSUME NEW t \in Task, Finish(t), waitQueue = <<>>
      PROVE  SlotsOK' /\ QueueInv' /\ CounterInv'
  <2>1. /\ status[t] = "working" /\ status' = [status EXCEPT ![t] = "done"]
        /\ running' = running - 1 /\ waitQueue' = <<>>
    BY <1>5 DEF Finish
  <2>2. Holders' = Holders \ {t} /\ t \in Holders
    BY <1>a, <2>1 DEF Holders, SlotsOK
  <2>3. CounterInv'
    <3>1. Cardinality(Holders') = Cardinality(Holders) - 1
      BY <1>a, <2>2, FS_RemoveElement
    <3> QED BY <1>a, <2>1, <3>1 DEF CounterInv, SlotsOK
  <2>4. SlotsOK' /\ QueueInv'
    BY <1>a, <2>1 DEF SlotsOK, QueueInv, Status
  <2> QED BY <2>3, <2>4
<1>6. ASSUME NEW t \in Task, Finish(t), waitQueue # <<>>
      PROVE  SlotsOK' /\ QueueInv' /\ CounterInv'
  <2> DEFINE next == Head(waitQueue)
  <2>1. /\ status[t] = "working" /\ running' = running /\ waitQueue' = Tail(waitQueue)
        /\ status' = [status EXCEPT ![t] = "done", ![next] = "slot"]
    BY <1>6, <1>a DEF Finish, SlotsOK
  <2>2. next \in Task /\ status[next] = "queued" /\ next = waitQueue[1] /\ Len(waitQueue) >= 1
    BY <1>6, <1>a DEF SlotsOK, QueueInv
  <2>3. Holders' = (Holders \ {t}) \cup {next} /\ t \in Holders /\ next \notin Holders
    BY <1>a, <2>1, <2>2 DEF Holders, SlotsOK
  <2>4. Cardinality(Holders') = Cardinality(Holders)
    <3>1. IsFiniteSet(Holders \ {t}) /\ Cardinality(Holders \ {t}) = Cardinality(Holders) - 1
      BY <1>a, <2>3, FS_RemoveElement
    <3>2. Cardinality((Holders \ {t}) \cup {next}) = Cardinality(Holders \ {t}) + 1
      BY <2>3, <3>1, FS_AddElement
    <3> QED BY <1>a, <2>3, <3>1, <3>2 DEF CounterInv, SlotsOK
  <2>5. CounterInv'
    BY <1>6, <1>a, <2>1, <2>4 DEF CounterInv
  <2>6. SlotsOK'
    <3>1. status' \in [Task -> Status]
      BY <1>6, <1>a, <2>1, <2>2 DEF SlotsOK, Status
    <3>2. waitQueue' \in Seq(Task)
      <4>1. waitQueue \in Seq(Task) /\ waitQueue # <<>>
        BY <1>a, <2>2 DEF SlotsOK
      <4> QED BY <2>1, <4>1
    <3> QED BY <1>a, <2>1, <3>1, <3>2 DEF SlotsOK
  <2>7. /\ Len(waitQueue') = Len(waitQueue) - 1
        /\ \A i \in 1..Len(waitQueue') : waitQueue'[i] = waitQueue[i + 1]
    BY <1>6, <1>a, <2>1 DEF SlotsOK
  <2>8. \A i \in 1..Len(waitQueue') :
          i + 1 \in 1..Len(waitQueue) /\ waitQueue[i + 1] \in Task
          /\ waitQueue[i + 1] # t /\ waitQueue[i + 1] # next
    <3> SUFFICES ASSUME NEW i \in 1..Len(waitQueue')
                 PROVE  /\ i + 1 \in 1..Len(waitQueue) /\ waitQueue[i + 1] \in Task
                        /\ waitQueue[i + 1] # t /\ waitQueue[i + 1] # next
      OBVIOUS
    <3>1. Len(waitQueue) \in Nat /\ i + 1 \in 1..Len(waitQueue) /\ 1 \in 1..Len(waitQueue)
      BY <1>a, <2>2, <2>7 DEF SlotsOK
    <3>2. waitQueue[i + 1] \in Task /\ status[waitQueue[i + 1]] = "queued"
      BY <1>a, <3>1 DEF SlotsOK, QueueInv
    <3>3. waitQueue[i + 1] # waitQueue[1]
      BY <1>a, <3>1 DEF QueueInv
    <3> QED BY <2>1, <2>2, <3>1, <3>2, <3>3
  <2>9. QueueInv'
    <3>1. ASSUME NEW u \in Task, u # t, u # next PROVE status'[u] = status[u]
      BY <1>a, <2>1, <3>1 DEF SlotsOK
    <3>2. \A i \in 1..Len(waitQueue') : status'[waitQueue'[i]] = "queued"
      BY <1>a, <2>7, <2>8, <3>1 DEF QueueInv
    <3>3. \A i, j \in 1..Len(waitQueue') : waitQueue'[i] = waitQueue'[j] => i = j
      <4> SUFFICES ASSUME NEW i \in 1..Len(waitQueue'), NEW j \in 1..Len(waitQueue'),
                          waitQueue'[i] = waitQueue'[j]
                   PROVE  i = j
        OBVIOUS
      <4>1. waitQueue[i + 1] = waitQueue[j + 1]
        BY <2>7
      <4>2. i + 1 = j + 1
        BY <1>a, <2>8, <4>1 DEF QueueInv
      <4> QED BY <4>2
    <3> QED BY <3>2, <3>3 DEF QueueInv
  <2> QED BY <2>5, <2>6, <2>9
<1>7. CASE ClockTick
  BY <1>7, <1>1, <1>a DEF ClockTick, Holders, SlotsOK
<1>8. CASE UNCHANGED vars
  BY <1>8, <1>1, <1>a DEF vars, Holders, SlotsOK
<1>9. running < Concurrency \/ running >= Concurrency
  BY <1>a DEF SlotsOK
<1> QED BY <1>2, <1>3, <1>4, <1>5, <1>6, <1>7, <1>8, <1>9 DEF Next

LEMMA Inductive == Spec => []IInv
<1>1. IInv /\ [Next]_vars => IInv'
  BY BucketStep, SlotStep DEF IInv
<1> QED BY InitIInv, <1>1, PTL DEF Spec

\* Never more than `concurrency' calls hold a slot, and none waits while one is free:
\* whatever the calls, their costs and the rate.
THEOREM Exactness == Spec => []SlotsExact
<1>1. IInv => SlotsExact
  BY DEF IInv, BucketOK, SlotsOK, CounterInv, TypeOK, SlotsExact
<1> QED BY Inductive, <1>1, PTL

\* A slot is taken by the oldest call that waits, or by a call that comes when none
\* waits.
THEOREM FirstInFirstOut == Spec => NoOvertaking
<1>1. ASSUME IInv, [Next]_vars
      PROVE  [\A t \in Task :
                status[t] \in {"idle", "queued"} /\ status'[t] = "slot" =>
                  waitQueue = <<>> \/ t = Head(waitQueue)]_vars
  <2> SUFFICES ASSUME Next, NEW t \in Task, status[t] \in {"idle", "queued"},
                      status'[t] = "slot", waitQueue # <<>>
               PROVE  t = Head(waitQueue)
    BY <1>1
  <2>1. SlotsOK /\ running = Concurrency
    BY <1>1 DEF IInv, CounterInv
  <2>2. ASSUME NEW u \in Task, Call(u) PROVE t = Head(waitQueue)
    BY <2>1, <2>2, LimiterAssumption DEF Call, SlotsOK, LimiterAssumption
  <2>3. ASSUME NEW u \in Task, CheckBucket(u) PROVE t = Head(waitQueue)
    BY <2>1, <2>3 DEF CheckBucket, SlotsOK
  <2>4. ASSUME NEW u \in Task, Finish(u) PROVE t = Head(waitQueue)
    BY <2>1, <2>4 DEF Finish, SlotsOK
  <2>5. CASE ClockTick
    BY <2>5 DEF ClockTick
  <2> QED BY <2>2, <2>3, <2>4, <2>5 DEF Next
<1> QED BY Inductive, <1>1, PTL DEF Spec, NoOvertaking

-----------------------------------------------------------------------------
(* Sums.  FoldFunction adds in an order it chooses; what it adds up to does *)
(* not depend on it.                                                       *)

\* A set of naturals has a least member, and induction follows.
LEMMA Least ==
  ASSUME NEW S \in SUBSET Nat, S # {}
  PROVE  \E m \in S : \A n \in S : m <= n
<1> DEFINE R == OpToRel(<, Nat)
<1>1. IsWellFoundedOn(R, Nat)
  BY NatLessThanWellFounded, Zenon
<1>2. ASSUME NEW m \in Nat, NEW n \in Nat, m < n PROVE <<m, n>> \in R
  BY <1>2 DEF OpToRel
<1> HIDE DEF R
<1>3. PICK m \in S : \A n \in S : ~(<<n, m>> \in R)
  BY <1>1, WFMin
<1>4. \A n \in S : ~(n < m)
  BY <1>2, <1>3
<1>5. \A n \in S : m <= n
  BY <1>4
<1> QED BY <1>5

LEMMA Induction ==
  ASSUME NEW S, 0 \in S, \A n \in Nat : n \in S => n + 1 \in S
  PROVE  Nat \subseteq S
<1> SUFFICES ASSUME Nat \ S # {} PROVE FALSE
  OBVIOUS
<1>1. PICK m \in Nat \ S : \A n \in Nat \ S : m <= n
  <2>1. Nat \ S \in SUBSET Nat
    OBVIOUS
  <2> QED BY <2>1, Least
<1>2. m # 0
  OBVIOUS
<1>3. m - 1 \in S /\ m - 1 \in Nat
  BY <1>1, <1>2
<1> QED BY <1>3

\* g adds up what f says of each subset of S.
FirstAndRest(f, g, T) == LET x == CHOOSE x \in T : TRUE IN f[x] + g[T \ {x}]
AddsUp(f, S, g) == g = [T \in SUBSET S |-> IF T = {} THEN 0 ELSE FirstAndRest(f, g, T)]

UpTo(S, k) == {T \in SUBSET S : IsFiniteSet(T) /\ Cardinality(T) <= k}

LEMMA SumExists ==
  ASSUME NEW S, IsFiniteSet(S), NEW f \in [S -> Nat]
  PROVE  \E g : AddsUp(f, S, g)
<1> DEFINE Partly(g, k) == \A T \in UpTo(S, k) : g[T] = IF T = {} THEN 0 ELSE FirstAndRest(f, g, T)
           Reached(k) == \E g \in [SUBSET S -> Nat] : Partly(g, k)
           G == {k \in Nat : Reached(k)}
<1>1. 0 \in G
  <2>1. [T \in SUBSET S |-> 0] \in [SUBSET S -> Nat]
    OBVIOUS
  <2>2. \A T \in UpTo(S, 0) : T = {}
    BY FS_EmptySet, FS_CardinalityType DEF UpTo
  <2>3. \A T \in UpTo(S, 0) : [U \in SUBSET S |-> 0][T] = 0
    BY DEF UpTo
  <2> QED BY <2>1, <2>2, <2>3
<1>2. ASSUME NEW k \in Nat, k \in G PROVE k + 1 \in G
  <2>1. PICK g \in [SUBSET S -> Nat] : Partly(g, k)
    BY <1>2
  <2> DEFINE h == [T \in SUBSET S |-> IF T = {} THEN 0 ELSE FirstAndRest(f, g, T)]
  <2>2. ASSUME NEW T \in SUBSET S, T # {}
        PROVE  /\ (CHOOSE x \in T : TRUE) \in T
               /\ FirstAndRest(f, g, T) \in Nat
    BY <2>2 DEF FirstAndRest
  <2>3. h \in [SUBSET S -> Nat]
    BY <2>2
  <2>4. ASSUME NEW T \in UpTo(S, k) PROVE h[T] = g[T]
    BY <2>1 DEF UpTo
  <2>5. ASSUME NEW T \in UpTo(S, k + 1), T # {} PROVE FirstAndRest(f, h, T) = FirstAndRest(f, g, T)
    <3> DEFINE x == CHOOSE x \in T : TRUE
    <3>1. x \in T /\ T \in SUBSET S /\ IsFiniteSet(T) /\ Cardinality(T) <= k + 1
      BY <2>2, <2>5 DEF UpTo
    <3> HIDE DEF x
    <3>2. IsFiniteSet(T \ {x}) /\ Cardinality(T \ {x}) = Cardinality(T) - 1
      BY <3>1, FS_RemoveElement
    <3>3. Cardinality(T) \in Nat
      BY <3>1, FS_CardinalityType
    <3>4. T \ {x} \in UpTo(S, k)
      BY <3>1, <3>2, <3>3 DEF UpTo
    <3>5. h[T \ {x}] = g[T \ {x}]
      BY <2>4, <3>4
    <3> HIDE DEF h
    <3> QED BY <3>5 DEF FirstAndRest, x
  <2>6. Partly(h, k + 1)
    <3> SUFFICES ASSUME NEW T \in UpTo(S, k + 1) PROVE h[T] = IF T = {} THEN 0 ELSE FirstAndRest(f, h, T)
      OBVIOUS
    <3>1. T \in SUBSET S
      BY DEF UpTo
    <3>2. h[T] = IF T = {} THEN 0 ELSE FirstAndRest(f, g, T)
      BY <3>1
    <3> HIDE DEF h
    <3> QED BY <2>5, <3>2
  <2> HIDE DEF h
  <2>7. Reached(k + 1)
    <3> HIDE DEF Partly
    <3> QED BY <2>3, <2>6
  <2> HIDE DEF Reached
  <2> QED BY <2>7
<1>3. Cardinality(S) \in G
  <2> HIDE DEF G
  <2> QED BY <1>1, <1>2, Induction, FS_CardinalityType
<1>4. PICK g \in [SUBSET S -> Nat] : Partly(g, Cardinality(S))
  BY <1>3
<1>5. \A T \in SUBSET S : T \in UpTo(S, Cardinality(S))
  BY FS_Subset DEF UpTo
<1>6. \A T \in SUBSET S : g[T] = IF T = {} THEN 0 ELSE FirstAndRest(f, g, T)
  BY <1>4, <1>5
<1>7. g = [T \in SUBSET S |-> g[T]]
  OBVIOUS
<1>8. g = [T \in SUBSET S |-> IF T = {} THEN 0 ELSE FirstAndRest(f, g, T)]
  BY <1>6, <1>7
<1> QED BY <1>8 DEF AddsUp

Splits(f, S, g) == \A T \in SUBSET S : \A x \in T : g[T] = f[x] + g[T \ {x}]

\* Any element may be added last.
LEMMA SumSplits ==
  ASSUME NEW S, IsFiniteSet(S), NEW f \in [S -> Nat], NEW g, AddsUp(f, S, g)
  PROVE  g[{}] = 0 /\ Splits(f, S, g) /\ g \in [SUBSET S -> Nat]
<1> DEFINE Sums(T) == g[T] \in Nat /\ \A x \in T : g[T] = f[x] + g[T \ {x}]
           G == {k \in Nat : \A T \in SUBSET S : Cardinality(T) <= k => Sums(T)}
<1>1. g[{}] = 0
  BY DEF AddsUp
<1>2. \A T \in SUBSET S : T # {} => \E x \in T : g[T] = f[x] + g[T \ {x}]
  BY DEF AddsUp, FirstAndRest
<1>3. \A T \in SUBSET S : IsFiniteSet(T) /\ Cardinality(T) \in Nat
  BY FS_Subset, FS_CardinalityType
<1>4. 0 \in G
  <2>1. \A T \in SUBSET S : Cardinality(T) <= 0 => T = {}
    BY <1>3, FS_EmptySet
  <2> QED BY <1>1, <2>1
<1>5. ASSUME NEW k \in Nat, k \in G PROVE k + 1 \in G
  <2>1. Sums({})
    BY <1>1
  <2> SUFFICES ASSUME NEW T \in SUBSET S, Cardinality(T) <= k + 1, T # {} PROVE Sums(T)
    <3> HIDE DEF Sums
    <3> QED BY <2>1
  <2>2. PICK y \in T : g[T] = f[y] + g[T \ {y}]
    BY <1>2
  <2>3. \A U \in SUBSET S : \A x \in U :
          Cardinality(U) <= k + 1 => U \ {x} \in SUBSET S /\ Cardinality(U \ {x}) <= k
    <3> SUFFICES ASSUME NEW U \in SUBSET S, NEW x \in U, Cardinality(U) <= k + 1
                 PROVE  Cardinality(U \ {x}) <= k
      OBVIOUS
    <3>1. Cardinality(U \ {x}) = Cardinality(U) - 1
      BY <1>3, FS_RemoveElement
    <3> QED BY <1>3, <3>1
  <2>4. \A x \in T : Sums(T \ {x})
    BY <1>5, <2>3
  <2>5. f[y] \in Nat /\ g[T] \in Nat
    BY <2>2, <2>4
  <2>6. ASSUME NEW x \in T, x # y PROVE g[T] = f[x] + g[T \ {x}]
    <3> DEFINE U == (T \ {x}) \ {y}
    <3>1. g[T \ {x}] = f[y] + g[U]
      BY <2>4, <2>6
    <3>2. (T \ {y}) \ {x} = U
      OBVIOUS
    <3>3. g[T \ {y}] = f[x] + g[U]
      BY <2>4, <2>6, <3>2
    <3>4. g[U] \in Nat /\ f[x] \in Nat
      <4>1. U \in SUBSET S /\ T \ {x} \in SUBSET S /\ y \in T \ {x}
        BY <2>6
      <4>2. Cardinality(T \ {x}) <= k /\ Cardinality(T \ {x}) \in Nat
        BY <1>3, <2>3
      <4>3. Cardinality(U) <= k
        <5>1. Cardinality(T \ {x}) <= k + 1
          BY <4>2
        <5> QED BY <2>3, <4>1, <5>1
      <4> QED BY <1>5, <4>1, <4>3
    <3> HIDE DEF U
    <3> QED BY <2>2, <2>5, <3>1, <3>3, <3>4
  <2> QED BY <2>2, <2>5, <2>6
<1>6. Nat \subseteq G
  <2> HIDE DEF G
  <2> QED BY <1>4, <1>5, Induction
<1>7. ASSUME NEW T \in SUBSET S PROVE Sums(T)
  <2>1. Cardinality(T) \in G /\ Cardinality(T) <= Cardinality(T)
    BY <1>3, <1>6
  <2> HIDE DEF Sums
  <2> QED BY <2>1
<1>8. g \in [SUBSET S -> Nat]
  BY <1>7 DEF AddsUp
<1> QED BY <1>1, <1>7, <1>8 DEF Splits

\* So FoldFunction takes the elements apart in any order.
LEMMA FoldSplits ==
  ASSUME NEW S, IsFiniteSet(S), NEW f \in [S -> Nat]
  PROVE  \E g \in [SUBSET S -> Nat] : Total(f) = g[S] /\ g[{}] = 0 /\ Splits(f, S, g)
<1> DEFINE g == CHOOSE h : AddsUp(f, DOMAIN f, h)
<1>1. Total(f) = g[DOMAIN f]
  BY DEF Total, FoldFunction, FoldFunctionOnSet, MapThenFoldSet, AddsUp, FirstAndRest
<1>2. DOMAIN f = S
  OBVIOUS
<1>3. \E h : AddsUp(f, DOMAIN f, h)
  BY <1>2, SumExists
<1>4. AddsUp(f, DOMAIN f, g)
  BY <1>3
<1> HIDE DEF g
<1>5. AddsUp(f, S, g)
  BY <1>2, <1>4
<1>6. g[{}] = 0 /\ Splits(f, S, g) /\ g \in [SUBSET S -> Nat]
  BY <1>5, SumSplits
<1>7. Total(f) = g[S]
  BY <1>1, <1>2
<1> QED BY <1>6, <1>7

\* The fold over a list adds it up from its end.
LEMMA SumOfList ==
  ASSUME NEW n \in Nat, NEW f \in [1..n -> Nat], NEW s, s[n + 1] = 0,
         \A i \in 1..n : s[i] = f[i] + s[i + 1]
  PROVE  Total(f) = s[1]
<1>1. IsFiniteSet(1..n)
  BY FS_Interval
<1>2. PICK g : Total(f) = g[1..n] /\ g[{}] = 0 /\ Splits(f, 1..n, g)
  BY <1>1, FoldSplits
<1> DEFINE Agree(i) == g[i..n] = s[i]
           G == {k \in Nat : k <= n => Agree(n + 1 - k)}
<1>3. 0 \in G
  <2>1. n + 1..n = {} /\ n + 1 - 0 = n + 1
    OBVIOUS
  <2>2. Agree(n + 1)
    BY <1>2, <2>1
  <2> HIDE DEF Agree
  <2> QED BY <2>1, <2>2
<1>4. ASSUME NEW k \in Nat, k \in G PROVE k + 1 \in G
  <2> SUFFICES ASSUME k + 1 <= n PROVE Agree(n + 1 - (k + 1))
    OBVIOUS
  <2>1. PICK i \in 1..n : i = n + 1 - (k + 1)
    OBVIOUS
  <2>2. i + 1 = n + 1 - k /\ k <= n
    BY <2>1
  <2>3. Agree(i + 1)
    <3> HIDE DEF Agree
    <3> QED BY <1>4, <2>2
  <2>4. i..n \in SUBSET (1..n) /\ i \in i..n
    OBVIOUS
  <2>5. \A j : j \in (i..n) \ {i} <=> j \in i + 1..n
    OBVIOUS
  <2>6. (i..n) \ {i} = i + 1..n
    BY <2>5, Zenon
  <2>7. g[i..n] = f[i] + g[i + 1..n]
    <3>1. g[i..n] = f[i] + g[(i..n) \ {i}]
      BY <1>2, <2>4, Zenon DEF Splits
    <3> QED BY <2>6, <3>1, Zenon
  <2>8. Agree(i)
    BY <2>3, <2>7
  <2> HIDE DEF Agree
  <2> QED BY <2>1, <2>8
<1>5. n \in G
  <2> HIDE DEF G
  <2> QED BY <1>3, <1>4, Induction
<1>6. n + 1 - n = 1 /\ n <= n
  OBVIOUS
<1>7. Agree(1)
  <2> HIDE DEF Agree
  <2> QED BY <1>5, <1>6
<1> QED BY <1>2, <1>7

-----------------------------------------------------------------------------
(* What a minute can see.                                                  *)

Available == Lesser(MaxTokens, tokens + sinceRefill)

\* Since any unit of the last minute no more was spent than a full bucket and what
\* was refilled after it, less what is still there.  s[i] is what was spent in the
\* units from i on.
Spends(s, n, log, available) ==
  /\ s \in [1..n + 1 -> Nat] /\ s[n + 1] = 0
  /\ \A i \in 1..n : s[i] = log[i] + s[i + 1]
  /\ \A i \in 1..n + 1 : s[i] + available <= n + (n + 1 - i)

Spending(s) == Spends(s, rpm, minuteLog, Available)

BurstInv == \E s : Spending(s)

LEMMA InitBurst == Init => BurstInv
<1> SUFFICES ASSUME Init PROVE BurstInv
  OBVIOUS
<1>1. rpm \in Nat
  BY LimiterAssumption DEF Init, LimiterAssumption
<1>2. Spending([i \in 1..rpm + 1 |-> 0])
  BY <1>1 DEF Init, Spending, Spends, Available, MaxTokens, Lesser
<1> QED BY <1>2 DEF BurstInv

\* A call takes its cost in the present unit.
LEMMA TakeKeepsBound ==
  ASSUME NEW n \in Nat \ {0}, NEW log \in [1..n -> Nat], NEW a \in Nat, NEW c \in Nat, c <= a,
         NEW s, Spends(s, n, log, a)
  PROVE  \E r : Spends(r, n, [log EXCEPT ![n] = @ + c], a - c)
<1> DEFINE new == [log EXCEPT ![n] = @ + c]
           r == [i \in 1..n + 1 |-> IF i = n + 1 THEN 0 ELSE s[i] + c]
<1>1. \A i \in 1..n + 1 : s[i] \in Nat /\ s[i] + a <= n + (n + 1 - i)
  BY DEF Spends
<1>2. r \in [1..n + 1 -> Nat] /\ r[n + 1] = 0
  BY <1>1
<1>3. ASSUME NEW i \in 1..n PROVE r[i] = new[i] + r[i + 1]
  <2>1. s[i] = log[i] + s[i + 1] /\ s[n + 1] = 0 /\ i + 1 \in 1..n + 1
    BY DEF Spends
  <2>2. log[i] \in Nat /\ s[i + 1] \in Nat
    BY <1>1, <2>1
  <2>3. r[i] = s[i] + c
    OBVIOUS
  <2>4. CASE i = n
    <3>1. r[i + 1] = 0 /\ new[i] = log[i] + c
      BY <2>4
    <3> HIDE DEF r, new
    <3> QED BY <2>1, <2>2, <2>3, <2>4, <3>1
  <2>5. CASE i # n
    <3>1. r[i + 1] = s[i + 1] + c /\ new[i] = log[i]
      BY <2>5
    <3> HIDE DEF r, new
    <3> QED BY <2>1, <2>2, <2>3, <3>1
  <2> QED BY <2>4, <2>5
<1>4. ASSUME NEW i \in 1..n + 1 PROVE r[i] + (a - c) <= n + (n + 1 - i)
  <2>1. CASE i = n + 1
    <3>1. r[i] = 0 /\ s[i] + a <= n + (n + 1 - i) /\ s[i] \in Nat
      BY <1>1, <2>1
    <3> HIDE DEF r
    <3> QED BY <3>1
  <2>2. CASE i # n + 1
    <3>1. r[i] = s[i] + c /\ s[i] + a <= n + (n + 1 - i) /\ s[i] \in Nat
      BY <1>1, <2>2
    <3> HIDE DEF r
    <3> QED BY <3>1
  <2> QED BY <2>1, <2>2
<1> HIDE DEF r, new
<1>5. Spends(r, n, new, a - c)
  BY <1>2, <1>3, <1>4 DEF Spends
<1> QED BY <1>5 DEF new

\* A unit of time passes: the oldest is forgotten and at most one token is refilled.
LEMMA TimeKeepsBound ==
  ASSUME NEW n \in Nat, NEW log \in [1..n -> Nat], NEW a \in Nat, NEW b \in 0..n, b <= a + 1,
         NEW s, Spends(s, n, log, a)
  PROVE  \E r : Spends(r, n, [i \in 1..n |-> IF i < n THEN log[i + 1] ELSE 0], b)
<1> DEFINE new == [i \in 1..n |-> IF i < n THEN log[i + 1] ELSE 0]
           r == [i \in 1..n + 1 |-> IF i = n + 1 THEN 0 ELSE s[i + 1]]
<1>1. \A i \in 1..n + 1 : s[i] \in Nat /\ s[i] + a <= n + (n + 1 - i)
  BY DEF Spends
<1>2. r \in [1..n + 1 -> Nat] /\ r[n + 1] = 0
  BY <1>1
<1>3. ASSUME NEW i \in 1..n PROVE r[i] = new[i] + r[i + 1]
  <2>1. CASE i = n
    <3>1. r[i] = 0 /\ new[i] = 0 /\ r[i + 1] = 0
      BY <2>1 DEF Spends
    <3> HIDE DEF r, new
    <3> QED BY <3>1
  <2>2. CASE i # n
    <3>1. i + 1 \in 1..n /\ i + 2 \in 1..n + 1 /\ i + 1 + 1 = i + 2 /\ i < n
      BY <2>2
    <3>2. s[i + 1] = log[i + 1] + s[i + 2]
      BY <3>1 DEF Spends
    <3>3. r[i] = s[i + 1] /\ r[i + 1] = s[i + 2] /\ new[i] = log[i + 1]
      BY <3>1
    <3> QED BY <3>2, <3>3
  <2> QED BY <2>1, <2>2
<1>4. ASSUME NEW i \in 1..n + 1 PROVE r[i] + b <= n + (n + 1 - i)
  <2>1. CASE i = n + 1
    <3>1. r[i] = 0
      BY <2>1
    <3> HIDE DEF r
    <3> QED BY <2>1, <3>1
  <2>2. CASE i # n + 1
    <3>1. s[i + 1] + a <= n + (n + 1 - (i + 1)) /\ s[i + 1] \in Nat
      BY <1>1, <2>2
    <3>2. r[i] = s[i + 1]
      BY <2>2
    <3> HIDE DEF r
    <3> QED BY <3>1, <3>2
  <2> QED BY <2>1, <2>2
<1> HIDE DEF r, new
<1>5. Spends(r, n, new, b)
  BY <1>2, <1>3, <1>4 DEF Spends
<1> QED BY <1>5 DEF new

LEMMA BurstStep ==
  ASSUME BucketOK, BucketOK', BurstInv, [Next]_vars
  PROVE  BurstInv'
<1>1. rpm \in Nat /\ tokens \in 0..rpm /\ sinceRefill \in 0..rpm /\ minuteLog \in [1..rpm -> Nat]
  BY LimiterAssumption DEF BucketOK, LimiterAssumption, MaxTokens
<1>2. PICK s : Spending(s)
  BY DEF BurstInv
<1>3. Available \in 0..rpm /\ Available \in Nat /\ Available = Refilled
  BY <1>1 DEF Available, Refilled, Lesser, MaxTokens
<1>4. ASSUME rpm' = rpm, minuteLog' = minuteLog, Available' = Available PROVE BurstInv'
  BY <1>2, <1>4 DEF Spending, BurstInv
<1>5. CASE UNCHANGED bucketVars
  BY <1>4, <1>5 DEF bucketVars, Available, MaxTokens
<1>6. ASSUME NEW t \in Task, CheckBucket(t), Limited, Refilled < Cost[t] PROVE BurstInv'
  <2>1. tokens' = Refilled /\ sinceRefill' = 0 /\ rpm' = rpm /\ minuteLog' = minuteLog
    BY <1>1, <1>3, <1>6, LimiterAssumption DEF CheckBucket, LimiterAssumption
  <2>2. Available' = Available
    BY <1>1, <1>3, <2>1 DEF Available, Lesser, MaxTokens
  <2> QED BY <1>4, <2>1, <2>2
<1>7. ASSUME NEW t \in Task, CheckBucket(t), Limited, Refilled >= Cost[t] PROVE BurstInv'
  <2>1. Cost[t] \in Nat /\ Cost[t] <= Available /\ rpm \in Nat \ {0}
    BY <1>1, <1>3, <1>7, LimiterAssumption DEF LimiterAssumption, Limited
  <2>2. /\ tokens' = Refilled - Cost[t] /\ sinceRefill' = 0 /\ rpm' = rpm
        /\ minuteLog' = [minuteLog EXCEPT ![rpm] = @ + Cost[t]]
    BY <1>1, <1>3, <1>7, LimiterAssumption DEF CheckBucket, LimiterAssumption
  <2>3. Available' = Available - Cost[t]
    BY <1>1, <1>3, <2>1, <2>2 DEF Available, Lesser, MaxTokens
  <2>4. PICK r : Spends(r, rpm, minuteLog', Available')
    BY <1>1, <1>2, <1>3, <2>1, <2>2, <2>3, TakeKeepsBound DEF Spending
  <2> QED BY <2>2, <2>4 DEF Spending, BurstInv
<1>8. CASE ClockTick
  <2>1. /\ rpm' = rpm /\ tokens' = tokens /\ sinceRefill' = Lesser(rpm, sinceRefill + 1)
        /\ minuteLog' = [i \in 1..rpm |-> IF i < rpm THEN minuteLog[i + 1] ELSE 0]
    BY <1>8 DEF ClockTick, MaxTokens
  <2>2. Available' <= Available + 1 /\ Available' \in 0..rpm
    BY <1>1, <2>1 DEF Available, Lesser, MaxTokens
  <2>3. PICK r : Spends(r, rpm, minuteLog', Available')
    BY <1>1, <1>2, <1>3, <2>1, <2>2, TimeKeepsBound DEF Spending
  <2> QED BY <2>1, <2>3 DEF Spending, BurstInv
<1>9. ASSUME NEW t \in Task, CheckBucket(t) PROVE BurstInv'
  <2>1. Cost[t] \in Nat
    BY LimiterAssumption DEF LimiterAssumption
  <2>2. CASE ~Limited
    BY <1>5, <1>9, <2>2 DEF CheckBucket
  <2>3. Refilled < Cost[t] \/ Refilled >= Cost[t]
    BY <1>3, <2>1
  <2> QED BY <1>6, <1>7, <1>9, <2>2, <2>3
<1>10. ASSUME NEW t \in Task, Call(t) \/ Finish(t) PROVE BurstInv'
  BY <1>5, <1>10 DEF Call, Finish
<1> QED BY <1>5, <1>8, <1>9, <1>10 DEF Next, vars, bucketVars

\* A full bucket and one minute's refill is all a minute can see, however the calls
\* come and whatever they cost.
THEOREM MinuteBound == Spec => []BurstBound
<1>1. BucketOK /\ BurstInv => BurstBound
  <2> SUFFICES ASSUME BucketOK, NEW s, Spending(s) PROVE SpentInMinute <= 2 * rpm
    BY DEF BurstInv, BurstBound
  <2>1. rpm \in Nat /\ minuteLog \in [1..rpm -> Nat] /\ tokens \in Nat /\ sinceRefill \in Nat
    BY LimiterAssumption DEF BucketOK, LimiterAssumption, MaxTokens
  <2>2. SpentInMinute = s[1]
    <3>1. SpentInMinute = Total(minuteLog)
      BY Zenon DEF SpentInMinute, Total
    <3> QED BY <2>1, <3>1, SumOfList DEF Spending, Spends
  <2>3. s[1] \in Nat /\ s[1] + Available <= rpm + rpm /\ Available \in Nat
    BY <2>1 DEF Spending, Spends, Available, Lesser, MaxTokens
  <2> QED BY <2>1, <2>2, <2>3
<1>2. IInv /\ BurstInv /\ [Next]_vars => (IInv /\ BurstInv)'
  BY BucketStep, SlotStep, BurstStep DEF IInv
<1>3. IInv => BucketOK
  BY DEF IInv
<1> QED BY InitIInv, InitBurst, <1>1, <1>2, <1>3, PTL DEF Spec

-----------------------------------------------------------------------------
(* The rounded arithmetic of the backtest's pools, for every amount, pool   *)
(* and fee.                                                                *)

Pool == [taoIn : Nat \ {0}, alphaIn : Nat \ {0}]

LEMMA Division ==
  ASSUME NEW a \in Nat, NEW b \in Nat \ {0}
  PROVE  /\ a \div b \in Nat
         /\ (a \div b) * b <= a
         /\ a < (a \div b) * b + b
OBVIOUS

LEMMA Cancel ==
  ASSUME NEW a \in Int, NEW b \in Int, NEW c \in Nat \ {0}, a * c < b * c
  PROVE  a < b
OBVIOUS

LEMMA Times ==
  ASSUME NEW a \in Int, NEW b \in Int, NEW c \in Nat, a <= b
  PROVE  a * c <= b * c
OBVIOUS

LEMMA CeilDivision ==
  ASSUME NEW a \in Nat, NEW b \in Nat \ {0}
  PROVE  CeilDiv(a, b) \in Nat /\ a <= CeilDiv(a, b) * b
<1>1. a + b - 1 \in Nat
  OBVIOUS
<1> QED BY <1>1, Division DEF CeilDiv

\* What comes out of the pool is less than it holds and keeps the product.
LEMMA OutKeepsProduct ==
  ASSUME NEW net \in Nat, NEW x \in Nat \ {0}, NEW y \in Nat \ {0}
  PROVE  /\ Out(net, x, y) \in Nat
         /\ Out(net, x, y) < y
         /\ (x + net) * (y - Out(net, x, y)) >= x * y
<1> DEFINE q == Out(net, x, y)
<1>1. y * net \in Nat /\ x + net \in Nat \ {0}
  OBVIOUS
<1>2. q \in Nat /\ q * (x + net) <= y * net
  BY <1>1, Division DEF Out
<1>3. y * (x + net) = y * x + y * net /\ y * x > 0
  OBVIOUS
<1> HIDE DEF q
<1>4. q * (x + net) < y * (x + net)
  BY <1>1, <1>2, <1>3
<1>5. q < y
  BY <1>1, <1>2, <1>4, Cancel
<1>6. (x + net) * (y - q) = y * (x + net) - q * (x + net)
  BY <1>2
<1> QED BY <1>2, <1>3, <1>5, <1>6 DEF q

LEMMA FeeBelowAmount ==
  ASSUME NEW amount \in Nat
  PROVE  /\ PoolFee(amount) \in Nat
         /\ PoolFee(amount) <= amount
         /\ amount * FeeNumerator >= PoolFee(amount) * FeeDenominator
<1> USE FeeAssumption DEF FeeAssumption
<1>1. amount * FeeNumerator \in Nat /\ FeeDenominator \in Nat \ {0}
  OBVIOUS
<1>2. /\ PoolFee(amount) \in Nat
      /\ PoolFee(amount) * FeeDenominator <= amount * FeeNumerator
  BY <1>1, Division DEF PoolFee
<1>3. FeeNumerator * amount <= FeeDenominator * amount
  BY Times
<1>4. PoolFee(amount) * FeeDenominator <= amount * FeeDenominator
  BY <1>1, <1>2, <1>3
<1>5. CASE PoolFee(amount) > amount
  <2>1. PoolFee(amount) * FeeDenominator >= (amount + 1) * FeeDenominator
    BY <1>2, <1>5, Times
  <2>2. (amount + 1) * FeeDenominator = amount * FeeDenominator + FeeDenominator
    OBVIOUS
  <2> QED BY <1>2, <1>4, <2>1, <2>2
<1> QED BY <1>2, <1>5

\* What a trade pays out is less than the pool's side, and the fee no more than what
\* was put in.
LEMMA SwapBounds ==
  ASSUME NEW amount \in Nat, NEW fee \in 0..amount, NEW x \in Nat \ {0}, NEW y \in Nat \ {0},
         NEW netuid, netuid # Root
  PROVE  LET s == Swap(amount, fee, x, y, netuid)
         IN /\ s.amountOut \in Nat /\ s.amountOut < y
            /\ s.poolFee \in 0..amount
            /\ (x + (amount - s.poolFee)) * (y - s.amountOut) >= x * y
<1> DEFINE s == Swap(amount, fee, x, y, netuid)
<1>1. CASE amount - fee > 0
  <2>1. amount - fee \in Nat /\ amount > 0
    BY <1>1
  <2>2. s.amountOut = Out(amount - fee, x, y) /\ s.poolFee = fee
    BY <1>1, <2>1 DEF Swap
  <2> QED BY <2>1, <2>2, OutKeepsProduct
<1>2. CASE amount - fee <= 0
  <2>1. s.amountOut = 0 /\ s.poolFee \in {0, fee} /\ fee = amount
    BY <1>2 DEF Swap
  <2>2. amount - s.poolFee \in {0, amount}
    BY <2>1
  <2>3. (x + (amount - s.poolFee)) * y >= x * y
    BY <2>1, <2>2, Times
  <2> QED BY <2>1, <2>2, <2>3
<1> QED BY <1>1, <1>2

\* A sale and a purchase leave a pool with both its sides, and their product is no
\* smaller than it was: rounding and fees are never in the trader's favour.
THEOREM SaleKeepsProduct ==
  ASSUME NEW pool \in Pool, NEW alpha \in Nat, NEW netuid, netuid # Root
  PROVE  LET left == AfterSale(pool, alpha, SwapAlphaForTao(alpha, pool, netuid))
         IN /\ left \in Pool
            /\ left.taoIn * left.alphaIn >= pool.taoIn * pool.alphaIn
<1> DEFINE s == SwapAlphaForTao(alpha, pool, netuid)
           x == pool.alphaIn
           y == pool.taoIn
<1>1. PoolFee(alpha) \in 0..alpha
  BY FeeBelowAmount
<1>2. x \in Nat \ {0} /\ y \in Nat \ {0}
  BY DEF Pool
<1>3. /\ s.amountOut \in Nat /\ s.amountOut < y /\ s.poolFee \in 0..alpha
      /\ (x + (alpha - s.poolFee)) * (y - s.amountOut) >= x * y
  BY <1>1, <1>2, SwapBounds DEF SwapAlphaForTao
<1> DEFINE left == AfterSale(pool, alpha, s)
<1>4. left = [taoIn |-> y - s.amountOut, alphaIn |-> x + alpha - s.poolFee]
  BY DEF AfterSale
<1> HIDE DEF s, left
<1>5. x + alpha - s.poolFee = x + (alpha - s.poolFee) /\ x + alpha - s.poolFee \in Nat \ {0}
  BY <1>2, <1>3
<1>6. left \in Pool
  BY <1>2, <1>3, <1>4, <1>5 DEF Pool
<1>7. left.taoIn * left.alphaIn = (x + (alpha - s.poolFee)) * (y - s.amountOut)
  BY <1>2, <1>3, <1>4, <1>5
<1>8. left.taoIn * left.alphaIn >= y * x
  BY <1>2, <1>3, <1>7
<1> QED BY <1>6, <1>8 DEF s, left

THEOREM PurchaseKeepsProduct ==
  ASSUME NEW pool \in Pool, NEW tao \in Nat, NEW netuid, netuid # Root, NEW skipFee \in BOOLEAN
  PROVE  LET left == AfterPurchase(pool, tao, SwapTaoForAlpha(tao, pool, netuid, skipFee))
         IN /\ left \in Pool
            /\ left.taoIn * left.alphaIn >= pool.taoIn * pool.alphaIn
<1> DEFINE s == SwapTaoForAlpha(tao, pool, netuid, skipFee)
           x == pool.taoIn
           y == pool.alphaIn
           fee == IF skipFee THEN 0 ELSE PoolFee(tao)
<1>1. fee \in 0..tao
  BY FeeBelowAmount
<1>2. x \in Nat \ {0} /\ y \in Nat \ {0}
  BY DEF Pool
<1>3. /\ s.amountOut \in Nat /\ s.amountOut < y /\ s.poolFee \in 0..tao
      /\ (x + (tao - s.poolFee)) * (y - s.amountOut) >= x * y
  BY <1>1, <1>2, SwapBounds DEF SwapTaoForAlpha
<1> DEFINE left == AfterPurchase(pool, tao, s)
<1>4. left = [taoIn |-> x + tao - s.poolFee, alphaIn |-> y - s.amountOut]
  BY DEF AfterPurchase
<1> HIDE DEF s, left
<1>5. x + tao - s.poolFee = x + (tao - s.poolFee) /\ x + tao - s.poolFee \in Nat \ {0}
  BY <1>2, <1>3
<1>6. left \in Pool
  BY <1>2, <1>3, <1>4, <1>5 DEF Pool
<1>7. left.taoIn * left.alphaIn = (x + (tao - s.poolFee)) * (y - s.amountOut)
  BY <1>2, <1>3, <1>4, <1>5
<1> QED BY <1>3, <1>6, <1>7 DEF s, left

\* A larger sale brings no less.
LEMMA OutReaches ==
  ASSUME NEW net \in Nat, NEW x \in Nat \ {0}, NEW y \in Nat \ {0}, NEW target \in Nat,
         target * (x + net) <= y * net
  PROVE  Out(net, x, y) >= target
<1> DEFINE q == Out(net, x, y)
<1>1. y * net \in Nat /\ x + net \in Nat \ {0}
  OBVIOUS
<1>2. q \in Nat /\ y * net < q * (x + net) + (x + net)
  BY <1>1, Division DEF Out
<1> HIDE DEF q
<1>3. (q + 1) * (x + net) = q * (x + net) + (x + net)
  BY <1>2
<1>4. target * (x + net) < (q + 1) * (x + net)
  BY <1>1, <1>2, <1>3
<1>5. target < q + 1
  BY <1>1, <1>2, <1>4, Cancel
<1> QED BY <1>2, <1>5 DEF q

\* The amount to sell that alphaNeededForTao computes brings the target, after the
\* pool's fee: what sellPartial sells is enough.
THEOREM NeededIsEnough ==
  ASSUME NEW pool \in Pool, NEW target \in Nat, NEW netuid, netuid # Root,
         NEW alpha \in AlphaNeededForTao(target, pool, netuid)
  PROVE  alpha \in Nat /\ SwapAlphaForTao(alpha, pool, netuid).amountOut >= target
<1> DEFINE x == pool.alphaIn
           y == pool.taoIn
           net == CeilDiv(target * x, y - target)
           D == FeeDenominator
           d == FeeDenominator - FeeNumerator
           fee == PoolFee(alpha)
<1>1. x \in Nat \ {0} /\ y \in Nat \ {0}
  BY DEF Pool
<1>2. D \in Nat \ {0} /\ d \in Nat \ {0} /\ FeeNumerator \in Nat /\ FeeNumerator = D - d
  BY FeeAssumption DEF FeeAssumption
<1>3. CASE target = 0
  <2>1. alpha = 0
    BY <1>3 DEF AlphaNeededForTao
  <2> QED BY <1>1, <1>3, <2>1 DEF SwapAlphaForTao, Swap
<1>4. CASE target > 0
  <2>1. target < y /\ alpha = CeilDiv(net * D, d)
    BY <1>1, <1>4 DEF AlphaNeededForTao
  <2>2. y - target \in Nat \ {0} /\ target * x \in Nat
    BY <1>1, <2>1
  <2>3. net \in Nat /\ target * x <= net * (y - target)
    BY <2>2, CeilDivision
  <2> HIDE DEF net, D, d
  <2>4. net * D \in Nat
    BY <1>2, <2>3
  <2>5. alpha \in Nat /\ net * D <= alpha * d
    BY <1>2, <2>1, <2>4, CeilDivision
  <2>6. fee \in 0..alpha /\ fee * D <= alpha * FeeNumerator
    BY <2>5, FeeBelowAmount DEF D
  <2> HIDE DEF fee
  <2>7. net * D <= (alpha - fee) * D
    <3>1. alpha * FeeNumerator = alpha * D - alpha * d
      BY <1>2, <2>5
    <3>2. (alpha - fee) * D = alpha * D - fee * D
      BY <1>2, <2>5, <2>6
    <3>3. alpha * d \in Int /\ alpha * D \in Int /\ fee * D \in Int /\ net * D \in Int
      BY <1>2, <2>3, <2>5, <2>6
    <3>4. alpha * d <= alpha * D - fee * D
      BY <2>6, <3>1, <3>3
    <3>5. net * D <= alpha * D - fee * D
      BY <2>5, <3>3, <3>4
    <3> QED BY <3>2, <3>5
  <2>8. net <= alpha - fee
    <3>1. (alpha - fee) * D < net * D \/ net <= alpha - fee
      <4>1. CASE alpha - fee < net
        <5>1. (alpha - fee + 1) * D <= net * D
          <6>1. alpha - fee + 1 \in Int /\ alpha - fee + 1 <= net
            BY <2>3, <2>5, <2>6, <4>1
          <6>2. net \in Int /\ D \in Nat
            BY <1>2, <2>3
          <6> DEFINE more == alpha - fee + 1
          <6>3. more \in Int /\ more <= net
            BY <6>1
          <6> HIDE DEF more
          <6>4. more * D <= net * D
            BY <6>2, <6>3, Times
          <6> QED BY <6>4 DEF more
        <5>2. (alpha - fee + 1) * D = (alpha - fee) * D + D
          BY <1>2, <2>5, <2>6
        <5> QED BY <1>2, <2>3, <2>5, <2>6, <5>1, <5>2
      <4> QED BY <2>3, <2>5, <2>6, <4>1
    <3> QED BY <1>2, <2>3, <2>5, <2>6, <2>7, <3>1
  <2> DEFINE in == alpha - fee
  <2>9. in \in Nat /\ target * x <= in * (y - target)
    <3>1. net * (y - target) <= in * (y - target)
      BY <2>2, <2>3, <2>5, <2>6, <2>8, Times
    <3> QED BY <2>2, <2>3, <2>5, <2>6, <3>1
  <2>10. target * (x + in) <= y * in
    <3> HIDE DEF in
    <3>1. in * (y - target) = y * in - target * in /\ target * (x + in) = target * x + target * in
      BY <1>1, <2>9
    <3> QED BY <1>1, <2>9, <3>1
  <2>11. Out(in, x, y) >= target
    BY <1>1, <2>9, <2>10, OutReaches
  <2>12. in > 0
    <3>1. CASE in = 0
      <4>1. in * (y - target) = 0 /\ target * x > 0
        BY <1>1, <1>4, <2>2, <3>1
      <4> QED BY <2>9, <4>1, <2>2
    <3> QED BY <2>9, <3>1
  <2>13. alpha > 0
    BY <2>5, <2>6, <2>12
  <2>14. SwapAlphaForTao(alpha, pool, netuid).amountOut = Out(in, x, y)
    <3>1. alpha > 0 /\ ~(x <= 0) /\ ~(y <= 0) /\ ~(alpha - PoolFee(alpha) <= 0)
      BY <1>1, <2>5, <2>9, <2>12, <2>13 DEF fee
    <3>2. ~(alpha <= 0)
      BY <2>5, <3>1
    <3> QED BY <3>1, <3>2, Zenon DEF SwapAlphaForTao, Swap, fee
  <2> QED BY <2>5, <2>11, <2>14
<1> QED BY <1>3, <1>4

-----------------------------------------------------------------------------
(* Sums of the values of a function.                                       *)

\* What holds of nothing, and of a set with one more element, holds of all of a
\* finite set.
LEMMA FiniteInduction ==
  ASSUME NEW S, IsFiniteSet(S), NEW P \in SUBSET (SUBSET S), {} \in P,
         \A T \in SUBSET S, x \in S : T \ {x} \in P /\ x \in T => T \in P
  PROVE  S \in P
<1> DEFINE G == {k \in Nat : \A T \in SUBSET S : Cardinality(T) <= k => T \in P}
<1>1. \A T \in SUBSET S : IsFiniteSet(T) /\ Cardinality(T) \in Nat
  BY FS_Subset, FS_CardinalityType
<1>2. 0 \in G
  <2>1. ASSUME NEW T \in SUBSET S, Cardinality(T) <= 0 PROVE T \in P
    <3>1. T = {}
      BY <1>1, <2>1, FS_EmptySet
    <3> QED BY <3>1
  <2>2. \A T \in SUBSET S : Cardinality(T) <= 0 => T \in P
    BY <2>1
  <2>3. 0 \in Nat
    OBVIOUS
  <2> QED BY <2>2, <2>3, Zenon
<1>3. ASSUME NEW k \in Nat, k \in G PROVE k + 1 \in G
  <2>0. k + 1 \in Nat
    OBVIOUS
  <2> SUFFICES ASSUME NEW T \in SUBSET S, Cardinality(T) <= k + 1, T # {} PROVE T \in P
    BY <2>0, Zenon
  <2>1. PICK x \in T : TRUE
    OBVIOUS
  <2>2. Cardinality(T \ {x}) = Cardinality(T) - 1
    BY <1>1, <2>1, FS_RemoveElement
  <2>3. Cardinality(T \ {x}) <= k /\ T \ {x} \in SUBSET S
    BY <1>1, <2>2
  <2> QED BY <1>3, <2>1, <2>3
<1>4. Cardinality(S) \in G
  <2> HIDE DEF G
  <2> QED BY <1>1, <1>2, <1>3, Induction
<1> QED BY <1>1, <1>4

Sums(f, S, g) ==
  f \in [S -> Nat] /\ g \in [SUBSET S -> Nat] /\ g[{}] = 0 /\ Splits(f, S, g)

Below(f, h, T) == \A x \in T : f[x] <= h[x]

LEMMA SumsCompare ==
  ASSUME NEW S, IsFiniteSet(S), NEW f, NEW F, Sums(f, S, F), NEW h, NEW H, Sums(h, S, H),
         NEW T, T \subseteq S, Below(f, h, T)
  PROVE  F[T] <= H[T]
<1> USE DEF Sums, Below
<1> DEFINE P == {U \in SUBSET T : F[U] <= H[U]}
<1>1. {} \in P
  OBVIOUS
<1>2. ASSUME NEW U \in SUBSET T, NEW x \in T, U \ {x} \in P, x \in U PROVE U \in P
  <2>1. F[U] = f[x] + F[U \ {x}] /\ H[U] = h[x] + H[U \ {x}]
    BY <1>2 DEF Splits
  <2>2. F[U \ {x}] <= H[U \ {x}] /\ f[x] <= h[x]
    BY <1>2
  <2>3. {F[U \ {x}], H[U \ {x}], f[x], h[x]} \subseteq Nat
    BY <1>2
  <2>4. F[U] <= H[U]
    BY <2>1, <2>2, <2>3
  <2> QED BY <1>2, <2>4
<1>3. IsFiniteSet(T)
  BY FS_Subset
<1>4. T \in P
  <2> HIDE DEF P
  <2>1. P \in SUBSET (SUBSET T)
    BY DEF P
  <2> QED BY <1>1, <1>2, <1>3, <2>1, FiniteInduction
<1> QED BY <1>4

LEMMA TotalNat ==
  ASSUME NEW S, IsFiniteSet(S), NEW f \in [S -> Nat]
  PROVE  Total(f) \in Nat
<1>1. PICK g \in [SUBSET S -> Nat] : Total(f) = g[S]
  BY FoldSplits
<1> QED BY <1>1

LEMMA TotalEmpty ==
  ASSUME NEW f, DOMAIN f = {}, f \in [{} -> Nat]
  PROVE  Total(f) = 0
<1>1. IsFiniteSet({})
  BY FS_EmptySet
<1> QED BY <1>1, FoldSplits

LEMMA TotalSingle ==
  ASSUME NEW x, NEW f \in [{x} -> Nat]
  PROVE  Total(f) = f[x]
<1>1. IsFiniteSet({x})
  BY FS_Singleton
<1>2. PICK g \in [SUBSET {x} -> Nat] : Total(f) = g[{x}] /\ g[{}] = 0 /\ Splits(f, {x}, g)
  BY <1>1, FoldSplits
<1>3. g[{x}] = f[x] + g[{x} \ {x}]
  BY <1>2 DEF Splits
<1>4. {x} \ {x} = {}
  OBVIOUS
<1>5. g[{x}] = f[x] + 0
  BY <1>2, <1>3, <1>4
<1> QED BY <1>2, <1>5

LEMMA TotalCompare ==
  ASSUME NEW S, IsFiniteSet(S), NEW f \in [S -> Nat], NEW h \in [S -> Nat],
         \A x \in S : f[x] <= h[x]
  PROVE  Total(f) <= Total(h)
<1>1. PICK F : Total(f) = F[S] /\ Sums(f, S, F)
  BY FoldSplits DEF Sums
<1>2. PICK H : Total(h) = H[S] /\ Sums(h, S, H)
  BY FoldSplits DEF Sums
<1>3. Below(f, h, S)
  BY DEF Below
<1>4. F[S] <= H[S]
  BY <1>1, <1>2, <1>3, SumsCompare
<1> QED BY <1>1, <1>2, <1>4

\* A sum changes by what one of its terms changes.
LEMMA TotalChange ==
  ASSUME NEW S, IsFiniteSet(S), NEW f \in [S -> Nat], NEW h \in [S -> Nat], NEW x \in S,
         \A y \in S \ {x} : f[y] = h[y]
  PROVE  Total(h) = Total(f) - f[x] + h[x]
<1>1. PICK F : Total(f) = F[S] /\ Sums(f, S, F)
  BY FoldSplits DEF Sums
<1>2. PICK H : Total(h) = H[S] /\ Sums(h, S, H)
  BY FoldSplits DEF Sums
<1> DEFINE T == S \ {x}
<1>3. T \subseteq S /\ F[T] \in Nat /\ H[T] \in Nat
  BY <1>1, <1>2 DEF Sums
<1>4. Below(f, h, T) /\ Below(h, f, T)
  BY DEF Below
<1>5. F[S] = f[x] + F[T] /\ H[S] = h[x] + H[T]
  BY <1>1, <1>2 DEF Splits, Sums
<1> HIDE DEF T
<1>6. F[T] <= H[T]
  BY <1>1, <1>2, <1>3, <1>4, SumsCompare
<1>7. H[T] <= F[T]
  BY <1>1, <1>2, <1>3, <1>4, SumsCompare
<1>8. f[x] \in Nat /\ h[x] \in Nat
  OBVIOUS
<1>9. F[T] = H[T]
  BY <1>3, <1>6, <1>7
<1> QED BY <1>1, <1>2, <1>3, <1>5, <1>8, <1>9

-----------------------------------------------------------------------------
(* Pools of which a side may be empty.                                     *)

\* A pool as a rebalance keeps it: a side may be empty.
Sides == [taoIn : Nat, alphaIn : Nat]

LEMMA NoSwap ==
  ASSUME NEW amount, NEW fee, NEW x, NEW y, NEW netuid, amount <= 0 \/ x <= 0 \/ y <= 0
  PROVE  Swap(amount, fee, x, y, netuid) = [amountOut |-> 0, poolFee |-> 0]
BY DEF Swap

\* With a side that may be empty.
LEMMA SwapOfSides ==
  ASSUME NEW amount \in Nat, NEW fee \in 0..amount, NEW x \in Nat, NEW y \in Nat,
         NEW netuid, netuid # Root
  PROVE  LET s == Swap(amount, fee, x, y, netuid)
         IN /\ s.amountOut \in 0..y
            /\ s.poolFee \in 0..amount
            /\ s.poolFee = 0 \/ s.poolFee = fee
            /\ (x + (amount - s.poolFee)) * (y - s.amountOut) >= x * y
<1> DEFINE s == Swap(amount, fee, x, y, netuid)
<1>1. CASE x = 0 \/ y = 0
  <2>1. s = [amountOut |-> 0, poolFee |-> 0]
    BY <1>1, NoSwap
  <2>2. s.amountOut = 0 /\ s.poolFee = 0
    BY <2>1
  <2> HIDE DEF s
  <2>3. (x + amount) * y >= x * y
    BY Times
  <2> QED BY <2>2, <2>3 DEF s
<1>2. CASE x # 0 /\ y # 0
  <2>1. /\ s.amountOut \in Nat /\ s.amountOut < y
        /\ s.poolFee \in 0..amount
        /\ (x + (amount - s.poolFee)) * (y - s.amountOut) >= x * y
    BY <1>2, SwapBounds
  <2>2. s.poolFee = 0 \/ s.poolFee = fee
    BY <1>2 DEF Swap
  <2> HIDE DEF s
  <2> QED BY <2>1, <2>2 DEF s
<1> QED BY <1>1, <1>2

\* Without its fee a sale brings no less.
LEMMA FeeCosts ==
  ASSUME NEW amount \in Nat, NEW fee \in 0..amount, NEW x \in Nat, NEW y \in Nat,
         NEW netuid, netuid # Root
  PROVE  Swap(amount, 0, x, y, netuid).amountOut - Swap(amount, fee, x, y, netuid).amountOut \in Nat
<1>1. CASE amount = 0 \/ x = 0 \/ y = 0
  BY <1>1, NoSwap
<1>2. CASE amount # 0 /\ x # 0 /\ y # 0
  <2> DEFINE net == amount - fee
             q == Out(net, x, y)
  <2>1. Swap(amount, 0, x, y, netuid).amountOut = Out(amount, x, y)
    <3>1. amount - 0 = amount /\ ~(amount <= 0) /\ ~(x <= 0) /\ ~(y <= 0)
      BY <1>2
    <3> QED BY <3>1 DEF Swap
  <2>2. Swap(amount, fee, x, y, netuid).amountOut = IF net <= 0 THEN 0 ELSE q
    <3>1. ~(amount <= 0) /\ ~(x <= 0) /\ ~(y <= 0)
      BY <1>2
    <3> QED BY <3>1 DEF Swap
  <2>3. net \in Nat /\ amount = net + fee /\ fee \in Nat
    OBVIOUS
  <2> HIDE DEF net
  <2>4. Out(amount, x, y) \in Nat /\ q \in Nat /\ q < y
    BY <1>2, <2>3, OutKeepsProduct
  <2>5. q * (x + net) <= y * net
    <3>1. y * net \in Nat /\ x + net \in Nat \ {0}
      BY <1>2, <2>3
    <3> QED BY <3>1, Division DEF Out
  <2> HIDE DEF q
  <2>6. q * fee <= y * fee
    BY <2>3, <2>4, Times
  <2>7. q * (x + amount) = q * (x + net) + q * fee /\ y * amount = y * net + y * fee
    BY <2>3, <2>4
  <2>8. q * (x + amount) <= y * amount
    <3>1. {q * (x + net), q * fee, y * net, y * fee} \subseteq Int
      BY <2>3, <2>4
    <3> QED BY <2>5, <2>6, <2>7, <3>1
  <2>9. Out(amount, x, y) >= q
    BY <1>2, <2>4, <2>8, OutReaches
  <2> QED BY <2>1, <2>2, <2>4, <2>9
<1> QED BY <1>1, <1>2

LEMMA SaleOfSides ==
  ASSUME NEW pool \in Sides, NEW alpha \in Nat, NEW netuid, netuid # Root
  PROVE  LET s == SwapAlphaForTao(alpha, pool, netuid)
             left == AfterSale(pool, alpha, s)
         IN /\ s.amountOut \in 0..pool.taoIn
            /\ left \in Sides
            /\ left.taoIn = pool.taoIn - s.amountOut
            /\ left.taoIn * left.alphaIn >= pool.taoIn * pool.alphaIn
            /\ AlphaFeeInTao(alpha, pool, netuid) \in Nat
<1> DEFINE s == SwapAlphaForTao(alpha, pool, netuid)
           left == AfterSale(pool, alpha, s)
           x == pool.alphaIn
           y == pool.taoIn
<1>1. PoolFee(alpha) \in 0..alpha
  BY FeeBelowAmount
<1>2. x \in Nat /\ y \in Nat
  BY DEF Sides
<1>3. /\ s.amountOut \in 0..y /\ s.poolFee \in 0..alpha
      /\ (x + (alpha - s.poolFee)) * (y - s.amountOut) >= x * y
  BY <1>1, <1>2, SwapOfSides DEF SwapAlphaForTao
<1>4. left = [taoIn |-> y - s.amountOut, alphaIn |-> x + alpha - s.poolFee]
  BY DEF AfterSale
<1>5. AlphaFeeInTao(alpha, pool, netuid) \in Nat
  BY <1>1, <1>2, FeeCosts DEF AlphaFeeInTao, SwapAlphaForTao
<1> HIDE DEF s, left
<1>6. x + alpha - s.poolFee = x + (alpha - s.poolFee) /\ x + alpha - s.poolFee \in Nat
      /\ y - s.amountOut \in Nat
  BY <1>2, <1>3
<1>7. left \in Sides /\ left.taoIn = y - s.amountOut /\ left.alphaIn = x + (alpha - s.poolFee)
  BY <1>4, <1>6 DEF Sides
<1>8. left.taoIn * left.alphaIn >= y * x
  BY <1>2, <1>3, <1>6, <1>7
<1> QED BY <1>3, <1>5, <1>7, <1>8 DEF s, left

LEMMA PurchaseOfSides ==
  ASSUME NEW pool \in Sides, NEW tao \in Nat, NEW netuid, netuid # Root, NEW skipFee \in BOOLEAN
  PROVE  LET s == SwapTaoForAlpha(tao, pool, netuid, skipFee)
             left == AfterPurchase(pool, tao, s)
         IN /\ s.amountOut \in Nat /\ s.poolFee \in 0..tao
            /\ skipFee => s.poolFee = 0
            /\ pool.alphaIn = 0 => s.amountOut = 0
            /\ left \in Sides
            /\ left.taoIn = pool.taoIn + tao - s.poolFee
            /\ pool.alphaIn = 0 => left.alphaIn = 0
            /\ left.taoIn * left.alphaIn >= pool.taoIn * pool.alphaIn
<1> DEFINE s == SwapTaoForAlpha(tao, pool, netuid, skipFee)
           left == AfterPurchase(pool, tao, s)
           x == pool.taoIn
           y == pool.alphaIn
           fee == IF skipFee THEN 0 ELSE PoolFee(tao)
<1>1. fee \in 0..tao
  BY FeeBelowAmount
<1>2. x \in Nat /\ y \in Nat
  BY DEF Sides
<1>3. /\ s.amountOut \in 0..y /\ s.poolFee \in 0..tao
      /\ s.poolFee = 0 \/ s.poolFee = fee
      /\ (x + (tao - s.poolFee)) * (y - s.amountOut) >= x * y
  <2> HIDE DEF fee
  <2>1. s = Swap(tao, fee, x, y, netuid)
    BY DEF SwapTaoForAlpha, fee
  <2> QED BY <1>1, <1>2, <2>1, SwapOfSides
<1>4. left = [taoIn |-> x + tao - s.poolFee, alphaIn |-> y - s.amountOut]
  BY DEF AfterPurchase
<1> HIDE DEF s, left
<1>6. x + tao - s.poolFee = x + (tao - s.poolFee) /\ x + tao - s.poolFee \in Nat
      /\ y - s.amountOut \in Nat
  BY <1>2, <1>3
<1>7. left \in Sides /\ left.taoIn = x + (tao - s.poolFee) /\ left.alphaIn = y - s.amountOut
  BY <1>4, <1>6 DEF Sides
<1>8. left.taoIn * left.alphaIn >= x * y
  BY <1>2, <1>3, <1>6, <1>7
<1>9. skipFee => s.poolFee = 0
  BY <1>3
<1>10. y = 0 => s.amountOut = 0
  BY <1>2, <1>3
<1> QED BY <1>2, <1>3, <1>6, <1>7, <1>8, <1>9, <1>10 DEF s, left

\* A larger dividend and a larger divisor's quotient.
LEMMA Quotient ==
  ASSUME NEW a \in Nat, NEW b \in Nat, a <= b, NEW c \in Nat \ {0}
  PROVE  a \div c \in Nat /\ b \div c \in Nat /\ a \div c <= b \div c
<1> DEFINE p == a \div c
           q == b \div c
<1>1. p \in Nat /\ q \in Nat /\ p * c <= a /\ b < q * c + c
  BY Division
<1> HIDE DEF p, q
<1>2. p * c < (q + 1) * c
  <2>1. (q + 1) * c = q * c + c
    BY <1>1
  <2> QED BY <1>1, <2>1
<1>3. p < q + 1
  BY <1>1, <1>2, Cancel
<1> QED BY <1>1, <1>3 DEF p, q

-----------------------------------------------------------------------------
(* What the backtest computes is a natural number.                         *)

Netuids == UNION {DOMAIN snap : snap \in Markets}

SubnetState == [taoIn : Nat, alphaIn : Nat, alphaOut : Nat, alphaOutEmission : Nat,
                spotPrice : Nat, movingPrice : Nat, merit : Nat]

IsSnapshot(snap) ==
  /\ IsFiniteSet(DOMAIN snap) /\ DOMAIN snap \subseteq Netuids
  /\ snap \in [DOMAIN snap -> SubnetState]

Clock ==
  /\ strategy \in {"coward", "root-emission", "sma-stoploss"} /\ cron \in BOOLEAN
  /\ phase \in {"idle", "read", "step", "exit", "trade", "done"}
  /\ block \in FirstBlock - 1 .. LastBlock
  /\ lastAccrualBlock \in 0..block
  /\ lastRebalanceBlock \in 0..block /\ lastObserved \in -1..block
  /\ phase = "read" => lastRebalanceBlock < block /\ lastObserved < block
  /\ IsSnapshot(snapshot)
  /\ lastKnownPrices \in [DOMAIN lastKnownPrices -> Nat]

Holdings ==
  /\ IsFiniteSet(DOMAIN positions) /\ DOMAIN positions \subseteq Netuids \cup {Root}
  /\ positions \in [DOMAIN positions -> [alpha : Nat \ {0}, costBasis : Nat]]

Purse ==
  /\ free \in Nat /\ feeFreeBudget \in Nat /\ totalFeesPaid \in Nat /\ tickTxFees \in Nat
  /\ hodlSn0Alpha \in Nat /\ unpaid \in Nat

LEMMA Bounds ==
  /\ FirstBlock \in Nat \ {0} /\ LastBlock \in Nat \ {0} /\ MaxStep \in Nat \ {0}
  /\ InitialTao \in Nat \ {0} /\ F32 \in Nat \ {0} /\ TaoWeightDenom \in Nat \ {0}
  /\ MaxSubnets \in Nat \ {0} /\ FirstBlock <= LastBlock
  /\ TxFee \in Nat /\ MinTrade \in Nat /\ TaoWeightNum \in Nat /\ ObserveGap \in Nat
  /\ OwnerCutPct \in 0..100 /\ ValidatorTakePct \in 0..100 /\ RootSharePct \in 0..100
BY BacktestAssumption DEF BacktestAssumption

LEMMA MarketsAreSnapshots == \A snap \in Markets : IsSnapshot(snap)
BY BacktestAssumption DEF BacktestAssumption, IsSnapshot, Netuids, SubnetState

LEMMA NetuidsAreNatural == Netuids \subseteq Nat
BY BacktestAssumption DEF BacktestAssumption, Netuids

LEMMA ValueIsNatural ==
  ASSUME NEW alpha \in Nat, NEW price \in Nat
  PROVE  AlphaToTao(alpha, price) \in Nat
<1>1. alpha * price \in Nat
  OBVIOUS
<1> QED BY <1>1, Division, Bounds DEF AlphaToTao

LEMMA PricesAreNatural ==
  ASSUME NEW snap, IsSnapshot(snap), lastKnownPrices \in [DOMAIN lastKnownPrices -> Nat], NEW n
  PROVE  /\ Price(PriceMap(snap), n) \in Nat
         /\ Price(PriceMap(snap), Root) = F32
         /\ Price([m \in DOMAIN snap |-> snap[m].spotPrice], n) \in Nat
         /\ n \in DOMAIN snap \ {Root} =>
              Price(PriceMap(snap), n) = Price([m \in DOMAIN snap |-> snap[m].spotPrice], n)
<1>1. \A m \in DOMAIN snap : snap[m].spotPrice \in Nat
  BY DEF IsSnapshot, SubnetState
<1> QED BY <1>1, Bounds DEF Price, PriceMap

LEMMA PortfolioIsNatural ==
  ASSUME Holdings, free \in Nat, NEW prices, \A n : Price(prices, n) \in Nat
  PROVE  PortfolioValue(prices) \in Nat
<1>1. \A n \in DOMAIN positions : AlphaToTao(positions[n].alpha, Price(prices, n)) \in Nat
  BY ValueIsNatural DEF Holdings
<1>2. [n \in DOMAIN positions |-> AlphaToTao(positions[n].alpha, Price(prices, n))]
        \in [DOMAIN positions -> Nat]
  BY <1>1
<1>3. Total([n \in DOMAIN positions |-> AlphaToTao(positions[n].alpha, Price(prices, n))]) \in Nat
  BY <1>2, TotalNat DEF Holdings
<1> QED BY <1>3 DEF PortfolioValue

(* Emissions.                                                              *)

LEMMA TakeKeepsOrder ==
  ASSUME NEW a \in Nat, NEW b \in Nat, a <= b
  PROVE  AfterTake(a) \in Nat /\ AfterTake(b) \in Nat /\ AfterTake(a) <= AfterTake(b)
<1>1. 100 - ValidatorTakePct \in Nat
  BY Bounds
<1> DEFINE c == 100 - ValidatorTakePct
<1> HIDE DEF c
<1>2. c \in Nat /\ a * c \in Nat /\ b * c \in Nat /\ a * c <= b * c
  BY <1>1, Times DEF c
<1> QED BY <1>2, Quotient DEF AfterTake, c

LEMMA WeightedRootIsNatural ==
  ASSUME NEW snap, IsSnapshot(snap)
  PROVE  SN0TaoIn(snap) \in Nat /\ WeightedRoot(snap) \in Nat
<1>1. SN0TaoIn(snap) \in Nat
  BY DEF SN0TaoIn, IsSnapshot, SubnetState
<1>2. SN0TaoIn(snap) * TaoWeightNum \in Nat
  BY <1>1, Bounds
<1> QED BY <1>1, <1>2, Bounds, Division DEF WeightedRoot

LEMMA ValidatorShareIsNatural ==
  ASSUME NEW s \in SubnetState
  PROVE  ValidatorAlphaPerBlock(s) \in Nat
<1>1. s.alphaOutEmission \in Nat /\ 100 - OwnerCutPct \in Nat
  BY Bounds DEF SubnetState
<1>2. s.alphaOutEmission * (100 - OwnerCutPct) \in Nat
  BY <1>1
<1> DEFINE p == s.alphaOutEmission * (100 - OwnerCutPct)
<1> HIDE DEF p
<1>3. p \div 100 \in Nat
  BY <1>2, Division DEF p
<1>4. (p \div 100) \div 2 \in Nat
  BY <1>3, Division
<1> QED BY <1>4 DEF ValidatorAlphaPerBlock, p

LEMMA AlphaAccruedIsNatural ==
  ASSUME NEW snap, IsSnapshot(snap), NEW delta \in Nat, Holdings, NEW n \in DOMAIN positions
  PROVE  AlphaAccrued(n, snap, delta) \in Nat
<1>1. CASE n \notin Emitting(snap)
  BY <1>1 DEF AlphaAccrued
<1>2. CASE n \in Emitting(snap)
  <2> DEFINE s == snap[n]
             v == ValidatorAlphaPerBlock(s)
             w == WeightedRoot(snap)
             stakers == (v * s.alphaOut) \div (w + s.alphaOut)
             amount == (stakers * positions[n].alpha) \div s.alphaOut
  <2>1. n \in DOMAIN snap /\ s \in SubnetState /\ s.alphaOut \in Nat \ {0}
    BY <1>2 DEF Emitting, IsSnapshot, SubnetState
  <2>2. v \in Nat /\ w \in Nat /\ positions[n].alpha \in Nat
    BY <2>1, ValidatorShareIsNatural, WeightedRootIsNatural DEF Holdings
  <2> HIDE DEF v, w
  <2>3. v * s.alphaOut \in Nat /\ w + s.alphaOut \in Nat \ {0}
    BY <2>1, <2>2
  <2>4. stakers \in Nat
    BY <2>3, Division
  <2> HIDE DEF stakers
  <2>5. stakers * positions[n].alpha \in Nat
    BY <2>2, <2>4
  <2>6. amount \in Nat
    BY <2>1, <2>5, Division
  <2>7. AlphaAccrued(n, snap, delta) = AfterTake(amount) * delta
    BY <1>2 DEF AlphaAccrued, stakers, v, w
  <2> HIDE DEF amount
  <2>8. AfterTake(amount) \in Nat
    BY <2>6, TakeKeepsOrder
  <2> QED BY <2>7, <2>8
<1> QED BY <1>1, <1>2

\* More root alpha earns no less, whichever of the two copies of the code counts.
LEMMA RootAccruedGrows ==
  ASSUME NEW snap, IsSnapshot(snap), NEW delta \in Nat, NEW a \in Nat, NEW b \in Nat, a <= b,
         NEW p, NEW q, \A n \in DOMAIN snap \ {Root} : Price(p, n) \in Nat /\ Price(p, n) = Price(q, n)
  PROVE  /\ RootAccrued(a, snap, delta, p) \in Nat
         /\ RootAccrued(b, snap, delta, q) \in Nat
         /\ RootAccrued(a, snap, delta, p) <= RootAccrued(b, snap, delta, q)
<1> DEFINE w == WeightedRoot(snap)
           root(n) == (ValidatorAlphaPerBlock(snap[n]) * w) \div (w + snap[n].alphaOut)
           Dividend(alpha, prices, n) ==
             AlphaToTao(AfterTake((root(n) * alpha) \div SN0TaoIn(snap)), Price(prices, n))
           F(alpha, prices) == [n \in Emitting(snap) |-> Dividend(alpha, prices, n)]
           sum == Total([n \in DOMAIN snap \ {Root} |-> snap[n].movingPrice])
<1>1. ASSUME NEW alpha, NEW prices
      PROVE  RootAccrued(alpha, snap, delta, prices) =
               IF alpha <= 0 \/ SN0TaoIn(snap) <= 0 \/ sum <= F32 THEN 0
               ELSE Total(F(alpha, prices)) * delta
  BY DEF RootAccrued
<1>2. w \in Nat /\ SN0TaoIn(snap) \in Nat
  BY WeightedRootIsNatural
<1> HIDE DEF w, sum
<1>3. ASSUME NEW n \in Emitting(snap)
      PROVE  n \in DOMAIN snap \ {Root} /\ root(n) \in Nat
  <2>1. n \in DOMAIN snap \ {Root} /\ snap[n] \in SubnetState /\ snap[n].alphaOut \in Nat \ {0}
    BY <1>3 DEF Emitting, IsSnapshot, SubnetState
  <2>2. ValidatorAlphaPerBlock(snap[n]) \in Nat
    BY <2>1, ValidatorShareIsNatural
  <2>3. ValidatorAlphaPerBlock(snap[n]) * w \in Nat /\ w + snap[n].alphaOut \in Nat \ {0}
    BY <1>2, <2>1, <2>2
  <2> QED BY <2>1, <2>3, Division
<1> HIDE DEF root
<1>4. ASSUME NEW n \in Emitting(snap), SN0TaoIn(snap) > 0
      PROVE  /\ Dividend(a, p, n) \in Nat /\ Dividend(b, q, n) \in Nat
             /\ Dividend(a, p, n) <= Dividend(b, q, n)
  <2> DEFINE c == SN0TaoIn(snap)
             m == AfterTake((root(n) * a) \div c)
             M == AfterTake((root(n) * b) \div c)
             x == Price(p, n)
  <2>1. root(n) * a \in Nat /\ root(n) * b \in Nat /\ root(n) * a <= root(n) * b /\ c \in Nat \ {0}
    <3> DEFINE r == root(n)
    <3>1. r \in Nat
      BY <1>3
    <3> HIDE DEF r
    <3>2. a * r <= b * r
      BY <3>1, Times
    <3>3. r * a \in Nat /\ r * b \in Nat /\ r * a <= r * b
      BY <3>1, <3>2
    <3> QED BY <1>2, <1>4, <3>3 DEF r
  <2>2. (root(n) * a) \div c \in Nat /\ (root(n) * b) \div c \in Nat
        /\ (root(n) * a) \div c <= (root(n) * b) \div c
    BY <2>1, Quotient
  <2>3. m \in Nat /\ M \in Nat /\ m <= M
    BY <2>2, TakeKeepsOrder
  <2>4. x \in Nat /\ Price(q, n) = x
    BY <1>3, <1>4
  <2>5. Dividend(a, p, n) = AlphaToTao(m, x) /\ Dividend(b, q, n) = AlphaToTao(M, x)
    BY <2>4
  <2> HIDE DEF m, M, x
  <2>6. m * x \in Nat /\ M * x \in Nat /\ m * x <= M * x
    BY <2>3, <2>4, Times
  <2>7. AlphaToTao(m, x) <= AlphaToTao(M, x)
    BY <2>4, <2>6, Quotient, Bounds DEF AlphaToTao
  <2>8. AlphaToTao(m, x) \in Nat /\ AlphaToTao(M, x) \in Nat
    BY <2>3, <2>4, ValueIsNatural
  <2> HIDE DEF Dividend
  <2> QED BY <2>5, <2>7, <2>8
<1>5. CASE SN0TaoIn(snap) > 0
  <2>1. IsFiniteSet(Emitting(snap))
    BY FS_Subset DEF Emitting, IsSnapshot
  <2> HIDE DEF Dividend
  <2>2. F(a, p) \in [Emitting(snap) -> Nat] /\ F(b, q) \in [Emitting(snap) -> Nat]
        /\ \A n \in Emitting(snap) : F(a, p)[n] <= F(b, q)[n]
    BY <1>4, <1>5
  <2> HIDE DEF F
  <2>3. Total(F(a, p)) <= Total(F(b, q)) /\ Total(F(a, p)) \in Nat /\ Total(F(b, q)) \in Nat
    BY <2>1, <2>2, TotalCompare, TotalNat
  <2>4. /\ Total(F(a, p)) * delta \in Nat /\ Total(F(b, q)) * delta \in Nat
        /\ Total(F(a, p)) * delta <= Total(F(b, q)) * delta
    <3> DEFINE u == Total(F(a, p))
               v == Total(F(b, q))
    <3> HIDE DEF u, v
    <3>1. u \in Nat /\ v \in Nat /\ u <= v
      BY <2>3 DEF u, v
    <3>2. u * delta \in Nat /\ v * delta \in Nat /\ u * delta <= v * delta
      BY <3>1, Times
    <3> QED BY <3>2 DEF u, v
  <2> QED BY <1>1, <2>4
<1>6. CASE ~(SN0TaoIn(snap) > 0)
  <2>1. SN0TaoIn(snap) <= 0
    BY <1>2, <1>6
  <2> QED BY <1>1, <2>1
<1> QED BY <1>5, <1>6

-----------------------------------------------------------------------------
(* A sale balances.                                                        *)

PoolsSound ==
  /\ virtualReserves \in [DOMAIN snapshot -> Sides]
  /\ \A n \in DOMAIN snapshot : virtualReserves[n].taoIn * virtualReserves[n].alphaIn
                                  >= snapshot[n].taoIn * snapshot[n].alphaIn

RootAlpha == IF Root \in DOMAIN positions THEN positions[Root].alpha ELSE 0

Depth(reserves) == Total([n \in DOMAIN reserves \ {Root} |-> reserves[n].taoIn])

LEMMA DepthIsNatural ==
  ASSUME NEW S, IsFiniteSet(S), NEW reserves \in [S -> Sides]
  PROVE  Depth(reserves) \in Nat
<1>1. IsFiniteSet(S \ {Root})
  BY FS_Subset
<1>2. [n \in S \ {Root} |-> reserves[n].taoIn] \in [S \ {Root} -> Nat]
  BY DEF Sides
<1>3. DOMAIN reserves = S
  OBVIOUS
<1> QED BY <1>1, <1>2, <1>3, TotalNat DEF Depth

LEMMA DepthChanges ==
  ASSUME NEW S, IsFiniteSet(S), NEW r \in [S -> Sides], NEW q \in [S -> Sides],
         NEW n \in S, n # Root, \A m \in S \ {n} : q[m] = r[m]
  PROVE  Depth(q) = Depth(r) - r[n].taoIn + q[n].taoIn
<1> DEFINE T == S \ {Root}
           f == [m \in T |-> r[m].taoIn]
           h == [m \in T |-> q[m].taoIn]
<1>1. IsFiniteSet(T) /\ n \in T
  BY FS_Subset
<1>2. f \in [T -> Nat] /\ h \in [T -> Nat] /\ \A m \in T \ {n} : f[m] = h[m]
  BY DEF Sides
<1>3. f[n] = r[n].taoIn /\ h[n] = q[n].taoIn
  BY <1>1
<1>4. Depth(r) = Total(f) /\ Depth(q) = Total(h)
  BY DEF Depth
<1> HIDE DEF f, h, T
<1>5. Total(h) = Total(f) - f[n] + h[n]
  BY <1>1, <1>2, TotalChange
<1> QED BY <1>3, <1>4, <1>5

\* One pool changes and its product does not fall.
LEMMA PoolChanges ==
  ASSUME IsSnapshot(snapshot), PoolsSound, UNCHANGED snapshot, NEW n \in DOMAIN snapshot,
         NEW r \in Sides,
         r.taoIn * r.alphaIn >= virtualReserves[n].taoIn * virtualReserves[n].alphaIn,
         virtualReserves' = [virtualReserves EXCEPT ![n] = r]
  PROVE  /\ PoolsSound'
         /\ n # Root => Depth(virtualReserves') = Depth(virtualReserves) - virtualReserves[n].taoIn + r.taoIn
<1>1. /\ virtualReserves \in [DOMAIN snapshot -> Sides] /\ virtualReserves[n] \in Sides
      /\ virtualReserves' \in [DOMAIN snapshot -> Sides] /\ virtualReserves'[n] = r
      /\ \A m \in DOMAIN snapshot \ {n} : virtualReserves'[m] = virtualReserves[m]
  BY DEF PoolsSound
<1>2. n # Root => Depth(virtualReserves') = Depth(virtualReserves) - virtualReserves[n].taoIn + r.taoIn
  <2> DEFINE p == virtualReserves
             q == virtualReserves'
             S == DOMAIN snapshot
  <2>1. /\ IsFiniteSet(S) /\ p \in [S -> Sides] /\ q \in [S -> Sides] /\ n \in S
        /\ \A m \in S \ {n} : q[m] = p[m]
    BY <1>1 DEF IsSnapshot
  <2> HIDE DEF p, q, S
  <2>2. n # Root => Depth(q) = Depth(p) - p[n].taoIn + q[n].taoIn
    BY <2>1, DepthChanges
  <2> QED BY <1>1, <2>2 DEF p, q
<1>3. virtualReserves'[n].taoIn * virtualReserves'[n].alphaIn >= snapshot[n].taoIn * snapshot[n].alphaIn
  <2>1. virtualReserves[n].taoIn * virtualReserves[n].alphaIn >= snapshot[n].taoIn * snapshot[n].alphaIn
    BY DEF PoolsSound
  <2>2. /\ virtualReserves[n].taoIn * virtualReserves[n].alphaIn \in Int
        /\ snapshot[n].taoIn * snapshot[n].alphaIn \in Int
        /\ r.taoIn * r.alphaIn \in Int
    BY <1>1 DEF Sides, IsSnapshot, SubnetState
  <2> QED BY <1>1, <2>1, <2>2
<1>4. \A m \in DOMAIN snapshot : virtualReserves'[m].taoIn * virtualReserves'[m].alphaIn
                                   >= snapshot[m].taoIn * snapshot[m].alphaIn
  <2> SUFFICES ASSUME NEW m \in DOMAIN snapshot, m # n
               PROVE  virtualReserves'[m].taoIn * virtualReserves'[m].alphaIn
                        >= snapshot[m].taoIn * snapshot[m].alphaIn
    BY <1>3
  <2>1. virtualReserves'[m] = virtualReserves[m]
    BY <1>1
  <2> QED BY <2>1 DEF PoolsSound
<1> QED BY <1>1, <1>2, <1>4 DEF PoolsSound

\* What a leg of a rebalance does to the books: the fees it charges have left pools,
\* root and purse, or are owed by a purchase that brought nothing, and no more has left
\* than it books, but for the slack.
LegBalances(slack) ==
  LET lost == Tao(virtualReserves) - Tao(virtualReserves)'
  IN /\ Tao(virtualReserves)' \in Nat
     /\ tickTxFees' - tickTxFees <= lost + (unpaid' - unpaid)
     /\ lost <= totalFeesPaid' - totalFeesPaid + slack

LEMMA TaoIsNatural ==
  ASSUME IsSnapshot(snapshot), Holdings, Purse, virtualReserves \in [DOMAIN snapshot -> Sides]
  PROVE  /\ RootAlpha \in Nat /\ Depth(virtualReserves) \in Nat
         /\ Tao(virtualReserves) = free + RootAlpha + Depth(virtualReserves)
         /\ Tao(virtualReserves) \in Nat
<1>1. RootAlpha \in Nat
  BY DEF RootAlpha, Holdings
<1>2. Depth(virtualReserves) \in Nat
  BY DepthIsNatural DEF IsSnapshot
<1>3. Tao(virtualReserves) = free + RootAlpha + Depth(virtualReserves)
  BY DEF Tao, RootAlpha, Depth
<1> QED BY <1>1, <1>2, <1>3 DEF Purse

LEMMA NothingBalances ==
  ASSUME IsSnapshot(snapshot), Holdings, Purse, PoolsSound, UNCHANGED <<ledger, snapshot, hodlSn0Alpha>>,
         NEW slack \in Nat
  PROVE  Holdings' /\ Purse' /\ PoolsSound' /\ LegBalances(slack)
<1>1. /\ free' = free /\ positions' = positions /\ virtualReserves' = virtualReserves
      /\ feeFreeBudget' = feeFreeBudget /\ totalFeesPaid' = totalFeesPaid
      /\ tickTxFees' = tickTxFees /\ unpaid' = unpaid /\ snapshot' = snapshot
      /\ hodlSn0Alpha' = hodlSn0Alpha
  BY DEF ledger
<1>2. Holdings' /\ Purse' /\ PoolsSound'
  BY <1>1 DEF Holdings, Purse, PoolsSound
<1>3. Tao(virtualReserves)' = Tao(virtualReserves)
  BY <1>1 DEF Tao
<1>4. Tao(virtualReserves) \in Nat
  BY TaoIsNatural DEF PoolsSound
<1> QED BY <1>1, <1>2, <1>3, <1>4 DEF LegBalances, Purse

\* A sale of all or of a part of a position.
LEMMA PositionReduced ==
  ASSUME Holdings, NEW n \in DOMAIN positions, NEW alpha \in Nat \ {0}, alpha <= positions[n].alpha,
         NEW cost \in Nat, cost <= positions[n].costBasis, positions' = Reduced(n, alpha, cost)
  PROVE  /\ Holdings'
         /\ DOMAIN positions' \subseteq DOMAIN positions
         /\ \A m \in DOMAIN positions : m # n => m \in DOMAIN positions' /\ positions'[m] = positions[m]
         /\ alpha = positions[n].alpha => n \notin DOMAIN positions'
         /\ RootAlpha' = IF n = Root THEN RootAlpha - alpha ELSE RootAlpha
<1>1. positions[n].alpha \in Nat \ {0} /\ positions[n].costBasis \in Nat
  BY DEF Holdings
<1>2. CASE alpha = positions[n].alpha
  <2>1. positions' = [m \in DOMAIN positions \ {n} |-> positions[m]]
    BY <1>2 DEF Reduced
  <2>2. DOMAIN positions' = DOMAIN positions \ {n} /\ \A m \in DOMAIN positions' : positions'[m] = positions[m]
    BY <2>1
  <2>3. IsFiniteSet(DOMAIN positions')
    BY <2>2, FS_Subset DEF Holdings
  <2>4. positions' \in [DOMAIN positions' -> [alpha : Nat \ {0}, costBasis : Nat]]
    BY <2>1, <2>2 DEF Holdings
  <2> QED BY <1>1, <1>2, <2>2, <2>3, <2>4 DEF Holdings, RootAlpha
<1>3. CASE alpha # positions[n].alpha
  <2>1. positions' = [positions EXCEPT ![n].alpha = @ - alpha, ![n].costBasis = @ - cost]
    BY <1>3 DEF Reduced
  <2>2. positions[n].alpha - alpha \in Nat \ {0} /\ positions[n].costBasis - cost \in Nat
    BY <1>1, <1>3
  <2>3. positions[n] \in [alpha : Nat \ {0}, costBasis : Nat]
    BY DEF Holdings
  <2>4. /\ DOMAIN positions' = DOMAIN positions
        /\ \A m \in DOMAIN positions : m # n => positions'[m] = positions[m]
        /\ positions'[n].alpha = positions[n].alpha - alpha
        /\ positions'[n] \in [alpha : Nat \ {0}, costBasis : Nat]
    BY <2>1, <2>2, <2>3 DEF Holdings
  <2>5. positions' \in [DOMAIN positions -> [alpha : Nat \ {0}, costBasis : Nat]]
    BY <2>1, <2>4 DEF Holdings
  <2> QED BY <1>3, <2>4, <2>5 DEF Holdings, RootAlpha
<1> QED BY <1>2, <1>3

LEMMA SaleBalances ==
  ASSUME IsSnapshot(snapshot), Holdings, Purse, PoolsSound, UNCHANGED <<snapshot, hodlSn0Alpha>>,
         NEW n \in DOMAIN positions, NEW alpha \in Nat, alpha <= positions[n].alpha, Sell(n, alpha)
  PROVE  /\ Holdings' /\ Purse' /\ PoolsSound' /\ LegBalances(0)
         /\ DOMAIN positions' \subseteq DOMAIN positions
         /\ \A m \in DOMAIN positions : m # n => m \in DOMAIN positions' /\ positions'[m] = positions[m]
         /\ \A m \in DOMAIN snapshot : m # n => virtualReserves'[m] = virtualReserves[m]
         /\ alpha = positions[n].alpha /\ n \in DOMAIN positions' =>
              /\ SwapAlphaForTao(alpha, Reserves(n), n).amountOut <= TxFee
              /\ UNCHANGED <<positions, virtualReserves>>
         /\ DOMAIN positions \subseteq {Root} => free' + RootAlpha' <= free + RootAlpha
<1> DEFINE swap == SwapAlphaForTao(alpha, Reserves(n), n)
           received == swap.amountOut - TxFee
           cost == (positions[n].costBasis * alpha) \div positions[n].alpha
<1>1. positions[n].alpha \in Nat \ {0} /\ positions[n].costBasis \in Nat /\ TxFee \in Nat
  BY Bounds DEF Holdings
<1>2. Reserves(n) \in Sides
  BY DEF Reserves, Sides, PoolsSound
<1>3. swap.amountOut \in Nat
  <2>1. CASE n = Root
    BY <2>1, <1>2 DEF SwapAlphaForTao, Swap
  <2>2. CASE n # Root
    <3> HIDE DEF swap
    <3>1. swap.amountOut \in 0..Reserves(n).taoIn /\ Reserves(n).taoIn \in Nat
      BY <1>2, <2>2, SaleOfSides DEF swap, Sides
    <3> QED BY <3>1
  <2> QED BY <2>1, <2>2
<1>4. cost \in Nat /\ cost <= positions[n].costBasis
  <2>1. positions[n].costBasis * alpha \in Nat /\ alpha * positions[n].costBasis <= positions[n].alpha * positions[n].costBasis
    BY <1>1, Times
  <2>2. cost \in Nat /\ cost * positions[n].alpha <= positions[n].costBasis * alpha
    BY <1>1, <2>1, Division
  <2> DEFINE b == positions[n].costBasis
             a == positions[n].alpha
  <2> HIDE DEF cost, a, b
  <2>3. cost * a <= b * a /\ a \in Nat \ {0} /\ b \in Nat
    BY <1>1, <2>1, <2>2 DEF a, b
  <2>4. cost * a < (b + 1) * a
    BY <2>2, <2>3
  <2>5. cost < b + 1
    BY <2>2, <2>3, <2>4, Cancel
  <2> QED BY <2>2, <2>3, <2>5 DEF b
<1> HIDE DEF cost
<1>5. CASE received <= 0
  <2>1. UNCHANGED ledger
    BY <1>5 DEF Sell
  <2>2. positions' = positions /\ virtualReserves' = virtualReserves /\ free' = free
    BY <2>1 DEF ledger
  <2>3. Holdings' /\ Purse' /\ PoolsSound' /\ LegBalances(0)
    BY <2>1, NothingBalances
  <2>4. swap.amountOut <= TxFee
    BY <1>1, <1>3, <1>5
  <2>5. free' + RootAlpha' <= free + RootAlpha
    BY <2>2, TaoIsNatural DEF RootAlpha, Purse, PoolsSound
  <2> QED BY <2>2, <2>3, <2>4, <2>5
<1>6. CASE ~(received <= 0)
  <2>1. received \in Nat \ {0} /\ alpha \in Nat \ {0}
    <3>1. alpha # 0
      <4>1. CASE alpha = 0
        <5>1. swap = [amountOut |-> 0, poolFee |-> 0]
          BY <4>1, NoSwap DEF SwapAlphaForTao
        <5> QED BY <1>1, <1>6, <5>1
      <4> QED BY <4>1
    <3> QED BY <1>1, <1>3, <1>6, <3>1
  <2>2. /\ free' = free + received
        /\ positions' = Reduced(n, alpha, cost)
        /\ totalFeesPaid' = totalFeesPaid + AlphaFeeInTao(alpha, Reserves(n), n) + TxFee
        /\ tickTxFees' = tickTxFees + TxFee
        /\ unpaid' = unpaid
        /\ n = Root => virtualReserves' = virtualReserves /\ feeFreeBudget' = feeFreeBudget
        /\ n # Root => /\ virtualReserves' = [virtualReserves EXCEPT ![n] = AfterSale(@, alpha, swap)]
                       /\ feeFreeBudget' = feeFreeBudget + received
    BY <1>6 DEF Sell, cost
  <2>3. /\ Holdings'
        /\ DOMAIN positions' \subseteq DOMAIN positions
        /\ \A m \in DOMAIN positions : m # n => m \in DOMAIN positions' /\ positions'[m] = positions[m]
        /\ alpha = positions[n].alpha => n \notin DOMAIN positions'
        /\ RootAlpha' = IF n = Root THEN RootAlpha - alpha ELSE RootAlpha
    BY <1>4, <2>1, <2>2, PositionReduced
  <2>4. /\ RootAlpha \in Nat /\ Depth(virtualReserves) \in Nat /\ RootAlpha' \in Nat
        /\ Tao(virtualReserves) = free + RootAlpha + Depth(virtualReserves)
    BY <2>3, TaoIsNatural DEF PoolsSound, RootAlpha, Holdings
  <2>5. free \in Nat /\ totalFeesPaid \in Nat /\ tickTxFees \in Nat /\ unpaid \in Nat
        /\ feeFreeBudget \in Nat /\ hodlSn0Alpha' \in Nat
    BY DEF Purse
  <2>6. CASE n = Root
    <3>1. swap.amountOut = alpha /\ AlphaFeeInTao(alpha, Reserves(n), n) = 0
      <4>1. Swap(alpha, PoolFee(alpha), Reserves(n).alphaIn, Reserves(n).taoIn, Root).amountOut \in {0, alpha}
        BY DEF Swap
      <4>2. swap.amountOut # 0
        BY <1>1, <2>1
      <4> QED BY <2>6, <4>1, <4>2 DEF SwapAlphaForTao, AlphaFeeInTao
    <3>2. /\ free' + RootAlpha' = free + RootAlpha - TxFee
          /\ virtualReserves' = virtualReserves /\ totalFeesPaid' = totalFeesPaid + TxFee
          /\ feeFreeBudget' = feeFreeBudget /\ free' \in Nat
      BY <1>1, <2>1, <2>2, <2>3, <2>4, <2>5, <2>6, <3>1
    <3>3. Purse' /\ PoolsSound'
      BY <1>1, <2>1, <2>2, <2>5, <3>2 DEF Purse, PoolsSound
    <3>4. Tao(virtualReserves)' = free' + RootAlpha' + Depth(virtualReserves)
      BY <3>2 DEF Tao, RootAlpha, Depth
    <3>5. LegBalances(0)
      BY <1>1, <2>2, <2>4, <2>5, <3>2, <3>4 DEF LegBalances
    <3>6. free' + RootAlpha' <= free + RootAlpha
      BY <1>1, <2>4, <2>5, <3>2
    <3> QED BY <2>3, <3>2, <3>3, <3>5, <3>6
  <2>7. CASE n # Root
    <3>1. n \in DOMAIN snapshot /\ Reserves(n) = virtualReserves[n]
      <4>1. CASE n \notin DOMAIN virtualReserves
        <5>1. Reserves(n) = [taoIn |-> 0, alphaIn |-> 0]
          BY <4>1 DEF Reserves
        <5>2. swap = [amountOut |-> 0, poolFee |-> 0]
          BY <5>1, NoSwap DEF SwapAlphaForTao
        <5> QED BY <1>1, <1>6, <5>2
      <4> QED BY <4>1 DEF Reserves, PoolsSound
    <3> DEFINE left == AfterSale(virtualReserves[n], alpha, swap)
    <3>2. /\ swap.amountOut \in 0..virtualReserves[n].taoIn
          /\ left \in Sides
          /\ left.taoIn = virtualReserves[n].taoIn - swap.amountOut
          /\ left.taoIn * left.alphaIn >= virtualReserves[n].taoIn * virtualReserves[n].alphaIn
          /\ AlphaFeeInTao(alpha, Reserves(n), n) \in Nat
      BY <1>2, <2>7, <3>1, SaleOfSides
    <3>3. virtualReserves' = [virtualReserves EXCEPT ![n] = left]
      BY <2>2, <2>7
    <3>4. virtualReserves[n].taoIn \in Nat
      BY <1>2, <3>1 DEF Sides
    <3> HIDE DEF left, swap
    <3>5. /\ PoolsSound'
          /\ Depth(virtualReserves') = Depth(virtualReserves) - virtualReserves[n].taoIn + left.taoIn
      BY <2>7, <3>1, <3>2, <3>3, PoolChanges
    <3>6. Tao(virtualReserves)' = free' + RootAlpha' + Depth(virtualReserves')
      BY DEF Tao, RootAlpha, Depth
    <3>7. Tao(virtualReserves)' = Tao(virtualReserves) - TxFee /\ RootAlpha' = RootAlpha
      BY <1>1, <1>3, <2>2, <2>3, <2>4, <2>5, <2>7, <3>2, <3>4, <3>5, <3>6
    <3>8. Depth(virtualReserves') \in Nat
      BY <3>5, DepthIsNatural DEF PoolsSound, IsSnapshot
    <3>9. LegBalances(0)
      BY <1>1, <2>1, <2>2, <2>4, <2>5, <3>2, <3>6, <3>7, <3>8 DEF LegBalances
    <3>10. Purse'
      BY <1>1, <2>1, <2>2, <2>5, <2>7, <3>2 DEF Purse
    <3>11. \A m \in DOMAIN snapshot : m # n => virtualReserves'[m] = virtualReserves[m]
      BY <3>3 DEF PoolsSound
    <3> QED BY <2>3, <2>7, <3>5, <3>9, <3>10, <3>11 DEF swap
  <2> QED BY <2>6, <2>7
<1> QED BY <1>5, <1>6

-----------------------------------------------------------------------------
(* A purchase balances.                                                    *)

LEMMA MinOfTwo ==
  ASSUME NEW a \in Int, NEW b \in Int
  PROVE  /\ Min({a, b}) \in {a, b} /\ Min({a, b}) <= a /\ Min({a, b}) <= b
<1>1. \E x \in {a, b} : \A y \in {a, b} : x <= y
  <2>1. CASE a <= b
    BY <2>1
  <2>2. CASE b <= a
    BY <2>2
  <2> QED BY <2>1, <2>2
<1> QED BY <1>1 DEF Min

LEMMA PositionBought ==
  ASSUME Holdings, NEW n \in Netuids \cup {Root}, NEW alpha \in Nat \ {0}, NEW cost \in Nat,
         positions' = Bought(n, alpha, cost)
  PROVE  /\ Holdings'
         /\ DOMAIN positions' = DOMAIN positions \cup {n}
         /\ \A m \in DOMAIN positions : m # n => positions'[m] = positions[m]
         /\ RootAlpha' = IF n = Root THEN RootAlpha + alpha ELSE RootAlpha
<1>1. Position(n).alpha \in Nat /\ Position(n).costBasis \in Nat
  BY DEF Position, Holdings
<1> DEFINE new == [alpha |-> Position(n).alpha + alpha, costBasis |-> Position(n).costBasis + cost]
<1>2. new \in [alpha : Nat \ {0}, costBasis : Nat] /\ new.alpha = Position(n).alpha + alpha
  BY <1>1
<1>3. positions' = [m \in DOMAIN positions \cup {n} |-> IF m # n THEN positions[m] ELSE new]
  BY DEF Bought
<1> HIDE DEF new
<1>4. /\ DOMAIN positions' = DOMAIN positions \cup {n}
      /\ \A m \in DOMAIN positions : m # n => positions'[m] = positions[m]
      /\ positions'[n] = new
  BY <1>3
<1>5. IsFiniteSet(DOMAIN positions \cup {n})
  BY FS_AddElement DEF Holdings
<1>6. positions' \in [DOMAIN positions' -> [alpha : Nat \ {0}, costBasis : Nat]]
  <2> DEFINE R == [alpha : Nat \ {0}, costBasis : Nat]
  <2>1. \A m \in DOMAIN positions : positions[m] \in R
    BY DEF Holdings
  <2>2. new \in R
    BY <1>2
  <2> HIDE DEF R
  <2>3. positions' \in [DOMAIN positions' -> R]
    BY <1>3, <2>1, <2>2
  <2> QED BY <2>3 DEF R
<1>7. RootAlpha' = IF n = Root THEN RootAlpha + alpha ELSE RootAlpha
  <2>1. CASE n = Root
    <3>1. RootAlpha = Position(n).alpha
      BY <2>1 DEF RootAlpha, Position
    <3>2. RootAlpha' = positions'[n].alpha
      BY <1>4, <2>1 DEF RootAlpha
    <3> QED BY <1>2, <1>4, <2>1, <3>1, <3>2
  <2>2. CASE n # Root
    <3>1. Root \in DOMAIN positions' <=> Root \in DOMAIN positions
      BY <1>4, <2>2
    <3>2. Root \in DOMAIN positions => positions'[Root] = positions[Root]
      BY <1>4, <2>2
    <3> QED BY <2>2, <3>1, <3>2 DEF RootAlpha
  <2> QED BY <2>1, <2>2
<1> QED BY <1>4, <1>5, <1>6, <1>7 DEF Holdings

LEMMA RootPurchaseBalances ==
  ASSUME IsSnapshot(snapshot), Holdings, Purse, PoolsSound, UNCHANGED <<snapshot, hodlSn0Alpha>>,
         NEW actual \in Nat \ {0}, actual <= free, BuyRoot(actual)
  PROVE  /\ Holdings' /\ Purse' /\ PoolsSound' /\ LegBalances(TxFee)
         /\ DOMAIN positions' \subseteq DOMAIN positions \cup {Root}
         /\ \A m \in DOMAIN positions : m # Root => positions'[m] = positions[m]
         /\ virtualReserves' = virtualReserves
         /\ free' + RootAlpha' <= free + RootAlpha
<1> DEFINE amount == actual - TxFee
           swap == SwapTaoForAlpha(amount, Reserves(Root), Root, FALSE)
<1>0. TxFee \in Nat
  BY Bounds
<1>1. swap.amountOut = 0 \/ swap.amountOut = amount
  <2> HIDE DEF amount
  <2> QED BY DEF SwapTaoForAlpha, Swap
<1>2. CASE swap.amountOut <= 0
  <2>1. UNCHANGED ledger
    BY <1>2 DEF BuyRoot
  <2>2. Holdings' /\ Purse' /\ PoolsSound' /\ LegBalances(TxFee)
    BY <1>0, <2>1, NothingBalances
  <2>3. positions' = positions /\ virtualReserves' = virtualReserves /\ free' = free
    BY <2>1 DEF ledger
  <2>4. free' + RootAlpha' <= free + RootAlpha
    BY <2>3, TaoIsNatural DEF RootAlpha, Purse, PoolsSound
  <2> QED BY <2>2, <2>3, <2>4
<1>3. CASE ~(swap.amountOut <= 0)
  <2>1. swap.amountOut = amount /\ amount \in Nat \ {0}
    <3> HIDE DEF swap
    <3> QED BY <1>0, <1>1, <1>3
  <2>2. /\ free' = free - actual /\ positions' = Bought(Root, amount, actual)
        /\ totalFeesPaid' = totalFeesPaid + TxFee /\ tickTxFees' = tickTxFees + TxFee
        /\ virtualReserves' = virtualReserves /\ feeFreeBudget' = feeFreeBudget
        /\ unpaid' = unpaid
    <3> HIDE DEF amount
    <3>1. ~(swap.amountOut <= 0) => 
             /\ free' = free - actual /\ positions' = Bought(Root, swap.amountOut, actual)
             /\ totalFeesPaid' = totalFeesPaid + TxFee /\ tickTxFees' = tickTxFees + TxFee
             /\ virtualReserves' = virtualReserves /\ feeFreeBudget' = feeFreeBudget
             /\ unpaid' = unpaid
      BY DEF BuyRoot, amount
    <3> QED BY <1>3, <2>1, <3>1
  <2>3. /\ Holdings' /\ DOMAIN positions' = DOMAIN positions \cup {Root}
        /\ \A m \in DOMAIN positions : m # Root => positions'[m] = positions[m]
        /\ RootAlpha' = RootAlpha + amount
    BY <2>1, <2>2, PositionBought
  <2>4. /\ RootAlpha \in Nat /\ Depth(virtualReserves) \in Nat
        /\ Tao(virtualReserves) = free + RootAlpha + Depth(virtualReserves)
    BY TaoIsNatural DEF PoolsSound
  <2>5. /\ free \in Nat /\ totalFeesPaid \in Nat /\ tickTxFees \in Nat /\ unpaid \in Nat
        /\ feeFreeBudget \in Nat /\ hodlSn0Alpha' \in Nat
    BY DEF Purse
  <2>6. free' \in Nat /\ RootAlpha' \in Nat
    BY <2>1, <2>2, <2>3, <2>4, <2>5
  <2>7. free' + RootAlpha' = free + RootAlpha - TxFee
    BY <1>0, <2>1, <2>2, <2>3, <2>4, <2>5
  <2>8. Purse' /\ PoolsSound'
    BY <1>0, <2>2, <2>5, <2>6 DEF Purse, PoolsSound
  <2>9. Tao(virtualReserves)' = free' + RootAlpha' + Depth(virtualReserves)
    BY <2>2 DEF Tao, RootAlpha, Depth
  <2>10. LegBalances(TxFee)
    <3>1. Tao(virtualReserves)' \in Nat
      BY <2>4, <2>6, <2>9
    <3>2. Tao(virtualReserves) - Tao(virtualReserves)' = TxFee
      BY <1>0, <2>4, <2>5, <2>7, <2>9
    <3>3. totalFeesPaid' - totalFeesPaid = TxFee /\ tickTxFees' - tickTxFees = TxFee
          /\ unpaid' - unpaid = 0
      BY <1>0, <2>2, <2>5
    <3> QED BY <1>0, <3>1, <3>2, <3>3 DEF LegBalances
  <2>11. free' + RootAlpha' <= free + RootAlpha
    BY <1>0, <2>4, <2>5, <2>7
  <2> QED BY <2>2, <2>3, <2>8, <2>10, <2>11
<1> QED BY <1>2, <1>3

LEMMA PurchaseBalances ==
  ASSUME IsSnapshot(snapshot), Holdings, Purse, PoolsSound, UNCHANGED <<snapshot, hodlSn0Alpha>>,
         NEW n \in DOMAIN snapshot, n # Root,
         NEW actual \in Nat \ {0}, actual <= free, BuyAlpha(n, actual)
  PROVE  /\ Holdings' /\ Purse' /\ PoolsSound' /\ LegBalances(TxFee)
         /\ DOMAIN positions' \subseteq DOMAIN positions \cup {n}
         /\ \A m \in DOMAIN positions : m # n => positions'[m] = positions[m]
         /\ \A m \in DOMAIN snapshot : m # n => virtualReserves'[m] = virtualReserves[m]
<1> DEFINE pool == Reserves(n)
           feeFree == Min({actual, feeFreeBudget})
           net == actual - feeFree - TxFee
           first == SwapTaoForAlpha(feeFree, pool, n, TRUE)
           between == AfterPurchase(pool, feeFree, first)
           second == SwapTaoForAlpha(net, between, n, FALSE)
           alpha == first.amountOut + second.amountOut
           fees == IF net > 0 THEN TxFee ELSE 0
           after == IF net > 0 THEN AfterPurchase(between, net, second) ELSE between
<1>1. /\ feeFreeBudget' = feeFreeBudget - feeFree
      /\ virtualReserves' = [m \in DOMAIN virtualReserves |-> IF m = n THEN after ELSE virtualReserves[m]]
      /\ totalFeesPaid' = totalFeesPaid + fees + second.poolFee
      /\ tickTxFees' = tickTxFees + fees
      /\ alpha <= 0 => /\ unpaid' = unpaid + (after.taoIn - pool.taoIn) + fees
                       /\ free' = free /\ positions' = positions
      /\ ~(alpha <= 0) => /\ free' = free - actual /\ positions' = Bought(n, alpha, actual)
                          /\ unpaid' = unpaid
  BY DEF BuyAlpha
<1>2. /\ free \in Nat /\ totalFeesPaid \in Nat /\ tickTxFees \in Nat /\ unpaid \in Nat
      /\ feeFreeBudget \in Nat /\ hodlSn0Alpha' \in Nat /\ TxFee \in Nat
  BY Bounds DEF Purse
<1>3. feeFree \in Nat /\ feeFree <= actual /\ feeFree <= feeFreeBudget
  <2>1. feeFree \in {actual, feeFreeBudget} /\ feeFree <= actual /\ feeFree <= feeFreeBudget
    BY <1>2, MinOfTwo
  <2> HIDE DEF feeFree
  <2> QED BY <1>2, <2>1
<1>4. pool \in Sides /\ pool = virtualReserves[n] /\ pool.taoIn \in Nat /\ pool.alphaIn \in Nat
  BY DEF PoolsSound, Reserves, Sides
<1> HIDE DEF pool, feeFree
<1>5. /\ first.amountOut \in Nat
      /\ between \in Sides /\ between.taoIn = pool.taoIn + feeFree
      /\ between.taoIn * between.alphaIn >= pool.taoIn * pool.alphaIn
  <2>1. /\ first.amountOut \in Nat /\ (TRUE => first.poolFee = 0) /\ between \in Sides
        /\ between.taoIn = pool.taoIn + feeFree - first.poolFee
        /\ between.taoIn * between.alphaIn >= pool.taoIn * pool.alphaIn
    <3>1. TRUE \in BOOLEAN
      OBVIOUS
    <3>2. \A skipFee \in BOOLEAN :
            LET s == SwapTaoForAlpha(feeFree, pool, n, skipFee)
                left == AfterPurchase(pool, feeFree, s)
            IN /\ s.amountOut \in Nat /\ (skipFee => s.poolFee = 0) /\ left \in Sides
               /\ left.taoIn = pool.taoIn + feeFree - s.poolFee
               /\ left.taoIn * left.alphaIn >= pool.taoIn * pool.alphaIn
      BY <1>3, <1>4, PurchaseOfSides
    <3> QED BY <3>1, <3>2
  <2> HIDE DEF first, between
  <2> QED BY <1>3, <1>4, <2>1
<1> HIDE DEF first, between
<1>6. /\ second.amountOut \in Nat /\ second.poolFee \in Nat
      /\ after \in Sides
      /\ after.taoIn - pool.taoIn = feeFree + IF net > 0 THEN net - second.poolFee ELSE 0
      /\ after.taoIn >= pool.taoIn
      /\ after.taoIn * after.alphaIn >= pool.taoIn * pool.alphaIn
      /\ net <= 0 => second.poolFee = 0
  <2>0. net \in Int
    BY <1>2, <1>3
  <2>1. CASE net > 0
    <3>1. net \in Nat
      BY <2>0, <2>1
    <3>2. /\ second.amountOut \in Nat /\ second.poolFee \in 0..net
          /\ after \in Sides
          /\ after.taoIn = between.taoIn + net - second.poolFee
          /\ after.taoIn * after.alphaIn >= between.taoIn * between.alphaIn
      <4> HIDE DEF net
      <4> QED BY <1>5, <2>1, <3>1, PurchaseOfSides
    <3> HIDE DEF after, second, net
    <3>3. /\ after.taoIn * after.alphaIn \in Int /\ between.taoIn * between.alphaIn \in Int
          /\ pool.taoIn * pool.alphaIn \in Int
      BY <1>4, <1>5, <3>2 DEF Sides
    <3>4. after.taoIn * after.alphaIn >= pool.taoIn * pool.alphaIn
      BY <1>5, <3>2, <3>3
    <3> QED BY <1>3, <1>4, <1>5, <2>1, <3>1, <3>2, <3>4
  <2>2. CASE ~(net > 0)
    <3>1. net <= 0
      BY <2>0, <2>2
    <3>2. second = [amountOut |-> 0, poolFee |-> 0]
      BY <3>1, NoSwap DEF SwapTaoForAlpha
    <3>3. after = between
      BY <2>2
    <3> HIDE DEF after, second, net
    <3> QED BY <1>3, <1>4, <1>5, <2>0, <2>2, <3>2, <3>3
  <2> QED BY <2>1, <2>2
<1>7. net \in Int /\ fees \in Nat /\ fees <= TxFee /\ alpha \in Nat
  <2> HIDE DEF after, second
  <2>1. net \in Int /\ alpha \in Nat
    BY <1>2, <1>3, <1>5, <1>6
  <2> HIDE DEF net
  <2>2. fees \in Nat /\ fees <= TxFee
    BY <1>2
  <2> QED BY <2>1, <2>2
<1> HIDE DEF after, second
<1>8. PoolsSound' /\ Depth(virtualReserves') = Depth(virtualReserves) - pool.taoIn + after.taoIn
      /\ \A m \in DOMAIN snapshot : m # n => virtualReserves'[m] = virtualReserves[m]
  <2>1. virtualReserves' = [virtualReserves EXCEPT ![n] = after]
    BY <1>1 DEF PoolsSound
  <2>2. PoolsSound' /\ Depth(virtualReserves') = Depth(virtualReserves) - pool.taoIn + after.taoIn
    BY <1>4, <1>6, <2>1, PoolChanges
  <2> QED BY <2>1, <2>2 DEF PoolsSound
<1>9. /\ Depth(virtualReserves') \in Nat /\ Depth(virtualReserves) \in Nat /\ RootAlpha \in Nat
      /\ Tao(virtualReserves) = free + RootAlpha + Depth(virtualReserves)
  BY <1>8, TaoIsNatural, DepthIsNatural DEF PoolsSound, IsSnapshot
<1>10. Tao(virtualReserves)' = free' + RootAlpha' + Depth(virtualReserves')
  BY DEF Tao, RootAlpha, Depth
<1> DEFINE growth == after.taoIn - pool.taoIn
<1>11. /\ growth \in Nat
       /\ net > 0 => growth = actual - TxFee - second.poolFee /\ fees = TxFee
       /\ ~(net > 0) => growth = feeFree /\ fees = 0 /\ second.poolFee = 0 /\ actual - feeFree <= TxFee
  <2>1. after.taoIn \in Nat
    BY <1>6 DEF Sides
  <2> QED BY <1>2, <1>3, <1>4, <1>6, <2>1
<1>12. CASE alpha <= 0
  <2>1. free' = free /\ positions' = positions /\ unpaid' = unpaid + growth + fees
    BY <1>1, <1>12
  <2>2. Holdings' /\ RootAlpha' = RootAlpha
    BY <2>1 DEF Holdings, RootAlpha
  <2>3. Purse'
    BY <1>1, <1>2, <1>3, <1>6, <1>7, <1>11, <2>1 DEF Purse
  <2> DEFINE D == Depth(virtualReserves)
             E == Depth(virtualReserves')
  <2> HIDE DEF growth, net, alpha, fees, D, E
  <2>4. E = D + growth /\ D \in Nat /\ growth \in Nat
    BY <1>4, <1>6, <1>8, <1>9, <1>11 DEF growth, Sides, D, E
  <2>5. Tao(virtualReserves)' = free + RootAlpha + E /\ Tao(virtualReserves) = free + RootAlpha + D
    BY <1>9, <1>10, <2>1, <2>2 DEF D, E
  <2>6. Tao(virtualReserves) - Tao(virtualReserves)' = -growth /\ Tao(virtualReserves)' \in Nat
    BY <1>2, <1>9, <2>4, <2>5
  <2>7. tickTxFees' - tickTxFees = fees /\ unpaid' - unpaid = growth + fees
        /\ totalFeesPaid' - totalFeesPaid \in Nat
    BY <1>1, <1>2, <1>6, <1>7, <2>1, <2>4
  <2>8. LegBalances(TxFee)
    BY <1>2, <1>7, <2>4, <2>6, <2>7 DEF LegBalances
  <2> QED BY <1>8, <2>1, <2>2, <2>3, <2>8
<1>13. CASE ~(alpha <= 0)
  <2>1. free' = free - actual /\ positions' = Bought(n, alpha, actual) /\ unpaid' = unpaid
    BY <1>1, <1>13
  <2>2. alpha \in Nat \ {0} /\ n \in Netuids
    BY <1>7, <1>13 DEF IsSnapshot
  <2> HIDE DEF alpha
  <2>3. /\ Holdings' /\ RootAlpha' = RootAlpha
        /\ DOMAIN positions' = DOMAIN positions \cup {n}
        /\ \A m \in DOMAIN positions : m # n => positions'[m] = positions[m]
    BY <2>1, <2>2, PositionBought
  <2>4. Purse'
    BY <1>1, <1>2, <1>3, <1>6, <1>7, <2>1 DEF Purse
  <2> DEFINE D == Depth(virtualReserves)
             E == Depth(virtualReserves')
  <2> HIDE DEF growth, net, fees, D, E
  <2>5. E = D + growth /\ D \in Nat /\ E \in Nat /\ growth \in Nat
    BY <1>4, <1>6, <1>8, <1>9, <1>11 DEF growth, Sides, D, E
  <2>6. Tao(virtualReserves)' = free - actual + RootAlpha + E /\ Tao(virtualReserves) = free + RootAlpha + D
    BY <1>9, <1>10, <2>1, <2>3 DEF D, E
  <2>7. Tao(virtualReserves) - Tao(virtualReserves)' = actual - growth
    BY <1>2, <1>9, <2>5, <2>6
  <2>8. Tao(virtualReserves)' \in Nat
    BY <1>2, <1>9, <2>5, <2>6
  <2>9. tickTxFees' - tickTxFees = fees /\ unpaid' - unpaid = 0
        /\ totalFeesPaid' - totalFeesPaid = fees + second.poolFee
    BY <1>1, <1>2, <1>6, <1>7, <2>1
  <2>10. fees <= actual - growth /\ actual - growth <= fees + second.poolFee + TxFee
    BY <1>2, <1>3, <1>6, <1>7, <1>11
  <2>11. LegBalances(TxFee)
    BY <1>2, <1>6, <1>7, <2>5, <2>7, <2>8, <2>9, <2>10 DEF LegBalances
  <2> QED BY <1>8, <2>3, <2>4, <2>11
<1> QED BY <1>12, <1>13

-----------------------------------------------------------------------------
(* The targets of the strategies are for different subnets.                *)

LEMMA RankIsOneToOne ==
  ASSUME IsSnapshot(snapshot), NEW excluded
  PROVE  LET passing == Passing(excluded)
         IN /\ IsFiniteSet(passing) /\ Cardinality(passing) \in Nat
            /\ \A i \in 1..Cardinality(passing) : \E n \in passing : Rank(n, passing) = i
<1> DEFINE passing == Passing(excluded)
           C == Cardinality(passing)
           Ahead(n) == {m \in passing : Better(m, n)}
<1>1. /\ IsFiniteSet(passing) /\ C \in Nat
      /\ \A n \in passing : n \in Nat /\ snapshot[n].merit \in Nat
  <2>1. passing \subseteq DOMAIN snapshot
    BY DEF Passing
  <2>2. IsFiniteSet(passing)
    BY <2>1, FS_Subset DEF IsSnapshot
  <2> HIDE DEF passing
  <2> QED BY <2>1, <2>2, FS_CardinalityType, NetuidsAreNatural DEF IsSnapshot, SubnetState
<1> HIDE DEF passing
<1>2. ASSUME NEW n \in passing
      PROVE  /\ IsFiniteSet(Ahead(n)) /\ Cardinality(Ahead(n)) \in Nat /\ Rank(n, passing) = Cardinality(Ahead(n)) + 1
             /\ Rank(n, passing) \in 1..C
  <2>1. IsFiniteSet(Ahead(n))
    BY <1>1, FS_Subset
  <2>2. n \notin Ahead(n)
    BY <1>1 DEF Better
  <2>3. IsFiniteSet(Ahead(n) \cup {n}) /\ Cardinality(Ahead(n) \cup {n}) = Cardinality(Ahead(n)) + 1
    BY <2>1, <2>2, FS_AddElement
  <2>4. Ahead(n) \cup {n} \subseteq passing
    OBVIOUS
  <2>5. Cardinality(Ahead(n) \cup {n}) <= C
    BY <1>1, <2>4, FS_Subset
  <2>6. Cardinality(Ahead(n)) \in Nat
    BY <2>1, FS_CardinalityType
  <2>7. Rank(n, passing) = Cardinality(Ahead(n)) + 1
    BY DEF Rank
  <2> HIDE DEF Ahead
  <2> QED BY <1>1, <2>1, <2>3, <2>5, <2>6, <2>7
<1>3. ASSUME NEW m \in passing, NEW n \in passing, Better(m, n)
      PROVE  Rank(m, passing) # Rank(n, passing)
  <2>1. Ahead(m) \cup {m} \subseteq Ahead(n) /\ m \notin Ahead(m)
    BY <1>1, <1>3 DEF Better
  <2>2. Cardinality(Ahead(m) \cup {m}) = Cardinality(Ahead(m)) + 1
    BY <1>2, <2>1, FS_AddElement
  <2>3. Cardinality(Ahead(m) \cup {m}) <= Cardinality(Ahead(n))
    BY <1>2, <2>1, FS_Subset
  <2> HIDE DEF Ahead
  <2> QED BY <1>2, <2>2, <2>3
<1>4. ASSUME NEW m \in passing, NEW n \in passing, m # n
      PROVE  Rank(m, passing) # Rank(n, passing)
  <2>1. Better(m, n) \/ Better(n, m)
    BY <1>1, <1>4 DEF Better
  <2> QED BY <1>3, <2>1
<1> DEFINE f == [n \in passing |-> Rank(n, passing)]
<1>5. f \in [passing -> 1..C] /\ \A m, n \in passing : f[m] = f[n] => m = n
  BY <1>2, <1>4
<1>6. f \in Injection(passing, 1..C)
  BY <1>5 DEF Injection, IsInjective
<1>7. IsFiniteSet(1..C) /\ Cardinality(1..C) = C
  BY <1>1, FS_Interval
<1> HIDE DEF f
<1>8. f \in Surjection(passing, 1..C)
  BY <1>6, <1>7, FS_Injection DEF C
<1>9. \A i \in 1..C : \E n \in passing : f[n] = i
  BY <1>8 DEF Surjection
<1>10. \A i \in 1..C : \E n \in passing : Rank(n, passing) = i
  BY <1>9 DEF f
<1> QED BY <1>1, <1>10 DEF passing

\* The best are subnets that pass, each once.
LEMMA BestAreApart ==
  ASSUME IsSnapshot(snapshot), NEW count \in Nat, NEW excluded
  PROVE  LET best == Best(count, excluded)
         IN /\ best \in Seq(Passing(excluded)) /\ Len(best) <= count
            /\ \A i, j \in 1..Len(best) : best[i] = best[j] => i = j
<1> DEFINE passing == Passing(excluded)
           m == Min({count, Cardinality(passing)})
           best == [i \in 1..m |-> CHOOSE n \in passing : Rank(n, passing) = i]
<1>1. /\ Cardinality(passing) \in Nat
      /\ \A i \in 1..Cardinality(passing) : \E n \in passing : Rank(n, passing) = i
  BY RankIsOneToOne
<1>2. m \in Nat /\ m <= count /\ m <= Cardinality(passing)
  <2> DEFINE c == Cardinality(passing)
  <2> HIDE DEF c
  <2>1. c \in Nat
    BY <1>1 DEF c
  <2>2. Min({count, c}) \in {count, c} /\ Min({count, c}) <= count /\ Min({count, c}) <= c
    BY <2>1, MinOfTwo
  <2> QED BY <2>1, <2>2 DEF c
<1>3. Best(count, excluded) = best
  BY DEF Best
<1> HIDE DEF passing, m
<1>4. ASSUME NEW i \in 1..m PROVE best[i] \in passing /\ Rank(best[i], passing) = i
  <2>1. i \in 1..Cardinality(passing)
    BY <1>1, <1>2
  <2> QED BY <1>1, <2>1
<1>5. DOMAIN best = 1..m
  OBVIOUS
<1>6. best \in Seq(passing) /\ Len(best) = m
  <2>1. best \in [1..m -> passing]
    BY <1>4
  <2> HIDE DEF best
  <2> QED BY <1>2, <2>1
<1> HIDE DEF best
<1>7. \A i, j \in 1..Len(best) : best[i] = best[j] => i = j
  BY <1>4, <1>6
<1> QED BY <1>2, <1>3, <1>6, <1>7 DEF passing

Aim == [netuid : DOMAIN snapshot \cup {Root}, share : Nat \X (Nat \ {0})]

\* The targets of a strategy are for different subnets of the snapshot, or root.
Aimed(t, excluded) ==
  /\ t \in Seq(Aim)
  /\ \A i, j \in 1..Len(t) : t[i].netuid = t[j].netuid => i = j
  /\ strategy = "coward" => \A i \in 1..Len(t) : t[i].netuid = Root
  /\ strategy = "sma-stoploss" => \A i \in 1..Len(t) : t[i].netuid = Root \/ t[i].netuid \notin excluded

LEMMA TargetsAreAimed ==
  ASSUME IsSnapshot(snapshot), strategy \in {"coward", "root-emission", "sma-stoploss"}, NEW excluded
  PROVE  Aimed(StepTargets(excluded), excluded)
<1>1. ASSUME NEW n \in DOMAIN snapshot \cup {Root}, NEW a \in Nat, NEW b \in Nat \ {0}
      PROVE  Target(n, <<a, b>>) \in Aim /\ Target(n, <<a, b>>).netuid = n
  BY DEF Target, Aim
<1>2. ASSUME NEW n, n \in Passing({}) \/ n \in Passing(excluded)
      PROVE  n \in DOMAIN snapshot /\ n # Root /\ (n \in Passing(excluded) => n \notin excluded)
  BY <1>2 DEF Passing
<1>3. CASE strategy = "coward"
  <2>1. StepTargets(excluded) = <<Target(Root, <<1, 1>>)>>
    BY <1>3 DEF StepTargets
  <2>2. Target(Root, <<1, 1>>) \in Aim /\ Target(Root, <<1, 1>>).netuid = Root
    BY <1>1
  <2> QED BY <1>3, <2>1, <2>2 DEF Aimed
<1>4. CASE strategy = "root-emission"
  <2>1. CASE Best(1, {}) = <<>>
    <3>1. StepTargets(excluded) = <<Target(Root, <<1, 1>>)>>
      BY <1>4, <2>1 DEF StepTargets
    <3>2. Target(Root, <<1, 1>>) \in Aim /\ Target(Root, <<1, 1>>).netuid = Root
      BY <1>1
    <3> QED BY <1>4, <3>1, <3>2 DEF Aimed
  <2>2. CASE Best(1, {}) # <<>>
    <3> DEFINE w == Best(1, {})[1]
               t == Target(Root, <<RootSharePct, 100>>)
               u == Target(w, <<100 - RootSharePct, 100>>)
    <3>1. StepTargets(excluded) = <<t, u>>
      BY <1>4, <2>2 DEF StepTargets
    <3>2. w \in Passing({})
      BY <2>2, BestAreApart
    <3>3. RootSharePct \in Nat /\ 100 - RootSharePct \in Nat /\ 100 \in Nat \ {0}
      BY Bounds
    <3>4. t \in Aim /\ t.netuid = Root
      BY <1>1, <3>3
    <3>5. u \in Aim /\ u.netuid = w /\ w # Root
      BY <1>1, <1>2, <3>2, <3>3
    <3> HIDE DEF t, u, w
    <3> QED BY <1>4, <3>1, <3>4, <3>5 DEF Aimed
  <2> QED BY <2>1, <2>2
<1>5. CASE strategy = "sma-stoploss"
  <2> DEFINE winners == Best(MaxSubnets, excluded)
             left == MaxSubnets - Len(winners)
             s == [i \in DOMAIN winners |-> Target(winners[i], <<1, MaxSubnets>>)]
             r == Target(Root, <<left, MaxSubnets>>)
             rest == IF left > 0 THEN <<r>> ELSE <<>>
  <2>1. StepTargets(excluded) = s \o rest
    BY <1>5 DEF StepTargets
  <2>2. MaxSubnets \in Nat \ {0}
    BY Bounds
  <2>3. /\ winners \in Seq(Passing(excluded)) /\ Len(winners) <= MaxSubnets
        /\ \A i, j \in 1..Len(winners) : winners[i] = winners[j] => i = j
    BY <2>2, BestAreApart
  <2> HIDE DEF winners
  <2>4. /\ DOMAIN winners = 1..Len(winners) /\ Len(winners) \in Nat
        /\ \A i \in 1..Len(winners) : winners[i] \in DOMAIN snapshot /\ winners[i] # Root /\ winners[i] \notin excluded
    BY <1>2, <2>3
  <2>5. \A i \in 1..Len(winners) : s[i] \in Aim /\ s[i].netuid = winners[i]
    BY <1>1, <2>2, <2>4
  <2>6. s \in Seq(Aim) /\ Len(s) = Len(winners)
    <3>1. s \in [1..Len(winners) -> Aim]
      BY <2>4, <2>5
    <3> HIDE DEF s
    <3> QED BY <2>4, <3>1
  <2> HIDE DEF s
  <2>7. left \in Nat
    BY <2>2, <2>3, <2>4
  <2>8. r \in Aim /\ r.netuid = Root
    BY <1>1, <2>2, <2>7
  <2> HIDE DEF r, left
  <2>9. CASE left > 0
    <3>1. StepTargets(excluded) = Append(s, r)
      BY <2>1, <2>6, <2>8, <2>9
    <3> DEFINE t == Append(s, r)
    <3>2. /\ t \in Seq(Aim) /\ Len(t) = Len(s) + 1 /\ t[Len(s) + 1] = r
          /\ \A i \in 1..Len(s) : t[i] = s[i]
      BY <2>6, <2>8
    <3> HIDE DEF t
    <3>3. \A i \in 1..Len(t) : i \in 1..Len(winners) \/ i = Len(winners) + 1
      BY <2>4, <2>6, <3>2
    <3>4. \A i \in 1..Len(winners) : t[i].netuid = winners[i]
      BY <2>5, <2>6, <3>2
    <3>5. t[Len(winners) + 1].netuid = Root
      BY <2>6, <2>8, <3>2
    <3>6. \A i, j \in 1..Len(t) : t[i].netuid = t[j].netuid => i = j
      BY <2>3, <2>4, <3>3, <3>4, <3>5
    <3>7. \A i \in 1..Len(t) : t[i].netuid = Root \/ t[i].netuid \notin excluded
      BY <2>4, <3>3, <3>4, <3>5
    <3>8. Aimed(t, excluded)
      BY <1>5, <3>2, <3>6, <3>7 DEF Aimed
    <3> QED BY <3>1, <3>8 DEF t
  <2>10. CASE ~(left > 0)
    <3>1. StepTargets(excluded) = s
      <4>1. rest = <<>>
        BY <2>10
      <4>2. s \o <<>> = s
        BY <2>6
      <4> HIDE DEF rest
      <4> QED BY <2>1, <4>1, <4>2
    <3>2. \A i, j \in 1..Len(s) : s[i].netuid = s[j].netuid => i = j
      BY <2>3, <2>5, <2>6
    <3>3. \A i \in 1..Len(s) : s[i].netuid = Root \/ s[i].netuid \notin excluded
      BY <2>4, <2>5, <2>6
    <3>4. Aimed(s, excluded)
      BY <1>5, <2>6, <3>2, <3>3 DEF Aimed
    <3> QED BY <3>1, <3>4
  <2> QED BY <2>9, <2>10
<1> QED BY <1>3, <1>4, <1>5

-----------------------------------------------------------------------------
(* The invariant of the backtest.                                          *)

Memory ==
  /\ DOMAIN stopLosses \subseteq Netuids /\ DOMAIN stoppedOut \subseteq Netuids
  /\ \A n \in DOMAIN stoppedOut : stoppedOut[n] \in Int /\ stoppedOut[n] <= block

Rebalancing == phase \in {"exit", "trade"}

\* The legs that are left are for different subnets; what is sold is held.
Planned ==
  Rebalancing =>
    /\ Aimed(targets, DOMAIN stoppedOut)
    /\ plan = [value |-> plan.value, exits |-> plan.exits, diffs |-> plan.diffs,
               sells |-> plan.sells, buys |-> plan.buys]
    /\ plan.value \in Nat
    /\ plan.exits \subseteq DOMAIN positions
    /\ \A i \in 1..Len(targets) : targets[i].netuid \notin plan.exits
    /\ phase = "trade" =>
         /\ plan.exits = {}
         /\ plan.sells \subseteq 1..Len(targets) /\ plan.buys \subseteq 1..Len(targets)
         /\ \A i \in plan.sells :
              plan.diffs[i] \in Int /\ plan.diffs[i] < 0 /\ targets[i].netuid \in DOMAIN positions
         /\ \A i \in plan.buys : plan.diffs[i] \in Int
         /\ \A n \in DOMAIN preBuy : preBuy[n] \in Nat

\* The slack is the transaction fee of the buys that are done: they come in the order
\* of the targets.
Slack(k) ==
  /\ phase = "exit" => k = 0
  /\ phase = "trade" => \A j \in plan.buys : j > k

Balanced ==
  Rebalancing =>
    /\ PoolsSound
    /\ opening.tao \in Nat /\ opening.fees \in Nat /\ opening.txFees \in Nat
    /\ tickTxFees - opening.txFees <= opening.tao - Tao(virtualReserves) + unpaid
    /\ \E k \in 0..Len(targets) :
         /\ Slack(k)
         /\ opening.tao - Tao(virtualReserves) <= totalFeesPaid - opening.fees + TxFee * k

Benchmarked ==
  strategy = "coward" =>
    /\ DOMAIN positions \subseteq {Root}
    /\ free + RootAlpha <= hodlSn0Alpha

BacktestInv == Clock /\ Holdings /\ Purse /\ Memory /\ Planned /\ Balanced /\ Benchmarked

LEMMA BacktestBegins == BacktestInit => BacktestInv
<1> SUFFICES ASSUME BacktestInit PROVE BacktestInv
  OBVIOUS
<1> USE Bounds DEF BacktestInit
<1>1. DOMAIN <<>> = {} /\ IsFiniteSet({})
  BY FS_EmptySet
<1>2. Clock
  <2>1. IsSnapshot(snapshot)
    <3>1. snapshot = <<>> /\ DOMAIN snapshot = {}
      BY <1>1
    <3>2. snapshot = [n \in {} |-> snapshot[n]]
      BY <3>1
    <3> QED BY <1>1, <3>1, <3>2 DEF IsSnapshot
  <2>2. lastKnownPrices \in [DOMAIN lastKnownPrices -> Nat]
    BY <1>1
  <2> QED BY <2>1, <2>2 DEF Clock
<1>3. Holdings
  BY <1>1 DEF Holdings
<1>4. Purse
  BY DEF Purse
<1>5. Memory /\ Planned /\ Balanced
  BY <1>1 DEF Memory, Planned, Balanced, Rebalancing
<1>6. Benchmarked
  <2>1. RootAlpha = 0 /\ DOMAIN positions = {}
    BY <1>1 DEF RootAlpha
  <2> QED BY <2>1 DEF Benchmarked
<1> QED BY <1>2, <1>3, <1>4, <1>5, <1>6 DEF BacktestInv

LEMMA ObserveKeepsMemory ==
  ASSUME Clock, Holdings, Memory, Observe, UNCHANGED block
  PROVE  Memory' /\ lastObserved' \in {lastObserved, block}
<1>1. CASE ~Observes
  BY <1>1 DEF Observe, Memory, memory
<1>2. CASE Observes
  <2>1. /\ stopLosses' = UpdatedStops
        /\ stoppedOut' = [n \in Cooling \cup Triggered |-> IF n \in Triggered THEN block ELSE stoppedOut[n]]
        /\ lastObserved' = block
    BY <1>2 DEF Observe
  <2>2. Watched \subseteq Netuids /\ Triggered \subseteq Netuids /\ Cooling \subseteq DOMAIN stoppedOut
    BY DEF Watched, Triggered, Cooling, Quoted, Clock, IsSnapshot
  <2>3. DOMAIN stopLosses' = ((HeldNetuids \cap DOMAIN stopLosses) \cup Watched) \ Triggered
    BY <2>1 DEF UpdatedStops
  <2>4. DOMAIN stopLosses' \subseteq Netuids
    BY <2>2, <2>3 DEF Memory
  <2>5. DOMAIN stoppedOut' = Cooling \cup Triggered
    BY <2>1
  <2>6. \A n \in DOMAIN stoppedOut' : stoppedOut'[n] \in Int /\ stoppedOut'[n] <= block
    <3> SUFFICES ASSUME NEW n \in Cooling \cup Triggered PROVE stoppedOut'[n] \in Int /\ stoppedOut'[n] <= block
      BY <2>5
    <3>1. stoppedOut'[n] = IF n \in Triggered THEN block ELSE stoppedOut[n]
      BY <2>1
    <3>2. block \in Int
      BY Bounds DEF Clock
    <3> QED BY <2>2, <3>1, <3>2 DEF Memory
  <2> QED BY <2>1, <2>2, <2>4, <2>5, <2>6 DEF Memory
<1> QED BY <1>1, <1>2

\* The dividends of root alpha, of the purse's and of the benchmark's.
LEMMA RootEarnings ==
  ASSUME Clock, Holdings, NEW snap \in Markets, NEW delta \in Nat, NEW a \in Nat, NEW b \in Nat, a <= b
  PROVE  LET spot == [n \in DOMAIN snap |-> snap[n].spotPrice]
         IN /\ RootAccrued(a, snap, delta, PriceMap(snap)) \in Nat
            /\ RootAccrued(b, snap, delta, spot) \in Nat
            /\ RootAccrued(a, snap, delta, PriceMap(snap)) <= RootAccrued(b, snap, delta, spot)
<1> DEFINE p == PriceMap(snap)
           q == [n \in DOMAIN snap |-> snap[n].spotPrice]
<1>1. IsSnapshot(snap)
  BY MarketsAreSnapshots
<1>2. \A n \in DOMAIN snap \ {Root} : Price(p, n) \in Nat /\ Price(p, n) = Price(q, n)
  BY <1>1, PricesAreNatural DEF Clock
<1> HIDE DEF p, q
<1>3. /\ RootAccrued(a, snap, delta, p) \in Nat /\ RootAccrued(b, snap, delta, q) \in Nat
      /\ RootAccrued(a, snap, delta, p) <= RootAccrued(b, snap, delta, q)
  BY <1>1, <1>2, RootAccruedGrows
<1> QED BY <1>3 DEF p, q

LEMMA ReadKeeps ==
  ASSUME BacktestInv, NEW next \in block + 1 .. Min({block + MaxStep, LastBlock}), NEW snap \in Markets,
         Read(next, snap)
  PROVE  BacktestInv'
<1>1. Clock /\ Holdings /\ Purse /\ Memory /\ Benchmarked /\ IsSnapshot(snap)
  BY MarketsAreSnapshots DEF BacktestInv
<1>2. block \in Int /\ block >= 0 /\ lastAccrualBlock \in 0..block /\ block < LastBlock /\ block >= FirstBlock - 1
  BY <1>1, Bounds DEF Clock, Read
<1>3. next \in Int /\ next > block /\ next <= LastBlock
  <2>1. block + MaxStep \in Int /\ LastBlock \in Int
    BY <1>2, Bounds
  <2>2. Min({block + MaxStep, LastBlock}) \in {block + MaxStep, LastBlock}
        /\ Min({block + MaxStep, LastBlock}) <= LastBlock
    BY <2>1, MinOfTwo
  <2> DEFINE m == Min({block + MaxStep, LastBlock})
  <2>3. m \in Int /\ m <= LastBlock /\ next \in block + 1 .. m
    BY <2>1, <2>2
  <2> HIDE DEF m
  <2> QED BY <1>2, <2>1, <2>3
<1> DEFINE delta == IF lastAccrualBlock > 0 THEN next - lastAccrualBlock ELSE 0
           spot == [n \in DOMAIN snap |-> snap[n].spotPrice]
           earned(a) == RootAccrued(a, snap, delta, PriceMap(snap))
<1>4. delta \in Nat
  BY <1>2, <1>3
<1> HIDE DEF delta
<1>5. /\ phase = "idle" /\ phase' = "read" /\ block' = next /\ snapshot' = snap
      /\ lastKnownPrices' = Known(snap)
      /\ positions' = Accrued(snap, delta, PriceMap(snap))
      /\ hodlSn0Alpha' = hodlSn0Alpha + RootAccrued(hodlSn0Alpha, snap, delta, spot)
      /\ lastAccrualBlock' = next
      /\ UNCHANGED <<strategy, cron, free, virtualReserves, feeFreeBudget, totalFeesPaid,
                     tickTxFees, unpaid, lastRebalanceBlock, memory>>
  BY DEF Read, delta, spot, trigger
<1>6. Clock'
  <2>1. lastKnownPrices' \in [DOMAIN lastKnownPrices' -> Nat]
    <3>1. lastKnownPrices \in [DOMAIN lastKnownPrices -> Nat]
      BY <1>1 DEF Clock
    <3>2. \A n \in Quoted(snap) : snap[n].spotPrice \in Nat
      BY <1>1 DEF Quoted, IsSnapshot, SubnetState
    <3> QED BY <1>5, <3>1, <3>2, Bounds DEF Known
  <2>2. IsSnapshot(snapshot)'
    BY <1>1, <1>5 DEF IsSnapshot
  <2>3. /\ strategy' \in {"coward", "root-emission", "sma-stoploss"} /\ cron' \in BOOLEAN
        /\ lastRebalanceBlock' = lastRebalanceBlock /\ lastObserved' = lastObserved
    BY <1>1, <1>5 DEF Clock, memory
  <2>4. lastRebalanceBlock \in 0..block /\ lastObserved \in -1..block
    BY <1>1 DEF Clock
  <2>5. /\ block' \in FirstBlock - 1 .. LastBlock
        /\ lastAccrualBlock' \in 0..block' /\ lastRebalanceBlock' \in 0..block' /\ lastObserved' \in -1..block'
        /\ lastRebalanceBlock' < block' /\ lastObserved' < block'
    BY <1>2, <1>3, <1>5, <2>3, <2>4, Bounds
  <2> QED BY <1>5, <2>1, <2>2, <2>3, <2>5 DEF Clock
<1>7. \A n \in DOMAIN positions : positions[n].alpha \in Nat \ {0} /\ positions[n] \in [alpha : Nat \ {0}, costBasis : Nat]
  BY <1>1 DEF Holdings
<1>8. \A a \in Nat : earned(a) \in Nat
  <2> SUFFICES ASSUME NEW a \in Nat PROVE earned(a) \in Nat
    OBVIOUS
  <2>1. a <= a
    OBVIOUS
  <2> QED BY <1>1, <1>4, <2>1, RootEarnings
<1>9. \A n \in DOMAIN positions : AlphaAccrued(n, snap, delta) \in Nat
  BY <1>1, <1>4, AlphaAccruedIsNatural
<1> DEFINE gain(n) == AlphaAccrued(n, snap, delta) + IF n = Root THEN earned(positions[n].alpha) ELSE 0
<1>10. /\ DOMAIN positions' = DOMAIN positions
       /\ \A n \in DOMAIN positions : 
            /\ positions'[n] \in [alpha : Nat \ {0}, costBasis : Nat]
            /\ positions'[n].alpha = positions[n].alpha + gain(n)
            /\ gain(n) \in Nat
  <2>1. DOMAIN positions' = DOMAIN positions
    BY <1>5 DEF Accrued
  <2>2. ASSUME NEW n \in DOMAIN positions
        PROVE  /\ positions'[n] \in [alpha : Nat \ {0}, costBasis : Nat]
               /\ positions'[n].alpha = positions[n].alpha + gain(n)
               /\ gain(n) \in Nat
    <3>1. positions'[n] = [positions[n] EXCEPT !.alpha = @ + AlphaAccrued(n, snap, delta)
                             + IF n = Root THEN earned(@) ELSE 0]
      BY <1>5 DEF Accrued
    <3> DEFINE e == IF n = Root THEN earned(positions[n].alpha) ELSE 0
               g == AlphaAccrued(n, snap, delta)
               a == positions[n].alpha
    <3>2. e \in Nat /\ g \in Nat /\ a \in Nat \ {0}
      BY <1>7, <1>8, <1>9
    <3>3. positions'[n] = [positions[n] EXCEPT !.alpha = a + g + e]
      BY <3>1
    <3>4. gain(n) = g + e
      OBVIOUS
    <3> HIDE DEF e, g, a, gain
    <3>5. a + g + e \in Nat \ {0} /\ a + g + e = a + gain(n)
      BY <3>2, <3>4
    <3>6. positions[n] \in [alpha : Nat \ {0}, costBasis : Nat]
      BY <1>7
    <3> QED BY <3>2, <3>3, <3>4, <3>5, <3>6 DEF a
  <2> QED BY <2>1, <2>2
<1> HIDE DEF gain
<1>11. Holdings'
  <2>1. positions' \in [DOMAIN positions' -> [alpha : Nat \ {0}, costBasis : Nat]]
    <3>1. positions' = [n \in DOMAIN positions' |-> positions'[n]]
      BY <1>5 DEF Accrued
    <3> QED BY <1>10, <3>1
  <2> QED BY <1>1, <1>10, <2>1 DEF Holdings
<1>12. hodlSn0Alpha \in Nat /\ RootAccrued(hodlSn0Alpha, snap, delta, spot) \in Nat
  <2>1. hodlSn0Alpha \in Nat /\ hodlSn0Alpha <= hodlSn0Alpha
    BY <1>1 DEF Purse
  <2> QED BY <1>1, <1>4, <2>1, RootEarnings
<1>13. Purse'
  BY <1>1, <1>5, <1>12 DEF Purse
<1>14. Memory' /\ Planned' /\ Balanced'
  <2>1. Planned' /\ Balanced'
    BY <1>5 DEF Planned, Balanced, Rebalancing
  <2>2. Memory'
    <3>1. stopLosses' = stopLosses /\ stoppedOut' = stoppedOut /\ block' > block /\ block' \in Int
      BY <1>3, <1>5 DEF memory
    <3> QED BY <1>1, <1>2, <3>1 DEF Memory
  <2> QED BY <2>1, <2>2
<1>15. Benchmarked'
  <2> SUFFICES ASSUME strategy = "coward"
               PROVE  DOMAIN positions' \subseteq {Root} /\ free' + RootAlpha' <= hodlSn0Alpha'
    BY <1>5 DEF Benchmarked
  <2>1. DOMAIN positions \subseteq {Root} /\ free + RootAlpha <= hodlSn0Alpha /\ free' = free /\ free \in Nat
    BY <1>1, <1>5 DEF Benchmarked, Purse
  <2>2. RootAlpha \in Nat
    BY <1>7 DEF RootAlpha
  <2>3. RootAlpha' <= RootAlpha + earned(RootAlpha) /\ RootAlpha' \in Nat
    <3>1. CASE Root \in DOMAIN positions
      <4>1. RootAlpha = positions[Root].alpha /\ RootAlpha' = positions'[Root].alpha
        BY <1>10, <3>1 DEF RootAlpha
      <4>2. AlphaAccrued(Root, snap, delta) = 0
        BY DEF AlphaAccrued, Emitting
      <4>3. gain(Root) = earned(RootAlpha)
        <5>1. gain(Root) = 0 + earned(RootAlpha)
          BY <4>1, <4>2 DEF gain
        <5>2. earned(RootAlpha) \in Nat
          BY <1>8, <2>2
        <5> HIDE DEF earned
        <5> QED BY <5>1, <5>2
      <4> HIDE DEF earned
      <4>4. RootAlpha' = RootAlpha + earned(RootAlpha)
        BY <1>10, <3>1, <4>1, <4>3
      <4>5. earned(RootAlpha) \in Nat
        BY <1>8, <2>2
      <4> QED BY <2>2, <4>4, <4>5
    <3>2. CASE Root \notin DOMAIN positions
      <4>1. RootAlpha = 0 /\ RootAlpha' = 0
        BY <1>10, <3>2 DEF RootAlpha
      <4>2. earned(RootAlpha) \in Nat
        BY <1>8, <2>2
      <4> HIDE DEF earned
      <4> QED BY <4>1, <4>2
    <3> QED BY <3>1, <3>2
  <2>4. earned(RootAlpha) <= RootAccrued(hodlSn0Alpha, snap, delta, spot)
    <3>1. RootAlpha <= hodlSn0Alpha
      BY <1>12, <2>1, <2>2
    <3> QED BY <1>1, <1>4, <1>12, <2>2, <3>1, RootEarnings
  <2>5. earned(RootAlpha) \in Nat
    BY <1>8, <2>2
  <2> DEFINE E == earned(RootAlpha)
             H == RootAccrued(hodlSn0Alpha, snap, delta, spot)
  <2> HIDE DEF E, H
  <2>6. E \in Nat /\ H \in Nat /\ E <= H /\ hodlSn0Alpha' = hodlSn0Alpha + H /\ RootAlpha' <= RootAlpha + E
    BY <1>5, <1>12, <2>3, <2>4, <2>5 DEF E, H
  <2>7. free' + RootAlpha' <= hodlSn0Alpha'
    <3> DEFINE a == RootAlpha
               b == RootAlpha'
               h == hodlSn0Alpha
    <3>1. a \in Nat /\ b \in Nat /\ h \in Nat /\ free \in Nat
      BY <1>12, <2>1, <2>2, <2>3
    <3>2. free + a <= h /\ b <= a + E
      BY <2>1, <2>6
    <3> HIDE DEF a, b
    <3>3. free + b <= h + H
      BY <2>6, <3>1, <3>2
    <3> QED BY <2>1, <2>6, <3>3 DEF b
  <2> QED BY <1>10, <2>1, <2>7
<1> QED BY <1>6, <1>11, <1>13, <1>14, <1>15 DEF BacktestInv

LEMMA FrameKeeps ==
  ASSUME Clock, Memory, UNCHANGED <<strategy, cron, phase, market, trigger, memory>>
  PROVE  /\ Clock' /\ Memory'
         /\ strategy' = strategy /\ phase' = phase /\ block' = block /\ snapshot' = snapshot
         /\ hodlSn0Alpha' = hodlSn0Alpha /\ stoppedOut' = stoppedOut /\ stopLosses' = stopLosses
         /\ lastRebalanceBlock' = lastRebalanceBlock /\ pending' = pending
<1>1. /\ strategy' = strategy /\ cron' = cron /\ phase' = phase /\ block' = block /\ snapshot' = snapshot
      /\ lastKnownPrices' = lastKnownPrices /\ lastAccrualBlock' = lastAccrualBlock
      /\ hodlSn0Alpha' = hodlSn0Alpha /\ lastRebalanceBlock' = lastRebalanceBlock
      /\ lastObserved' = lastObserved /\ stoppedOut' = stoppedOut /\ stopLosses' = stopLosses
      /\ pending' = pending
  BY DEF market, trigger, memory
<1>2. Clock'
  BY <1>1 DEF Clock, IsSnapshot
<1>3. Memory'
  BY <1>1 DEF Memory
<1> QED BY <1>1, <1>2, <1>3

LEMMA DecideKeeps ==
  ASSUME BacktestInv, Decide
  PROVE  BacktestInv'
<1>1. Clock /\ Holdings /\ Purse /\ Memory /\ Benchmarked
  BY DEF BacktestInv
<1>2. /\ phase = "read" /\ phase' \in {"step", "idle"}
      /\ UNCHANGED <<strategy, cron, block, snapshot, lastKnownPrices, lastAccrualBlock,
                     hodlSn0Alpha, ledger, lastRebalanceBlock>>
      /\ UNCHANGED memory \/ Observe
  BY DEF Decide
<1>3. Memory' /\ lastObserved' \in {lastObserved, block}
  <2>1. CASE UNCHANGED memory
    BY <1>1, <1>2, <2>1 DEF Memory, memory
  <2>2. CASE Observe
    BY <1>1, <1>2, <2>2, ObserveKeepsMemory
  <2> QED BY <1>2, <2>1, <2>2
<1>4. block \in Int /\ block >= 0
  BY <1>1, Bounds DEF Clock
<1>5. Clock'
  BY <1>1, <1>2, <1>3, <1>4 DEF Clock, IsSnapshot
<1>6. Holdings' /\ Purse' /\ Benchmarked'
  BY <1>1, <1>2 DEF Holdings, Purse, Benchmarked, RootAlpha, ledger
<1>7. Planned' /\ Balanced'
  BY <1>2 DEF Planned, Balanced, Rebalancing
<1> QED BY <1>3, <1>5, <1>6, <1>7 DEF BacktestInv

LEMMA StepKeeps ==
  ASSUME BacktestInv, Step
  PROVE  BacktestInv'
<1>1. Clock /\ Holdings /\ Purse /\ Memory /\ Benchmarked
  BY DEF BacktestInv
<1> DEFINE value == PortfolioValue(PriceMap(snapshot))
           exits == DOMAIN positions \ {targets'[i].netuid : i \in DOMAIN targets'}
<1>2. /\ phase = "step" /\ phase' = "exit" /\ Observe
      /\ targets' = StepTargets(DOMAIN stoppedOut')
      /\ virtualReserves' = [n \in DOMAIN snapshot |->
                               [taoIn |-> snapshot[n].taoIn, alphaIn |-> snapshot[n].alphaIn]]
      /\ feeFreeBudget' = 0 /\ unpaid' = 0
      /\ plan' = [NoPlan EXCEPT !.value = value, !.exits = exits]
      /\ opening' = [tao |-> Tao(virtualReserves'), fees |-> totalFeesPaid, txFees |-> tickTxFees]
      /\ UNCHANGED <<strategy, cron, market, free, positions, totalFeesPaid, tickTxFees, trigger>>
  BY DEF Step
<1>3. Memory' /\ lastObserved' \in {lastObserved, block}
  BY <1>1, <1>2, ObserveKeepsMemory DEF market
<1>4. block \in Int /\ block >= 0
  BY <1>1, Bounds DEF Clock
<1>5. /\ snapshot' = snapshot /\ lastKnownPrices' = lastKnownPrices /\ hodlSn0Alpha' = hodlSn0Alpha
      /\ block' = block /\ lastAccrualBlock' = lastAccrualBlock /\ lastRebalanceBlock' = lastRebalanceBlock
      /\ strategy' = strategy /\ cron' = cron
  BY <1>2 DEF market, trigger
<1>6. Clock'
  BY <1>1, <1>2, <1>3, <1>4, <1>5 DEF Clock, IsSnapshot
<1>7. Holdings' /\ Benchmarked'
  BY <1>1, <1>2, <1>5 DEF Holdings, Benchmarked, RootAlpha
<1>8. Purse'
  BY <1>1, <1>2, <1>5 DEF Purse
<1>9. Planned'
  <2>1. Aimed(targets, DOMAIN stoppedOut)'
    <3>1. Aimed(StepTargets(DOMAIN stoppedOut'), DOMAIN stoppedOut')
      BY <1>1, TargetsAreAimed DEF Clock
    <3> QED BY <1>2, <1>5, <3>1 DEF Aimed, Aim
  <2>2. value \in Nat
    <3>1. IsSnapshot(snapshot) /\ lastKnownPrices \in [DOMAIN lastKnownPrices -> Nat]
      BY <1>1 DEF Clock
    <3>2. \A n : Price(PriceMap(snapshot), n) \in Nat
      BY <3>1, PricesAreNatural
    <3> QED BY <1>1, <3>2, PortfolioIsNatural DEF Purse
  <2> HIDE DEF value, exits
  <2>3. plan' = [value |-> value, exits |-> exits, diffs |-> <<>>, sells |-> {}, buys |-> {}]
    BY <1>2 DEF NoPlan
  <2>4. DOMAIN targets' = 1..Len(targets')
    BY <2>1 DEF Aimed
  <2>5. exits \subseteq DOMAIN positions /\ \A i \in 1..Len(targets') : targets'[i].netuid \notin exits
    BY <2>4 DEF exits
  <2> QED BY <1>2, <2>1, <2>2, <2>3, <2>5 DEF Planned, Rebalancing
<1>10. PoolsSound'
  <2>1. \A n \in DOMAIN snapshot : snapshot[n].taoIn \in Nat /\ snapshot[n].alphaIn \in Nat
    BY <1>1 DEF Clock, IsSnapshot, SubnetState
  <2>2. virtualReserves' \in [DOMAIN snapshot -> Sides]
    BY <1>2, <2>1 DEF Sides
  <2>3. \A n \in DOMAIN snapshot : /\ virtualReserves'[n].taoIn = snapshot[n].taoIn
                                   /\ virtualReserves'[n].alphaIn = snapshot[n].alphaIn
    BY <1>2
  <2>4. \A n \in DOMAIN snapshot : virtualReserves'[n].taoIn * virtualReserves'[n].alphaIn
                                     >= snapshot[n].taoIn * snapshot[n].alphaIn
    BY <2>1, <2>3
  <2> QED BY <1>5, <2>2, <2>4 DEF PoolsSound
<1>11. Balanced'
  <2>1. Tao(virtualReserves') = Tao(virtualReserves)'
    BY <1>2 DEF Tao
  <2>2. Tao(virtualReserves)' \in Nat
    <3>1. /\ RootAlpha' \in Nat /\ free' \in Nat
      BY <1>7, <1>8 DEF RootAlpha, Holdings, Purse
    <3>2. Depth(virtualReserves') \in Nat
      BY <1>1, <1>5, <1>10, DepthIsNatural DEF PoolsSound, Clock, IsSnapshot
    <3>3. Tao(virtualReserves)' = free' + RootAlpha' + Depth(virtualReserves')
      BY DEF Tao, RootAlpha, Depth
    <3> QED BY <3>1, <3>2, <3>3
  <2>3. /\ opening'.tao = Tao(virtualReserves)' /\ opening'.fees = totalFeesPaid'
        /\ opening'.txFees = tickTxFees'
    BY <1>2, <2>1
  <2>4. totalFeesPaid' \in Nat /\ tickTxFees' \in Nat
    BY <1>8 DEF Purse
  <2>5. Len(targets') \in Nat /\ TxFee \in Nat
    BY <1>9, <1>2, Bounds DEF Planned, Rebalancing, Aimed
  <2>6. Slack(0)'
    BY <1>2 DEF Slack
  <2>7. /\ tickTxFees' - opening'.txFees <= opening'.tao - Tao(virtualReserves)' + unpaid'
        /\ 0 \in 0..Len(targets')
        /\ opening'.tao - Tao(virtualReserves)' <= totalFeesPaid' - opening'.fees + TxFee * 0
    <3> DEFINE t == Tao(virtualReserves)'
               f == totalFeesPaid'
               x == tickTxFees'
    <3> HIDE DEF t, f, x
    <3>1. t \in Nat /\ f \in Nat /\ x \in Nat
      BY <2>2, <2>4 DEF t, f, x
    <3>2. x - x <= t - t + 0 /\ 0 \in 0..Len(targets') /\ t - t <= f - f + TxFee * 0
      BY <2>5, <3>1
    <3> QED BY <1>2, <2>3, <3>2 DEF t, f, x
  <2> QED BY <1>10, <2>2, <2>3, <2>4, <2>6, <2>7 DEF Balanced
<1> QED BY <1>3, <1>6, <1>7, <1>8, <1>9, <1>11 DEF BacktestInv

LEMMA AfterRebalanceKeeps ==
  ASSUME BacktestInv, AfterRebalance
  PROVE  BacktestInv'
<1>1. Clock /\ Holdings /\ Purse /\ Memory /\ Benchmarked
  BY DEF BacktestInv
<1>2. /\ phase = "trade" /\ phase' = "idle"
      /\ stopLosses' = IF strategy = "sma-stoploss" THEN SeededStops ELSE stopLosses
      /\ tickTxFees' = IF tickTraded THEN 0 ELSE tickTxFees
      /\ lastRebalanceBlock' = block /\ unpaid' = 0
      /\ UNCHANGED <<strategy, cron, market, free, positions, feeFreeBudget, totalFeesPaid,
                     stoppedOut, lastObserved>>
  BY DEF AfterRebalance
<1>3. block \in Int /\ block >= 0
  BY <1>1, Bounds DEF Clock
<1>4. /\ snapshot' = snapshot /\ lastKnownPrices' = lastKnownPrices /\ hodlSn0Alpha' = hodlSn0Alpha
      /\ block' = block /\ lastAccrualBlock' = lastAccrualBlock
  BY <1>2 DEF market
<1>5. Clock'
  BY <1>1, <1>2, <1>3, <1>4 DEF Clock, IsSnapshot
<1>6. Holdings' /\ Benchmarked'
  BY <1>1, <1>2, <1>4 DEF Holdings, Benchmarked, RootAlpha
<1>7. Purse'
  BY <1>1, <1>2, <1>4 DEF Purse
<1>8. Memory'
  <2>1. HeldNetuids \ {Root} \subseteq Netuids
    BY <1>1 DEF HeldNetuids, Holdings
  <2>2. DOMAIN SeededStops \subseteq Netuids
    BY <1>1, <2>1 DEF SeededStops, Memory
  <2> QED BY <1>1, <1>2, <1>4, <2>2 DEF Memory
<1>9. Planned' /\ Balanced'
  BY <1>2 DEF Planned, Balanced, Rebalancing
<1> QED BY <1>5, <1>6, <1>7, <1>8, <1>9 DEF BacktestInv

LEMMA ReportKeeps ==
  ASSUME BacktestInv, Report
  PROVE  BacktestInv'
<1>1. Clock /\ Holdings /\ Purse /\ Memory /\ Benchmarked
  BY DEF BacktestInv
<1>2. /\ phase' = "done"
      /\ UNCHANGED <<strategy, cron, block, snapshot, lastKnownPrices, lastAccrualBlock, hodlSn0Alpha,
                     lastRebalanceBlock, free, positions, feeFreeBudget, totalFeesPaid, tickTxFees, unpaid,
                     stopLosses, stoppedOut, lastObserved>>
  BY DEF Report, ledger, market, trigger, memory
<1>3. Clock'
  BY <1>1, <1>2 DEF Clock, IsSnapshot
<1>4. Holdings' /\ Purse' /\ Memory' /\ Benchmarked'
  BY <1>1, <1>2 DEF Holdings, Purse, Memory, Benchmarked, RootAlpha
<1>5. Planned' /\ Balanced'
  BY <1>2 DEF Planned, Balanced, Rebalancing
<1> QED BY <1>3, <1>4, <1>5 DEF BacktestInv

LEMMA BacktestStutters ==
  ASSUME BacktestInv, UNCHANGED backtestVars
  PROVE  BacktestInv'
<1>1. Clock /\ Holdings /\ Purse /\ Memory /\ Benchmarked /\ Planned /\ Balanced
  BY DEF BacktestInv
<1>2. UNCHANGED <<strategy, cron, phase, block, snapshot, lastKnownPrices, lastAccrualBlock, hodlSn0Alpha,
                  lastRebalanceBlock, free, positions, feeFreeBudget, totalFeesPaid, tickTxFees, unpaid,
                  virtualReserves, stopLosses, stoppedOut, lastObserved, targets, plan, preBuy, opening>>
  BY DEF backtestVars, ledger, market, trigger, memory
<1>3. Clock'
  BY <1>1, <1>2 DEF Clock, IsSnapshot
<1>4. Holdings' /\ Purse' /\ Memory' /\ Benchmarked'
  BY <1>1, <1>2 DEF Holdings, Purse, Memory, Benchmarked, RootAlpha
<1>5. Planned'
  BY <1>1, <1>2 DEF Planned, Rebalancing, Aimed, Aim
<1>6. Balanced'
  <2>1. /\ Tao(virtualReserves)' = Tao(virtualReserves) /\ \A k : Slack(k)' <=> Slack(k)
        /\ PoolsSound' <=> PoolsSound
    BY <1>2 DEF Tao, Slack, PoolsSound
  <2> QED BY <1>1, <1>2, <2>1 DEF Balanced, Rebalancing
<1> QED BY <1>3, <1>4, <1>5, <1>6 DEF BacktestInv

-----------------------------------------------------------------------------
(* The legs of a rebalance keep it.                                        *)

\* A leg that balances leaves the rebalance balanced: a sale without slack, a buy with
\* one transaction fee, the one of its target.
LEMMA LegKeepsBalance ==
  ASSUME BacktestInv, Rebalancing, UNCHANGED <<phase, opening, targets>>, Purse', PoolsSound',
         NEW slack \in {0, TxFee}, LegBalances(slack),
         \/ slack = 0 /\ plan'.buys = plan.buys
         \/ /\ slack = TxFee /\ phase = "trade"
            /\ \E i \in plan.buys : (\A j \in plan.buys : i <= j) /\ plan'.buys = plan.buys \ {i}
  PROVE  Balanced'
<1>1. /\ opening.tao \in Nat /\ opening.fees \in Nat /\ opening.txFees \in Nat
      /\ tickTxFees - opening.txFees <= opening.tao - Tao(virtualReserves) + unpaid
      /\ Clock /\ Holdings /\ Purse /\ PoolsSound
      /\ phase \in {"exit", "trade"}
  BY DEF BacktestInv, Balanced, Rebalancing
<1>2. PICK k \in 0..Len(targets) :
        /\ Slack(k)
        /\ opening.tao - Tao(virtualReserves) <= totalFeesPaid - opening.fees + TxFee * k
  BY DEF BacktestInv, Balanced
<1>3. /\ Aimed(targets, DOMAIN stoppedOut)
      /\ phase = "trade" => plan.buys \subseteq 1..Len(targets)
  BY DEF BacktestInv, Planned
<1>4. Len(targets) \in Nat /\ TxFee \in Nat
  BY <1>3, Bounds DEF Aimed
<1> DEFINE s == Tao(virtualReserves)
           t == Tao(virtualReserves)'
           f == totalFeesPaid
           g == totalFeesPaid'
           x == tickTxFees
           y == tickTxFees'
           u == unpaid
           v == unpaid'
           o == opening
<1>5. /\ s \in Nat /\ t \in Nat /\ f \in Nat /\ g \in Nat /\ x \in Nat /\ y \in Nat /\ u \in Nat /\ v \in Nat
      /\ y - x <= (s - t) + (v - u) /\ s - t <= g - f + slack
      /\ x - o.txFees <= o.tao - s + u /\ o.tao - s <= f - o.fees + TxFee * k
      /\ o.tao \in Nat /\ o.fees \in Nat /\ o.txFees \in Nat
  BY <1>1, <1>2, TaoIsNatural DEF LegBalances, Purse, PoolsSound, Clock
<1>6. opening' = o /\ targets' = targets /\ phase' = phase
  OBVIOUS
<1> HIDE DEF s, t, f, g, x, y, u, v, o
<1> DEFINE a == o.tao
           b == o.fees
           c == o.txFees
<1>7. a \in Nat /\ b \in Nat /\ c \in Nat
      /\ x - c <= a - s + u /\ a - s <= f - b + TxFee * k
  BY <1>5
<1> HIDE DEF a, b, c
<1>8. TxFee * k \in Nat /\ slack \in Nat /\ k \in Nat
  BY <1>2, <1>4
<1>9. y - c <= a - t + v
  BY <1>5, <1>7
<1>10. a - t <= g - b + (TxFee * k + slack)
  <2> DEFINE m == TxFee * k
  <2> HIDE DEF m
  <2>1. m \in Nat /\ a - s <= f - b + m
    BY <1>7, <1>8 DEF m
  <2>2. a - t <= g - b + (m + slack)
    BY <1>5, <1>7, <1>8, <2>1
  <2> QED BY <2>2 DEF m
<1>11. \E l \in 0..Len(targets) : Slack(l)' /\ a - t <= g - b + TxFee * l
  <2>1. CASE slack = 0 /\ plan'.buys = plan.buys
    <3>1. Slack(k)'
      BY <1>2, <1>6, <2>1 DEF Slack
    <3>2. TxFee * k + slack = TxFee * k
      BY <1>8, <2>1
    <3> QED BY <1>2, <1>10, <3>1, <3>2
  <2>2. CASE /\ slack = TxFee /\ phase = "trade"
             /\ \E i \in plan.buys : (\A j \in plan.buys : i <= j) /\ plan'.buys = plan.buys \ {i}
    <3>1. PICK i \in plan.buys : (\A j \in plan.buys : i <= j) /\ plan'.buys = plan.buys \ {i}
      BY <2>2
    <3>2. phase = "trade" /\ slack = TxFee
      BY <2>2
    <3>3. i \in 1..Len(targets) /\ i > k /\ plan.buys \subseteq 1..Len(targets)
      BY <1>2, <1>3, <3>1, <3>2 DEF Slack
    <3>4. \A j \in plan'.buys : j > i
      BY <1>4, <3>1, <3>3
    <3>5. Slack(i)'
      BY <1>6, <3>2, <3>4 DEF Slack
    <3>6. TxFee * k + slack <= TxFee * i
      <4>1. k + 1 <= i /\ i \in Nat
        BY <1>4, <1>8, <3>3
      <4>2. (k + 1) * TxFee <= i * TxFee
        BY <1>4, <1>8, <4>1, Times
      <4>3. (k + 1) * TxFee = TxFee * k + TxFee /\ i * TxFee = TxFee * i
        BY <1>4, <1>8, <4>1
      <4> QED BY <3>2, <4>2, <4>3
    <3>7. a - t <= g - b + TxFee * i
      <4> DEFINE m == TxFee * k + slack
                 n == TxFee * i
      <4>1. m \in Nat /\ n \in Nat
        BY <1>4, <1>8, <3>3
      <4> HIDE DEF m, n
      <4>2. m <= n /\ a - t <= g - b + m
        BY <1>10, <3>6 DEF m, n
      <4>3. a - t <= g - b + n
        BY <1>5, <1>7, <4>1, <4>2
      <4> QED BY <4>3 DEF n
    <3>8. i \in 0..Len(targets)
      BY <1>4, <3>3
    <3> QED BY <3>5, <3>7, <3>8
  <2> QED BY <2>1, <2>2
<1> QED BY <1>6, <1>7, <1>9, <1>11 DEF Balanced, a, b, c, o, g, t, y, v

LEMMA BenchmarkKeeps ==
  ASSUME Benchmarked, IsSnapshot(snapshot), Holdings, Purse, PoolsSound, Holdings', Purse',
         UNCHANGED <<strategy, hodlSn0Alpha>>,
         strategy = "coward" /\ DOMAIN positions \subseteq {Root} =>
           DOMAIN positions' \subseteq {Root} /\ free' + RootAlpha' <= free + RootAlpha
  PROVE  Benchmarked'
<1> SUFFICES ASSUME strategy = "coward"
             PROVE  DOMAIN positions' \subseteq {Root} /\ free' + RootAlpha' <= hodlSn0Alpha
  BY DEF Benchmarked
<1> DEFINE b == free' + RootAlpha'
           a == free + RootAlpha
           h == hodlSn0Alpha
<1>1. a \in Nat /\ h \in Nat
  <2>1. free \in Nat /\ hodlSn0Alpha \in Nat /\ RootAlpha \in Nat
    BY TaoIsNatural DEF Purse, PoolsSound
  <2> QED BY <2>1
<1>2. b \in Nat
  <2> DEFINE f == free'
             r == RootAlpha'
  <2>1. f \in Nat
    BY DEF Purse
  <2>2. r \in Nat
    BY DEF RootAlpha, Holdings
  <2> HIDE DEF f, r
  <2>3. f + r \in Nat
    BY <2>1, <2>2
  <2> QED BY <2>3 DEF f, r
<1>3. DOMAIN positions' \subseteq {Root} /\ b <= a /\ a <= h
  BY DEF Benchmarked
<1> HIDE DEF a, b, h
<1>4. b <= h
  BY <1>1, <1>2, <1>3
<1> QED BY <1>3, <1>4 DEF b, h

LEMMA SellAllKeeps ==
  ASSUME BacktestInv, SellAll
  PROVE  BacktestInv'
<1>1. Clock /\ Holdings /\ Purse /\ Memory /\ Benchmarked /\ Planned /\ Balanced
  BY DEF BacktestInv
<1>2. PICK n \in plan.exits : Sell(n, positions[n].alpha) /\ plan' = [plan EXCEPT !.exits = @ \ {n}]
  BY DEF SellAll
<1>3. /\ phase = "exit"
      /\ UNCHANGED <<strategy, cron, phase, market, trigger, targets, preBuy, memory, opening>>
  BY DEF SellAll
<1>4. /\ Clock' /\ Memory'
      /\ strategy' = strategy /\ phase' = phase /\ block' = block /\ snapshot' = snapshot
      /\ hodlSn0Alpha' = hodlSn0Alpha /\ stoppedOut' = stoppedOut
  BY <1>1, <1>3, FrameKeeps
<1>5. /\ Aimed(targets, DOMAIN stoppedOut)
      /\ plan = [value |-> plan.value, exits |-> plan.exits, diffs |-> plan.diffs,
                 sells |-> plan.sells, buys |-> plan.buys]
      /\ plan.value \in Nat /\ plan.exits \subseteq DOMAIN positions
      /\ \A i \in 1..Len(targets) : targets[i].netuid \notin plan.exits
      /\ PoolsSound
  BY <1>1, <1>3 DEF Planned, Balanced, Rebalancing
<1>6. n \in DOMAIN positions /\ positions[n].alpha \in Nat /\ positions[n].alpha <= positions[n].alpha
      /\ IsSnapshot(snapshot)
  BY <1>1, <1>5 DEF Holdings, Clock
<1>7. /\ Holdings' /\ Purse' /\ PoolsSound' /\ LegBalances(0)
      /\ DOMAIN positions' \subseteq DOMAIN positions
      /\ \A m \in DOMAIN positions : m # n => m \in DOMAIN positions'
      /\ DOMAIN positions \subseteq {Root} => free' + RootAlpha' <= free + RootAlpha
  BY <1>1, <1>2, <1>4, <1>5, <1>6, SaleBalances
<1>8. /\ plan' = [value |-> plan'.value, exits |-> plan'.exits, diffs |-> plan'.diffs,
                  sells |-> plan'.sells, buys |-> plan'.buys]
      /\ plan'.value = plan.value /\ plan'.exits = plan.exits \ {n} /\ plan'.buys = plan.buys
  <2> DEFINE V == plan.value
             X == plan.exits
             D == plan.diffs
             S == plan.sells
             B == plan.buys
  <2> HIDE DEF V, X, D, S, B
  <2>1. plan = [value |-> V, exits |-> X, diffs |-> D, sells |-> S, buys |-> B]
    BY <1>5 DEF V, X, D, S, B
  <2>2. plan' = [value |-> V, exits |-> X \ {n}, diffs |-> D, sells |-> S, buys |-> B]
    BY <1>2, <2>1
  <2> QED BY <2>1, <2>2
<1>9. Planned'
  <2>1. Aimed(targets, DOMAIN stoppedOut)'
    BY <1>3, <1>4, <1>5 DEF Aimed, Aim
  <2> QED BY <1>3, <1>4, <1>5, <1>7, <1>8, <2>1 DEF Planned, Rebalancing
<1>10. Balanced'
  <2>1. Rebalancing /\ UNCHANGED <<phase, opening, targets>> /\ 0 \in {0, TxFee}
    BY <1>3 DEF Rebalancing
  <2> QED BY <1>7, <1>8, <2>1, LegKeepsBalance
<1>11. Benchmarked'
  BY <1>1, <1>4, <1>5, <1>6, <1>7, BenchmarkKeeps
<1> QED BY <1>4, <1>7, <1>9, <1>10, <1>11 DEF BacktestInv

LEMMA NeededIsOne ==
  ASSUME NEW target \in Int, NEW pool \in Sides, NEW netuid
  PROVE  \E a \in Nat : AlphaNeededForTao(target, pool, netuid) \subseteq {a}
<1> DEFINE needed == AlphaNeededForTao(target, pool, netuid)
<1>1. CASE needed = {}
  BY <1>1
<1>2. CASE target <= 0
  BY <1>2 DEF AlphaNeededForTao
<1>3. CASE target > 0 /\ netuid = Root
  BY <1>3 DEF AlphaNeededForTao
<1>4. CASE target > 0 /\ needed # {} /\ netuid # Root
  <2>1. pool.taoIn \in Nat /\ pool.alphaIn \in Nat /\ pool.alphaIn > 0 /\ target < pool.taoIn /\ target \in Nat
    BY <1>4 DEF AlphaNeededForTao, Sides
  <2> DEFINE d == pool.taoIn - target
             p == target * pool.alphaIn
             net == CeilDiv(p, d)
             c == FeeDenominator - FeeNumerator
  <2>2. d \in Nat \ {0} /\ p \in Nat /\ c \in Nat \ {0} /\ FeeDenominator \in Nat
    BY <2>1, FeeAssumption
  <2>3. needed = {CeilDiv(net * FeeDenominator, c)}
    BY <1>4, <2>1 DEF AlphaNeededForTao
  <2> HIDE DEF d, p, c, needed
  <2>4. \A a \in Nat, b \in Nat \ {0} : CeilDiv(a, b) \in Nat
    BY CeilDivision
  <2>5. net \in Nat
    BY <2>2, <2>4
  <2> HIDE DEF net
  <2>6. net * FeeDenominator \in Nat
    BY <2>2, <2>5
  <2> QED BY <2>2, <2>3, <2>4, <2>6 DEF needed
<1> QED BY <1>1, <1>2, <1>3, <1>4

\* What sellPartial sells is no more than there is.
LEMMA PartOfPosition ==
  ASSUME NEW alpha \in Nat, NEW target \in Int, NEW pool \in Sides, NEW netuid
  PROVE  LET sold == Min({alpha} \cup AlphaNeededForTao(target, pool, netuid))
         IN sold \in Nat /\ sold <= alpha
<1>1. PICK a \in Nat : AlphaNeededForTao(target, pool, netuid) \subseteq {a}
  BY NeededIsOne
<1>2. \A b \in Nat : Min({alpha, b}) \in Nat /\ Min({alpha, b}) <= alpha
  <2> SUFFICES ASSUME NEW b \in Nat PROVE Min({alpha, b}) \in Nat /\ Min({alpha, b}) <= alpha
    OBVIOUS
  <2>1. alpha \in Int /\ b \in Int
    OBVIOUS
  <2>2. Min({alpha, b}) \in {alpha, b} /\ Min({alpha, b}) <= alpha
    BY <2>1, MinOfTwo
  <2> QED BY <2>2
<1>3. {alpha} \cup AlphaNeededForTao(target, pool, netuid) \in {{alpha, a}, {alpha, alpha}}
  BY <1>1
<1> QED BY <1>2, <1>3

LEMMA DiffIsInteger ==
  ASSUME Clock, Holdings, plan.value \in Nat, NEW t \in Aim
  PROVE  LET prices == PriceMap(snapshot)
         IN /\ Diff(t, prices) \in Int
            /\ Diff(t, prices) < 0 => t.netuid \in DOMAIN positions
<1> DEFINE prices == PriceMap(snapshot)
           due == (plan.value * t.share[1]) \div t.share[2]
           held == AlphaToTao(Position(t.netuid).alpha, Price(prices, t.netuid))
<1>1. due \in Nat
  <2>1. t.share[1] \in Nat /\ t.share[2] \in Nat \ {0}
    BY DEF Aim
  <2>2. plan.value * t.share[1] \in Nat
    BY <2>1
  <2> QED BY <2>1, <2>2
<1>2. Price(prices, t.netuid) \in Nat
  BY PricesAreNatural DEF Clock
<1>3. Position(t.netuid).alpha \in Nat
  BY DEF Position, Holdings
<1>4. held \in Nat
  BY <1>2, <1>3, ValueIsNatural
<1>5. t.netuid \notin DOMAIN positions => held = 0
  <2> SUFFICES ASSUME t.netuid \notin DOMAIN positions PROVE held = 0
    OBVIOUS
  <2>1. Position(t.netuid).alpha = 0
    BY DEF Position
  <2> HIDE DEF prices
  <2>2. 0 * Price(prices, t.netuid) = 0 /\ 0 \div F32 = 0
    BY <1>2, Bounds
  <2> QED BY <2>1, <2>2 DEF AlphaToTao
<1>6. Diff(t, prices) = due - held
  BY DEF Diff
<1> HIDE DEF prices, due, held
<1>7. due - held \in Int /\ (due - held < 0 => held # 0)
  BY <1>1, <1>4
<1> QED BY <1>5, <1>6, <1>7 DEF prices

LEMMA ComputeDiffsKeeps ==
  ASSUME BacktestInv, ComputeDiffs
  PROVE  BacktestInv'
<1>1. Clock /\ Holdings /\ Purse /\ Memory /\ Benchmarked /\ Planned /\ Balanced
  BY DEF BacktestInv
<1> DEFINE diffs == [i \in DOMAIN targets |-> Diff(targets[i], PriceMap(snapshot))]
           sells == {i \in DOMAIN targets : diffs[i] < -MinTrade}
           buys == {i \in DOMAIN targets : diffs[i] > MinTrade}
<1>2. /\ phase = "exit" /\ plan.exits = {} /\ phase' = "trade"
      /\ plan' = [plan EXCEPT !.diffs = diffs, !.buys = buys, !.sells = sells]
      /\ preBuy' = [n \in {targets[i].netuid : i \in buys} |-> Position(n).alpha]
      /\ UNCHANGED <<strategy, cron, market, ledger, trigger, targets, memory, opening>>
  BY DEF ComputeDiffs
<1> HIDE DEF diffs, sells, buys
<1>3. /\ strategy' = strategy /\ cron' = cron /\ block' = block /\ snapshot' = snapshot
      /\ lastKnownPrices' = lastKnownPrices /\ lastAccrualBlock' = lastAccrualBlock
      /\ hodlSn0Alpha' = hodlSn0Alpha /\ lastRebalanceBlock' = lastRebalanceBlock
      /\ lastObserved' = lastObserved /\ stoppedOut' = stoppedOut /\ stopLosses' = stopLosses
      /\ free' = free /\ positions' = positions /\ virtualReserves' = virtualReserves
      /\ feeFreeBudget' = feeFreeBudget /\ totalFeesPaid' = totalFeesPaid /\ tickTxFees' = tickTxFees
      /\ unpaid' = unpaid /\ targets' = targets /\ opening' = opening
  BY <1>2 DEF market, ledger, trigger, memory
<1>4. /\ Aimed(targets, DOMAIN stoppedOut)
      /\ plan = [value |-> plan.value, exits |-> plan.exits, diffs |-> plan.diffs,
                 sells |-> plan.sells, buys |-> plan.buys]
      /\ plan.value \in Nat
  BY <1>1, <1>2 DEF Planned, Rebalancing
<1>5. DOMAIN targets = 1..Len(targets) /\ \A i \in 1..Len(targets) : targets[i] \in Aim
  BY <1>4 DEF Aimed
<1>6. \A i \in DOMAIN targets : diffs[i] \in Int /\ (diffs[i] < 0 => targets[i].netuid \in DOMAIN positions)
  BY <1>1, <1>4, <1>5, DiffIsInteger DEF diffs
<1>7. plan' = [value |-> plan.value, exits |-> {}, diffs |-> diffs, sells |-> sells, buys |-> buys]
  <2> DEFINE V == plan.value
             X == plan.exits
             D == plan.diffs
             S == plan.sells
             B == plan.buys
  <2> HIDE DEF V, X, D, S, B
  <2>1. plan = [value |-> V, exits |-> X, diffs |-> D, sells |-> S, buys |-> B] /\ X = {}
    BY <1>2, <1>4 DEF V, X, D, S, B
  <2>2. plan' = [value |-> V, exits |-> X, diffs |-> diffs, sells |-> sells, buys |-> buys]
    BY <1>2, <2>1
  <2> QED BY <2>1, <2>2 DEF V
<1>8. Clock' /\ Holdings' /\ Purse' /\ Memory' /\ Benchmarked'
  <2>1. Clock'
    BY <1>1, <1>2, <1>3 DEF Clock, IsSnapshot
  <2> QED BY <1>1, <1>2, <1>3, <2>1 DEF Holdings, Purse, Memory, Benchmarked, RootAlpha
<1>9. Planned'
  <2>1. Aimed(targets, DOMAIN stoppedOut)'
    BY <1>3, <1>4 DEF Aimed, Aim
  <2>2. sells \subseteq 1..Len(targets) /\ buys \subseteq 1..Len(targets)
    BY <1>5 DEF sells, buys
  <2>3. \A i \in sells : diffs[i] \in Int /\ diffs[i] < 0 /\ targets[i].netuid \in DOMAIN positions
    <3> SUFFICES ASSUME NEW i \in sells
                 PROVE  diffs[i] \in Int /\ diffs[i] < 0 /\ targets[i].netuid \in DOMAIN positions
      OBVIOUS
    <3>1. i \in DOMAIN targets /\ diffs[i] < -MinTrade
      BY DEF sells
    <3>2. diffs[i] \in Int /\ MinTrade \in Nat
      BY <1>6, <3>1, Bounds
    <3>3. diffs[i] < 0
      BY <3>1, <3>2
    <3> QED BY <1>6, <3>1, <3>3
  <2>4. \A i \in buys : diffs[i] \in Int
    BY <1>6 DEF buys
  <2>5. \A n \in DOMAIN preBuy' : preBuy'[n] \in Nat
    BY <1>1, <1>2 DEF Position, Holdings
  <2>6. /\ plan'.value = plan.value /\ plan'.exits = {} /\ plan'.diffs = diffs
        /\ plan'.sells = sells /\ plan'.buys = buys
        /\ plan' = [value |-> plan'.value, exits |-> plan'.exits, diffs |-> plan'.diffs,
                    sells |-> plan'.sells, buys |-> plan'.buys]
    BY <1>7
  <2> QED BY <1>2, <1>3, <1>4, <2>1, <2>2, <2>3, <2>4, <2>5, <2>6 DEF Planned, Rebalancing
<1>10. Balanced'
  <2>1. Tao(virtualReserves)' = Tao(virtualReserves) /\ (PoolsSound' <=> PoolsSound)
    BY <1>3 DEF Tao, PoolsSound
  <2>2. PICK k \in 0..Len(targets) :
          /\ Slack(k)
          /\ opening.tao - Tao(virtualReserves) <= totalFeesPaid - opening.fees + TxFee * k
    BY <1>1, <1>2 DEF Balanced, Rebalancing
  <2>3. Slack(k)'
    <3>1. k = 0
      BY <1>2, <2>2 DEF Slack
    <3>2. plan'.buys \subseteq 1..Len(targets)
      BY <1>5, <1>7 DEF buys
    <3> QED BY <1>2, <3>1, <3>2 DEF Slack
  <2>4. /\ opening.tao \in Nat /\ opening.fees \in Nat /\ opening.txFees \in Nat /\ PoolsSound
        /\ tickTxFees - opening.txFees <= opening.tao - Tao(virtualReserves) + unpaid
    BY <1>1, <1>2 DEF Balanced, Rebalancing
  <2> QED BY <1>3, <2>1, <2>2, <2>3, <2>4 DEF Balanced
<1> QED BY <1>8, <1>9, <1>10 DEF BacktestInv

LEMMA SellPartialKeeps ==
  ASSUME BacktestInv, SellPartial
  PROVE  BacktestInv'
<1>1. Clock /\ Holdings /\ Purse /\ Memory /\ Benchmarked /\ Planned /\ Balanced
  BY DEF BacktestInv
<1>2. PICK i \in plan.sells :
        LET n == targets[i].netuid
            needed == AlphaNeededForTao(-plan.diffs[i], Reserves(n), n)
        IN /\ Sell(n, Min({positions[n].alpha} \cup needed))
           /\ plan' = [plan EXCEPT !.sells = @ \ {i}]
  BY DEF SellPartial
<1> DEFINE n == targets[i].netuid
           alpha == Min({positions[n].alpha} \cup AlphaNeededForTao(-plan.diffs[i], Reserves(n), n))
<1>3. /\ phase = "trade"
      /\ UNCHANGED <<strategy, cron, phase, market, trigger, targets, preBuy, memory, opening>>
  BY DEF SellPartial
<1>4. /\ Clock' /\ Memory'
      /\ strategy' = strategy /\ phase' = phase /\ block' = block /\ snapshot' = snapshot
      /\ hodlSn0Alpha' = hodlSn0Alpha /\ stoppedOut' = stoppedOut
  BY <1>1, <1>3, FrameKeeps
<1>5. /\ Aimed(targets, DOMAIN stoppedOut)
      /\ plan = [value |-> plan.value, exits |-> plan.exits, diffs |-> plan.diffs,
                 sells |-> plan.sells, buys |-> plan.buys]
      /\ plan.value \in Nat /\ plan.exits = {}
      /\ plan.sells \subseteq 1..Len(targets) /\ plan.buys \subseteq 1..Len(targets)
      /\ \A j \in plan.sells :
           plan.diffs[j] \in Int /\ plan.diffs[j] < 0 /\ targets[j].netuid \in DOMAIN positions
      /\ \A j \in plan.buys : plan.diffs[j] \in Int
      /\ \A m \in DOMAIN preBuy : preBuy[m] \in Nat
      /\ PoolsSound
  BY <1>1, <1>3 DEF Planned, Balanced, Rebalancing
<1>6. n \in DOMAIN positions /\ positions[n].alpha \in Nat /\ IsSnapshot(snapshot)
  BY <1>1, <1>5 DEF Holdings, Clock
<1>7. alpha \in Nat /\ alpha <= positions[n].alpha
  <2>1. Reserves(n) \in Sides
    BY <1>5 DEF Reserves, Sides, PoolsSound
  <2>2. -plan.diffs[i] \in Int
    BY <1>5
  <2> QED BY <1>6, <2>1, <2>2, PartOfPosition
<1>8. Sell(n, alpha) /\ plan' = [plan EXCEPT !.sells = @ \ {i}]
  BY <1>2
<1> HIDE DEF alpha
<1>9. /\ Holdings' /\ Purse' /\ PoolsSound' /\ LegBalances(0)
      /\ DOMAIN positions' \subseteq DOMAIN positions
      /\ \A m \in DOMAIN positions : m # n => m \in DOMAIN positions'
      /\ DOMAIN positions \subseteq {Root} => free' + RootAlpha' <= free + RootAlpha
  BY <1>1, <1>4, <1>5, <1>6, <1>7, <1>8, SaleBalances
<1>10. /\ plan' = [value |-> plan'.value, exits |-> plan'.exits, diffs |-> plan'.diffs,
                   sells |-> plan'.sells, buys |-> plan'.buys]
       /\ plan'.value = plan.value /\ plan'.exits = {} /\ plan'.diffs = plan.diffs
       /\ plan'.sells = plan.sells \ {i} /\ plan'.buys = plan.buys
  <2> DEFINE V == plan.value
             X == plan.exits
             D == plan.diffs
             S == plan.sells
             B == plan.buys
  <2> HIDE DEF V, X, D, S, B
  <2>1. plan = [value |-> V, exits |-> X, diffs |-> D, sells |-> S, buys |-> B] /\ X = {}
    BY <1>5 DEF V, X, D, S, B
  <2>2. plan' = [value |-> V, exits |-> X, diffs |-> D, sells |-> S \ {i}, buys |-> B]
    BY <1>8, <2>1
  <2> QED BY <2>1, <2>2 DEF V, D, S, B
<1>11. Planned'
  <2>1. Aimed(targets, DOMAIN stoppedOut)'
    BY <1>3, <1>4, <1>5 DEF Aimed, Aim
  <2>2. \A j \in plan'.sells :
          plan'.diffs[j] \in Int /\ plan'.diffs[j] < 0 /\ targets[j].netuid \in DOMAIN positions'
    <3> SUFFICES ASSUME NEW j \in plan.sells \ {i}
                 PROVE  plan.diffs[j] \in Int /\ plan.diffs[j] < 0 /\ targets[j].netuid \in DOMAIN positions'
      BY <1>10
    <3>1. targets[j].netuid # n
      BY <1>5 DEF Aimed
    <3> QED BY <1>5, <1>9, <3>1
  <2>3. phase' = "trade" /\ targets' = targets /\ preBuy' = preBuy
    BY <1>3
  <2> QED BY <1>5, <1>10, <2>1, <2>2, <2>3 DEF Planned, Rebalancing
<1>12. Balanced'
  <2>1. Rebalancing /\ UNCHANGED <<phase, opening, targets>> /\ 0 \in {0, TxFee}
    BY <1>3 DEF Rebalancing
  <2> QED BY <1>9, <1>10, <2>1, LegKeepsBalance
<1>13. Benchmarked'
  BY <1>1, <1>4, <1>5, <1>6, <1>9, BenchmarkKeeps
<1> QED BY <1>4, <1>9, <1>11, <1>12, <1>13 DEF BacktestInv

\* What a buy does to the books, whatever it is for.
LEMMA BuyBalances ==
  ASSUME IsSnapshot(snapshot), Holdings, Purse, PoolsSound, UNCHANGED <<snapshot, hodlSn0Alpha>>,
         NEW n \in DOMAIN snapshot \cup {Root}, NEW actual \in Int, actual <= free,
         IF actual <= 0 THEN UNCHANGED ledger
         ELSE IF n = Root THEN BuyRoot(actual) ELSE BuyAlpha(n, actual)
  PROVE  /\ Holdings' /\ Purse' /\ PoolsSound' /\ LegBalances(TxFee)
         /\ DOMAIN positions' \subseteq DOMAIN positions \cup {n}
         /\ \A m \in DOMAIN positions : m # n => positions'[m] = positions[m]
         /\ \A m \in DOMAIN snapshot : m # n => virtualReserves'[m] = virtualReserves[m]
         /\ n = Root => free' + RootAlpha' <= free + RootAlpha
<1>1. CASE actual <= 0
  <2>1. UNCHANGED ledger /\ TxFee \in Nat
    BY <1>1, Bounds
  <2>2. Holdings' /\ Purse' /\ PoolsSound' /\ LegBalances(TxFee)
    BY <2>1, NothingBalances
  <2>3. positions' = positions /\ virtualReserves' = virtualReserves /\ free' = free /\ RootAlpha' = RootAlpha
    BY <2>1 DEF ledger, RootAlpha
  <2>4. free + RootAlpha \in Nat
    <3>1. free \in Nat /\ RootAlpha \in Nat
      BY TaoIsNatural DEF Purse, PoolsSound
    <3> QED BY <3>1
  <2>5. free' + RootAlpha' = free + RootAlpha
    BY <2>3
  <2>6. free' + RootAlpha' <= free + RootAlpha
    BY <2>4, <2>5
  <2> QED BY <2>2, <2>3, <2>6
<1>2. CASE ~(actual <= 0) /\ n = Root
  <2>1. actual \in Nat \ {0} /\ BuyRoot(actual)
    BY <1>2
  <2> QED BY <1>2, <2>1, RootPurchaseBalances
<1>3. CASE ~(actual <= 0) /\ n # Root
  <2>1. actual \in Nat \ {0} /\ BuyAlpha(n, actual) /\ n \in DOMAIN snapshot
    BY <1>3
  <2> QED BY <1>3, <2>1, PurchaseBalances
<1> QED BY <1>1, <1>2, <1>3

LEMMA BuyKeeps ==
  ASSUME BacktestInv, Buy
  PROVE  BacktestInv'
<1>1. Clock /\ Holdings /\ Purse /\ Memory /\ Benchmarked /\ Planned /\ Balanced
  BY DEF BacktestInv
<1>2. PICK i \in plan.buys :
        LET n == targets[i].netuid
            actual == Min({plan.diffs[i], free})
        IN /\ \A j \in plan.buys : i <= j
           /\ IF actual <= 0 THEN UNCHANGED ledger
              ELSE IF n = Root THEN BuyRoot(actual) ELSE BuyAlpha(n, actual)
           /\ plan' = [plan EXCEPT !.buys = @ \ {i}]
  BY DEF Buy
<1> DEFINE n == targets[i].netuid
           actual == Min({plan.diffs[i], free})
<1>3. /\ phase = "trade" /\ plan.sells = {}
      /\ UNCHANGED <<strategy, cron, phase, market, trigger, targets, preBuy, memory, opening>>
  BY DEF Buy
<1>4. /\ Clock' /\ Memory'
      /\ strategy' = strategy /\ phase' = phase /\ block' = block /\ snapshot' = snapshot
      /\ hodlSn0Alpha' = hodlSn0Alpha /\ stoppedOut' = stoppedOut
  BY <1>1, <1>3, FrameKeeps
<1>5. /\ Aimed(targets, DOMAIN stoppedOut)
      /\ plan = [value |-> plan.value, exits |-> plan.exits, diffs |-> plan.diffs,
                 sells |-> plan.sells, buys |-> plan.buys]
      /\ plan.value \in Nat /\ plan.exits = {}
      /\ plan.buys \subseteq 1..Len(targets)
      /\ \A j \in plan.buys : plan.diffs[j] \in Int
      /\ \A m \in DOMAIN preBuy : preBuy[m] \in Nat
      /\ PoolsSound
  BY <1>1, <1>3 DEF Planned, Balanced, Rebalancing
<1>6. n \in DOMAIN snapshot \cup {Root} /\ IsSnapshot(snapshot)
  <2>1. targets[i] \in Aim
    BY <1>5 DEF Aimed
  <2> QED BY <1>1, <2>1 DEF Aim, Clock
<1>7. actual \in Int /\ actual <= free
  <2>1. plan.diffs[i] \in Int /\ free \in Int
    BY <1>1, <1>5 DEF Purse
  <2> QED BY <2>1, MinOfTwo
<1>8. /\ \A j \in plan.buys : i <= j
      /\ IF actual <= 0 THEN UNCHANGED ledger
         ELSE IF n = Root THEN BuyRoot(actual) ELSE BuyAlpha(n, actual)
      /\ plan' = [plan EXCEPT !.buys = @ \ {i}]
  BY <1>2
<1> HIDE DEF actual
<1>9. /\ Holdings' /\ Purse' /\ PoolsSound' /\ LegBalances(TxFee)
      /\ DOMAIN positions' \subseteq DOMAIN positions \cup {n}
      /\ n = Root => free' + RootAlpha' <= free + RootAlpha
  BY <1>1, <1>4, <1>5, <1>6, <1>7, <1>8, BuyBalances
<1>10. /\ plan' = [value |-> plan'.value, exits |-> plan'.exits, diffs |-> plan'.diffs,
                   sells |-> plan'.sells, buys |-> plan'.buys]
       /\ plan'.value = plan.value /\ plan'.exits = {} /\ plan'.diffs = plan.diffs
       /\ plan'.sells = {} /\ plan'.buys = plan.buys \ {i}
  <2> DEFINE V == plan.value
             X == plan.exits
             D == plan.diffs
             S == plan.sells
             B == plan.buys
  <2> HIDE DEF V, X, D, S, B
  <2>1. /\ plan = [value |-> V, exits |-> X, diffs |-> D, sells |-> S, buys |-> B]
        /\ X = {} /\ S = {}
    BY <1>3, <1>5 DEF V, X, D, S, B
  <2>2. plan' = [value |-> V, exits |-> X, diffs |-> D, sells |-> S, buys |-> B \ {i}]
    BY <1>8, <2>1
  <2> QED BY <2>1, <2>2 DEF V, D, B
<1>11. Planned'
  <2>1. Aimed(targets, DOMAIN stoppedOut)'
    BY <1>3, <1>4, <1>5 DEF Aimed, Aim
  <2>2. phase' = "trade" /\ targets' = targets /\ preBuy' = preBuy
    BY <1>3
  <2> QED BY <1>5, <1>10, <2>1, <2>2 DEF Planned, Rebalancing
<1>12. Balanced'
  <2>1. Rebalancing /\ UNCHANGED <<phase, opening, targets>> /\ TxFee \in {0, TxFee}
    BY <1>3 DEF Rebalancing
  <2>2. \E j \in plan.buys : (\A l \in plan.buys : j <= l) /\ plan'.buys = plan.buys \ {j}
    BY <1>8, <1>10
  <2> QED BY <1>3, <1>9, <2>1, <2>2, LegKeepsBalance
<1>13. Benchmarked'
  <2>1. strategy = "coward" => n = Root
    BY <1>5 DEF Aimed
  <2> QED BY <1>1, <1>4, <1>5, <1>6, <1>9, <2>1, BenchmarkKeeps
<1> QED BY <1>4, <1>9, <1>11, <1>12, <1>13 DEF BacktestInv

\* During a rebalance the invariant bounds what is gone by the fees.
LEMMA BalancedMeans ==
  ASSUME BacktestInv
  PROVE  Rebalancing =>
           LET gone == opening.tao - Tao(virtualReserves)
           IN /\ tickTxFees - opening.txFees <= gone + unpaid
              /\ gone <= totalFeesPaid - opening.fees + TxFee * Len(targets)
<1> SUFFICES ASSUME Rebalancing
             PROVE  LET gone == opening.tao - Tao(virtualReserves)
                    IN /\ tickTxFees - opening.txFees <= gone + unpaid
                       /\ gone <= totalFeesPaid - opening.fees + TxFee * Len(targets)
  OBVIOUS
<1>1. /\ tickTxFees - opening.txFees <= opening.tao - Tao(virtualReserves) + unpaid
      /\ opening.tao \in Nat /\ opening.fees \in Nat /\ totalFeesPaid \in Nat
      /\ Tao(virtualReserves) \in Nat
  BY TaoIsNatural DEF BacktestInv, Balanced, Purse, Clock, PoolsSound
<1>2. PICK k \in 0..Len(targets) :
        opening.tao - Tao(virtualReserves) <= totalFeesPaid - opening.fees + TxFee * k
  BY DEF BacktestInv, Balanced
<1>3. Len(targets) \in Nat /\ TxFee \in Nat
  BY Bounds DEF BacktestInv, Planned, Aimed
<1>4. TxFee * k <= TxFee * Len(targets) /\ TxFee * k \in Nat /\ TxFee * Len(targets) \in Nat
  <2>1. k \in Nat /\ k <= Len(targets)
    BY <1>2, <1>3
  <2> DEFINE l == Len(targets)
  <2> HIDE DEF l
  <2>2. k * TxFee <= l * TxFee /\ k * TxFee = TxFee * k /\ l * TxFee = TxFee * l
        /\ TxFee * k \in Nat /\ TxFee * l \in Nat
    BY <1>3, <2>1, Times DEF l
  <2> QED BY <2>2 DEF l
<1> DEFINE g == opening.tao - Tao(virtualReserves)
           f == totalFeesPaid - opening.fees
           a == TxFee * k
           b == TxFee * Len(targets)
<1>5. g \in Int /\ f \in Int /\ a \in Int /\ b \in Int /\ g <= f + a /\ a <= b
  BY <1>1, <1>2, <1>4
<1> HIDE DEF g, f, a, b
<1>6. g <= f + b
  BY <1>5
<1> QED BY <1>1, <1>6 DEF g, f, b

LEMMA BenchmarkIsFollowed ==
  ASSUME BacktestInv, strategy = "coward"
  PROVE  PortfolioValue(PriceMap(snapshot)) <= hodlSn0Alpha
<1> DEFINE prices == PriceMap(snapshot)
           value == [n \in DOMAIN positions |-> AlphaToTao(positions[n].alpha, Price(prices, n))]
<1>1. /\ DOMAIN positions \subseteq {Root} /\ free + RootAlpha <= hodlSn0Alpha
      /\ Clock /\ Holdings /\ Purse
  BY DEF BacktestInv, Benchmarked
<1>2. Price(prices, Root) = F32
  BY <1>1, PricesAreNatural DEF Clock
<1>3. Total(value) = RootAlpha
  <2>1. CASE Root \notin DOMAIN positions
    <3>1. value = [n \in {} |-> 0] /\ DOMAIN value = {}
      BY <1>1, <2>1
    <3> HIDE DEF value
    <3> QED BY <2>1, <3>1, TotalEmpty DEF RootAlpha
  <2>2. CASE Root \in DOMAIN positions
    <3> DEFINE alpha == positions[Root].alpha
    <3>1. alpha \in Nat /\ F32 \in Nat \ {0}
      BY <1>1, <2>2, Bounds DEF Holdings
    <3>2. DOMAIN positions = {Root}
      BY <1>1, <2>2
    <3>3. AlphaToTao(alpha, F32) = alpha
      <4> HIDE DEF alpha
      <4> DEFINE q == (alpha * F32) \div F32
      <4>1. q = alpha
        BY <3>1
      <4> QED BY <3>1, <4>1 DEF AlphaToTao
    <3>4. value = [n \in {Root} |-> alpha]
      BY <1>2, <3>2, <3>3
    <3> HIDE DEF value
    <3> QED BY <2>2, <3>1, <3>4, TotalSingle DEF RootAlpha
  <2> QED BY <2>1, <2>2
<1> QED BY <1>1, <1>3 DEF PortfolioValue

LEMMA BacktestInvMeans == BacktestInv => LedgerBalances
<1> SUFFICES ASSUME BacktestInv PROVE LedgerBalances
  OBVIOUS
<1>1. BacktestTypeOK
  <2>1. {free, feeFreeBudget, totalFeesPaid, tickTxFees, hodlSn0Alpha} \subseteq Nat
    BY DEF BacktestInv, Purse
  <2>2. \A n \in DOMAIN positions : positions[n].alpha \in Nat \ {0} /\ positions[n].costBasis \in Nat
    BY DEF BacktestInv, Holdings
  <2> QED BY <2>1, <2>2 DEF BacktestInv, Clock, Memory, Netuids, BacktestTypeOK
<1>2. RootFollowsBenchmark
  BY BenchmarkIsFollowed DEF RootFollowsBenchmark
<1>3. Rebalancing =>
        \A n \in DOMAIN virtualReserves :
          virtualReserves[n].taoIn * virtualReserves[n].alphaIn >= snapshot[n].taoIn * snapshot[n].alphaIn
  BY DEF BacktestInv, Balanced, PoolsSound
<1> QED BY <1>1, <1>2, <1>3, BalancedMeans DEF LedgerBalances, Rebalancing

LEMMA BacktestInvIsInductive == BacktestInv /\ [BacktestNext]_backtestVars => BacktestInv'
BY ReadKeeps, DecideKeeps, StepKeeps, SellAllKeeps, ComputeDiffsKeeps, SellPartialKeeps, BuyKeeps,
   AfterRebalanceKeeps, ReportKeeps, BacktestStutters DEF BacktestNext

\* In every rebalance of every backtest tao is neither made nor lost but for the fees, no
\* pool gives more than its product allows, and holding root never beats the benchmark.
THEOREM LedgerHolds == BacktestSpec => []LedgerBalances
BY BacktestBegins, BacktestInvIsInductive, BacktestInvMeans, PTL DEF BacktestSpec

-----------------------------------------------------------------------------
(* The stops of sma-stoploss.                                              *)

Exposed == HeldNetuids \ {Root}

\* A position has a stop or is stopped out, unless the price it was bought at rounds to
\* nothing.
Guarded ==
  \A n \in Exposed : n \in Quoted(snapshot) =>
    \/ n \in DOMAIN stopLosses \cup DOMAIN stoppedOut
    \/ lastRebalanceBlock = block /\ positions[n].costBasis * F32 < positions[n].alpha

\* A rebalance has followed a stop-out, or is asked for.
Answered ==
  \A n \in Exposed \cap DOMAIN stoppedOut : stoppedOut[n] <= lastRebalanceBlock \/ pending

\* The pool is not there, or the sale does not pay its fee.
Unsold(n) ==
  \/ n \notin DOMAIN snapshot
  \/ SwapAlphaForTao(positions[n].alpha, snapshot[n], n).amountOut <= TxFee

\* What is stopped out is still to be left, and nothing has touched its pool, or has
\* turned out not to be for sale.
Leaving ==
  \A n \in Exposed \cap DOMAIN stoppedOut :
    \/ Unsold(n)
    \/ /\ n \in plan.exits
       /\ virtualReserves[n] = [taoIn |-> snapshot[n].taoIn, alphaIn |-> snapshot[n].alphaIn]

StopsInv ==
  strategy = "sma-stoploss" =>
    /\ phase \in {"idle", "read"} => Answered
    /\ phase = "idle" =>
         /\ Guarded
         /\ pending => ~GapExpired
         /\ lastRebalanceBlock = block => \A n \in Exposed \cap DOMAIN stoppedOut : Unsold(n)
    /\ Rebalancing => Leaving

\* A fill price that rounds to nothing: the whole position has cost less than the
\* smallest price.
LEMMA CheapFill ==
  ASSUME NEW alpha \in Nat \ {0}, NEW basis \in Nat, NEW pre \in Nat, pre < alpha
  PROVE  LET cost == basis - (basis * pre) \div alpha
             price == (cost * F32) \div (alpha - pre)
         IN price \in Nat /\ (price = 0 => basis * F32 < alpha)
<1> DEFINE part == (basis * pre) \div alpha
           cost == basis - part
           bought == alpha - pre
           price == (cost * F32) \div bought
<1>1. bought \in Nat \ {0} /\ F32 \in Nat \ {0} /\ basis * pre \in Nat
  BY Bounds
<1>2. part \in Nat /\ part * alpha <= basis * pre
  <2> DEFINE p == basis * pre
  <2>1. p \in Nat
    BY <1>1
  <2> HIDE DEF p
  <2>2. p \div alpha \in Nat /\ (p \div alpha) * alpha <= p
    BY <2>1, Division
  <2> QED BY <2>2 DEF p
<1> HIDE DEF part, price
<1>3. cost \in Nat /\ cost * alpha >= basis * bought
  <2>1. cost * alpha = basis * alpha - part * alpha /\ basis * bought = basis * alpha - basis * pre
    BY <1>2
  <2>2. basis * alpha \in Nat /\ part * alpha \in Nat /\ basis * pre \in Nat
    BY <1>2
  <2>3. cost * alpha >= basis * bought
    <3> DEFINE x == basis * alpha
               y == part * alpha
               z == basis * pre
               u == cost * alpha
               v == basis * bought
    <3>1. x \in Int /\ y \in Int /\ z \in Int /\ u = x - y /\ v = x - z /\ y <= z
      BY <1>2, <2>1, <2>2
    <3> HIDE DEF x, y, z, u, v
    <3>2. u >= v
      BY <3>1
    <3> QED BY <3>2 DEF u, v
  <2>4. part <= basis
    <3>1. basis * pre <= basis * alpha
      <4>1. pre * basis <= alpha * basis
        BY Times
      <4> QED BY <4>1
    <3>2. part * alpha <= basis * alpha
      BY <1>2, <2>2, <3>1
    <3>3. CASE part > basis
      <4>1. part >= basis + 1
        BY <1>2, <3>3
      <4>2. (basis + 1) * alpha <= part * alpha
        BY <1>2, <4>1, Times
      <4>3. (basis + 1) * alpha = basis * alpha + alpha
        OBVIOUS
      <4> QED BY <2>2, <3>2, <4>2, <4>3
    <3> QED BY <1>2, <3>3
  <2> QED BY <1>2, <2>3, <2>4
<1> HIDE DEF cost, bought
<1>4. cost * F32 \in Nat
  BY <1>1, <1>3
<1>5. price \in Nat /\ cost * F32 < price * bought + bought
  <2> DEFINE c == cost * F32
  <2>1. c \in Nat
    BY <1>4
  <2> HIDE DEF c
  <2>2. c \div bought \in Nat /\ c < (c \div bought) * bought + bought
    BY <1>1, <2>1, Division
  <2> QED BY <2>2 DEF c, price
<1>6. ASSUME price = 0 PROVE basis * F32 < alpha
  <2>1. cost * F32 < bought
    <3>1. price * bought + bought = bought
      BY <1>1, <1>6
    <3> QED BY <1>5, <3>1
  <2>2. (cost * F32) * alpha < bought * alpha
    <3> DEFINE c == cost * F32
    <3> HIDE DEF c
    <3>1. c + 1 <= bought /\ c \in Nat
      BY <1>1, <1>4, <2>1 DEF c
    <3>2. (c + 1) * alpha <= bought * alpha /\ (c + 1) * alpha = c * alpha + alpha
      BY <1>1, <3>1, Times
    <3>3. c * alpha \in Nat /\ bought * alpha \in Nat
      BY <1>1, <3>1
    <3> QED BY <3>2, <3>3 DEF c
  <2>3. (basis * bought) * F32 <= (cost * alpha) * F32
    <3>1. basis * bought \in Int /\ cost * alpha \in Int
      BY <1>1, <1>3
    <3> QED BY <1>1, <1>3, <3>1, Times
  <2>4. (basis * bought) * F32 = (basis * F32) * bought /\ (cost * alpha) * F32 = (cost * F32) * alpha
        /\ bought * alpha = alpha * bought
    BY <1>1, <1>3
  <2>5. (basis * F32) * bought < alpha * bought
    <3>1. (basis * F32) * bought \in Int /\ (cost * F32) * alpha \in Int /\ alpha * bought \in Int
      BY <1>1, <1>3
    <3> QED BY <2>2, <2>3, <2>4, <3>1
  <2>6. basis * F32 \in Int
    BY <1>1
  <2> QED BY <1>1, <2>5, <2>6, Cancel
<1> QED BY <1>5, <1>6 DEF price, cost, part, bought

LEMMA StopsBegin == BacktestInit => StopsInv
<1> SUFFICES ASSUME BacktestInit PROVE StopsInv
  OBVIOUS
<1>1. Exposed = {}
  BY DEF Exposed, HeldNetuids, BacktestInit
<1>2. phase = "idle" /\ pending = FALSE
  BY DEF BacktestInit
<1> QED BY <1>1, <1>2 DEF StopsInv, Answered, Guarded, Leaving, Rebalancing

LEMMA ReadKeepsStops ==
  ASSUME BacktestInv, StopsInv, NEW next, NEW snap, Read(next, snap)
  PROVE  StopsInv'
<1>1. /\ phase = "idle" /\ phase' = "read"
      /\ positions' = Accrued(snap, IF lastAccrualBlock > 0 THEN next - lastAccrualBlock ELSE 0, PriceMap(snap))
      /\ strategy' = strategy /\ stoppedOut' = stoppedOut
      /\ lastRebalanceBlock' = lastRebalanceBlock /\ pending' = pending
  BY DEF Read, trigger, memory
<1>2. DOMAIN positions' = DOMAIN positions
  BY <1>1 DEF Accrued
<1>3. Exposed' \subseteq Exposed
  BY <1>2 DEF Exposed, HeldNetuids, BacktestInv, Holdings
<1> QED BY <1>1, <1>3 DEF StopsInv, Answered, Rebalancing

\* At a block that has just been read the strategy has not observed, nor has there
\* been a rebalance.
LEMMA DecideKeepsStops ==
  ASSUME BacktestInv, StopsInv, Decide
  PROVE  StopsInv'
<1>1. /\ phase = "read" /\ phase' \in {"step", "idle"}
      /\ UNCHANGED <<strategy, block, snapshot, ledger, lastRebalanceBlock>>
  BY DEF Decide
<1> SUFFICES ASSUME strategy = "sma-stoploss", phase' = "idle" PROVE StopsInv'
  BY <1>1 DEF StopsInv, Rebalancing
<1>2. /\ Observe
      /\ pending' = ((pending \/ NeedsRebalance) /\ ~GapExpired)
      /\ ~((pending \/ NeedsRebalance) /\ GapExpired)
  BY DEF Decide
<1>3. lastObserved < block /\ lastRebalanceBlock < block /\ Answered
  BY <1>1 DEF BacktestInv, Clock, StopsInv
<1>4. block \in Int /\ lastObserved \in Int /\ lastRebalanceBlock \in Int
  BY Bounds DEF BacktestInv, Clock
<1>5. Observes
  BY <1>3, <1>4 DEF Observes
<1>6. /\ stopLosses' = UpdatedStops
      /\ stoppedOut' = [n \in Cooling \cup Triggered |-> IF n \in Triggered THEN block ELSE stoppedOut[n]]
  BY <1>2, <1>5 DEF Observe
<1>7. Exposed' = Exposed /\ positions' = positions /\ (GapExpired' <=> GapExpired)
  BY <1>1 DEF Exposed, HeldNetuids, ledger, GapExpired
<1>8. DOMAIN stopLosses' = ((HeldNetuids \cap DOMAIN stopLosses) \cup Watched) \ Triggered
  BY <1>6 DEF UpdatedStops
<1>9. DOMAIN stoppedOut' = Cooling \cup Triggered
  BY <1>6
<1>10. Guarded'
  <2> SUFFICES ASSUME NEW n \in Exposed, n \in Quoted(snapshot)
               PROVE  n \in DOMAIN stopLosses' \cup DOMAIN stoppedOut'
    BY <1>1, <1>7 DEF Guarded, Quoted
  <2>1. n \in Watched
    BY DEF Exposed, Watched
  <2> QED BY <1>8, <1>9, <2>1
<1>11. Answered'
  <2> SUFFICES ASSUME NEW n \in Exposed, n \in DOMAIN stoppedOut'
               PROVE  stoppedOut'[n] <= lastRebalanceBlock \/ pending'
    BY <1>1, <1>7 DEF Answered
  <2>1. CASE n \in Triggered
    BY <1>2, <1>5, <2>1 DEF NeedsRebalance
  <2>2. CASE n \notin Triggered
    <3>1. n \in Cooling /\ n \in DOMAIN stoppedOut /\ stoppedOut'[n] = stoppedOut[n]
      BY <1>6, <1>9, <2>2 DEF Cooling
    <3>2. stoppedOut[n] <= lastRebalanceBlock \/ pending
      BY <1>3, <3>1 DEF Answered
    <3> QED BY <1>2, <3>1, <3>2
  <2> QED BY <2>1, <2>2
<1>12. pending' => ~GapExpired'
  BY <1>2, <1>7
<1>13. lastRebalanceBlock' # block'
  BY <1>1, <1>3, <1>4
<1> QED BY <1>10, <1>11, <1>12, <1>13 DEF StopsInv, Rebalancing

LEMMA StepKeepsStops ==
  ASSUME BacktestInv, BacktestInv', StopsInv, Step
  PROVE  StopsInv'
<1>1. /\ phase' = "exit"
      /\ virtualReserves' = [n \in DOMAIN snapshot |->
                               [taoIn |-> snapshot[n].taoIn, alphaIn |-> snapshot[n].alphaIn]]
      /\ plan' = [NoPlan EXCEPT !.value = PortfolioValue(PriceMap(snapshot)),
                                !.exits = DOMAIN positions \ {targets'[i].netuid : i \in DOMAIN targets'}]
      /\ snapshot' = snapshot /\ positions' = positions /\ strategy' = strategy
  BY DEF Step, market
<1> SUFFICES ASSUME strategy = "sma-stoploss" PROVE Leaving'
  BY <1>1 DEF StopsInv
<1>2. Aimed(targets, DOMAIN stoppedOut)'
  BY <1>1 DEF BacktestInv, Planned, Rebalancing
<1>3. plan'.exits = DOMAIN positions \ {targets'[i].netuid : i \in DOMAIN targets'}
  <2> DEFINE v == PortfolioValue(PriceMap(snapshot))
             e == DOMAIN positions \ {targets'[i].netuid : i \in DOMAIN targets'}
  <2> HIDE DEF v, e
  <2>1. plan' = [NoPlan EXCEPT !.value = v, !.exits = e]
    BY <1>1 DEF v, e
  <2>2. plan'.exits = e
    BY <2>1 DEF NoPlan
  <2> QED BY <2>2 DEF e
<1>4. \A i \in DOMAIN targets' : targets'[i].netuid = Root \/ targets'[i].netuid \notin DOMAIN stoppedOut'
  BY <1>1, <1>2 DEF Aimed
<1> SUFFICES ASSUME NEW n \in Exposed', n \in DOMAIN stoppedOut', n \in DOMAIN snapshot
             PROVE  /\ n \in plan'.exits
                    /\ virtualReserves'[n] = [taoIn |-> snapshot[n].taoIn, alphaIn |-> snapshot[n].alphaIn]
  BY <1>1 DEF Leaving, Unsold
<1>5. n \in DOMAIN positions /\ n # Root
  BY <1>1 DEF Exposed, HeldNetuids
<1> QED BY <1>1, <1>3, <1>4, <1>5

\* The sale that a pool in its first state does not pay for.
LEMMA SamePool ==
  ASSUME NEW alpha, NEW p, NEW q, NEW netuid, p.taoIn = q.taoIn, p.alphaIn = q.alphaIn
  PROVE  SwapAlphaForTao(alpha, p, netuid) = SwapAlphaForTao(alpha, q, netuid)
BY DEF SwapAlphaForTao

\* A leg that leaves what is stopped out alone.
LEMMA OthersKeepLeaving ==
  ASSUME Leaving, UNCHANGED <<snapshot, stoppedOut>>, NEW n,
         n \in Exposed' \cap DOMAIN stoppedOut', n \in DOMAIN positions,
         positions[n].alpha > 0,
         positions'[n] = positions[n],
         n \in DOMAIN snapshot => virtualReserves'[n] = virtualReserves[n],
         n \in plan.exits => n \in plan'.exits
  PROVE  \/ Unsold(n)'
         \/ /\ n \in plan'.exits
            /\ virtualReserves'[n] = [taoIn |-> snapshot'[n].taoIn, alphaIn |-> snapshot'[n].alphaIn]
<1>1. n \in Exposed \cap DOMAIN stoppedOut
  BY DEF Exposed, HeldNetuids
<1>2. CASE Unsold(n)
  BY <1>2 DEF Unsold
<1>3. CASE ~Unsold(n)
  <2>1. /\ n \in plan.exits /\ n \in DOMAIN snapshot
        /\ virtualReserves[n] = [taoIn |-> snapshot[n].taoIn, alphaIn |-> snapshot[n].alphaIn]
    BY <1>1, <1>3 DEF Leaving, Unsold
  <2> QED BY <2>1
<1> QED BY <1>2, <1>3

LEMMA SellAllKeepsStops ==
  ASSUME BacktestInv, StopsInv, SellAll
  PROVE  StopsInv'
<1>1. Clock /\ Holdings /\ Purse /\ Memory /\ Planned /\ Balanced
  BY DEF BacktestInv
<1>2. PICK t \in plan.exits : Sell(t, positions[t].alpha) /\ plan' = [plan EXCEPT !.exits = @ \ {t}]
  BY DEF SellAll
<1>3. /\ phase = "exit"
      /\ UNCHANGED <<strategy, cron, phase, market, trigger, targets, preBuy, memory, opening>>
  BY DEF SellAll
<1>4. /\ strategy' = strategy /\ phase' = phase /\ snapshot' = snapshot
      /\ hodlSn0Alpha' = hodlSn0Alpha /\ stoppedOut' = stoppedOut
  BY <1>1, <1>3, FrameKeeps
<1> SUFFICES ASSUME strategy = "sma-stoploss" PROVE Leaving'
  BY <1>3, <1>4 DEF StopsInv
<1>5. Leaving /\ PoolsSound /\ plan.exits \subseteq DOMAIN positions
      /\ plan = [value |-> plan.value, exits |-> plan.exits, diffs |-> plan.diffs,
                 sells |-> plan.sells, buys |-> plan.buys]
  BY <1>1, <1>3 DEF StopsInv, Balanced, Planned, Rebalancing
<1>6. t \in DOMAIN positions /\ positions[t].alpha \in Nat /\ positions[t].alpha <= positions[t].alpha
      /\ IsSnapshot(snapshot)
  BY <1>1, <1>5 DEF Holdings, Clock
<1>7. /\ DOMAIN positions' \subseteq DOMAIN positions
      /\ \A m \in DOMAIN positions : m # t => m \in DOMAIN positions' /\ positions'[m] = positions[m]
      /\ \A m \in DOMAIN snapshot : m # t => virtualReserves'[m] = virtualReserves[m]
      /\ t \in DOMAIN positions' =>
           /\ SwapAlphaForTao(positions[t].alpha, Reserves(t), t).amountOut <= TxFee
           /\ UNCHANGED <<positions, virtualReserves>>
  BY <1>1, <1>2, <1>4, <1>5, <1>6, SaleBalances
<1>8. plan'.exits = plan.exits \ {t}
  <2> DEFINE V == plan.value
             X == plan.exits
             D == plan.diffs
             S == plan.sells
             B == plan.buys
  <2> HIDE DEF V, X, D, S, B
  <2>1. plan = [value |-> V, exits |-> X, diffs |-> D, sells |-> S, buys |-> B]
    BY <1>5 DEF V, X, D, S, B
  <2>2. plan' = [value |-> V, exits |-> X \ {t}, diffs |-> D, sells |-> S, buys |-> B]
    BY <1>2, <2>1
  <2> QED BY <2>2 DEF X
<1> SUFFICES ASSUME NEW n \in Exposed' \cap DOMAIN stoppedOut'
             PROVE  \/ Unsold(n)'
                    \/ /\ n \in plan'.exits
                       /\ virtualReserves'[n] = [taoIn |-> snapshot'[n].taoIn, alphaIn |-> snapshot'[n].alphaIn]
  BY DEF Leaving
<1>9. n \in DOMAIN positions' /\ n \in DOMAIN positions /\ n # Root /\ positions[n].alpha > 0
  BY <1>1, <1>7 DEF Exposed, HeldNetuids, Holdings
<1>10. CASE n # t
  BY <1>4, <1>5, <1>7, <1>8, <1>9, <1>10, OthersKeepLeaving
<1>11. CASE n = t
  <2>1. positions' = positions /\ SwapAlphaForTao(positions[n].alpha, Reserves(n), n).amountOut <= TxFee
    BY <1>7, <1>9, <1>11
  <2>2. n \in Exposed \cap DOMAIN stoppedOut
    BY <1>4, <1>9, <2>1 DEF Exposed, HeldNetuids
  <2>3. Unsold(n)
    <3> SUFFICES ASSUME n \in DOMAIN snapshot,
                        virtualReserves[n] = [taoIn |-> snapshot[n].taoIn, alphaIn |-> snapshot[n].alphaIn]
                 PROVE  SwapAlphaForTao(positions[n].alpha, snapshot[n], n).amountOut <= TxFee
      BY <1>5, <2>2 DEF Leaving, Unsold
    <3>1. Reserves(n) = virtualReserves[n]
      BY <1>5 DEF Reserves, PoolsSound
    <3>2. Reserves(n).taoIn = snapshot[n].taoIn /\ Reserves(n).alphaIn = snapshot[n].alphaIn
      BY <3>1
    <3>3. SwapAlphaForTao(positions[n].alpha, Reserves(n), n) = SwapAlphaForTao(positions[n].alpha, snapshot[n], n)
      BY <3>2, SamePool
    <3> QED BY <2>1, <3>3
  <2> QED BY <1>4, <2>1, <2>3 DEF Unsold
<1> QED BY <1>10, <1>11

LEMMA ComputeDiffsKeepsStops ==
  ASSUME BacktestInv, StopsInv, ComputeDiffs
  PROVE  StopsInv'
<1>1. /\ phase = "exit" /\ plan.exits = {} /\ phase' = "trade"
      /\ strategy' = strategy /\ snapshot' = snapshot /\ positions' = positions /\ stoppedOut' = stoppedOut
  BY DEF ComputeDiffs, market, ledger, memory
<1>2. strategy = "sma-stoploss" => \A n \in Exposed \cap DOMAIN stoppedOut : Unsold(n)
  BY <1>1 DEF StopsInv, Rebalancing, Leaving
<1> QED BY <1>1, <1>2 DEF StopsInv, Leaving, Unsold, Exposed, HeldNetuids

LEMMA SellPartialKeepsStops ==
  ASSUME BacktestInv, StopsInv, SellPartial
  PROVE  StopsInv'
<1>1. Clock /\ Holdings /\ Purse /\ Memory /\ Planned /\ Balanced
  BY DEF BacktestInv
<1>2. PICK i \in plan.sells :
        LET n == targets[i].netuid
            needed == AlphaNeededForTao(-plan.diffs[i], Reserves(n), n)
        IN Sell(n, Min({positions[n].alpha} \cup needed))
  BY DEF SellPartial
<1> DEFINE t == targets[i].netuid
           alpha == Min({positions[t].alpha} \cup AlphaNeededForTao(-plan.diffs[i], Reserves(t), t))
<1>3. /\ phase = "trade"
      /\ UNCHANGED <<strategy, cron, phase, market, trigger, targets, preBuy, memory, opening>>
  BY DEF SellPartial
<1>4. /\ strategy' = strategy /\ phase' = phase /\ snapshot' = snapshot
      /\ hodlSn0Alpha' = hodlSn0Alpha /\ stoppedOut' = stoppedOut
  BY <1>1, <1>3, FrameKeeps
<1> SUFFICES ASSUME strategy = "sma-stoploss" PROVE Leaving'
  BY <1>3, <1>4 DEF StopsInv
<1>5. /\ Aimed(targets, DOMAIN stoppedOut) /\ plan.exits = {}
      /\ i \in 1..Len(targets) /\ plan.diffs[i] \in Int /\ t \in DOMAIN positions
      /\ Leaving /\ PoolsSound
  BY <1>1, <1>3 DEF StopsInv, Balanced, Planned, Rebalancing
<1>6. positions[t].alpha \in Nat /\ IsSnapshot(snapshot)
  BY <1>1, <1>5 DEF Holdings, Clock
<1>7. alpha \in Nat /\ alpha <= positions[t].alpha
  <2>1. Reserves(t) \in Sides
    BY <1>5 DEF Reserves, Sides, PoolsSound
  <2>2. -plan.diffs[i] \in Int
    BY <1>5
  <2> QED BY <1>6, <2>1, <2>2, PartOfPosition
<1>8. Sell(t, alpha)
  BY <1>2
<1> HIDE DEF alpha
<1>9. /\ DOMAIN positions' \subseteq DOMAIN positions
      /\ \A m \in DOMAIN positions : m # t => m \in DOMAIN positions' /\ positions'[m] = positions[m]
      /\ \A m \in DOMAIN snapshot : m # t => virtualReserves'[m] = virtualReserves[m]
  BY <1>1, <1>4, <1>5, <1>6, <1>7, <1>8, SaleBalances
<1>10. t = Root \/ t \notin DOMAIN stoppedOut
  BY <1>5 DEF Aimed
<1> SUFFICES ASSUME NEW n \in Exposed' \cap DOMAIN stoppedOut'
             PROVE  \/ Unsold(n)'
                    \/ /\ n \in plan'.exits
                       /\ virtualReserves'[n] = [taoIn |-> snapshot'[n].taoIn, alphaIn |-> snapshot'[n].alphaIn]
  BY DEF Leaving
<1>11. n \in DOMAIN positions /\ n # t /\ positions[n].alpha > 0
  BY <1>1, <1>4, <1>9, <1>10 DEF Exposed, HeldNetuids, Holdings
<1>12. n \notin plan.exits
  BY <1>5
<1> QED BY <1>4, <1>5, <1>9, <1>11, <1>12, OthersKeepLeaving

LEMMA BuyKeepsStops ==
  ASSUME BacktestInv, StopsInv, Buy
  PROVE  StopsInv'
<1>1. Clock /\ Holdings /\ Purse /\ Memory /\ Planned /\ Balanced
  BY DEF BacktestInv
<1>2. PICK i \in plan.buys :
        LET n == targets[i].netuid
            actual == Min({plan.diffs[i], free})
        IN IF actual <= 0 THEN UNCHANGED ledger
           ELSE IF n = Root THEN BuyRoot(actual) ELSE BuyAlpha(n, actual)
  BY DEF Buy
<1> DEFINE t == targets[i].netuid
           actual == Min({plan.diffs[i], free})
<1>3. /\ phase = "trade"
      /\ UNCHANGED <<strategy, cron, phase, market, trigger, targets, preBuy, memory, opening>>
  BY DEF Buy
<1>4. /\ strategy' = strategy /\ phase' = phase /\ snapshot' = snapshot
      /\ hodlSn0Alpha' = hodlSn0Alpha /\ stoppedOut' = stoppedOut
  BY <1>1, <1>3, FrameKeeps
<1> SUFFICES ASSUME strategy = "sma-stoploss" PROVE Leaving'
  BY <1>3, <1>4 DEF StopsInv
<1>5. /\ Aimed(targets, DOMAIN stoppedOut) /\ plan.exits = {}
      /\ i \in 1..Len(targets) /\ plan.diffs[i] \in Int /\ Leaving /\ PoolsSound
  BY <1>1, <1>3 DEF StopsInv, Balanced, Planned, Rebalancing
<1>6. t \in DOMAIN snapshot \cup {Root} /\ IsSnapshot(snapshot) /\ (t = Root \/ t \notin DOMAIN stoppedOut)
  <2>1. targets[i] \in Aim
    BY <1>5 DEF Aimed
  <2> QED BY <1>1, <1>5, <2>1 DEF Aim, Aimed, Clock
<1>7. actual \in Int /\ actual <= free
  <2>1. plan.diffs[i] \in Int /\ free \in Int
    BY <1>1, <1>5 DEF Purse
  <2> QED BY <2>1, MinOfTwo
<1>8. IF actual <= 0 THEN UNCHANGED ledger
      ELSE IF t = Root THEN BuyRoot(actual) ELSE BuyAlpha(t, actual)
  BY <1>2
<1> HIDE DEF actual
<1>9. /\ DOMAIN positions' \subseteq DOMAIN positions \cup {t}
      /\ \A m \in DOMAIN positions : m # t => positions'[m] = positions[m]
      /\ \A m \in DOMAIN snapshot : m # t => virtualReserves'[m] = virtualReserves[m]
  BY <1>1, <1>4, <1>5, <1>6, <1>7, <1>8, BuyBalances
<1> SUFFICES ASSUME NEW n \in Exposed' \cap DOMAIN stoppedOut'
             PROVE  \/ Unsold(n)'
                    \/ /\ n \in plan'.exits
                       /\ virtualReserves'[n] = [taoIn |-> snapshot'[n].taoIn, alphaIn |-> snapshot'[n].alphaIn]
  BY DEF Leaving
<1>10. n \in DOMAIN positions /\ n # t /\ positions[n].alpha > 0
  BY <1>1, <1>4, <1>6, <1>9 DEF Exposed, HeldNetuids, Holdings
<1>11. n \notin plan.exits
  BY <1>5
<1> QED BY <1>4, <1>5, <1>9, <1>10, <1>11, OthersKeepLeaving

LEMMA AfterRebalanceKeepsStops ==
  ASSUME BacktestInv, StopsInv, AfterRebalance
  PROVE  StopsInv'
<1>1. Clock /\ Holdings /\ Memory /\ Planned
  BY DEF BacktestInv
<1>2. /\ phase = "trade" /\ phase' = "idle"
      /\ stopLosses' = IF strategy = "sma-stoploss" THEN SeededStops ELSE stopLosses
      /\ lastRebalanceBlock' = block /\ pending' = FALSE
      /\ UNCHANGED <<strategy, market, positions, stoppedOut>>
  BY DEF AfterRebalance
<1>3. block' = block /\ snapshot' = snapshot /\ Exposed' = Exposed
  BY <1>2 DEF market, Exposed, HeldNetuids
<1> SUFFICES ASSUME strategy = "sma-stoploss" PROVE StopsInv'
  BY <1>2 DEF StopsInv
<1>4. Leaving /\ plan.exits = {} /\ \A n \in DOMAIN preBuy : preBuy[n] \in Nat
  BY <1>1, <1>2 DEF StopsInv, Planned, Rebalancing
<1>5. Answered'
  BY <1>1, <1>2, <1>3 DEF Answered, Memory
<1>6. \A n \in Exposed' \cap DOMAIN stoppedOut' : Unsold(n)'
  BY <1>2, <1>3, <1>4 DEF Leaving, Unsold
<1>7. Guarded'
  <2> SUFFICES ASSUME NEW n \in Exposed, n \in Quoted(snapshot), n \notin DOMAIN stopLosses'
               PROVE  positions[n].costBasis * F32 < positions[n].alpha
    BY <1>2, <1>3 DEF Guarded, Quoted
  <2>1. n \notin HeldNetuids \cap DOMAIN stopLosses /\ ~(EntryPrice(n) > 0)
    BY <1>2 DEF SeededStops, Exposed
  <2>2. snapshot[n].spotPrice > 0
    BY DEF Quoted
  <2>3. n \in Filled
    BY <2>1, <2>2 DEF EntryPrice
  <2>4. /\ preBuy[n] \in Nat /\ positions[n].alpha > preBuy[n]
        /\ positions[n].alpha \in Nat \ {0} /\ positions[n].costBasis \in Nat
    BY <1>1, <1>4, <2>3 DEF Filled, HeldNetuids, Holdings
  <2>5. EntryPrice(n) = FillPrice(n)
    BY <2>3 DEF EntryPrice
  <2> DEFINE alpha == positions[n].alpha
             basis == positions[n].costBasis
             pre == preBuy[n]
             price == ((basis - (basis * pre) \div alpha) * F32) \div (alpha - pre)
  <2>6. FillPrice(n) = price
    BY DEF FillPrice
  <2>7. pre < alpha
    BY <2>4
  <2> HIDE DEF alpha, basis, pre
  <2>8. price \in Nat /\ (price = 0 => basis * F32 < alpha)
    BY <2>4, <2>7, CheapFill DEF alpha, basis, pre
  <2> HIDE DEF price
  <2>9. price = 0
    BY <2>1, <2>5, <2>6, <2>8
  <2> QED BY <2>8, <2>9 DEF alpha, basis
<1> QED BY <1>2, <1>5, <1>6, <1>7 DEF StopsInv, Rebalancing

LEMMA ReportKeepsStops ==
  ASSUME BacktestInv, StopsInv, Report
  PROVE  StopsInv'
BY DEF StopsInv, Rebalancing, Report

LEMMA StopsStutter ==
  ASSUME BacktestInv, StopsInv, UNCHANGED backtestVars
  PROVE  StopsInv'
<1>1. UNCHANGED <<strategy, phase, block, snapshot, lastRebalanceBlock, pending, positions, virtualReserves,
                  stopLosses, stoppedOut, plan>>
  BY DEF backtestVars, ledger, market, trigger, memory
<1>2. /\ Guarded' <=> Guarded
      /\ Answered' <=> Answered
      /\ Leaving' <=> Leaving
      /\ GapExpired' <=> GapExpired
      /\ Exposed' = Exposed
      /\ \A n : Unsold(n)' <=> Unsold(n)
  BY <1>1 DEF Guarded, Answered, Leaving, GapExpired, Exposed, Unsold, HeldNetuids, Quoted
<1> QED BY <1>1, <1>2 DEF StopsInv, Rebalancing

LEMMA StopsInvMeans == StopsInv => StopsProtect
BY DEF StopsInv, StopsProtect, Guarded, Answered, Unsold, Exposed

\* Whatever sma-stoploss holds has a stop or is stopped out, and what is stopped out is
\* sold by the rebalance that follows, which comes as soon as the gap allows.
THEOREM StopsHold == BacktestSpec => []StopsProtect
<1>1. BacktestInit => BacktestInv /\ StopsInv
  BY BacktestBegins, StopsBegin
<1>2. BacktestInv /\ [BacktestNext]_backtestVars => BacktestInv'
  BY BacktestInvIsInductive
<1>3. BacktestInv /\ BacktestInv' /\ StopsInv /\ [BacktestNext]_backtestVars => StopsInv'
  BY ReadKeepsStops, DecideKeepsStops, StepKeepsStops, SellAllKeepsStops, ComputeDiffsKeepsStops,
     SellPartialKeepsStops, BuyKeepsStops, AfterRebalanceKeepsStops, ReportKeepsStops, StopsStutter
  DEF BacktestNext
<1> QED BY <1>1, <1>2, <1>3, StopsInvMeans, PTL DEF BacktestSpec

-----------------------------------------------------------------------------
(* One pass over a sequence: FoldLeft, prefix by prefix.                   *)

\* The function by which FoldLeft is defined, over subsets of the indices, exists.
FoldsBy(n, b, G, g) ==
  \A s \in SUBSET (1..n) : g[s] = IF s = {} THEN b ELSE G[Max(s)][g[s \ {Max(s)}]]

LEMMA MaxOfTwo ==
  ASSUME NEW a \in Int, NEW b \in Int
  PROVE  Max({a, b}) \in {a, b} /\ Max({a, b}) >= a /\ Max({a, b}) >= b
<1>1. \E x \in {a, b} : \A y \in {a, b} : x >= y
  <2>1. CASE a >= b
    BY <2>1
  <2>2. CASE b >= a
    BY <2>2
  <2> QED BY <2>1, <2>2
<1> QED BY <1>1 DEF Max

LEMMA MaxIsMember ==
  ASSUME NEW n \in Nat, NEW s \in SUBSET (1..n), s # {}
  PROVE  Max(s) \in s
<1> DEFINE R == {n - x : x \in s}
<1>1. R \in SUBSET Nat /\ R # {}
  <2>1. \A x \in s : x \in 1..n /\ n - x \in Nat
    OBVIOUS
  <2>2. PICK x \in s : TRUE
    OBVIOUS
  <2>3. n - x \in R
    OBVIOUS
  <2> QED BY <2>1, <2>3
<1>2. PICK m \in R : \A r \in R : m <= r
  <2> HIDE DEF R
  <2> QED BY <1>1, Least
<1>3. PICK x \in s : m = n - x
  BY <1>2
<1>4. \A y \in s : x >= y
  <2> SUFFICES ASSUME NEW y \in s PROVE x >= y
    OBVIOUS
  <2>1. n - y \in R
    OBVIOUS
  <2> HIDE DEF R
  <2>2. n - x <= n - y
    BY <1>2, <1>3, <2>1
  <2>3. x \in Int /\ y \in Int
    OBVIOUS
  <2> QED BY <2>2, <2>3
<1> QED BY <1>4 DEF Max

LEMMA LastIsMax ==
  ASSUME NEW k \in Nat, NEW s \in SUBSET (1..k + 1), k + 1 \in s
  PROVE  Max(s) = k + 1
<1>1. \A y \in s : k + 1 >= y
  OBVIOUS
<1>2. \A x \in s : (\A y \in s : x >= y) => x = k + 1
  <2> SUFFICES ASSUME NEW x \in s, \A y \in s : x >= y PROVE x = k + 1
    OBVIOUS
  <2>1. x >= k + 1 /\ x \in 1..k + 1
    OBVIOUS
  <2> QED BY <2>1
<1> QED BY <1>1, <1>2 DEF Max

LEMMA FoldExists ==
  ASSUME NEW n \in Nat, NEW D, NEW b \in D, NEW G \in [1..n -> [D -> D]]
  PROVE  \E g \in [SUBSET (1..n) -> D] : FoldsBy(n, b, G, g)
<1> DEFINE Reached(k) == \E g \in [SUBSET (1..k) -> D] : FoldsBy(k, b, G, g)
           R == {k \in Nat : k <= n => Reached(k)}
<1>1. 0 \in R
  <2> DEFINE g == [s \in SUBSET (1..0) |-> b]
  <2>1. g \in [SUBSET (1..0) -> D]
    OBVIOUS
  <2>2. \A s \in SUBSET (1..0) : s = {} /\ g[s] = b
    OBVIOUS
  <2>3. FoldsBy(0, b, G, g)
    BY <2>2 DEF FoldsBy
  <2> HIDE DEF g
  <2> QED BY <2>1, <2>3
<1>2. ASSUME NEW k \in Nat, k \in R, k + 1 <= n PROVE Reached(k + 1)
  <2>0. k <= n
    BY <1>2
  <2>1. PICK g \in [SUBSET (1..k) -> D] : FoldsBy(k, b, G, g)
    BY <1>2, <2>0
  <2> DEFINE h == [s \in SUBSET (1..k + 1) |-> IF k + 1 \in s THEN G[k + 1][g[s \ {k + 1}]] ELSE g[s]]
  <2>2. \A s \in SUBSET (1..k + 1) : s \ {k + 1} \in SUBSET (1..k) /\ (k + 1 \notin s => s \in SUBSET (1..k))
    OBVIOUS
  <2>3. G[k + 1] \in [D -> D]
    BY <1>2
  <2>4. h \in [SUBSET (1..k + 1) -> D]
    BY <2>2, <2>3
  <2>5. \A s \in SUBSET (1..k) : s \in SUBSET (1..k + 1) /\ k + 1 \notin s /\ h[s] = g[s]
    OBVIOUS
  <2>6. ASSUME NEW s \in SUBSET (1..k + 1), k + 1 \in s
        PROVE  h[s] = IF s = {} THEN b ELSE G[Max(s)][h[s \ {Max(s)}]]
    <3>1. Max(s) = k + 1
      BY <2>6, LastIsMax
    <3>2. h[s] = G[k + 1][g[s \ {k + 1}]] /\ s # {}
      BY <2>6
    <3> HIDE DEF h
    <3>3. h[s \ {k + 1}] = g[s \ {k + 1}]
      BY <2>2, <2>5
    <3> QED BY <3>1, <3>2, <3>3
  <2>7. ASSUME NEW s \in SUBSET (1..k + 1), k + 1 \notin s
        PROVE  h[s] = IF s = {} THEN b ELSE G[Max(s)][h[s \ {Max(s)}]]
    <3>1. s \in SUBSET (1..k) /\ s \ {Max(s)} \in SUBSET (1..k)
      BY <2>2, <2>7
    <3>2. h[s] = g[s] /\ h[s \ {Max(s)}] = g[s \ {Max(s)}]
      BY <2>5, <3>1
    <3> HIDE DEF h
    <3> QED BY <2>1, <3>1, <3>2 DEF FoldsBy
  <2> HIDE DEF h
  <2>8. FoldsBy(k + 1, b, G, h)
    BY <2>6, <2>7 DEF FoldsBy
  <2> QED BY <2>4, <2>8
<1>3. ASSUME NEW k \in Nat, k \in R PROVE k + 1 \in R
  <2> HIDE DEF Reached
  <2> QED BY <1>2, <1>3
<1>4. n \in R
  <2> HIDE DEF R
  <2> QED BY <1>1, <1>3, Induction
<1>5. Reached(n)
  <2> HIDE DEF Reached
  <2> QED BY <1>4
<1> QED BY <1>5

LEMMA Prefix ==
  ASSUME NEW k \in Nat
  PROVE  /\ 1..k + 1 # {} /\ Max(1..k + 1) = k + 1
         /\ (1..k + 1) \ {k + 1} = 1..k
<1>1. k + 1 \in 1..k + 1 /\ 1..k + 1 \in SUBSET (1..k + 1)
  OBVIOUS
<1>2. Max(1..k + 1) = k + 1
  BY <1>1, LastIsMax
<1>3. \A j : j \in (1..k + 1) \ {k + 1} <=> j \in 1..k
  OBVIOUS
<1>4. (1..k + 1) \ {k + 1} = 1..k
  BY <1>3, Zenon
<1> QED BY <1>1, <1>2, <1>4

StreakStep(s, c) ==
  [current |-> IF c THEN s.current + 1 ELSE 0,
   max |-> Max({s.max, IF c THEN s.current + 1 ELSE 0})]

StreakFold(counts, g) ==
  g = [s \in SUBSET DOMAIN counts |->
         IF s = {} THEN [current |-> 0, max |-> 0]
         ELSE StreakStep(g[s \ {Max(s)}], counts[Max(s)])]

LEMMA StreakPrefixes ==
  ASSUME NEW counts \in Seq(BOOLEAN)
  PROVE  \E acc : /\ acc[0] = [current |-> 0, max |-> 0]
                  /\ \A k \in Nat : k + 1 <= Len(counts) => acc[k + 1] = StreakStep(acc[k], counts[k + 1])
                  /\ Streak(counts) = acc[Len(counts)].max
<1> DEFINE n == Len(counts)
           D == [current : Nat, max : Nat]
           b == [current |-> 0, max |-> 0]
           G == [i \in 1..n |-> [d \in D |-> StreakStep(d, counts[i])]]
           g == CHOOSE h : StreakFold(counts, h)
<1>1. DOMAIN counts = 1..n /\ n \in Nat /\ b \in D
  OBVIOUS
<1>2. Streak(counts) = g[DOMAIN counts].max
  BY DEF Streak, FoldLeft, MapThenFoldSet, StreakFold, StreakStep
<1>3. G \in [1..n -> [D -> D]]
  <2>1. ASSUME NEW d \in D, NEW c \in BOOLEAN PROVE StreakStep(d, c) \in D
    <3> DEFINE cur == IF c THEN d.current + 1 ELSE 0
    <3>1. cur \in Nat /\ d.max \in Nat /\ cur \in Int /\ d.max \in Int
      OBVIOUS
    <3> HIDE DEF cur
    <3>2. Max({d.max, cur}) \in Nat
      BY <3>1, MaxOfTwo
    <3>3. StreakStep(d, c) = [current |-> cur, max |-> Max({d.max, cur})]
      BY DEF StreakStep, cur
    <3> QED BY <3>1, <3>2, <3>3
  <2>2. \A i \in 1..n : counts[i] \in BOOLEAN
    OBVIOUS
  <2> HIDE DEF n, D
  <2> QED BY <2>1, <2>2
<1> HIDE DEF n, D, b
<1>4. PICK h \in [SUBSET (1..n) -> D] : FoldsBy(n, b, G, h)
  <2> HIDE DEF G
  <2> QED BY <1>1, <1>3, FoldExists
<1>5. StreakFold(counts, h)
  <2>1. \A s \in SUBSET (1..n) : h[s] = IF s = {} THEN b ELSE StreakStep(h[s \ {Max(s)}], counts[Max(s)])
    <3> SUFFICES ASSUME NEW s \in SUBSET (1..n), s # {} PROVE h[s] = StreakStep(h[s \ {Max(s)}], counts[Max(s)])
      BY <1>4 DEF FoldsBy
    <3>1. Max(s) \in 1..n
      BY <1>1, MaxIsMember
    <3>2. h[s \ {Max(s)}] \in D
      OBVIOUS
    <3>3. h[s] = G[Max(s)][h[s \ {Max(s)}]]
      BY <1>4 DEF FoldsBy
    <3> QED BY <3>1, <3>2, <3>3
  <2> HIDE DEF G
  <2>2. h = [s \in SUBSET (1..n) |-> h[s]]
    OBVIOUS
  <2>3. h = [s \in SUBSET (1..n) |-> IF s = {} THEN b ELSE StreakStep(h[s \ {Max(s)}], counts[Max(s)])]
    BY <2>1, <2>2
  <2> QED BY <1>1, <2>3 DEF StreakFold, b
<1>6. StreakFold(counts, g)
  BY <1>5
<1> HIDE DEF g, G
<1>7. \A s \in SUBSET (1..n) : g[s] = IF s = {} THEN b ELSE StreakStep(g[s \ {Max(s)}], counts[Max(s)])
  BY <1>1, <1>6 DEF StreakFold, b
<1> DEFINE acc == [k \in 0..n |-> g[1..k]]
<1>8. acc[0] = b /\ acc[n] = g[1..n]
  <2>1. 1..0 = {} /\ 0 \in 0..n /\ n \in 0..n /\ {} \in SUBSET (1..n)
    BY <1>1
  <2> QED BY <1>7, <2>1
<1>9. ASSUME NEW k \in Nat, k + 1 <= n PROVE acc[k + 1] = StreakStep(acc[k], counts[k + 1])
  <2>1. k \in 0..n /\ k + 1 \in 0..n /\ 1..k + 1 \in SUBSET (1..n)
    BY <1>1, <1>9
  <2>2. g[1..k + 1] = StreakStep(g[1..k], counts[k + 1])
    BY <1>7, <2>1, Prefix
  <2> QED BY <2>1, <2>2
<1> HIDE DEF acc
<1> QED BY <1>1, <1>2, <1>8, <1>9 DEF b, n

Sample == [time : Int, value : Nat]

DrawdownState == [peak : Int, max : Int \X Int, longest : Int, start : Int]

Opened(equity) ==
  [peak |-> equity[1].value, max |-> <<0, 1>>, longest |-> 0, start |-> equity[1].time]

DrawdownFold(equity, g) ==
  g = [s \in SUBSET DOMAIN equity |->
         IF s = {} THEN Opened(equity) ELSE DrawdownStep(g[s \ {Max(s)}], equity[Max(s)])]

LEMMA DrawdownPrefixes ==
  ASSUME NEW equity \in Seq(Sample), Len(equity) >= 2
  PROVE  \E acc : LET d == acc[Len(equity)]
                  IN /\ acc[0] = Opened(equity)
                     /\ \A k \in Nat : k + 1 <= Len(equity) =>
                          acc[k + 1] = DrawdownStep(acc[k], equity[k + 1])
                     /\ ComputeDrawdown(equity) =
                          [max |-> d.max,
                           longest |-> Longer(d.max, equity[Len(equity)].time - d.start, d.longest)]
<1> DEFINE n == Len(equity)
           D == DrawdownState
           b == Opened(equity)
           G == [i \in 1..n |-> [d \in D |-> DrawdownStep(d, equity[i])]]
           g == CHOOSE h : DrawdownFold(equity, h)
<1>1. DOMAIN equity = 1..n /\ n \in Nat /\ \A i \in 1..n : equity[i] \in Sample
  OBVIOUS
<1>2. b \in D
  BY <1>1 DEF Opened, DrawdownState, Sample
<1>3. ComputeDrawdown(equity) =
        LET d == g[DOMAIN equity]
        IN [max |-> d.max, longest |-> Longer(d.max, equity[n].time - d.start, d.longest)]
  <2>1. ~(Len(equity) < 2)
    BY <1>1
  <2> QED BY <2>1 DEF ComputeDrawdown, FoldLeft, MapThenFoldSet, DrawdownFold, Opened
<1>4. G \in [1..n -> [D -> D]]
  <2>1. ASSUME NEW d \in D, NEW x \in Sample PROVE DrawdownStep(d, x) \in D
    <3>1. AtPeak(d, x) \in D
      <4> DEFINE l == Longer(d.max, x.time - d.start, d.longest)
      <4>1. l \in Int /\ x.value \in Int /\ x.time \in Int
        BY DEF Longer, DrawdownState, Sample
      <4> HIDE DEF l
      <4>2. AtPeak(d, x) = [d EXCEPT !.longest = l, !.peak = x.value, !.start = x.time]
        BY DEF AtPeak, l
      <4> QED BY <4>1, <4>2 DEF DrawdownState
    <3>2. BelowPeak(d, x) \in D
      <4>1. Loss(d.peak, x.value) \in Int \X Int
        BY DEF Loss, DrawdownState, Sample
      <4> QED BY <4>1 DEF BelowPeak, DrawdownState
    <3> QED BY <3>1, <3>2 DEF DrawdownStep
  <2> HIDE DEF n, D
  <2> QED BY <1>1, <2>1
<1> HIDE DEF n, D, b
<1>5. PICK h \in [SUBSET (1..n) -> D] : FoldsBy(n, b, G, h)
  <2> HIDE DEF G
  <2> QED BY <1>1, <1>2, <1>4, FoldExists
<1>6. DrawdownFold(equity, h)
  <2>1. \A s \in SUBSET (1..n) : h[s] = IF s = {} THEN b ELSE DrawdownStep(h[s \ {Max(s)}], equity[Max(s)])
    <3> SUFFICES ASSUME NEW s \in SUBSET (1..n), s # {} PROVE h[s] = DrawdownStep(h[s \ {Max(s)}], equity[Max(s)])
      BY <1>5 DEF FoldsBy
    <3>1. Max(s) \in 1..n
      BY <1>1, MaxIsMember
    <3>2. h[s \ {Max(s)}] \in D
      OBVIOUS
    <3>3. h[s] = G[Max(s)][h[s \ {Max(s)}]]
      BY <1>5 DEF FoldsBy
    <3> QED BY <3>1, <3>2, <3>3
  <2> HIDE DEF G
  <2>2. h = [s \in SUBSET (1..n) |-> h[s]]
    OBVIOUS
  <2>3. h = [s \in SUBSET (1..n) |-> IF s = {} THEN b ELSE DrawdownStep(h[s \ {Max(s)}], equity[Max(s)])]
    BY <2>1, <2>2
  <2> QED BY <1>1, <2>3 DEF DrawdownFold, b
<1>7. DrawdownFold(equity, g)
  BY <1>6
<1> HIDE DEF g, G
<1>8. \A s \in SUBSET (1..n) : g[s] = IF s = {} THEN b ELSE DrawdownStep(g[s \ {Max(s)}], equity[Max(s)])
  BY <1>1, <1>7 DEF DrawdownFold, b
<1> DEFINE acc == [k \in 0..n |-> g[1..k]]
<1>9. acc[0] = b /\ acc[n] = g[1..n]
  <2>1. 1..0 = {} /\ 0 \in 0..n /\ n \in 0..n /\ {} \in SUBSET (1..n)
    BY <1>1
  <2> QED BY <1>8, <2>1
<1>10. ASSUME NEW k \in Nat, k + 1 <= n PROVE acc[k + 1] = DrawdownStep(acc[k], equity[k + 1])
  <2>1. k \in 0..n /\ k + 1 \in 0..n /\ 1..k + 1 \in SUBSET (1..n)
    BY <1>1, <1>10
  <2>2. g[1..k + 1] = DrawdownStep(g[1..k], equity[k + 1])
    BY <1>8, <2>1, Prefix
  <2> QED BY <2>1, <2>2
<1> HIDE DEF acc
<1> QED BY <1>1, <1>3, <1>9, <1>10 DEF b, n

SeriesState == [peak : Int, losses : Seq(Int \X Int)]

SeriesStep(acc, sample) ==
  [peak |-> Max({acc.peak, sample.value}),
   losses |-> Append(acc.losses, Loss(Max({acc.peak, sample.value}), sample.value))]

SeriesFold(equity, g) ==
  g = [s \in SUBSET DOMAIN equity |->
         IF s = {} THEN [peak |-> equity[1].value, losses |-> <<>>]
         ELSE SeriesStep(g[s \ {Max(s)}], equity[Max(s)])]

LEMMA SeriesPrefixes ==
  ASSUME NEW equity \in Seq(Sample), Len(equity) >= 2
  PROVE  \E acc : /\ acc[0] = [peak |-> equity[1].value, losses |-> <<>>]
                  /\ \A k \in Nat : k + 1 <= Len(equity) => acc[k + 1] = SeriesStep(acc[k], equity[k + 1])
                  /\ ComputeDrawdownTimeseries(equity) = acc[Len(equity)].losses
<1> DEFINE n == Len(equity)
           D == SeriesState
           b == [peak |-> equity[1].value, losses |-> <<>>]
           G == [i \in 1..n |-> [d \in D |-> SeriesStep(d, equity[i])]]
           g == CHOOSE h : SeriesFold(equity, h)
<1>1. DOMAIN equity = 1..n /\ n \in Nat /\ \A i \in 1..n : equity[i] \in Sample
  OBVIOUS
<1>2. b \in D
  BY <1>1 DEF SeriesState, Sample
<1>3. ComputeDrawdownTimeseries(equity) = g[DOMAIN equity].losses
  BY DEF ComputeDrawdownTimeseries, FoldLeft, MapThenFoldSet, SeriesFold, SeriesStep
<1>4. G \in [1..n -> [D -> D]]
  <2>1. ASSUME NEW d \in D, NEW x \in Sample PROVE SeriesStep(d, x) \in D
    <3> DEFINE m == Max({d.peak, x.value})
    <3>1. d.peak \in Int /\ x.value \in Int /\ d.losses \in Seq(Int \X Int)
      BY DEF SeriesState, Sample
    <3>2. m \in Int
      BY <3>1, MaxOfTwo
    <3>3. SeriesStep(d, x) = [peak |-> m, losses |-> Append(d.losses, Loss(m, x.value))]
      BY DEF SeriesStep
    <3> HIDE DEF m
    <3>4. Loss(m, x.value) \in Int \X Int
      BY <3>1, <3>2 DEF Loss
    <3>5. Append(d.losses, Loss(m, x.value)) \in Seq(Int \X Int)
      BY <3>1, <3>4
    <3> QED BY <3>2, <3>3, <3>5 DEF SeriesState
  <2> HIDE DEF n, D
  <2> QED BY <1>1, <2>1
<1> HIDE DEF n, D, b
<1>5. PICK h \in [SUBSET (1..n) -> D] : FoldsBy(n, b, G, h)
  <2> HIDE DEF G
  <2> QED BY <1>1, <1>2, <1>4, FoldExists
<1>6. SeriesFold(equity, h)
  <2>1. \A s \in SUBSET (1..n) : h[s] = IF s = {} THEN b ELSE SeriesStep(h[s \ {Max(s)}], equity[Max(s)])
    <3> SUFFICES ASSUME NEW s \in SUBSET (1..n), s # {} PROVE h[s] = SeriesStep(h[s \ {Max(s)}], equity[Max(s)])
      BY <1>5 DEF FoldsBy
    <3>1. Max(s) \in 1..n
      BY <1>1, MaxIsMember
    <3>2. h[s \ {Max(s)}] \in D
      OBVIOUS
    <3>3. h[s] = G[Max(s)][h[s \ {Max(s)}]]
      BY <1>5 DEF FoldsBy
    <3> QED BY <3>1, <3>2, <3>3
  <2> HIDE DEF G
  <2>2. h = [s \in SUBSET (1..n) |-> h[s]]
    OBVIOUS
  <2>3. h = [s \in SUBSET (1..n) |-> IF s = {} THEN b ELSE SeriesStep(h[s \ {Max(s)}], equity[Max(s)])]
    BY <2>1, <2>2
  <2> QED BY <1>1, <2>3 DEF SeriesFold, b
<1>7. SeriesFold(equity, g)
  BY <1>6
<1> HIDE DEF g, G
<1>8. \A s \in SUBSET (1..n) : g[s] = IF s = {} THEN b ELSE SeriesStep(g[s \ {Max(s)}], equity[Max(s)])
  BY <1>1, <1>7 DEF SeriesFold, b
<1> DEFINE acc == [k \in 0..n |-> g[1..k]]
<1>9. acc[0] = b /\ acc[n] = g[1..n]
  <2>1. 1..0 = {} /\ 0 \in 0..n /\ n \in 0..n /\ {} \in SUBSET (1..n)
    BY <1>1
  <2> QED BY <1>8, <2>1
<1>10. ASSUME NEW k \in Nat, k + 1 <= n PROVE acc[k + 1] = SeriesStep(acc[k], equity[k + 1])
  <2>1. k \in 0..n /\ k + 1 \in 0..n /\ 1..k + 1 \in SUBSET (1..n)
    BY <1>1, <1>10
  <2>2. g[1..k + 1] = SeriesStep(g[1..k], equity[k + 1])
    BY <1>8, <2>1, Prefix
  <2> QED BY <2>1, <2>2
<1> HIDE DEF acc
<1> QED BY <1>1, <1>3, <1>9, <1>10 DEF b, n

-----------------------------------------------------------------------------
(* The longest streak.                                                     *)

AllCount(counts, a, b) == \A i \in a..b : counts[i]

\* s is what the one pass knows after k trades: how many of the last ones count, and
\* the longest stretch.
StreakSoFar(s, k, counts) ==
  /\ s.current \in 0..k /\ s.max \in Nat
  /\ AllCount(counts, k - s.current + 1, k)
  /\ s.current < k => ~counts[k - s.current]
  /\ \A a \in 1..k, b \in 1..k : a <= b /\ AllCount(counts, a, b) => b - a + 1 <= s.max
  /\ s.max = 0 \/ \E a \in 1..k, b \in 1..k : AllCount(counts, a, b) /\ b - a + 1 = s.max

LEMMA StreakAdvances ==
  ASSUME NEW counts \in Seq(BOOLEAN), NEW k \in Nat, k + 1 <= Len(counts), NEW s,
         StreakSoFar(s, k, counts)
  PROVE  StreakSoFar(StreakStep(s, counts[k + 1]), k + 1, counts)
<1> DEFINE c == counts[k + 1]
           cur == IF c THEN s.current + 1 ELSE 0
           m == Max({s.max, cur})
<1>1. s.current \in 0..k /\ s.max \in Nat /\ cur \in 0..k + 1 /\ c \in BOOLEAN
  BY DEF StreakSoFar
<1>2. m \in {s.max, cur} /\ m >= s.max /\ m >= cur
  <2>1. s.max \in Int /\ cur \in Int
    BY <1>1
  <2> HIDE DEF cur
  <2> QED BY <2>1, MaxOfTwo
<1>3. StreakStep(s, c).current = cur /\ StreakStep(s, c).max = m
  BY DEF StreakStep
<1> HIDE DEF m
<1>4. m \in Nat
  BY <1>1, <1>2
<1>5. AllCount(counts, (k + 1) - cur + 1, k + 1)
  <2>1. CASE c
    <3>1. \A i \in k - s.current + 1..k : counts[i]
      BY DEF StreakSoFar, AllCount
    <3>2. \A i \in (k + 1) - cur + 1..k + 1 : i = k + 1 \/ i \in k - s.current + 1..k
      BY <1>1, <2>1
    <3> QED BY <2>1, <3>1, <3>2 DEF AllCount
  <2>2. CASE ~c
    <3>1. (k + 1) - cur + 1..k + 1 = {}
      BY <2>2
    <3> QED BY <3>1 DEF AllCount
  <2> QED BY <2>1, <2>2
<1>6. cur < k + 1 => ~counts[(k + 1) - cur]
  <2>1. CASE c
    <3>1. (k + 1) - cur = k - s.current
      BY <1>1, <2>1
    <3>2. cur < k + 1 => s.current < k
      BY <1>1, <2>1
    <3>3. s.current < k => ~counts[k - s.current]
      BY DEF StreakSoFar
    <3> QED BY <3>1, <3>2, <3>3
  <2>2. CASE ~c
    <3>1. (k + 1) - cur = k + 1
      BY <2>2
    <3> QED BY <2>2, <3>1
  <2> QED BY <2>1, <2>2
<1>7. ASSUME NEW a \in 1..k + 1, NEW b \in 1..k + 1, a <= b, AllCount(counts, a, b)
      PROVE  b - a + 1 <= m
  <2>1. CASE b <= k
    <3>1. a \in 1..k /\ b \in 1..k
      BY <1>7, <2>1
    <3>2. b - a + 1 <= s.max
      BY <1>7, <3>1 DEF StreakSoFar
    <3> QED BY <1>1, <1>2, <1>4, <3>1, <3>2
  <2>2. CASE b = k + 1
    <3>1. c /\ cur = s.current + 1
      BY <1>7, <2>2 DEF AllCount
    <3>2. s.current < k => a > k - s.current
      <4> SUFFICES ASSUME s.current < k, a <= k - s.current PROVE FALSE
        BY <1>1
      <4>1. k - s.current \in a..b
        BY <1>1, <2>2
      <4>2. counts[k - s.current]
        BY <1>7, <4>1 DEF AllCount
      <4>3. s.current < k => ~counts[k - s.current]
        BY DEF StreakSoFar
      <4> QED BY <4>2, <4>3
    <3>3. a >= k - s.current + 1
      BY <1>1, <3>2
    <3>4. b - a + 1 <= cur
      BY <1>1, <2>2, <3>1, <3>3
    <3> HIDE DEF cur
    <3> QED BY <1>1, <1>2, <1>4, <3>4
  <2> QED BY <2>1, <2>2
<1>8. m = 0 \/ \E a \in 1..k + 1, b \in 1..k + 1 : AllCount(counts, a, b) /\ b - a + 1 = m
  <2>1. CASE m = s.max
    <3>1. s.max = 0 \/ \E a \in 1..k, b \in 1..k : AllCount(counts, a, b) /\ b - a + 1 = s.max
      BY DEF StreakSoFar
    <3>2. 1..k \subseteq 1..k + 1
      OBVIOUS
    <3> QED BY <2>1, <3>1, <3>2
  <2>2. CASE m = cur /\ cur # 0
    <3>1. (k + 1) - cur + 1 \in 1..k + 1 /\ k + 1 \in 1..k + 1
      BY <1>1, <2>2
    <3>2. (k + 1) - ((k + 1) - cur + 1) + 1 = m
      BY <1>1, <2>2
    <3> HIDE DEF cur
    <3> QED BY <1>5, <3>1, <3>2
  <2> QED BY <1>2, <2>1, <2>2
<1> HIDE DEF cur
<1> QED BY <1>1, <1>3, <1>4, <1>5, <1>6, <1>7, <1>8 DEF StreakSoFar

LEMMA StreakIsLongest ==
  ASSUME NEW counts \in Seq(BOOLEAN)
  PROVE  IsLongestStretch(Streak(counts), counts)
<1> DEFINE n == Len(counts)
<1>1. PICK acc : /\ acc[0] = [current |-> 0, max |-> 0]
                 /\ \A k \in Nat : k + 1 <= n => acc[k + 1] = StreakStep(acc[k], counts[k + 1])
                 /\ Streak(counts) = acc[n].max
  BY StreakPrefixes
<1> DEFINE R == {k \in Nat : k <= n => StreakSoFar(acc[k], k, counts)}
<1>2. 0 \in R
  BY <1>1 DEF StreakSoFar, AllCount
<1>3. ASSUME NEW k \in Nat, k \in R PROVE k + 1 \in R
  <2> SUFFICES ASSUME k + 1 <= n PROVE StreakSoFar(acc[k + 1], k + 1, counts)
    OBVIOUS
  <2>1. StreakSoFar(acc[k], k, counts)
    BY <1>3
  <2> QED BY <1>1, <2>1, StreakAdvances
<1>4. n \in Nat /\ DOMAIN counts = 1..n
  OBVIOUS
<1>5. n \in R
  <2> HIDE DEF R, n
  <2> QED BY <1>2, <1>3, <1>4, Induction
<1>6. StreakSoFar(acc[n], n, counts)
  BY <1>4, <1>5
<1> DEFINE m == acc[n].max
<1>7. m \in Nat /\ Streak(counts) = m
  BY <1>1, <1>6 DEF StreakSoFar
<1>8. \A a \in 1..n, b \in 1..n : a <= b /\ AllCount(counts, a, b) => b - a + 1 <= m
  BY <1>6 DEF StreakSoFar
<1>9. m = 0 \/ \E a \in 1..n, b \in 1..n : AllCount(counts, a, b) /\ b - a + 1 = m
  BY <1>6 DEF StreakSoFar
<1> DEFINE stretches == {p \in Pairs(counts) : \A i \in p[1]..p[2] : counts[i]}
<1> HIDE DEF n, m
<1>10. ASSUME NEW p \in stretches PROVE p[2] - p[1] + 1 <= m
  <2>1. p[1] \in 1..n /\ p[2] \in 1..n /\ AllCount(counts, p[1], p[2])
    BY <1>4 DEF Pairs, AllCount
  <2> HIDE DEF stretches
  <2> QED BY <1>4, <1>7, <1>8, <2>1
<1>11. m = 0 \/ \E p \in stretches : p[2] - p[1] + 1 = m
  <2> SUFFICES ASSUME m # 0 PROVE \E p \in stretches : p[2] - p[1] + 1 = m
    OBVIOUS
  <2>1. PICK a \in 1..n, b \in 1..n : AllCount(counts, a, b) /\ b - a + 1 = m
    BY <1>9
  <2>2. <<a, b>> \in stretches
    BY <1>4, <2>1 DEF Pairs, AllCount
  <2> HIDE DEF stretches
  <2> QED BY <2>1, <2>2
<1> QED BY <1>7, <1>10, <1>11 DEF IsLongestStretch

LEMMA StreaksAreLongest ==
  ASSUME NEW trades \in Seq(Int)
  PROVE  /\ IsLongestStretch(MaxConsecutiveWins(trades), Wins(trades))
         /\ IsLongestStretch(MaxConsecutiveLosses(trades), Losses(trades))
<1>1. DOMAIN trades = 1..Len(trades) /\ Len(trades) \in Nat
  OBVIOUS
<1>2. Wins(trades) \in Seq(BOOLEAN)
  BY <1>1 DEF Wins
<1>3. Losses(trades) \in Seq(BOOLEAN)
  BY <1>1 DEF Losses
<1> QED BY <1>2, <1>3, StreakIsLongest DEF MaxConsecutiveWins, MaxConsecutiveLosses

-----------------------------------------------------------------------------
(* The deepest loss and the longest wait.                                  *)

Curve(equity) ==
  /\ equity \in Seq(Sample)
  /\ \A i, j \in 1..Len(equity) : i < j => equity[i].time < equity[j].time

Peak(equity, i) == \A h \in 1..i : equity[h].value <= equity[i].value

Fall(equity, h, i) == <<equity[h].value - equity[i].value, equity[h].value>>

Fallen(equity, k) == \E h \in 1..k : ~Peak(equity, h)

Wait(equity, a, b) ==
  /\ a < b /\ Peak(equity, a)
  /\ \A h \in a + 1..b - 1 : ~Peak(equity, h)
  /\ Fallen(equity, b)

\* l is the longest of the waits that end at e at the latest.
LongestUntil(l, e, equity) ==
  /\ l \in Nat
  /\ \A a \in 1..e, b \in 1..e : Wait(equity, a, b) => equity[b].time - equity[a].time <= l
  /\ l = 0 \/ \E a \in 1..e, b \in 1..e : Wait(equity, a, b) /\ equity[b].time - equity[a].time = l

LEMMA WaitsExtend ==
  ASSUME NEW equity, Curve(equity), NEW e \in 1..Len(equity), NEW q \in 1..e, Peak(equity, q),
         \A h \in q + 1..e - 1 : ~Peak(equity, h), NEW l, LongestUntil(l, q, equity),
         NEW m, m[1] > 0 <=> Fallen(equity, e)
  PROVE  LongestUntil(Longer(m, equity[e].time - equity[q].time, l), e, equity)
<1> DEFINE t(i) == equity[i].time
           r == Longer(m, t(e) - t(q), l)
<1>1. \A i \in 1..Len(equity) : t(i) \in Int
  <2>1. equity \in Seq(Sample)
    BY DEF Curve
  <2>2. \A i \in 1..Len(equity) : equity[i] \in Sample
    BY <2>1
  <2> QED BY <2>2 DEF Sample
<1>2. \A i, j \in 1..Len(equity) : i < j => t(i) < t(j)
  BY DEF Curve
<1>3. Len(equity) \in Nat /\ l \in Nat
  BY DEF Curve, LongestUntil
<1>4. r = IF Fallen(equity, e) /\ t(e) - t(q) > l THEN t(e) - t(q) ELSE l
  BY DEF Longer
<1>5. \A a \in 1..q, b \in 1..q : Wait(equity, a, b) => t(b) - t(a) <= l
  BY DEF LongestUntil
<1>6. l = 0 \/ \E a \in 1..q, b \in 1..q : Wait(equity, a, b) /\ t(b) - t(a) = l
  BY DEF LongestUntil
<1> HIDE DEF t, r
<1>7. r \in Nat /\ r >= l
  BY <1>1, <1>3, <1>4
<1>8. ASSUME NEW a \in 1..e, NEW b \in 1..e, Wait(equity, a, b)
      PROVE  t(b) - t(a) <= r
  <2>0. t(a) \in Int /\ t(b) \in Int /\ t(e) \in Int /\ t(q) \in Int
    BY <1>1, <1>3
  <2>1. CASE b <= q
    <3>1. a < b
      BY <1>8 DEF Wait
    <3>2. t(b) - t(a) <= l
      BY <1>5, <1>8, <2>1, <3>1
    <3> QED BY <1>3, <1>7, <2>0, <3>2
  <2>2. CASE b > q
    <3>1. ~(a > q)
      <4> SUFFICES ASSUME a > q PROVE FALSE
        OBVIOUS
      <4>1. a \in q + 1..e - 1
        BY <1>8 DEF Wait
      <4> QED BY <1>8, <4>1 DEF Wait
    <3>2. ~(a < q)
      <4> SUFFICES ASSUME a < q PROVE FALSE
        OBVIOUS
      <4>1. q \in a + 1..b - 1
        BY <2>2
      <4> QED BY <1>8, <4>1 DEF Wait
    <3>3. a = q
      BY <3>1, <3>2
    <3>4. Fallen(equity, e)
      <4>1. PICK h \in 1..b : ~Peak(equity, h)
        BY <1>8 DEF Wait, Fallen
      <4>2. h \in 1..e
        OBVIOUS
      <4> QED BY <4>1, <4>2 DEF Fallen
    <3>5. t(b) <= t(e)
      <4>1. b = e \/ b < e
        OBVIOUS
      <4> QED BY <1>2, <1>3, <2>0, <4>1
    <3> QED BY <1>3, <1>4, <2>0, <3>3, <3>4, <3>5
  <2> QED BY <2>1, <2>2
<1>9. r = 0 \/ \E a \in 1..e, b \in 1..e : Wait(equity, a, b) /\ t(b) - t(a) = r
  <2>1. CASE r = l
    <3>1. 1..q \subseteq 1..e
      OBVIOUS
    <3> QED BY <1>6, <2>1, <3>1
  <2>2. CASE r # l
    <3>1. Fallen(equity, e) /\ t(e) - t(q) > l /\ r = t(e) - t(q)
      BY <1>4, <2>2
    <3>2. q < e
      <4> SUFFICES ASSUME q = e PROVE FALSE
        OBVIOUS
      <4>1. t(e) \in Int
        BY <1>1, <1>3
      <4> QED BY <1>3, <3>1, <4>1
    <3>3. Wait(equity, q, e)
      BY <3>1, <3>2 DEF Wait
    <3>4. q \in 1..e /\ e \in 1..e
      OBVIOUS
    <3> QED BY <3>1, <3>3, <3>4
  <2> QED BY <2>1, <2>2
<1>10. LongestUntil(r, e, equity)
  BY <1>7, <1>8, <1>9 DEF LongestUntil, t
<1> QED BY <1>10 DEF r, t

Fraction == Nat \X (Nat \ {0})

\* A fall from h to i is no deeper than m: of fractions with a denominator of zero
\* nothing is ever said.
LEMMA RisesAreShallow ==
  ASSUME NEW m \in Fraction, NEW a \in Int, NEW b \in Nat, a <= 0
  PROVE  ~Less(m, <<a, b>>)
<1> DEFINE x == m[1]
           y == m[2]
<1>1. x \in Nat /\ y \in Nat
  BY DEF Fraction
<1>2. Less(m, <<a, b>>) <=> x * b < a * y
  BY DEF Less
<1> HIDE DEF x, y
<1>3. x * b >= 0 /\ x * b \in Nat /\ a * y \in Int
  BY <1>1
<1>4. a * y <= 0
  <2>1. (0 - a) \in Nat
    OBVIOUS
  <2>2. (0 - a) * y \in Nat
    BY <1>1, <2>1
  <2>3. (0 - a) * y = 0 - a * y
    BY <1>1
  <2> QED BY <1>3, <2>2, <2>3
<1> QED BY <1>2, <1>3, <1>4

LEMMA DeeperStill ==
  ASSUME NEW m \in Fraction, NEW k \in Fraction, ~Less(k, m), NEW a \in Int, NEW b \in Nat,
         ~Less(m, <<a, b>>)
  PROVE  ~Less(k, <<a, b>>)
<1> DEFINE x == m[1]
           y == m[2]
           u == k[1]
           w == k[2]
<1>1. x \in Nat /\ y \in Nat \ {0} /\ u \in Nat /\ w \in Nat \ {0}
  BY DEF Fraction
<1>2. ~(u * y < x * w) /\ ~(x * b < a * y)
  BY DEF Less
<1>3. Less(k, <<a, b>>) <=> u * b < a * w
  BY DEF Less
<1> HIDE DEF x, y, u, w
<1>4. u * y \in Int /\ x * w \in Int /\ x * b \in Int /\ a * y \in Int /\ u * b \in Int /\ a * w \in Int
  BY <1>1
<1>5. u * y >= x * w /\ x * b >= a * y
  BY <1>2, <1>4
<1>6. (u * y) * b >= (x * w) * b
  <2>1. (u * y - x * w) \in Nat
    BY <1>4, <1>5
  <2> DEFINE d == u * y - x * w
  <2>2. d * b \in Nat
    BY <2>1
  <2>3. d * b = (u * y) * b - (x * w) * b
    BY <1>1
  <2>4. (u * y) * b \in Int /\ (x * w) * b \in Int
    BY <1>4
  <2> HIDE DEF d
  <2> QED BY <2>2, <2>3, <2>4
<1>7. (x * b) * w >= (a * y) * w
  <2>1. (x * b - a * y) \in Nat
    BY <1>4, <1>5
  <2> DEFINE d == x * b - a * y
  <2>2. d * w \in Nat
    BY <1>1, <2>1
  <2>3. d * w = (x * b) * w - (a * y) * w
    BY <1>1
  <2>4. (x * b) * w \in Int /\ (a * y) * w \in Int
    BY <1>1, <1>4
  <2> HIDE DEF d
  <2> QED BY <2>2, <2>3, <2>4
<1>8. (u * b) * y >= (a * w) * y
  <2>1. (u * y) * b = (u * b) * y /\ (x * w) * b = (x * b) * w /\ (a * y) * w = (a * w) * y
    BY <1>1
  <2>2. (u * b) * y \in Int /\ (x * b) * w \in Int /\ (a * w) * y \in Int
    BY <1>1, <1>4
  <2> QED BY <1>6, <1>7, <2>1, <2>2
<1>9. u * b >= a * w
  <2> SUFFICES ASSUME u * b < a * w PROVE FALSE
    BY <1>4
  <2> DEFINE d == a * w - u * b
  <2>1. d \in Nat \ {0}
    BY <1>4
  <2>2. d * y \in Nat \ {0}
    <3> HIDE DEF d
    <3> QED BY <1>1, <2>1
  <2>3. d * y = (a * w) * y - (u * b) * y
    BY <1>1
  <2>4. (u * b) * y \in Int /\ (a * w) * y \in Int
    BY <1>1, <1>4
  <2> HIDE DEF d
  <2> QED BY <1>8, <2>2, <2>3, <2>4
<1> QED BY <1>3, <1>4, <1>9

\* From a higher peak the fall to the same value is at least as deep.
LEMMA HigherIsDeeper ==
  ASSUME NEW p \in Nat, NEW h \in Nat, NEW v \in Nat, h <= p, v < p
  PROVE  <<p - v, p>> \in Fraction /\ ~Less(<<p - v, p>>, <<h - v, h>>)
<1>1. <<p - v, p>> \in Fraction
  BY DEF Fraction
<1>2. Less(<<p - v, p>>, <<h - v, h>>) <=> (p - v) * h < (h - v) * p
  BY DEF Less
<1>3. (p - v) * h = p * h - v * h /\ (h - v) * p = p * h - v * p
  OBVIOUS
<1>4. v * p - v * h \in Nat
  <2>1. p - h \in Nat
    OBVIOUS
  <2>2. v * (p - h) \in Nat
    BY <2>1
  <2>3. v * (p - h) = v * p - v * h
    OBVIOUS
  <2> QED BY <2>2, <2>3
<1>5. p * h \in Int /\ v * h \in Int /\ v * p \in Int
  OBVIOUS
<1> QED BY <1>1, <1>2, <1>3, <1>4, <1>5

\* d is what the one pass knows after k moments: q is the last peak among them.
DrawdownSoFar(d, q, k, equity) ==
  /\ d \in DrawdownState /\ d.max \in Fraction
  /\ q \in 1..k /\ Peak(equity, q)
  /\ \A h \in q + 1..k : equity[h].value < equity[q].value
  /\ d.peak = equity[q].value /\ d.start = equity[q].time
  /\ \A h \in 1..k, i \in 1..k : h <= i => ~Less(d.max, Fall(equity, h, i))
  /\ \E h \in 1..k, i \in 1..k : /\ h <= i /\ ~Less(d.max, Fall(equity, h, i))
                                 /\ ~Less(Fall(equity, h, i), d.max)
  /\ d.max[1] > 0 <=> Fallen(equity, k)
  /\ LongestUntil(d.longest, q, equity)

LEMMA CurveValues ==
  ASSUME NEW equity, Curve(equity)
  PROVE  /\ Len(equity) \in Nat /\ DOMAIN equity = 1..Len(equity)
         /\ \A i \in 1..Len(equity) : equity[i] \in Sample /\ equity[i].value \in Nat /\ equity[i].time \in Int
<1>1. equity \in Seq(Sample)
  BY DEF Curve
<1>2. \A i \in 1..Len(equity) : equity[i] \in Sample
  BY <1>1
<1> QED BY <1>1, <1>2 DEF Sample

LEMMA DrawdownOpens ==
  ASSUME NEW equity, Curve(equity), Len(equity) >= 2
  PROVE  DrawdownSoFar(DrawdownStep(Opened(equity), equity[1]), 1, 1, equity)
<1> DEFINE b == Opened(equity)
           v == equity[1].value
<1>1. 1 \in 1..Len(equity) /\ v \in Nat /\ equity[1].time \in Int
  BY CurveValues
<1>2. DrawdownStep(b, equity[1]) = b
  <2>1. b.max[1] = 0 /\ b.longest = 0 /\ b.peak = v /\ b.start = equity[1].time
    BY DEF Opened
  <2>2. Longer(b.max, equity[1].time - b.start, b.longest) = 0
    BY <2>1 DEF Longer
  <2>3. AtPeak(b, equity[1]) = [b EXCEPT !.longest = 0, !.peak = v, !.start = equity[1].time]
    BY <2>2 DEF AtPeak
  <2>4. AtPeak(b, equity[1]) = b
    BY <2>3 DEF Opened
  <2>5. v >= b.peak
    BY <1>1, <2>1
  <2> QED BY <2>4, <2>5 DEF DrawdownStep
<1>3. b \in DrawdownState /\ b.max = <<0, 1>> /\ b.longest = 0 /\ b.peak = v /\ b.start = equity[1].time
  BY <1>1 DEF Opened, DrawdownState
<1> HIDE DEF b
<1>4. Peak(equity, 1) /\ ~Fallen(equity, 1)
  BY <1>1 DEF Peak, Fallen
<1>5. b.max \in Fraction
  BY <1>3 DEF Fraction
<1>6. ~Less(b.max, Fall(equity, 1, 1)) /\ ~Less(Fall(equity, 1, 1), b.max)
  BY <1>1, <1>3 DEF Less, Fall
<1>7. \A h \in 1..1, i \in 1..1 : h = 1 /\ i = 1
  OBVIOUS
<1>8. ~Wait(equity, 1, 1)
  BY DEF Wait
<1>9. LongestUntil(0, 1, equity)
  BY <1>7, <1>8 DEF LongestUntil
<1>10. ~(b.max[1] > 0)
  BY <1>3
<1>11. \A h \in 2..1 : FALSE
  OBVIOUS
<1>12. 1 \in 1..1 /\ 1 + 1 = 2
  OBVIOUS
<1>13. DrawdownSoFar(b, 1, 1, equity)
  BY <1>3, <1>4, <1>5, <1>6, <1>7, <1>9, <1>10, <1>11, <1>12 DEF DrawdownSoFar
<1> QED BY <1>2, <1>13 DEF b

LEMMA NoHigherThanPeak ==
  ASSUME NEW equity, Curve(equity), NEW k \in 1..Len(equity), NEW q \in 1..k, Peak(equity, q),
         \A h \in q + 1..k : equity[h].value < equity[q].value
  PROVE  /\ \A h \in 1..k : equity[h].value <= equity[q].value
         /\ \A h \in q + 1..k : ~Peak(equity, h)
<1>1. \A i \in 1..Len(equity) : equity[i].value \in Nat
  BY CurveValues
<1>2. Len(equity) \in Nat
  BY CurveValues
<1>3. ASSUME NEW h \in 1..k PROVE equity[h].value <= equity[q].value
  <2>1. CASE h <= q
    BY <2>1 DEF Peak
  <2>2. CASE h > q
    <3>1. h \in q + 1..k
      BY <2>2
    <3> DEFINE x == equity[h].value
               y == equity[q].value
    <3>2. x < y
      BY <3>1
    <3>3. x \in Nat /\ y \in Nat
      BY <1>1, <1>2
    <3> HIDE DEF x, y
    <3>4. x <= y
      BY <3>2, <3>3
    <3> QED BY <3>4 DEF x, y
  <2> QED BY <2>1, <2>2
<1>4. ASSUME NEW h \in q + 1..k PROVE ~Peak(equity, h)
  <2> DEFINE x == equity[h].value
             y == equity[q].value
  <2>1. x < y
    OBVIOUS
  <2>2. x \in Nat /\ y \in Nat
    BY <1>1, <1>2
  <2>3. q \in 1..h
    OBVIOUS
  <2> HIDE DEF x, y
  <2>4. ~(y <= x)
    BY <2>1, <2>2
  <2> QED BY <2>3, <2>4 DEF Peak, x, y
<1> QED BY <1>3, <1>4

\* A new peak: nothing is deeper than before, and the wait since the last one is over.
LEMMA PeakAdvances ==
  ASSUME NEW equity, Curve(equity), NEW k \in 1..Len(equity), k + 1 <= Len(equity), NEW q, NEW d,
         DrawdownSoFar(d, q, k, equity), equity[k + 1].value >= d.peak
  PROVE  DrawdownSoFar(AtPeak(d, equity[k + 1]), k + 1, k + 1, equity)
<1> DEFINE x == equity[k + 1]
           l == Longer(d.max, x.time - d.start, d.longest)
           D == AtPeak(d, x)
<1>1. Len(equity) \in Nat /\ \A i \in 1..Len(equity) : equity[i].value \in Nat /\ equity[i].time \in Int
  BY CurveValues
<1>2. q \in 1..k /\ Peak(equity, q) /\ d \in DrawdownState /\ d.max \in Fraction
  BY DEF DrawdownSoFar
<1>3. \A h \in 1..k : equity[h].value <= equity[q].value
  BY <1>2, NoHigherThanPeak DEF DrawdownSoFar
<1>4. \A h \in q + 1..k : ~Peak(equity, h)
  BY <1>2, NoHigherThanPeak DEF DrawdownSoFar
<1>5. k + 1 \in 1..Len(equity) /\ q \in 1..Len(equity) /\ 1..k \subseteq 1..Len(equity)
  BY <1>1, <1>2
<1>6. \A h \in 1..k + 1 : equity[h].value <= x.value
  <2> SUFFICES ASSUME NEW h \in 1..k + 1 PROVE equity[h].value <= x.value
    OBVIOUS
  <2>1. CASE h = k + 1
    BY <1>1, <1>5, <2>1
  <2>2. CASE h \in 1..k
    <3> DEFINE a == equity[h].value
               b == equity[q].value
               c == x.value
    <3>1. a \in Nat /\ b \in Nat /\ c \in Nat
      BY <1>1, <1>5, <2>2
    <3>2. a <= b
      BY <1>3, <2>2
    <3>3. b <= c
      BY DEF DrawdownSoFar
    <3> HIDE DEF a, b, c
    <3>4. a <= c
      BY <3>1, <3>2, <3>3
    <3> QED BY <3>4 DEF a, c
  <2> QED BY <2>1, <2>2
<1>7. Peak(equity, k + 1)
  BY <1>6 DEF Peak
<1>8. Fallen(equity, k + 1) <=> Fallen(equity, k)
  <2>1. \A h \in 1..k + 1 : h = k + 1 \/ h \in 1..k
    OBVIOUS
  <2>2. \A h \in 1..k : h \in 1..k + 1
    OBVIOUS
  <2> QED BY <1>7, <2>1, <2>2 DEF Fallen
<1>9. LongestUntil(l, k + 1, equity)
  <2>1. LongestUntil(d.longest, q, equity) /\ (d.max[1] > 0 <=> Fallen(equity, k + 1)) /\ d.start = equity[q].time
    BY <1>8 DEF DrawdownSoFar
  <2>2. q \in 1..k + 1 /\ \A h \in q + 1..(k + 1) - 1 : ~Peak(equity, h)
    BY <1>2, <1>4
  <2> QED BY <1>2, <1>5, <2>1, <2>2, WaitsExtend
<1>10. l \in Int
  BY <1>9 DEF LongestUntil
<1>11. D = [d EXCEPT !.longest = l, !.peak = x.value, !.start = x.time]
  BY DEF AtPeak
<1> HIDE DEF l, D
<1>12. /\ D \in DrawdownState /\ D.max = d.max /\ D.longest = l /\ D.peak = x.value /\ D.start = x.time
  <2>1. x.value \in Int /\ x.time \in Int
    BY <1>1, <1>5
  <2> HIDE DEF x
  <2> QED BY <1>2, <1>10, <1>11, <2>1 DEF DrawdownState
<1>13. ASSUME NEW h \in 1..k + 1, NEW i \in 1..k + 1, h <= i PROVE ~Less(d.max, Fall(equity, h, i))
  <2>1. CASE i = k + 1
    <3> DEFINE a == equity[h].value - x.value
    <3>1. a \in Int /\ a <= 0 /\ equity[h].value \in Nat
      <4>1. equity[h].value \in Nat /\ x.value \in Nat
        BY <1>1, <1>5
      <4> QED BY <1>6, <4>1
    <3>2. Fall(equity, h, i) = <<a, equity[h].value>>
      BY <2>1 DEF Fall
    <3> HIDE DEF a
    <3> QED BY <1>2, <3>1, <3>2, RisesAreShallow
  <2>2. CASE i \in 1..k
    <3>1. h \in 1..k
      BY <1>13, <2>2
    <3> QED BY <1>13, <2>2, <3>1 DEF DrawdownSoFar
  <2> QED BY <2>1, <2>2
<1>14. \E h \in 1..k + 1, i \in 1..k + 1 : /\ h <= i /\ ~Less(d.max, Fall(equity, h, i))
                                           /\ ~Less(Fall(equity, h, i), d.max)
  <2>1. PICK h \in 1..k, i \in 1..k : /\ h <= i /\ ~Less(d.max, Fall(equity, h, i))
                                      /\ ~Less(Fall(equity, h, i), d.max)
    BY DEF DrawdownSoFar
  <2>2. h \in 1..k + 1 /\ i \in 1..k + 1
    OBVIOUS
  <2> QED BY <2>1, <2>2
<1>15. d.max[1] > 0 <=> Fallen(equity, k + 1)
  BY <1>8 DEF DrawdownSoFar
<1>16. k + 1 \in 1..k + 1 /\ \A h \in (k + 1) + 1..k + 1 : FALSE
  BY <1>5
<1>17. DrawdownSoFar(D, k + 1, k + 1, equity)
  BY <1>2, <1>7, <1>9, <1>12, <1>13, <1>14, <1>15, <1>16 DEF DrawdownSoFar
<1> QED BY <1>17 DEF D

\* A value below the peak: the fall from the peak is the deepest that ends there.
LEMMA FallAdvances ==
  ASSUME NEW equity, Curve(equity), NEW k \in 1..Len(equity), k + 1 <= Len(equity), NEW q, NEW d,
         DrawdownSoFar(d, q, k, equity), ~(equity[k + 1].value >= d.peak)
  PROVE  DrawdownSoFar(BelowPeak(d, equity[k + 1]), q, k + 1, equity)
<1> DEFINE v == equity[k + 1].value
           p == equity[q].value
           fall == <<p - v, p>>
           m == IF Less(d.max, fall) THEN fall ELSE d.max
           D == BelowPeak(d, equity[k + 1])
<1>1. Len(equity) \in Nat /\ \A i \in 1..Len(equity) : equity[i].value \in Nat
  BY CurveValues
<1>2. /\ q \in 1..k /\ Peak(equity, q) /\ d \in DrawdownState /\ d.max \in Fraction /\ d.peak = p
      /\ d.start = equity[q].time /\ LongestUntil(d.longest, q, equity)
  BY DEF DrawdownSoFar
<1>3. \A h \in 1..k : equity[h].value <= p
  BY <1>2, NoHigherThanPeak DEF DrawdownSoFar
<1>4. k + 1 \in 1..Len(equity) /\ 1..k \subseteq 1..Len(equity) /\ k + 1 \in 1..k + 1
  BY <1>1
<1>5. v \in Nat /\ p \in Nat /\ v < p
  <2>1. v \in Nat /\ p \in Nat
    BY <1>1, <1>2, <1>4
  <2>2. ~(v >= p)
    BY <1>2
  <2> HIDE DEF v, p
  <2> QED BY <2>1, <2>2
<1>6. fall = Fall(equity, q, k + 1)
  BY DEF Fall
<1>7. Loss(d.peak, v) = fall
  <2> HIDE DEF v, p
  <2> QED BY <1>2, <1>5 DEF Loss
<1>8. D = [d EXCEPT !.max = m]
  BY <1>7 DEF BelowPeak
<1> HIDE DEF D, v, p
<1>9. fall \in Fraction /\ fall[1] > 0 /\ fall[2] > 0
  <2>1. fall \in Fraction
    <3>1. p - v \in Nat /\ p \in Nat \ {0}
      BY <1>5
    <3> QED BY <3>1 DEF Fraction
  <2>2. fall[1] = p - v /\ fall[2] = p
    OBVIOUS
  <2>3. p - v > 0 /\ p > 0
    BY <1>5
  <2> HIDE DEF fall
  <2> QED BY <2>1, <2>2, <2>3
<1>10. m \in Fraction
  BY <1>2, <1>9
<1>11. ~Less(m, fall) /\ ~Less(m, d.max)
  <2>1. ~Less(fall, fall) /\ ~Less(d.max, d.max)
    BY <1>2, <1>9 DEF Less, Fraction
  <2>2. Less(d.max, fall) => ~Less(fall, d.max)
    BY <1>2, <1>9 DEF Less, Fraction
  <2> QED BY <2>1, <2>2
<1>12. m[1] > 0
  <2>1. CASE Less(d.max, fall)
    BY <1>9, <2>1
  <2>2. CASE ~Less(d.max, fall)
    <3> DEFINE a == d.max[1]
               b == d.max[2]
    <3>1. a \in Nat /\ b \in Nat \ {0} /\ ~(a * p < (p - v) * b)
      BY <1>2, <2>2 DEF Less, Fraction
    <3>2. p - v \in Nat \ {0}
      BY <1>5
    <3>3. (p - v) * b \in Nat \ {0}
      <4> DEFINE f == p - v
      <4> HIDE DEF a, b, f
      <4>1. f * b \in Nat \ {0}
        BY <3>1, <3>2 DEF f
      <4> QED BY <4>1 DEF f
    <3>4. m[1] = a
      BY <2>2
    <3> HIDE DEF a, b, m
    <3>5. a # 0
      BY <1>5, <3>1, <3>3
    <3> QED BY <3>1, <3>4, <3>5
  <2> QED BY <2>1, <2>2
<1>13. m \in Int \X Int
  BY <1>10 DEF Fraction
<1> HIDE DEF m, fall
<1>14. /\ D \in DrawdownState /\ D.max = m /\ D.longest = d.longest /\ D.peak = d.peak
       /\ D.start = d.start
  BY <1>2, <1>8, <1>13 DEF DrawdownState
<1>15. ASSUME NEW h \in 1..k + 1, NEW i \in 1..k + 1, h <= i PROVE ~Less(m, Fall(equity, h, i))
  <2>0. equity[h].value \in Nat /\ equity[i].value \in Nat
    BY <1>1, <1>4
  <2>1. CASE i = k + 1
    <3>1. CASE h \in 1..k
      <4>1. equity[h].value <= p
        BY <1>3, <3>1
      <4>2. Fall(equity, h, i) = <<equity[h].value - v, equity[h].value>>
        BY <2>1 DEF Fall, v
      <4> DEFINE x == equity[h].value
      <4>3. x \in Nat /\ x <= p
        BY <2>0, <4>1
      <4> HIDE DEF x
      <4>4. ~Less(fall, <<x - v, x>>)
        BY <1>5, <4>3, HigherIsDeeper DEF fall
      <4>5. x - v \in Int
        BY <1>5, <4>3
      <4>6. ~Less(m, <<x - v, x>>)
        BY <1>9, <1>10, <1>11, <4>3, <4>4, <4>5, DeeperStill
      <4> QED BY <4>2, <4>6 DEF x
    <3>2. CASE h = k + 1
      <4>1. Fall(equity, h, i) = <<0, v>>
        BY <1>5, <2>1, <3>2 DEF Fall, v
      <4> QED BY <1>5, <1>10, <4>1, RisesAreShallow
    <3> QED BY <3>1, <3>2
  <2>2. CASE i \in 1..k
    <3>1. h \in 1..k
      BY <1>15, <2>2
    <3>2. ~Less(d.max, Fall(equity, h, i))
      BY <1>15, <2>2, <3>1 DEF DrawdownSoFar
    <3> DEFINE x == equity[h].value
               y == equity[i].value
    <3>3. Fall(equity, h, i) = <<x - y, x>> /\ x \in Nat /\ x - y \in Int
      BY <2>0 DEF Fall
    <3> HIDE DEF x, y
    <3> QED BY <1>2, <1>10, <1>11, <3>2, <3>3, DeeperStill
  <2> QED BY <2>1, <2>2
<1>16. \E h \in 1..k + 1, i \in 1..k + 1 : /\ h <= i /\ ~Less(m, Fall(equity, h, i))
                                           /\ ~Less(Fall(equity, h, i), m)
  <2>1. CASE Less(d.max, fall)
    <3>1. m = fall /\ q \in 1..k + 1 /\ q <= k + 1
      BY <1>2, <2>1 DEF m
    <3> QED BY <1>4, <1>6, <1>11, <3>1
  <2>2. CASE ~Less(d.max, fall)
    <3>1. PICK h \in 1..k, i \in 1..k : /\ h <= i /\ ~Less(d.max, Fall(equity, h, i))
                                        /\ ~Less(Fall(equity, h, i), d.max)
      BY DEF DrawdownSoFar
    <3>2. h \in 1..k + 1 /\ i \in 1..k + 1 /\ m = d.max
      BY <2>2 DEF m
    <3> QED BY <3>1, <3>2
  <2> QED BY <2>1, <2>2
<1>17. ASSUME NEW h \in q + 1..k + 1 PROVE equity[h].value < p
  <2>1. CASE h = k + 1
    BY <1>5, <2>1 DEF v
  <2>2. CASE h # k + 1
    <3>1. h \in q + 1..k
      BY <1>2, <2>2
    <3> QED BY <3>1 DEF DrawdownSoFar, p
  <2> QED BY <2>1, <2>2
<1>18. Fallen(equity, k + 1)
  <2>1. ~(p <= v)
    BY <1>5
  <2>2. q \in 1..k + 1
    BY <1>2
  <2>3. ~Peak(equity, k + 1)
    BY <2>1, <2>2 DEF Peak, p, v
  <2> QED BY <1>4, <2>3 DEF Fallen
<1>19. q \in 1..k + 1
  BY <1>2
<1>20. DrawdownSoFar(D, q, k + 1, equity)
  BY <1>2, <1>10, <1>12, <1>14, <1>15, <1>16, <1>17, <1>18, <1>19 DEF DrawdownSoFar, p
<1> QED BY <1>20 DEF D

LEMMA DrawdownIsDeepest ==
  ASSUME NEW equity, Curve(equity), Len(equity) >= 2
  PROVE  LET drawdown == ComputeDrawdown(equity)
         IN /\ drawdown.max \in Fraction
            /\ IsDeepestLoss(drawdown.max, equity)
            /\ IsLongestWait(drawdown.longest, equity)
<1> DEFINE n == Len(equity)
<1>1. equity \in Seq(Sample) /\ DOMAIN equity = 1..n /\ n \in Nat
  BY CurveValues DEF Curve
<1>2. PICK acc : LET d == acc[n]
                 IN /\ acc[0] = Opened(equity)
                    /\ \A k \in Nat : k + 1 <= n => acc[k + 1] = DrawdownStep(acc[k], equity[k + 1])
                    /\ ComputeDrawdown(equity) =
                         [max |-> d.max, longest |-> Longer(d.max, equity[n].time - d.start, d.longest)]
  BY <1>1, DrawdownPrefixes
<1> DEFINE R == {k \in Nat : k + 1 <= n => \E q \in 1..k + 1 : DrawdownSoFar(acc[k + 1], q, k + 1, equity)}
<1>3. 0 \in R
  <2>1. acc[0 + 1] = DrawdownStep(acc[0], equity[0 + 1])
    BY <1>1, <1>2
  <2>2. 0 + 1 = 1 /\ 1 \in 1..1
    OBVIOUS
  <2>3. DrawdownSoFar(acc[1], 1, 1, equity)
    BY <1>2, <2>1, <2>2, DrawdownOpens
  <2> QED BY <2>2, <2>3
<1>4. ASSUME NEW k \in Nat, k \in R PROVE k + 1 \in R
  <2> DEFINE j == k + 1
  <2> SUFFICES ASSUME j + 1 <= n PROVE \E q \in 1..j + 1 : DrawdownSoFar(acc[j + 1], q, j + 1, equity)
    OBVIOUS
  <2>1. j \in 1..n /\ j \in Nat
    BY <1>1
  <2>2. PICK q \in 1..j : DrawdownSoFar(acc[j], q, j, equity)
    BY <1>1, <1>4
  <2>3. acc[j + 1] = DrawdownStep(acc[j], equity[j + 1])
    BY <1>2, <2>1
  <2> HIDE DEF j, R
  <2>4. CASE equity[j + 1].value >= acc[j].peak
    <3>1. DrawdownSoFar(AtPeak(acc[j], equity[j + 1]), j + 1, j + 1, equity)
      BY <2>1, <2>2, <2>4, PeakAdvances
    <3>2. j + 1 \in 1..j + 1
      BY <2>1
    <3> QED BY <2>3, <2>4, <3>1, <3>2 DEF DrawdownStep
  <2>5. CASE ~(equity[j + 1].value >= acc[j].peak)
    <3>1. DrawdownSoFar(BelowPeak(acc[j], equity[j + 1]), q, j + 1, equity)
      BY <2>1, <2>2, <2>5, FallAdvances
    <3>2. q \in 1..j + 1
      BY <2>1
    <3> QED BY <2>3, <2>5, <3>1, <3>2 DEF DrawdownStep
  <2> QED BY <2>4, <2>5
<1>5. n - 1 \in R
  <2>1. n - 1 \in Nat
    BY <1>1
  <2> HIDE DEF R, n
  <2> QED BY <1>3, <1>4, <2>1, Induction
<1>6. PICK q \in 1..n : DrawdownSoFar(acc[n], q, n, equity)
  <2>1. (n - 1) + 1 = n
    BY <1>1
  <2> HIDE DEF n
  <2> QED BY <1>5, <2>1
<1> HIDE DEF n, R
<1> DEFINE d == acc[n]
           w == Longer(d.max, equity[n].time - d.start, d.longest)
<1>7. /\ d.max \in Fraction
      /\ \A h \in 1..n, i \in 1..n : h <= i => ~Less(d.max, Fall(equity, h, i))
      /\ \E h \in 1..n, i \in 1..n : /\ h <= i /\ ~Less(d.max, Fall(equity, h, i))
                                     /\ ~Less(Fall(equity, h, i), d.max)
  BY <1>6 DEF DrawdownSoFar
<1>8. IsDeepestLoss(d.max, equity)
  <2> DEFINE losses == {<<equity[p[1]].value - equity[p[2]].value, equity[p[1]].value>> :
                          p \in {r \in Pairs(equity) : r[1] <= r[2]}}
             top == d.max
  <2> HIDE DEF d
  <2>1. ASSUME NEW m \in losses PROVE ~Less(top, m)
    <3>1. PICK p \in {r \in Pairs(equity) : r[1] <= r[2]} : m = Fall(equity, p[1], p[2])
      BY DEF Fall
    <3>2. p[1] \in 1..n /\ p[2] \in 1..n /\ p[1] <= p[2]
      BY <1>1 DEF Pairs
    <3> HIDE DEF losses, top
    <3> QED BY <1>7, <3>1, <3>2 DEF top
  <2>2. \E m \in losses : ~Less(top, m) /\ ~Less(m, top)
    <3>1. PICK h \in 1..n, i \in 1..n : /\ h <= i /\ ~Less(d.max, Fall(equity, h, i))
                                        /\ ~Less(Fall(equity, h, i), d.max)
      BY <1>7
    <3>2. <<h, i>> \in {r \in Pairs(equity) : r[1] <= r[2]}
      BY <1>1, <3>1 DEF Pairs
    <3>3. Fall(equity, h, i) \in losses
      BY <3>2 DEF Fall
    <3> HIDE DEF losses
    <3> QED BY <3>1, <3>3
  <2> HIDE DEF top
  <2>3. IsDeepestLoss(top, equity)
    BY <2>1, <2>2 DEF IsDeepestLoss
  <2> QED BY <2>3 DEF top
<1>9. n \in 1..Len(equity) /\ n = Len(equity)
  BY <1>1 DEF n
<1>10. LongestUntil(w, n, equity)
  <2>1. /\ Peak(equity, q) /\ LongestUntil(d.longest, q, equity) /\ d.start = equity[q].time
        /\ d.max[1] > 0 <=> Fallen(equity, n)
    BY <1>6 DEF DrawdownSoFar
  <2>2. \A h \in q + 1..n : ~Peak(equity, h)
    BY <1>6, <1>9, NoHigherThanPeak DEF DrawdownSoFar
  <2>3. \A h \in q + 1..n - 1 : h \in q + 1..n
    BY <1>1
  <2> QED BY <1>9, <2>1, <2>2, <2>3, WaitsExtend
<1>11. IsLongestWait(w, equity)
  <2> DEFINE waits == {p \in Pairs(equity) : Wait(equity, p[1], p[2])}
  <2> HIDE DEF w, d
  <2>1. /\ \A a \in 1..n, b \in 1..n : Wait(equity, a, b) => equity[b].time - equity[a].time <= w
        /\ w = 0 \/ \E a \in 1..n, b \in 1..n : Wait(equity, a, b) /\ equity[b].time - equity[a].time = w
    BY <1>10 DEF LongestUntil
  <2>2. \A p \in waits : equity[p[2]].time - equity[p[1]].time <= w
    BY <1>1, <2>1 DEF Pairs
  <2>3. w = 0 \/ \E p \in waits : equity[p[2]].time - equity[p[1]].time = w
    <3> SUFFICES ASSUME w # 0 PROVE \E p \in waits : equity[p[2]].time - equity[p[1]].time = w
      OBVIOUS
    <3>1. PICK a \in 1..n, b \in 1..n : Wait(equity, a, b) /\ equity[b].time - equity[a].time = w
      BY <2>1
    <3>2. <<a, b>> \in waits
      BY <1>1, <3>1 DEF Pairs
    <3> HIDE DEF waits
    <3> QED BY <3>1, <3>2
  <2> QED BY <2>2, <2>3 DEF IsLongestWait, Wait, Peak, Fallen
<1>12. ComputeDrawdown(equity).max = d.max /\ ComputeDrawdown(equity).longest = w
  BY <1>2
<1> HIDE DEF d, w
<1> QED BY <1>7, <1>8, <1>11, <1>12

-----------------------------------------------------------------------------
(* The drawdown series.                                                    *)

\* What the drawdown series is after k moments: each entry is the loss from one of the
\* moments before it.
SeriesSoFar(a, k, equity) ==
  /\ \E q \in 1..Len(equity) : (q <= k \/ q = 1) /\ a.peak = equity[q].value
  /\ a.losses \in Seq(Int \X Int) /\ Len(a.losses) = k
  /\ \A i \in 1..k : \E q \in 1..i : a.losses[i] = Loss(equity[q].value, equity[i].value)

LEMMA SeriesAdvances ==
  ASSUME NEW equity, Curve(equity), NEW k \in Nat, k + 1 <= Len(equity), NEW a,
         SeriesSoFar(a, k, equity)
  PROVE  SeriesSoFar(SeriesStep(a, equity[k + 1]), k + 1, equity)
<1> DEFINE v == equity[k + 1].value
           m == Max({a.peak, v})
           l == Loss(m, v)
<1>1. Len(equity) \in Nat /\ \A i \in 1..Len(equity) : equity[i].value \in Nat
  BY CurveValues
<1>2. PICK p \in 1..Len(equity) : (p <= k \/ p = 1) /\ a.peak = equity[p].value
  BY DEF SeriesSoFar
<1>3. k + 1 \in 1..Len(equity)
  BY <1>1
<1>4. a.peak \in Int /\ v \in Int
  BY <1>1, <1>2, <1>3
<1>5. m \in {a.peak, v} /\ m \in Int
  <2> HIDE DEF v
  <2> QED BY <1>4, MaxOfTwo
<1>6. PICK q \in 1..k + 1 : m = equity[q].value
  <2>1. CASE m = a.peak
    BY <1>2, <2>1
  <2>2. CASE m = v
    BY <1>3, <2>2
  <2> QED BY <1>5, <2>1, <2>2
<1> HIDE DEF m
<1>7. l \in Int \X Int
  <2> HIDE DEF v
  <2> QED BY <1>4, <1>5 DEF Loss
<1>8. SeriesStep(a, equity[k + 1]) = [peak |-> m, losses |-> Append(a.losses, l)]
  BY DEF SeriesStep, m
<1>9. a.losses \in Seq(Int \X Int) /\ Len(a.losses) = k
  BY DEF SeriesSoFar
<1> DEFINE s == Append(a.losses, l)
<1>10. l = Loss(equity[q].value, equity[k + 1].value)
  BY <1>6
<1> HIDE DEF l
<1>11. /\ s \in Seq(Int \X Int) /\ Len(s) = k + 1 /\ s[k + 1] = l
       /\ \A i \in 1..k : s[i] = a.losses[i]
  BY <1>7, <1>9
<1> HIDE DEF s
<1>12. ASSUME NEW i \in 1..k + 1 PROVE \E r \in 1..i : s[i] = Loss(equity[r].value, equity[i].value)
  <2>1. CASE i = k + 1
    BY <1>10, <1>11, <2>1
  <2>2. CASE i \in 1..k
    BY <1>11, <2>2 DEF SeriesSoFar
  <2> QED BY <2>1, <2>2
<1>13. q \in 1..Len(equity) /\ q <= k + 1
  BY <1>3
<1> DEFINE A == SeriesStep(a, equity[k + 1])
<1>14. A.peak = equity[q].value /\ A.losses = s
  BY <1>6, <1>8 DEF s
<1> HIDE DEF A
<1>15. SeriesSoFar(A, k + 1, equity)
  BY <1>11, <1>12, <1>13, <1>14 DEF SeriesSoFar
<1> QED BY <1>15 DEF A

LEMMA SeriesIsOfLosses ==
  ASSUME NEW equity, Curve(equity), Len(equity) >= 2
  PROVE  LET series == ComputeDrawdownTimeseries(equity)
         IN /\ DOMAIN series = 1..Len(equity)
            /\ \A i \in DOMAIN series :
                 \E q \in 1..i : series[i] = Loss(equity[q].value, equity[i].value)
<1> DEFINE n == Len(equity)
<1>1. equity \in Seq(Sample) /\ n \in Nat
  BY CurveValues DEF Curve
<1>2. PICK acc : /\ acc[0] = [peak |-> equity[1].value, losses |-> <<>>]
                 /\ \A k \in Nat : k + 1 <= n => acc[k + 1] = SeriesStep(acc[k], equity[k + 1])
                 /\ ComputeDrawdownTimeseries(equity) = acc[n].losses
  BY <1>1, SeriesPrefixes
<1> DEFINE R == {k \in Nat : k <= n => SeriesSoFar(acc[k], k, equity)}
<1>3. 0 \in R
  <2>1. 1 \in 1..Len(equity)
    BY <1>1
  <2>2. acc[0].peak = equity[1].value /\ acc[0].losses = <<>>
    BY <1>2
  <2>3. <<>> \in Seq(Int \X Int) /\ Len(<<>>) = 0 /\ \A i \in 1..0 : FALSE
    OBVIOUS
  <2>4. SeriesSoFar(acc[0], 0, equity)
    BY <2>1, <2>2, <2>3 DEF SeriesSoFar
  <2> QED BY <2>4
<1>4. ASSUME NEW k \in Nat, k \in R PROVE k + 1 \in R
  <2> SUFFICES ASSUME k + 1 <= n PROVE SeriesSoFar(acc[k + 1], k + 1, equity)
    OBVIOUS
  <2>1. SeriesSoFar(acc[k], k, equity)
    BY <1>1, <1>4
  <2> QED BY <1>2, <2>1, SeriesAdvances
<1>5. n \in R
  <2> HIDE DEF R, n
  <2> QED BY <1>1, <1>3, <1>4, Induction
<1>6. SeriesSoFar(acc[n], n, equity)
  BY <1>1, <1>5
<1> DEFINE series == acc[n].losses
<1>7. /\ series \in Seq(Int \X Int) /\ Len(series) = n
      /\ \A i \in 1..n : \E q \in 1..i : series[i] = Loss(equity[q].value, equity[i].value)
  BY <1>6 DEF SeriesSoFar
<1> HIDE DEF series
<1>8. DOMAIN series = 1..n
  BY <1>7
<1> QED BY <1>2, <1>7, <1>8 DEF series

LEMMA SeriesIsNoDeeper ==
  ASSUME NEW equity, Curve(equity), Len(equity) >= 2, NEW m \in Fraction, IsDeepestLoss(m, equity),
         NEW i \in DOMAIN ComputeDrawdownTimeseries(equity)
  PROVE  ~Less(m, ComputeDrawdownTimeseries(equity)[i])
<1> DEFINE series == ComputeDrawdownTimeseries(equity)
<1>1. PICK q \in 1..i : series[i] = Loss(equity[q].value, equity[i].value)
  BY SeriesIsOfLosses
<1>2. /\ i \in 1..Len(equity) /\ DOMAIN equity = 1..Len(equity)
      /\ \A j \in 1..Len(equity) : equity[j].value \in Nat
  BY SeriesIsOfLosses, CurveValues
<1> HIDE DEF series
<1>3. q \in 1..Len(equity)
  BY <1>2
<1> DEFINE x == equity[q].value
           y == equity[i].value
<1>4. x \in Nat /\ y \in Nat
  BY <1>2, <1>3
<1>5. ~Less(m, <<x - y, x>>)
  <2> DEFINE losses == {<<equity[p[1]].value - equity[p[2]].value, equity[p[1]].value>> :
                          p \in {r \in Pairs(equity) : r[1] <= r[2]}}
  <2>1. <<q, i>> \in {r \in Pairs(equity) : r[1] <= r[2]}
    BY <1>2, <1>3 DEF Pairs
  <2>2. <<x - y, x>> \in losses
    BY <2>1
  <2>3. \A l \in losses : ~Less(m, l)
    BY DEF IsDeepestLoss
  <2> HIDE DEF losses, x, y
  <2> QED BY <2>2, <2>3
<1>6. series[i] = IF x > 0 THEN <<x - y, x>> ELSE <<0, 1>>
  BY <1>1 DEF Loss
<1> HIDE DEF x, y
<1>7. ~Less(m, <<0, 1>>)
  BY RisesAreShallow
<1>8. ~Less(m, series[i])
  BY <1>5, <1>6, <1>7
<1> QED BY <1>8 DEF series

-----------------------------------------------------------------------------
(* The statistics of the report.                                           *)

\* The equity curve goes forward in time, and its values and the results of the trades
\* are numbers.
Recorded ==
  /\ Curve(equityCurve)
  /\ \A i \in 1..Len(equityCurve) :
       equityCurve[i].time <= block /\ (phase = "read" => equityCurve[i].time < block)
  /\ tradeResults \in Seq(Int)

LEMMA RecordBegins == BacktestInit => Recorded
<1> SUFFICES ASSUME BacktestInit PROVE Recorded
  OBVIOUS
<1>1. equityCurve = <<>> /\ tradeResults = <<>>
  BY DEF BacktestInit
<1>2. <<>> \in Seq(Sample) /\ <<>> \in Seq(Int) /\ Len(<<>>) = 0 /\ \A i \in 1..0 : FALSE
  OBVIOUS
<1> QED BY <1>1, <1>2 DEF Recorded, Curve

\* A step that leaves the curve and the clock alone.
LEMMA RecordFrame ==
  ASSUME Recorded, equityCurve' = equityCurve, block' = block, phase' # "read" \/ phase' = phase,
         tradeResults' \in Seq(Int)
  PROVE  Recorded'
BY DEF Recorded, Curve

LEMMA ReadKeepsRecord ==
  ASSUME BacktestInv, Recorded,
         NEW next \in block + 1 .. Min({block + MaxStep, LastBlock}), NEW snap \in Markets, Read(next, snap)
  PROVE  Recorded'
<1>1. block' = next /\ equityCurve' = equityCurve /\ tradeResults' = tradeResults
  BY DEF Read
<1>2. block \in Int /\ next \in Int /\ next > block
  <2>1. block \in Int
    BY Bounds DEF BacktestInv, Clock
  <2> QED BY <2>1
<1>3. \A i \in 1..Len(equityCurve) : equityCurve[i].time \in Int
  BY CurveValues DEF Recorded
<1>4. \A i \in 1..Len(equityCurve) : equityCurve[i].time <= block
  BY DEF Recorded
<1>5. \A i \in 1..Len(equityCurve) : equityCurve[i].time < next
  <2> SUFFICES ASSUME NEW i \in 1..Len(equityCurve) PROVE equityCurve[i].time < next
    OBVIOUS
  <2> DEFINE t == equityCurve[i].time
  <2>1. t \in Int /\ t <= block
    BY <1>3, <1>4
  <2> HIDE DEF t
  <2>2. t < next
    BY <1>2, <2>1
  <2> QED BY <2>2 DEF t
<1>6. \A i \in 1..Len(equityCurve) : equityCurve[i].time <= next
  BY <1>2, <1>3, <1>5
<1> QED BY <1>1, <1>5, <1>6 DEF Recorded, Curve

LEMMA DecideKeepsRecord ==
  ASSUME BacktestInv, Recorded, Decide
  PROVE  Recorded'
<1> DEFINE value == PortfolioValue(PriceMap(snapshot))
           n == Len(equityCurve)
           x == [time |-> block, value |-> value]
<1>1. /\ phase = "read" /\ phase' \in {"step", "idle"} /\ block' = block
      /\ equityCurve' = Append(equityCurve, x) /\ tradeResults' = tradeResults
  BY DEF Decide, ledger
<1>2. Clock /\ Holdings /\ Purse /\ block \in Int
  BY Bounds DEF BacktestInv, Clock
<1>3. value \in Nat
  <2>1. IsSnapshot(snapshot) /\ lastKnownPrices \in [DOMAIN lastKnownPrices -> Nat]
    BY <1>2 DEF Clock
  <2>2. \A m : Price(PriceMap(snapshot), m) \in Nat
    BY <2>1, PricesAreNatural
  <2> QED BY <1>2, <2>2, PortfolioIsNatural DEF Purse
<1> HIDE DEF value
<1>4. x \in Sample /\ x.time = block
  BY <1>2, <1>3 DEF Sample
<1> HIDE DEF x
<1>5. equityCurve \in Seq(Sample) /\ n \in Nat
  BY CurveValues DEF Recorded, Curve
<1>6. /\ equityCurve' \in Seq(Sample) /\ Len(equityCurve') = n + 1
      /\ equityCurve'[n + 1] = x /\ \A i \in 1..n : equityCurve'[i] = equityCurve[i]
  BY <1>1, <1>4, <1>5
<1>7. \A i \in 1..n : equityCurve[i].time < block /\ equityCurve[i].time \in Int
  BY <1>1, CurveValues DEF Recorded
<1>8. \A i, j \in 1..n : i < j => equityCurve[i].time < equityCurve[j].time
  BY DEF Recorded, Curve
<1> HIDE DEF n
<1>9. \A i \in 1..n + 1 : i = n + 1 \/ i \in 1..n
  BY <1>5
<1>10. ASSUME NEW i \in 1..n + 1, NEW j \in 1..n + 1, i < j
       PROVE  equityCurve'[i].time < equityCurve'[j].time
  <2>1. i \in 1..n
    BY <1>5, <1>10
  <2>2. CASE j = n + 1
    BY <1>4, <1>6, <1>7, <2>1, <2>2
  <2>3. CASE j \in 1..n
    BY <1>6, <1>8, <1>10, <2>1, <2>3
  <2> QED BY <1>9, <2>2, <2>3
<1>11. ASSUME NEW i \in 1..n + 1 PROVE equityCurve'[i].time <= block
  <2>1. CASE i = n + 1
    BY <1>2, <1>4, <1>6, <2>1
  <2>2. CASE i \in 1..n
    <3> DEFINE t == equityCurve[i].time
    <3>1. t < block /\ t \in Int /\ equityCurve'[i].time = t
      BY <1>6, <1>7, <2>2
    <3> HIDE DEF t
    <3> QED BY <1>2, <3>1
  <2> QED BY <1>9, <2>1, <2>2
<1>12. phase' # "read"
  BY <1>1
<1> QED BY <1>1, <1>6, <1>10, <1>11, <1>12 DEF Recorded, Curve

\* A sale adds an integer to the results of the trades, or nothing.
LEMMA SaleRecorded ==
  ASSUME Holdings, PoolsSound, tradeResults \in Seq(Int), NEW n \in DOMAIN positions, NEW alpha \in Nat,
         Sell(n, alpha)
  PROVE  tradeResults' \in Seq(Int)
<1> DEFINE swap == SwapAlphaForTao(alpha, Reserves(n), n)
           received == swap.amountOut - TxFee
           cost == (positions[n].costBasis * alpha) \div positions[n].alpha
<1>1. positions[n].alpha \in Nat \ {0} /\ positions[n].costBasis \in Nat /\ TxFee \in Nat
  BY Bounds DEF Holdings
<1>2. Reserves(n) \in Sides
  BY DEF Reserves, Sides, PoolsSound
<1>3. swap.amountOut \in Nat
  <2>1. CASE n = Root
    BY <2>1, <1>2 DEF SwapAlphaForTao, Swap
  <2>2. CASE n # Root
    <3> HIDE DEF swap
    <3>1. swap.amountOut \in 0..Reserves(n).taoIn /\ Reserves(n).taoIn \in Nat
      BY <1>2, <2>2, SaleOfSides DEF swap, Sides
    <3> QED BY <3>1
  <2> QED BY <2>1, <2>2
<1>4. cost \in Nat
  <2>1. positions[n].costBasis * alpha \in Nat
    BY <1>1
  <2> QED BY <1>1, <2>1, Division
<1>5. tradeResults' = tradeResults \/ tradeResults' = Append(tradeResults, received - cost)
  BY DEF Sell, ledger
<1> HIDE DEF cost, swap
<1>6. received - cost \in Int
  BY <1>1, <1>3, <1>4
<1> QED BY <1>5, <1>6

LEMMA SellAllKeepsRecord ==
  ASSUME BacktestInv, Recorded, SellAll
  PROVE  Recorded'
<1>1. PICK n \in plan.exits : Sell(n, positions[n].alpha)
  BY DEF SellAll
<1>2. phase = "exit" /\ phase' = phase /\ block' = block /\ equityCurve' = equityCurve
  BY DEF SellAll, market
<1>3. Holdings /\ PoolsSound /\ n \in DOMAIN positions
  BY <1>2 DEF BacktestInv, Planned, Balanced, Rebalancing
<1>4. positions[n].alpha \in Nat
  BY <1>3 DEF Holdings
<1>5. tradeResults' \in Seq(Int)
  BY <1>1, <1>3, <1>4, SaleRecorded DEF Recorded
<1> QED BY <1>2, <1>5, RecordFrame

LEMMA SellPartialKeepsRecord ==
  ASSUME BacktestInv, Recorded, SellPartial
  PROVE  Recorded'
<1>1. PICK i \in plan.sells :
        LET n == targets[i].netuid
            needed == AlphaNeededForTao(-plan.diffs[i], Reserves(n), n)
        IN Sell(n, Min({positions[n].alpha} \cup needed))
  BY DEF SellPartial
<1> DEFINE n == targets[i].netuid
           alpha == Min({positions[n].alpha} \cup AlphaNeededForTao(-plan.diffs[i], Reserves(n), n))
<1>2. phase = "trade" /\ phase' = phase /\ block' = block /\ equityCurve' = equityCurve
  BY DEF SellPartial, market
<1>3. Holdings /\ PoolsSound /\ n \in DOMAIN positions /\ plan.diffs[i] \in Int
  BY <1>2 DEF BacktestInv, Planned, Balanced, Rebalancing
<1>4. positions[n].alpha \in Nat
  BY <1>3 DEF Holdings
<1>5. alpha \in Nat
  <2>1. Reserves(n) \in Sides
    BY <1>3 DEF Reserves, Sides, PoolsSound
  <2>2. -plan.diffs[i] \in Int
    BY <1>3
  <2> QED BY <1>4, <2>1, <2>2, PartOfPosition
<1>6. Sell(n, alpha)
  BY <1>1
<1> HIDE DEF alpha
<1>7. tradeResults' \in Seq(Int)
  BY <1>3, <1>5, <1>6, SaleRecorded DEF Recorded
<1> QED BY <1>2, <1>7, RecordFrame

LEMMA BuyKeepsTrades ==
  ASSUME Buy
  PROVE  tradeResults' = tradeResults
<1>1. PICK i \in plan.buys :
        LET n == targets[i].netuid
            actual == Min({plan.diffs[i], free})
        IN IF actual <= 0 THEN UNCHANGED ledger
           ELSE IF n = Root THEN BuyRoot(actual) ELSE BuyAlpha(n, actual)
  BY DEF Buy
<1>2. ASSUME NEW actual, BuyRoot(actual) PROVE tradeResults' = tradeResults
  BY <1>2 DEF BuyRoot, ledger
<1>3. ASSUME NEW n, NEW actual, BuyAlpha(n, actual) PROVE tradeResults' = tradeResults
  BY <1>3 DEF BuyAlpha
<1> QED BY <1>1, <1>2, <1>3 DEF ledger

LEMMA RecordIsKept == BacktestInv /\ Recorded /\ [BacktestNext]_backtestVars => Recorded'
<1> SUFFICES ASSUME BacktestInv, Recorded, [BacktestNext]_backtestVars PROVE Recorded'
  OBVIOUS
<1>1. tradeResults \in Seq(Int)
  BY DEF Recorded
<1>2. CASE Step
  <2>1. tradeResults' = tradeResults /\ block' = block /\ equityCurve' = equityCurve /\ phase' = "exit"
    BY <1>2 DEF Step, market
  <2> QED BY <1>1, <2>1, RecordFrame
<1>3. CASE ComputeDiffs
  <2>1. tradeResults' = tradeResults /\ block' = block /\ equityCurve' = equityCurve /\ phase' = "trade"
    BY <1>3 DEF ComputeDiffs, market, ledger
  <2> QED BY <1>1, <2>1, RecordFrame
<1>4. CASE Buy
  <2>1. block' = block /\ equityCurve' = equityCurve /\ phase' = phase
    BY <1>4 DEF Buy, market
  <2> QED BY <1>1, <1>4, <2>1, BuyKeepsTrades, RecordFrame
<1>5. CASE AfterRebalance
  <2>1. tradeResults' = tradeResults /\ block' = block /\ equityCurve' = equityCurve /\ phase' = "idle"
    BY <1>5 DEF AfterRebalance, market
  <2> QED BY <1>1, <2>1, RecordFrame
<1>6. CASE Report
  <2>1. tradeResults' = tradeResults /\ block' = block /\ equityCurve' = equityCurve /\ phase' = "done"
    BY <1>6 DEF Report, market, ledger
  <2> QED BY <1>1, <2>1, RecordFrame
<1>7. CASE UNCHANGED backtestVars
  <2>1. tradeResults' = tradeResults /\ block' = block /\ equityCurve' = equityCurve /\ phase' = phase
    BY <1>7 DEF backtestVars, market, ledger
  <2> QED BY <1>1, <2>1, RecordFrame
<1> QED BY <1>2, <1>3, <1>4, <1>5, <1>6, <1>7, ReadKeepsRecord, DecideKeepsRecord, SellAllKeepsRecord,
           SellPartialKeepsRecord DEF BacktestNext

LEMMA RecordAgrees == Recorded => MetricsAgree
<1> SUFFICES ASSUME Recorded, Len(equityCurve) >= 2 PROVE MetricsAgree
  BY DEF MetricsAgree
<1>1. Curve(equityCurve) /\ tradeResults \in Seq(Int)
  BY DEF Recorded
<1> DEFINE drawdown == ComputeDrawdown(equityCurve)
           series == ComputeDrawdownTimeseries(equityCurve)
<1>2. /\ drawdown.max \in Fraction
      /\ IsDeepestLoss(drawdown.max, equityCurve)
      /\ IsLongestWait(drawdown.longest, equityCurve)
  BY <1>1, DrawdownIsDeepest
<1>3. \A i \in DOMAIN series : ~Less(drawdown.max, series[i])
  BY <1>1, <1>2, SeriesIsNoDeeper
<1>4. /\ IsLongestStretch(MaxConsecutiveWins(tradeResults), Wins(tradeResults))
      /\ IsLongestStretch(MaxConsecutiveLosses(tradeResults), Losses(tradeResults))
  BY <1>1, StreaksAreLongest
<1> QED BY <1>2, <1>3, <1>4 DEF MetricsAgree

\* Of every backtest the one-pass statistics of the report are what they are said to be:
\* the deepest loss, the longest wait for a new peak, the longest streaks.
THEOREM MetricsHold == BacktestSpec => []MetricsAgree
<1>1. BacktestInit => BacktestInv /\ Recorded
  BY BacktestBegins, RecordBegins
<1>2. BacktestInv /\ [BacktestNext]_backtestVars => BacktestInv'
  BY BacktestInvIsInductive
<1>3. BacktestInv /\ Recorded /\ [BacktestNext]_backtestVars => Recorded'
  BY RecordIsKept
<1> QED BY <1>1, <1>2, <1>3, RecordAgrees, PTL DEF BacktestSpec

=============================================================================
