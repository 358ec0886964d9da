------------------------ MODULE CopyTradeRunnerProofs ------------------------
(***************************************************************************)
(* The safety of the copy-trade runner for every length of the chain: type *)
(* correctness, the invariants of CopyTradeRunner, that nothing begins     *)
(* after a stop, and the refinement of StrategyRunner.                     *)
(***************************************************************************)
EXTENDS CopyTradeRunner, TLAPS

\* inflightRun, running and phase agree; an unstarted runner is idle; only a
\* stopped runner resolves stop(), and then it is idle; nothing the runner
\* recorded lies ahead of the chain.
RunnerInv ==
  /\ running = IF inflightRun THEN 1 ELSE 0
  /\ phase = "idle" <=> ~inflightRun
  /\ ~started => /\ ~subscribed /\ ~stopped /\ fetching = {}
                 /\ ~inflightRun /\ ~pendingRerun /\ stopCall = "none"
  /\ stopCall # "none" => stopped
  /\ stopCall = "resolved" => ~inflightRun

CoverInv ==
  /\ runStart <= height
  /\ detected <= height
  /\ fetching \subseteq 1..height
  /\ pendingRerun /\ ~stopped => inflightRun
  /\ DetectedEventCovered

IInv == TypeOK /\ RunnerInv /\ CoverInv

\* The initial states satisfy the inductive invariant.
LEMMA InitIInv == Init => IInv
<1> SUFFICES ASSUME Init PROVE IInv
  OBVIOUS
<1>1. FlagsOK
  BY Zenon DEF Init, FlagsOK
<1>2. TypeOK
  BY <1>1, MaxBlockAssumption DEF Init, TypeOK, MaxBlockAssumption
<1>3. RunnerInv
  BY DEF Init, RunnerInv
<1>4. CoverInv
  BY DEF Init, CoverInv, DetectedEventCovered
<1> QED
  BY <1>2, <1>3, <1>4 DEF IInv

\* Flags stay flags.
LEMMA FlagsStep == FlagsOK /\ [Next]_vars => FlagsOK'
<1> SUFFICES ASSUME FlagsOK, [Next]_vars PROVE FlagsOK'
  OBVIOUS
<1> USE DEF FlagsOK, runVars
<1>1. CASE Start
  BY <1>1, Zenon DEF Start, BeginRun
<1>2. CASE FinalizeBlock \/ BlockRecorded
  BY <1>2, Zenon DEF FinalizeBlock, BlockRecorded
<1>3. ASSUME NEW b \in Block, EventsFetched(b) PROVE FlagsOK'
  BY <1>3, Zenon DEF EventsFetched, HandleEvents, BeginRun
<1>4. ASSUME NEW b \in Block, FetchFails(b) PROVE FlagsOK'
  BY <1>4, Zenon DEF FetchFails
<1>5. CASE RecordFails \/ CycleEnds
  BY <1>5, Zenon DEF RecordFails, CycleEnds, Settle
<1>6. CASE SubscriptionError \/ Stop \/ ResumeStop
  BY <1>6, Zenon DEF SubscriptionError, Stop, ResumeStop
<1>7. CASE UNCHANGED vars
  BY <1>7, Zenon DEF vars
<1> QED
  BY <1>1, <1>2, <1>3, <1>4, <1>5, <1>6, <1>7, Zenon DEF Next

\* Types are preserved; running only decreases while a run is in flight.
LEMMA TypeStep == IInv /\ [Next]_vars => TypeOK'
<1> SUFFICES ASSUME IInv, [Next]_vars PROVE TypeOK'
  OBVIOUS
<1>0. FlagsOK'
  BY FlagsStep DEF IInv, TypeOK
<1> USE <1>0, MaxBlockAssumption
    DEF IInv, TypeOK, RunnerInv, Block, runVars, MaxBlockAssumption
<1>1. CASE Start
  BY <1>1 DEF Start, BeginRun
<1>2. CASE FinalizeBlock
  BY <1>2 DEF FinalizeBlock
<1>3. ASSUME NEW b \in Block, EventsFetched(b) PROVE TypeOK'
  BY <1>3 DEF EventsFetched, HandleEvents, BeginRun
<1>4. ASSUME NEW b \in Block, FetchFails(b) PROVE TypeOK'
  BY <1>4 DEF FetchFails
<1>5. CASE SubscriptionError
  BY <1>5 DEF SubscriptionError
<1>6. CASE BlockRecorded
  BY <1>6 DEF BlockRecorded
<1>7. CASE RecordFails
  BY <1>7 DEF RecordFails, Settle
<1>8. CASE CycleEnds
  BY <1>8 DEF CycleEnds, Settle
<1>9. CASE Stop
  BY <1>9 DEF Stop
<1>10. CASE ResumeStop
  BY <1>10 DEF ResumeStop
<1>11. CASE UNCHANGED vars
  BY <1>11 DEF vars
<1> QED
  BY <1>1, <1>2, <1>3, <1>4, <1>5, <1>6, <1>7, <1>8, <1>9, <1>10, <1>11 DEF Next

\* The flags of the run in flight stay in agreement.
LEMMA RunnerStep == IInv /\ [Next]_vars => RunnerInv'
<1> SUFFICES ASSUME IInv, [Next]_vars PROVE RunnerInv'
  OBVIOUS
<1> USE DEF IInv, TypeOK, RunnerInv, runVars
<1>1. CASE Start
  BY <1>1 DEF Start, BeginRun
<1>2. CASE FinalizeBlock
  BY <1>2 DEF FinalizeBlock
<1>3. ASSUME NEW b \in Block, EventsFetched(b) PROVE RunnerInv'
  BY <1>3 DEF EventsFetched, HandleEvents, BeginRun, CoverInv
<1>4. ASSUME NEW b \in Block, FetchFails(b) PROVE RunnerInv'
  BY <1>4 DEF FetchFails
<1>5. CASE SubscriptionError
  BY <1>5 DEF SubscriptionError
<1>6. CASE BlockRecorded
  BY <1>6 DEF BlockRecorded
<1>7. CASE RecordFails
  BY <1>7 DEF RecordFails, Settle
<1>8. CASE CycleEnds
  BY <1>8 DEF CycleEnds, Settle
<1>9. CASE Stop
  BY <1>9 DEF Stop
<1>10. CASE ResumeStop
  BY <1>10 DEF ResumeStop
<1>11. CASE UNCHANGED vars
  BY <1>11 DEF vars
<1> QED
  BY <1>1, <1>2, <1>3, <1>4, <1>5, <1>6, <1>7, <1>8, <1>9, <1>10, <1>11 DEF Next

\* Detected events stay covered: a run begins at the height of the chain,
\* which no detected block exceeds, and a mark is only cleared by such a run.
LEMMA CoverStep == IInv /\ [Next]_vars => CoverInv'
<1> SUFFICES ASSUME IInv, [Next]_vars PROVE CoverInv'
  OBVIOUS
<1> USE MaxBlockAssumption
    DEF IInv, TypeOK, RunnerInv, CoverInv, DetectedEventCovered, Block, runVars,
        MaxBlockAssumption
<1>1. CASE Start
  BY <1>1 DEF Start, BeginRun
<1>2. CASE FinalizeBlock
  BY <1>2 DEF FinalizeBlock
<1>3. ASSUME NEW b \in Block, EventsFetched(b) PROVE CoverInv'
  <2>1. b <= height
    BY <1>3 DEF EventsFetched
  <2> QED
    BY <1>3, <2>1 DEF EventsFetched, HandleEvents, BeginRun
<1>4. ASSUME NEW b \in Block, FetchFails(b) PROVE CoverInv'
  BY <1>4 DEF FetchFails
<1>5. CASE SubscriptionError
  BY <1>5 DEF SubscriptionError
<1>6. CASE BlockRecorded
  BY <1>6 DEF BlockRecorded
<1>7. CASE RecordFails
  BY <1>7 DEF RecordFails, Settle
<1>8. CASE CycleEnds
  BY <1>8 DEF CycleEnds, Settle
<1>9. CASE Stop
  BY <1>9 DEF Stop
<1>10. CASE ResumeStop
  BY <1>10 DEF ResumeStop
<1>11. CASE UNCHANGED vars
  BY <1>11 DEF vars
<1> QED
  BY <1>1, <1>2, <1>3, <1>4, <1>5, <1>6, <1>7, <1>8, <1>9, <1>10, <1>11 DEF Next

\* The inductive invariant holds in every reachable state.
THEOREM Invariance == Spec => []IInv
<1>1. IInv /\ [Next]_vars => IInv'
  BY TypeStep, RunnerStep, CoverStep DEF IInv
<1> QED
  BY InitIInv, <1>1, PTL DEF Spec

\* Every variable keeps its type.
THEOREM TypeCorrect == Spec => []TypeOK
  BY Invariance, PTL DEF IInv

\* Overlap protection holds for every chain.
THEOREM MutualExclusion == Spec => []OneRunAtATime
<1>1. IInv => OneRunAtATime
  BY DEF IInv, TypeOK, RunnerInv, OneRunAtATime
<1> QED
  BY Invariance, <1>1, PTL

\* After stop() has resolved no run executes.
THEOREM Quiescence == Spec => []StopQuiescent
<1>1. IInv => StopQuiescent
  BY DEF IInv, TypeOK, RunnerInv, StopQuiescent
<1> QED
  BY Invariance, <1>1, PTL

\* Every detected event has a run that begins no earlier, or a mark for one.
THEOREM Coverage == Spec => []DetectedEventCovered
  BY Invariance, PTL DEF IInv, CoverInv

\* A mark for a rerun always has a run that will find it.
THEOREM MarkFound == Spec => []PendingRerunHasRun
<1>1. IInv => PendingRerunHasRun
  BY DEF IInv, TypeOK, RunnerInv, CoverInv, PendingRerunHasRun
<1> QED
  BY Invariance, <1>1, PTL

\* Once the runner is stopped no run begins, neither from a handler whose
\* events arrive late nor from a mark.
THEOREM NothingAfterStop == Spec => NoRunAfterStop
<1> DEFINE Keeps == stopped => /\ running' <= running
                              /\ runStart' = runStart
                              /\ (phase = "cycle" => phase' # "record")
<1>1. ASSUME IInv, [Next]_vars PROVE [Keeps]_vars
  <2> USE <1>1 DEF IInv, TypeOK, RunnerInv, runVars
  <2>1. CASE Start
    BY <2>1 DEF Start
  <2>2. CASE FinalizeBlock \/ SubscriptionError \/ Stop \/ ResumeStop
    BY <2>2 DEF FinalizeBlock, SubscriptionError, Stop, ResumeStop
  <2>3. ASSUME NEW b \in Block, EventsFetched(b) \/ FetchFails(b) PROVE Keeps
    <3>1. stopped => UNCHANGED runVars
      BY <2>3, Zenon DEF EventsFetched, FetchFails, HandleEvents
    <3> QED
      BY <3>1
  <2>4. CASE BlockRecorded
    BY <2>4 DEF BlockRecorded
  <2>5. CASE RecordFails \/ CycleEnds
    BY <2>5 DEF RecordFails, CycleEnds, Settle
  <2>6. CASE UNCHANGED vars
    BY <2>6
  <2> QED
    BY <2>1, <2>2, <2>3, <2>4, <2>5, <2>6 DEF Next
<1> QED
  BY Invariance, <1>1, PTL DEF Spec, NoRunAfterStop

\* The runner implements the contract of StrategyRunner: a run that begins, the
\* run that ends without a successor, and the two halves of stop() are its
\* steps; everything else, a run that hands over to the next one included,
\* leaves the contract's state alone.
THEOREM Refinement == Spec => ContractSpec
<1>1. Init => Contract!Init
  BY DEF Init, Contract!Init
<1>2. ASSUME IInv, [Next]_vars PROVE [Contract!Next]_(Contract!vars)
  <2> USE <1>2 DEF IInv, TypeOK, RunnerInv, runVars, Contract!vars
  <2>1. CASE Start
    <3>1. Contract!BeginCycle
      BY <2>1 DEF Start, BeginRun, Contract!BeginCycle
    <3> QED
      BY <3>1 DEF Contract!Next
  <2>2. CASE FinalizeBlock \/ SubscriptionError \/ BlockRecorded
    BY <2>2 DEF FinalizeBlock, SubscriptionError, BlockRecorded
  <2>3. ASSUME NEW b \in Block, EventsFetched(b)
        PROVE  [Contract!Next]_(Contract!vars)
    <3>1. CASE UNCHANGED runVars
      BY <2>3, <3>1 DEF EventsFetched
    <3>2. CASE ~stopped /\ ~inflightRun /\ BeginRun
      <4>1. Contract!BeginCycle
        BY <2>3, <3>2 DEF EventsFetched, BeginRun, Contract!BeginCycle
      <4> QED
        BY <4>1 DEF Contract!Next
    <3> QED
      BY <2>3, <3>1, <3>2 DEF EventsFetched, HandleEvents
  <2>4. ASSUME NEW b \in Block, FetchFails(b)
        PROVE  [Contract!Next]_(Contract!vars)
    BY <2>4 DEF FetchFails
  <2>5. CASE RecordFails \/ CycleEnds
    <3>1. phase # "idle" /\ Settle /\ stopCall' = stopCall
      BY <2>5 DEF RecordFails, CycleEnds
    <3>2. CASE pendingRerun /\ ~stopped
      BY <3>1, <3>2 DEF Settle
    <3>3. CASE ~(pendingRerun /\ ~stopped)
      <4>1. Contract!EndCycle
        BY <3>1, <3>3 DEF Settle, Contract!EndCycle
      <4> QED
        BY <4>1 DEF Contract!Next
    <3> QED
      BY <3>2, <3>3
  <2>6. CASE Stop
    <3>1. Contract!RequestStop
      BY <2>6 DEF Stop, Contract!RequestStop
    <3> QED
      BY <3>1 DEF Contract!Next
  <2>7. CASE ResumeStop
    <3>1. Contract!ResolveStop
      BY <2>7 DEF ResumeStop, Contract!ResolveStop
    <3> QED
      BY <3>1 DEF Contract!Next
  <2>8. CASE UNCHANGED vars
    BY <2>8 DEF vars
  <2> QED
    BY <2>1, <2>2, <2>3, <2>4, <2>5, <2>6, <2>7, <2>8 DEF Next
<1> QED
  BY <1>1, <1>2, Invariance, PTL DEF Spec, ContractSpec, Contract!Spec
=============================================================================
