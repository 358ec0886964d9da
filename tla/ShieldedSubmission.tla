------------------------- MODULE ShieldedSubmission -------------------------
(***************************************************************************)
(* The MEV-shielded submission of a cycle's batch: submitShielded          *)
(* (src/src/rebalance/executeRebalance.ts) and waitForInnerBatch           *)
(* (src/src/rebalance/waitForBatch.ts), for successive cycles of one       *)
(* process.  A cycle signs its batch (the inner transaction) with nonce    *)
(* n + 1, submits a wrapper holding it with nonce n, waits until the       *)
(* wrapper is finalized, then scans finalized blocks for the batch.  The   *)
(* scans of two blocks overlap.  A batch given up by its cycle may still   *)
(* land during a later one.                                                *)
(*                                                                         *)
(* Time is counted in blocks; the chain may stall.  One transaction of the *)
(* account at most is in a block.                                          *)
(***************************************************************************)
EXTENDS Integers

CONSTANTS Cycles,            \* number of cycles that submit a batch
          WrapperMortality,  \* mortality period of the wrapper (8 blocks)
          InnerMortality,    \* that of the batch, the library's default
          Timeout,           \* DEFAULT_TIMEOUT_MS
          MaxTime            \* bound on the clock

ASSUME SubmissionAssumption ==
  /\ Cycles \in Nat /\ WrapperMortality \in Nat /\ InnerMortality \in Nat
  /\ Timeout \in Nat /\ MaxTime \in Nat \ {0}

Cycle == 1..Cycles

VARIABLES
  now,
  height,        \* the last finalized block
  nonce,         \* the proxy account's nonce at that block
  pool,          \* cycles whose wrapper is in the transaction pool
  wrapperAt,     \* the block of each cycle's wrapper, 0 if none
  innerAt,       \* the block of each cycle's batch, 0 if none
  current,       \* the last cycle that began, 0 before
  step,          \* what it awaits
  wrapperNonce,  \* the nonce each cycle read
  readAt,        \* history: the block it read it at
  signedAt,      \* the block at which its batch was signed
  firstSeen,     \* history: the first block the wait was given, 0 before
  scanning,      \* blocks whose body is being fetched
  timer,         \* rxTimeout's timer: "off" or "armed"
  deadline,      \* when the wait should be over
  outcome        \* how each cycle ended

chainVars == <<now, height, nonce, pool, wrapperAt, innerAt>>
signVars == <<wrapperNonce, readAt, signedAt>>
waitVars == <<firstSeen, scanning, timer, deadline>>
vars == <<now, height, nonce, pool, wrapperAt, innerAt, current, step, wrapperNonce,
          readAt, signedAt, firstSeen, scanning, timer, deadline, outcome>>

TypeOK ==
  /\ now \in 0..MaxTime /\ height \in 0..now
  /\ nonce \in Nat
  /\ pool \subseteq Cycle
  /\ wrapperAt \in [Cycle -> 0..height] /\ innerAt \in [Cycle -> 0..height]
  /\ current \in 0..Cycles
  /\ step \in {"idle", "nonce", "wrapper", "waiting", "events"}
  /\ wrapperNonce \in [Cycle -> Nat]
  /\ readAt \in [Cycle -> 0..height] /\ signedAt \in [Cycle -> 0..height]
  /\ firstSeen \in 0..height
  /\ scanning \subseteq 0..height
  /\ timer \in {"off", "armed"} /\ deadline \in Nat
  /\ outcome \in [Cycle -> {"none", "executed", "timeout", "error"}]

Init ==
  /\ now = 1 /\ height = 1 /\ nonce = 0
  /\ pool = {}
  /\ wrapperAt = [c \in Cycle |-> 0] /\ innerAt = [c \in Cycle |-> 0]
  /\ current = 0 /\ step = "idle"
  /\ wrapperNonce = [c \in Cycle |-> 0] /\ readAt = [c \in Cycle |-> 0]
  /\ signedAt = [c \in Cycle |-> 0]
  /\ firstSeen = 0 /\ scanning = {} /\ timer = "off" /\ deadline = 0
  /\ outcome = [c \in Cycle |-> "none"]

-----------------------------------------------------------------------------
(* The chain.                                                              *)

TimerDue == timer = "armed" /\ now >= deadline

IncludeWrapper(c) ==
  /\ c \in pool
  /\ nonce = wrapperNonce[c]
  /\ height < signedAt[c] + WrapperMortality
  /\ wrapperAt' = [wrapperAt EXCEPT ![c] = height + 1]
  /\ nonce' = nonce + 1
  /\ pool' = pool \ {c}
  /\ UNCHANGED innerAt

\* The shield reveals a batch after its wrapper, or never.
IncludeInner(c) ==
  /\ wrapperAt[c] # 0 /\ innerAt[c] = 0
  /\ nonce = wrapperNonce[c] + 1
  /\ height < signedAt[c] + InnerMortality
  /\ innerAt' = [innerAt EXCEPT ![c] = height + 1]
  /\ nonce' = nonce + 1
  /\ UNCHANGED <<wrapperAt, pool>>

\* Mutant of Emit: switchMap in place of mergeMap.
EmitSwitches(b) ==
  /\ timer' = "off"
  /\ scanning' = {b}
  /\ firstSeen' = IF firstSeen = 0 THEN b ELSE firstSeen

\* finalizedBlock$ gives block b to the wait: rxTimeout's deadline is for the
\* first block only, and a scan of b begins.
Emit(b) ==
  /\ timer' = "off"
  /\ scanning' = scanning \cup {b}
  /\ firstSeen' = IF firstSeen = 0 THEN b ELSE firstSeen

FinalizeBlock ==
  /\ now < MaxTime /\ ~TimerDue
  /\ now' = now + 1
  /\ height' = height + 1
  /\ \/ \E c \in Cycle : IncludeWrapper(c) \/ IncludeInner(c)
     \/ UNCHANGED <<wrapperAt, innerAt, nonce, pool>>
  /\ \/ step = "waiting" /\ Emit(height + 1) /\ UNCHANGED deadline
     \/ step # "waiting" /\ UNCHANGED waitVars
  /\ UNCHANGED <<current, step, signVars, outcome>>

\* No block arrives: the chain or the connection stalls.
Stall ==
  /\ now < MaxTime /\ ~TimerDue
  /\ now' = now + 1
  /\ UNCHANGED <<height, nonce, pool, wrapperAt, innerAt, current, step, signVars,
                 waitVars, outcome>>

-----------------------------------------------------------------------------
(* The current cycle.                                                      *)

BeginCycle ==
  /\ step = "idle"
  /\ current < Cycles
  /\ current' = current + 1
  /\ step' = "nonce"
  /\ UNCHANGED <<chainVars, signVars, waitVars, outcome>>

\* Mutant of SignAndSubmit: the nonce is counted locally, two per cycle.
SignWithCachedNonce ==
  /\ step = "nonce"
  /\ step' = "wrapper"
  /\ wrapperNonce' = [wrapperNonce EXCEPT ![current] = 2 * (current - 1)]
  /\ readAt' = [readAt EXCEPT ![current] = height]
  /\ signedAt' = [signedAt EXCEPT ![current] = height]
  /\ pool' = pool \cup {current}
  /\ UNCHANGED <<now, height, nonce, wrapperAt, innerAt, current, waitVars, outcome>>

\* System.Account answers; the batch is signed and the wrapper submitted.
SignAndSubmit ==
  /\ step = "nonce"
  /\ step' = "wrapper"
  /\ wrapperNonce' = [wrapperNonce EXCEPT ![current] = nonce]
  /\ readAt' = [readAt EXCEPT ![current] = height]
  /\ signedAt' = [signedAt EXCEPT ![current] = height]
  /\ pool' = pool \cup {current}
  /\ UNCHANGED <<now, height, nonce, wrapperAt, innerAt, current, waitVars, outcome>>

\* signAndSubmit resolves some time after the wrapper is finalized; the wait
\* subscribes, and is given the last finalized block at once unless the
\* client has none.
WrapperFinalized ==
  /\ step = "wrapper"
  /\ wrapperAt[current] # 0
  /\ step' = "waiting"
  /\ deadline' = now + Timeout
  /\ \/ timer' = "off" /\ scanning' = {height} /\ firstSeen' = height
     \/ timer' = "armed" /\ scanning' = {} /\ firstSeen' = 0
  /\ UNCHANGED <<chainVars, current, signVars, outcome>>

EndCycle(result) ==
  /\ step' = "idle"
  /\ outcome' = [outcome EXCEPT ![current] = result]
  /\ scanning' = {} /\ timer' = "off" /\ firstSeen' = 0
  /\ UNCHANGED <<now, height, nonce, wrapperAt, innerAt, current, signVars, deadline>>

\* signAndSubmit rejects: the pool drops the wrapper, or only the connection
\* that watched it is lost.
WrapperFails ==
  /\ step = "wrapper"
  /\ pool' \in {pool, pool \ {current}}
  /\ EndCycle("error")

\* Mutant of BodyHasBatch: any transaction of the account will do.
BodyHasSigner(b) == b # 0 /\ \E c \in Cycle : b \in {innerAt[c], wrapperAt[c]}

\* A scan: the batch is in the body, compared byte by byte; or it is not; or
\* the body cannot be fetched, which fails the wait.
BodyHasBatch(b) == innerAt[current] = b

BodyFetched(b) ==
  /\ step = "waiting" /\ b \in scanning
  /\ \/ /\ BodyHasBatch(b)
        /\ step' = "events"
        /\ scanning' = {} /\ timer' = "off"
     \/ /\ ~BodyHasBatch(b)
        /\ scanning' = scanning \ {b}
        /\ UNCHANGED <<step, timer>>
  /\ UNCHANGED <<chainVars, current, signVars, firstSeen, deadline, outcome>>

BodyFails(b) ==
  /\ step = "waiting" /\ b \in scanning
  /\ EndCycle("error")
  /\ UNCHANGED pool

SearchTimeout ==
  /\ step = "waiting" /\ TimerDue
  /\ EndCycle("timeout")
  /\ UNCHANGED pool

\* System.Events of the batch's block, and the balances after it.
EventsFetched ==
  /\ step = "events"
  /\ EndCycle("executed")
  /\ UNCHANGED pool

EventsFail ==
  /\ step = "events"
  /\ EndCycle("error")
  /\ UNCHANGED pool

Next ==
  \/ FinalizeBlock
  \/ Stall
  \/ BeginCycle
  \/ SignAndSubmit
  \/ WrapperFinalized
  \/ WrapperFails
  \/ \E b \in 0..height : BodyFetched(b) \/ BodyFails(b)
  \/ SearchTimeout
  \/ EventsFetched
  \/ EventsFail

Spec == Init /\ [][Next]_vars

\* Every request for a body or for events is answered; the chain owes nothing.
Fairness ==
  /\ \A b \in 0..MaxTime : WF_vars(BodyFetched(b) \/ BodyFails(b))
  /\ WF_vars(EventsFetched \/ EventsFail)

FairSpec == Spec /\ Fairness

-----------------------------------------------------------------------------
(* Properties.                                                             *)

\* A cycle reports its own batch as executed, never one that an earlier cycle
\* gave up and that lands while it scans.
ExecutedIsOwnBatch ==
  /\ TypeOK
  /\ \A c \in Cycle : outcome[c] = "executed" => innerAt[c] > wrapperAt[c] /\ wrapperAt[c] > 0

\* No two batches land behind each other's back: a batch lands after one of
\* an earlier cycle only if its nonce was read when that one had landed.  The
\* late batch and the next wrapper compete for the same nonce.
LateBatchExcludesNext ==
  \A c, d \in Cycle :
    c < d /\ innerAt[c] # 0 /\ innerAt[d] # 0 => innerAt[c] <= readAt[d]

\* A batch that lands in a block the wait was given, however many scans are
\* under way and in whatever order they end, ends the wait.
SeenBatchEndsWait ==
  (step = "waiting" /\ firstSeen # 0 /\ innerAt[current] >= firstSeen)
    ~> (step # "waiting")

\* The test "returns timeout result when no matching tx is found before
\* timeout", and the message "Inner batch tx not found within ...s".
WaitIsBounded == step = "waiting" => now <= deadline
=============================================================================
