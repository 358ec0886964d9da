---------------------------- MODULE BatchResults ----------------------------
(***************************************************************************)
(* What the bot believes of a batch it submitted: the per-operation        *)
(* results read from the batch's events, by extractOperationResults        *)
(* (src/src/rebalance/waitForBatch.ts) for a shielded batch and by         *)
(* parseBatchResultFromEvents (src/src/rebalance/executeRebalance.ts) for  *)
(* a direct one.  A batch is the sequence of what the chain did of each    *)
(* operation, a proxied call: executed, failed inside the proxy, or        *)
(* refused by the proxy itself; or it did not dispatch any of them.        *)
(***************************************************************************)
EXTENDS Naturals, FiniteSets, Sequences

Outcome == {"executed", "failed", "refused"}

BatchesOf(n) == [1..n -> Outcome] \cup {[i \in 1..n |-> "undispatched"]}

-----------------------------------------------------------------------------
(* The events of the batch's extrinsic (external), each kind as the set of *)
(* the operations that left one: the parsers see them in the order of the  *)
(* operations but not whose they are.  Only a call that the proxy          *)
(* dispatched has a ProxyExecuted; a single call is not wrapped in         *)
(* force_batch and has no item event.                                      *)

ProxyExecuted(batch) == {i \in DOMAIN batch : batch[i] \in {"executed", "failed"}}

ItemEvents(batch) ==
  {i \in DOMAIN batch : Len(batch) > 1 /\ batch[i] # "undispatched"}

\* The operation that left the k-th event.
Nth(ops, k) == CHOOSE i \in ops : Cardinality({j \in ops : j <= i}) = k

-----------------------------------------------------------------------------

\* extractProxyResults
ProxyResults(batch) ==
  [k \in 1..Cardinality(ProxyExecuted(batch)) |->
     batch[Nth(ProxyExecuted(batch), k)] = "executed"]

\* The direct path: a result that is missing counts as a success.
DirectResults(batch) ==
  LET proxy == ProxyResults(batch)
  IN [i \in 1..Len(batch) |-> i <= Len(proxy) => proxy[i]]

\* Without item events there is one result, of however many operations.
SingleResult(batch) ==
  LET proxy == ProxyResults(batch) IN << Len(proxy) > 0 /\ proxy[1] >>

\* The k-th item event is an ItemCompleted.
ItemCompleted(batch, k) ==
  /\ k <= Cardinality(ItemEvents(batch))
  /\ batch[Nth(ItemEvents(batch), k)] # "refused"

\* Mutant of ItemResults: the result of the item before.
ItemResultsBefore(batch) ==
  LET proxy == ProxyResults(batch)
  IN [i \in 1..Len(batch) |->
        /\ ItemCompleted(batch, i)
        /\ i > 1 /\ i - 1 <= Len(proxy) => proxy[i - 1]]

\* The i-th item event decides the i-th result: a completed item has that of
\* the i-th ProxyExecuted, if any.  Missing items are failures.
ItemResults(batch) ==
  LET proxy == ProxyResults(batch)
  IN [i \in 1..Len(batch) |->
        /\ ItemCompleted(batch, i)
        /\ i <= Len(proxy) => proxy[i]]

ShieldedResults(batch) ==
  IF ItemEvents(batch) = {} THEN SingleResult(batch) ELSE ItemResults(batch)

OperationResults(batch, shielded) ==
  IF shielded THEN ShieldedResults(batch) ELSE DirectResults(batch)

\* "completed" or "partial_failure", by the number of failed results.
StatusOf(results) ==
  IF \A i \in DOMAIN results : results[i] THEN "completed" ELSE "partial_failure"

\* buildTradeRecords: a trade without a result is a failure.
TradesOf(results, totalOps) == [i \in 1..totalOps |-> i <= Len(results) /\ results[i]]
=============================================================================
