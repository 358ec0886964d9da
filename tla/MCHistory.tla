----------------------------- MODULE MCHistory -----------------------------
(* History over nine blocks, with a subnet that is registered at block 5.  *)
EXTENDS History

MCNetuids == [n \in 0..MaxHead |-> IF n < 5 THEN {0} ELSE {0, 1}]
=============================================================================
