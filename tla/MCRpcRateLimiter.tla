-------------------------- MODULE MCRpcRateLimiter --------------------------
\* Four calls, two of them as expensive as the bucket allows.
EXTENDS RpcRateLimiter, TLC
CONSTANTS t1, t2, t3, t4
MCTask == {t1, t2, t3, t4}
MCCost == (t1 :> 1) @@ (t2 :> 2) @@ (t3 :> 3) @@ (t4 :> 3)
=============================================================================
