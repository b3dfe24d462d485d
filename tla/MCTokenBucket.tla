--------------------------- MODULE MCTokenBucket ---------------------------
(* TokenBucket where it promises what EagerBucket does, for TLC.           *)
EXTENDS TokenBucket

Synchronised == [c \in Callers |-> 0]
OneOwed == -1
=============================================================================
