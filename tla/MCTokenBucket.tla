---------------------------- MODULE MCTokenBucket ----------------------------
(* Instances of TokenBucket for TLC. *)
EXTENDS TokenBucket

CONSTANTS r1, r2

\* Two replicas, the second one's clock ahead.
Two      == {r1, r2}
SecondIsAhead == [r \in Two |-> IF r = r2 THEN MaxSkew ELSE 0]

=============================================================================
