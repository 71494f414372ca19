------------------------------ MODULE MCThrottle ------------------------------
(* Instances of Throttle for TLC. *)
EXTENDS Throttle

CONSTANTS p1, p2, c1, c2, c3

\* Two calls of one process and one of another.
TwoProcs   == {p1, p2}
ThreeCalls == {c1, c2, c3}
\* One of the first two may try again.
FirstRetries == [c \in ThreeCalls |-> IF c = c1 THEN 2 ELSE 1]
OneIsFar   == [c \in ThreeCalls |-> IF c = c3 THEN p2 ELSE p1]

=============================================================================
