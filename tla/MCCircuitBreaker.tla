------------------------- MODULE MCCircuitBreaker --------------------------
(* Instantiates CircuitBreaker for TLC: three callers (model values), a    *)
(* half-open budget of two, a one-tick timeout and a trip after two        *)
(* consecutive failures, so that a trip, a probe period with a caller      *)
(* still in flight from before the trip, and a close all fit in a few      *)
(* steps.                                                                  *)
EXTENDS CircuitBreaker, TLC

CONSTANTS c1, c2, c3

MCCallers == {c1, c2, c3}

CallerSymmetry == Permutations(MCCallers)
=============================================================================
