--------------------------- MODULE MCCircuitBreaker ---------------------------
(* Instances of CircuitBreaker for TLC.                                    *)
EXTENDS CircuitBreaker, TLC

CONSTANTS d1, d2, d3

(* Dispatches are all alike.                                               *)
Symmetry == Permutations(Dispatch)
=============================================================================
