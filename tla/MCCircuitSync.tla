---------------------------- MODULE MCCircuitSync ----------------------------
(* Instances of CircuitSync for TLC.                                       *)
EXTENDS CircuitSync, TLC

CONSTANTS p1, p2, h1, h2

(* Processes are all alike, and so are the handlers of one.                *)
Symmetry == Permutations(Process) \cup Permutations(Handler)
=============================================================================
