----------------------------- MODULE MCAcpSessions -----------------------------
(* Instances of AcpSessions for TLC.                                       *)
EXTENDS AcpSessions, TLC

CONSTANTS t1, t2

Symmetry == Permutations(Task)
=============================================================================
