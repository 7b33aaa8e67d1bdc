---------------------------- MODULE MCTaskControl ----------------------------
(* Instances of TaskControl for TLC.                                       *)
EXTENDS TaskControl, TLC

CONSTANTS i1, i2, t1, t2, s1, s2

(* Nothing tells two processes, two tasks or two request places apart.     *)
Symmetry == Permutations(Instance) \cup Permutations(Task) \cup Permutations(Slot)
=============================================================================
