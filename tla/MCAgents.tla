------------------------------ MODULE MCAgents ------------------------------
(* Instances of Agents for TLC.                                            *)
EXTENDS Agents, TLC

CONSTANTS a1, a2, w1, w2

Symmetry == Permutations(Agent) \cup Permutations(Worker)
=============================================================================
