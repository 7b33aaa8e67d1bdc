------------------------------ MODULE MCTaskFlow ------------------------------
(* Instances of TaskFlow for TLC.                                          *)
EXTENDS TaskFlow

CONSTANT k1

(* Without retries a list shows one row only; with one retry, both rows.   *)
MCConfigs == {[retries |-> 0, limit |-> 1], [retries |-> 1, limit |-> 2]}
===============================================================================
