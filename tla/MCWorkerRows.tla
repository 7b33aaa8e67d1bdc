----------------------------- MODULE MCWorkerRows -----------------------------
(* Instances of WorkerRows for TLC.                                        *)
EXTENDS WorkerRows
=============================================================================
