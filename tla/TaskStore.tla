------------------------------- MODULE TaskStore -------------------------------
(***************************************************************************)
(* The task row and the one statement that moves it:                       *)
(* Store::compare_and_set_task_status.  The phase predicate, the lease     *)
(* epoch predicate and the dispatch generation predicate are evaluated by  *)
(* the database inside a single UPDATE, so one operator stands for it.     *)
(***************************************************************************)
EXTENDS Integers

(* A fence is the epoch a writer passes; NoFence is a caller that passes   *)
(* none.  A row that carries no dispatch generation has NoFence there too. *)
NoFence == 0

Phase == {"Pending", "Dispatched", "Completed", "Failed", "Cancelled"}
Terminal == {"Completed", "Failed", "Cancelled"}

(* TransitionOrigin: what the worker reported, or what the control plane   *)
(* decides now.                                                            *)
Origin == {"WorkerOutcome", "ControlDecision"}

TaskRow == [phase : Phase, generation : Nat, session : BOOLEAN]

NewRow == [phase |-> "Pending", generation |-> NoFence, session |-> FALSE]

(* Mutant: any fence that is not ahead of the row is accepted.             *)
FenceNotAhead(fence, epoch) == fence = NoFence \/ fence =< epoch

(* EXISTS (SELECT 1 FROM control_plane_lease WHERE ... epoch = fence): the *)
(* predicate does not look at expires_at.                                  *)
FenceHolds(fence, epoch) == fence = NoFence \/ fence = epoch

(* Mutant: the statement has no dispatch generation predicate.             *)
AnyGeneration(row, fence, origin) == TRUE

(* Mutant: the predicate binds the control plane's own decisions too.      *)
GenerationBindsDecisions(row, fence, origin) ==
    fence = NoFence \/ row.generation \in {NoFence, fence}

(* dispatch_control_epoch IS NULL OR dispatch_control_epoch = fence.       *)
GenerationHolds(row, fence, origin) ==
    \/ fence = NoFence
    \/ origin = "ControlDecision"
    \/ row.generation \in {NoFence, fence}

(* Mutant: the statement has no phase predicate.                           *)
CasAnyPhase(row, epoch, expected, fence, origin) ==
    CASE ~FenceHolds(fence, epoch) -> "Fenced"
      [] FenceHolds(fence, epoch) /\ ~GenerationHolds(row, fence, origin)
            -> "StaleDispatchEpoch"
      [] OTHER -> "Applied"

CasOutcome(row, epoch, expected, fence, origin) ==
    CASE ~FenceHolds(fence, epoch) -> "Fenced"
      [] FenceHolds(fence, epoch) /\ ~GenerationHolds(row, fence, origin)
            -> "StaleDispatchEpoch"
      [] FenceHolds(fence, epoch) /\ GenerationHolds(row, fence, origin)
         /\ row.phase \notin expected -> "Rejected"
      [] OTHER -> "Applied"

(* The columns an applied transition writes: a fenced dispatch stamps its  *)
(* generation on the row.                                                  *)
Moved(row, to, fence) ==
    [row EXCEPT !.phase = to,
                !.generation = IF to = "Dispatched" /\ fence # NoFence
                               THEN fence ELSE @]

(* record_task_acp_session: once, and under the lease epoch if fenced.     *)
SessionRecordable(row, epoch, fence) ==
    ~row.session /\ FenceHolds(fence, epoch)
=============================================================================
