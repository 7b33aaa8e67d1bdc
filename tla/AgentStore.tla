------------------------------ MODULE AgentStore ------------------------------
(***************************************************************************)
(* The agent row and the statements that move it.  Each operator is what   *)
(* one statement (or one transaction that locks the worker row) of         *)
(* fleet-store does to one row; the trigger of migration 036 is part of    *)
(* every statement that writes worker_id.  `held` is the lease predicate   *)
(* inside a fenced statement: whether the caller's epoch is the lease's.   *)
(***************************************************************************)
EXTENDS Integers, FiniteSets

(* A row without a placement, and an agent nobody has created yet.         *)
Unplaced == "unplaced"

Desired == {"running", "stopped"}
Observed == {"none", "running", "failed"}

AgentRow(Worker) ==
    [status : {"absent", "ready", "stopped"}, worker : Worker \cup {Unplaced},
     desired : Desired, generation : Nat, acked : Nat, observed : Observed]

NoRow == [status |-> "absent", worker |-> Unplaced, desired |-> "stopped",
          generation |-> 0, acked |-> 0, observed |-> "none"]

(* COUNT( * ) ... WHERE worker_id = w AND status <> 'stopped' AND id <> a. *)
LoadWithout(rows, a, w) ==
    Cardinality({b \in DOMAIN rows \ {a} :
                    rows[b].worker = w /\ rows[b].status = "ready"})

(* create_agent: the worker row is locked before the count; a worker that  *)
(* is gone or full leaves the new agent unplaced.                          *)
Created(rows, a, w, known, cap) ==
    [NoRow EXCEPT !.status = "ready",
                  !.worker = IF w \in known /\ LoadWithout(rows, a, w) < cap
                             THEN w ELSE Unplaced]

(* The trigger: what a worker said of a process does not follow the agent  *)
(* to another worker.                                                      *)
PlacedAt(row, w) ==
    [row EXCEPT !.worker = w,
                !.observed = IF w = row.worker THEN @ ELSE "none"]

(* Mutant: an assignment does not raise the command generation.            *)
AssignSilently(rows, a, w, known, cap, held) ==
    IF held /\ w \in known
    THEN [rows EXCEPT ![a] = PlacedAt(@, w)] ELSE rows

(* The placement and its command, in one UPDATE.                           *)
Reassigned(row, w) == [PlacedAt(row, w) EXCEPT !.generation = @ + 1]

(* assign_agent_worker.  Every refusal (fenced, no such worker, cap        *)
(* reached, observed running elsewhere) leaves the row alone.              *)
Assigned(rows, a, w, known, cap, held) ==
    IF /\ held
       /\ rows[a].status # "absent"
       /\ w \in known
       /\ LoadWithout(rows, a, w) < cap
       /\ rows[a].worker = w \/ rows[a].observed \in {"none", "failed"}
    THEN [rows EXCEPT ![a] = Reassigned(@, w)]
    ELSE rows

(* set_agent_desired_status: no look at the status column.                 *)
WithDesired(row, d, held) ==
    IF held /\ row.desired # d
    THEN [row EXCEPT !.desired = d, !.generation = @ + 1]
    ELSE row

(* update_agent_status('stopped'): unfenced; the command generation moves  *)
(* only if the desired status does.                                        *)
Retired(row) ==
    [row EXCEPT !.status = "stopped", !.desired = "stopped",
                !.generation = IF row.desired = "stopped" THEN @ ELSE @ + 1]

(* DELETE FROM workers: ON DELETE SET NULL, and the trigger.               *)
WorkerGone(row, w) == IF row.worker = w THEN PlacedAt(row, Unplaced) ELSE row

(* Mutant: a retired agent is never mentioned.                             *)
CommandsForLiving(rows, w) ==
    {[agent |-> a, desired |-> rows[a].desired, generation |-> rows[a].generation] :
        a \in {b \in DOMAIN rows :
                 rows[b].worker = w /\ rows[b].status = "ready"}}

(* list_agent_commands: the authoritative list, kept until acknowledged.   *)
Commands(rows, w) ==
    {[agent |-> a, desired |-> rows[a].desired, generation |-> rows[a].generation] :
        a \in {b \in DOMAIN rows :
                 /\ rows[b].worker = w
                 /\ \/ rows[b].status = "ready"
                    \/ rows[b].status = "stopped"
                       /\ rows[b].acked < rows[b].generation}}

(* Mutant: any acknowledgement counts for the newest command.              *)
AckedAnyway(rows, w, acks) ==
    [a \in DOMAIN rows |->
        IF rows[a].worker = w /\ \E k \in acks : k.agent = a
        THEN [rows[a] EXCEPT !.acked = rows[a].generation] ELSE rows[a]]

(* ack_agent_commands: only from the agent's worker, only of the command   *)
(* the row now carries.                                                    *)
Acked(rows, w, acks) ==
    [a \in DOMAIN rows |->
        IF /\ rows[a].worker = w
           /\ \E k \in acks : k.agent = a /\ k.generation = rows[a].generation
        THEN [rows[a] EXCEPT !.acked = rows[a].generation] ELSE rows[a]]

(* apply_agent_observations: what the worker does not speak of is cleared. *)
ObservedBy(rows, w, seen) ==
    [a \in DOMAIN rows |->
        IF rows[a].worker = w THEN [rows[a] EXCEPT !.observed = seen[a]]
        ELSE rows[a]]
=============================================================================
