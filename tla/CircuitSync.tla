----------------------------- MODULE CircuitSync -----------------------------
(***************************************************************************)
(* One worker's circuit in every orchestrator process, and what keeps the  *)
(* processes together: a process that moves its circuit writes the         *)
(* worker's row and appends an event, two awaits later, and every process  *)
(* follows the event log (MultiAdminSync), its own events included: it     *)
(* fetches what it can see beyond the last number it read, and applies it  *)
(* event by event.  Numbers are drawn before the transactions commit, so   *)
(* that events can become visible out of order, and the stream passes over *)
(* what it cannot see yet.  How a circuit decides to move is module        *)
(* CircuitBreaker.                                                         *)
(***************************************************************************)
EXTENDS Integers, FiniteSets, Sequences

CONSTANTS
    Process,        \* orchestrator processes
    Handler,        \* bound: handlers of one process that publish at a time
    MaxEvents,      \* bound: events of the log
    Incidents       \* bound: which of these a behaviour meets, one at a time

ASSUME BoundAssumption == MaxEvents \in Nat
ASSUME IncidentsAssumption == Incidents \subseteq {"left", "late"}
    \* "left": health scans report the worker as gone
    \* "late": the processes have no entry for the worker at first

VARIABLES
    incident,   \* the incident of this behaviour; never changes
    circuit,    \* circuit[p]: the worker's entry in p's BreakerRegistry,
                \* a State or "absent"
    row,        \* workers.circuit_state, a State
    log,        \* the circuit events, by sequence number: a State or "Left",
                \* and whether it is visible
    read,       \* read[p]: last_seq of p's stream, at most Len(log)
    fetched,    \* fetched[p]: the numbers of p's batch still to be applied
    skipped,    \* skipped[p]: the numbers p's stream has passed over, whose
                \* events could not be seen at the time (history)
    job         \* job[p][h]: what handler h of p has still to publish: the
                \* next step (idle, row, event, commit), the row's new state,
                \* the event and the sequence number it got

syncVars == <<incident, circuit, row, log, read, fetched, skipped, job>>
stream == <<read, fetched, skipped>>

State == {"Closed", "Open", "HalfOpen"}
Idle == [step |-> "idle", row |-> "Closed", event |-> "Closed", seq |-> 0]

SyncInit ==
    /\ incident \in Incidents
    /\ row \in State
    /\ circuit = [p \in Process |-> IF incident = "late" THEN "absent" ELSE row]
    /\ log = <<>>
    /\ read = [p \in Process |-> 0]
    /\ fetched = [p \in Process |-> {}]
    /\ skipped = [p \in Process |-> {}]
    /\ job = [p \in Process |-> [h \in Handler |-> Idle]]

-----------------------------------------------------------------------------
(* BreakerRegistry::get: made on first use, as the row is then.            *)
Get(p) ==
    /\ circuit[p] = "absent"
    /\ circuit' = [circuit EXCEPT ![p] = row]
    /\ UNCHANGED <<incident, row, log, stream, job>>

(* check and record, as seen from outside.                                 *)
Moves == {<<"Closed", "Open">>, <<"Open", "HalfOpen">>,
          <<"HalfOpen", "Closed">>, <<"HalfOpen", "Open">>}

(* Events published, or about to be.                                       *)
Unappended ==
    {j \in Process \X Handler : job[j[1]][j[2]].step \in {"row", "event"}}
Published == Len(log) + Cardinality(Unappended)

(* Handler h starts to publish: what it writes to the row, and the event.  *)
Publish(p, h, written, event) ==
    /\ job[p][h] = Idle
    /\ Published < MaxEvents
    /\ job' = [job EXCEPT ![p][h] = [step |-> "row", row |-> written,
                                     event |-> event, seq |-> 0]]
    /\ UNCHANGED <<incident, row, log, stream>>

(* A dispatch or the event loop moves the circuit.                         *)
Move(p, h) ==
    \E to \in State :
        /\ <<circuit[p], to>> \in Moves
        /\ circuit' = [circuit EXCEPT ![p] = to]
        /\ Publish(p, h, to, to)

(* fleet_reset_worker_breaker publishes whatever the state was.            *)
ResetCircuit(p, h) ==
    /\ circuit' = [circuit EXCEPT ![p] = IF @ = "absent" THEN @ ELSE "Closed"]
    /\ Publish(p, h, "Closed", "Closed")

(* scan_once: the row is written back as it was listed, with the status    *)
(* changed, and WorkerLeft is appended.                                    *)
ScanReportsLeft(p, h) ==
    /\ incident = "left"
    /\ Publish(p, h, row, "Left")
    /\ UNCHANGED circuit

(* update_worker_circuit_state, or upsert_worker.                          *)
WriteRow(p, h) ==
    /\ job[p][h].step = "row"
    /\ row' = job[p][h].row
    /\ job' = [job EXCEPT ![p][h].step = "event"]
    /\ UNCHANGED <<incident, circuit, log, stream>>

(* append_event: the event takes the next sequence number ...              *)
AppendEvent(p, h) ==
    /\ job[p][h].step = "event"
    /\ log' = Append(log, [event |-> job[p][h].event, visible |-> FALSE])
    /\ job' = [job EXCEPT ![p][h].step = "commit", ![p][h].seq = Len(log')]
    /\ UNCHANGED <<incident, circuit, row, stream>>

(* ... and is seen when its transaction commits.                           *)
Commit(p, h) ==
    /\ job[p][h].step = "commit"
    /\ log' = [log EXCEPT ![job[p][h].seq].visible = TRUE]
    /\ job' = [job EXCEPT ![p][h] = Idle]
    /\ UNCHANGED <<incident, circuit, row, stream>>

-----------------------------------------------------------------------------
(* list_events(last_seq): what p has not read, and can see.                *)
Unread(p) == {n \in DOMAIN log : n > read[p] /\ log[n].visible}

(* Mutant: half-open circuits are left alone.                              *)
AppliedUnlessHalfOpen(is, event) ==
    CASE is = "HalfOpen"                     -> is
      [] is = "absent" /\ event = "Left"     -> is
      [] event = "HalfOpen"                  -> IF is = "absent" THEN event ELSE is
      [] event = "Open"                      -> "Open"
      [] OTHER                               -> "Closed"

(* MultiAdminSync::apply_one_to: the entry is made if it is missing, except*)
(* for WorkerLeft; HalfOpen is every process's own business.               *)
Applied(is, event) ==
    CASE is = "absent" /\ event = "Left"     -> is
      [] event = "HalfOpen"                  -> IF is = "absent" THEN event ELSE is
      [] event = "Open"                      -> "Open"
      [] OTHER                               -> "Closed"

(* listen_events: the next batch, when the one before it is applied.       *)
Fetch(p) ==
    /\ fetched[p] = {}
    /\ \E last \in Unread(p) :
         /\ \A n \in Unread(p) : n <= last
         /\ read' = [read EXCEPT ![p] = last]
         /\ skipped' = [skipped EXCEPT ![p] = @ \cup
                {n \in DOMAIN log : read[p] < n /\ n < last /\ ~log[n].visible}]
    /\ fetched' = [fetched EXCEPT ![p] = Unread(p)]
    /\ UNCHANGED <<incident, circuit, row, log, job>>

(* apply_events: the events of the batch, one after the other.             *)
Apply(p) ==
    \E n \in fetched[p] :
        /\ \A m \in fetched[p] : n <= m
        /\ circuit' = [circuit EXCEPT ![p] = Applied(@, log[n].event)]
        /\ fetched' = [fetched EXCEPT ![p] = @ \ {n}]
        /\ UNCHANGED <<incident, row, log, read, skipped, job>>

SyncNext ==
    \E p \in Process :
        \/ Get(p) \/ Fetch(p) \/ Apply(p)
        \/ \E h \in Handler :
             \/ Move(p, h) \/ ResetCircuit(p, h) \/ ScanReportsLeft(p, h)
             \/ WriteRow(p, h) \/ AppendEvent(p, h) \/ Commit(p, h)

SyncSpec == SyncInit /\ [][SyncNext]_syncVars

-----------------------------------------------------------------------------
(* Everything is published, fetched and applied.                           *)
Settled ==
    /\ \A p \in Process, h \in Handler : job[p][h] = Idle
    /\ \A p \in Process : Unread(p) = {} /\ fetched[p] = {}

Known(p) == circuit[p] # "absent"
Agree(p, q) == circuit[p] = "Closed" <=> circuit[q] = "Closed"

(* Any event but HalfOpen decides for every process.                       *)
Decides(n) == n \in 1..Len(log) /\ log[n].event # "HalfOpen"
DecidesLast(n) == Decides(n) /\ \A m \in 1..Len(log) : m > n => ~Decides(m)

(* The stream of p has passed over the decision that counts.               *)
Missed(p) == \E n \in skipped[p] : DecidesLast(n)

(***************************************************************************)
(* Once every event is published and read, the processes agree whether the *)
(* worker is under suspicion, in whatever order their handlers moved,      *)
(* wrote, appended, committed and read ("reflects the events other         *)
(* instances publish in the local registry", runtime.rs; MultiAdminSync):  *)
(* all whose streams have not passed over the last event that decides,     *)
(* whatever else they have passed over.  Not so for an entry made of a row *)
(* that WorkerLeft, which resets the entries only, has left behind ("left" *)
(* and "late" in one behaviour).                                           *)
(***************************************************************************)
ProcessesAgree ==
    Settled => \A p, q \in Process :
        Known(p) /\ Known(q) /\ ~Missed(p) /\ ~Missed(q) => Agree(p, q)

(* What runtime.rs says goes for every process; but last_seq passes over   *)
(* an event that commits after a later number was read (listen_events).    *)
EverybodyAgrees ==
    Settled => \A p, q \in Process : Known(p) /\ Known(q) => Agree(p, q)
=============================================================================
