-------------------------------- MODULE Agents --------------------------------
(***************************************************************************)
(* Agents between the control plane and the workers.  Nothing is pushed:   *)
(* operators move rows (AgentStore), a worker's heartbeat carries          *)
(* acknowledgements and observations up and brings the whole list of       *)
(* commands down, and the worker makes its processes look like the list.   *)
(* A worker may crash, be shut down, be killed by its watchdog or lose the *)
(* network between any two steps; what survives it is the processes it     *)
(* started and the spawn records it wrote next to them.  A record that     *)
(* could not be written and a kill that fails are logged and no more: such *)
(* a process may live on where no incarnation will look for it (stray).    *)
(***************************************************************************)
EXTENDS AgentStore

CONSTANTS Agent, Worker,
          None,           \* no report, no list
          Cap,            \* max_agent_processes, on the row and in the worker
          FenceAfter,     \* failed beats until agent_fence_after_secs is up
          MaxGeneration,  \* bound: commands an agent is given
          MaxHandlers,    \* bound: handlers between read and statement
          MaxFaults,      \* bound: faults of any kind
          Faults          \* the kinds of fault a run allows

ASSUME AgentsAssumption ==
    /\ Cap \in Nat \ {0} /\ FenceAfter \in Nat \ {0}
    /\ MaxGeneration \in Nat /\ MaxHandlers \in Nat \ {0} /\ MaxFaults \in Nat
    /\ Unplaced \notin Worker
    /\ Faults \subseteq {"crash", "watchdog", "shutdown", "timeout",
                         "exit", "spawn", "store", "delete",
                         "record", "kill"}

VARIABLES
    rows,        \* agents: one row per agent
    known,       \* workers: the ids that have a row
    pending,     \* control-plane handlers between their read and their statement
    beats,       \* heartbeat handlers running in the control plane
    loop,        \* where each worker's heartbeat loop is
    table,       \* AgentProcessManager::procs
    todo,        \* commands of the list being reconciled
    doomed,      \* processes taken out of the table and not yet terminated
    birth,       \* the process spawned and not yet recorded
    acks,        \* pending_acks
    seen,        \* pending_observations
    silent,      \* failed beats since the last answer
    child,       \* agent processes the worker or the next one can still reach
    stray,       \* living agent processes that no worker will ever find
    record,      \* spawn records on disk
    space,       \* workspaces on disk
    heard,       \* history: the newest generation each worker was told
    unwritten,   \* history: agents last started without a spawn record
    faults       \* faults so far

control == <<rows, known, pending>>
memory == <<loop, table, todo, doomed, birth, acks, seen, silent>>
disk == <<child, stray, record, space, unwritten>>
vars == <<control, beats, memory, disk, heard, faults>>

Report == [Agent -> Observed]
Loop == {"dead", "joining", "idle", "waiting", "killing", "starting",
         "recording", "fencing", "leaving"}
Command == [agent : Agent, desired : Desired, generation : Nat]
Ack == [agent : Agent, generation : Nat]
Handler == [op : {"start", "stop", "place"}, agent : Agent, worker : Worker \cup {Unplaced}]
Beat == [worker : Worker, acks : SUBSET Ack, seen : Report \cup {None},
         stage : {"acks", "observations", "list", "answer"}, live : BOOLEAN,
         commands : (SUBSET Command) \cup {None}]

May(kind) == kind \in Faults /\ faults < MaxFaults
Fault(kind) == May(kind) /\ faults' = faults + 1

AgentsOf(commands, d) == {c.agent : c \in {e \in commands : e.desired = d}}

(* The foreign key of the agents table is part of the row's type.          *)
TypeOK ==
    /\ rows \in [Agent -> AgentRow(Worker)]
    /\ \A a \in Agent : rows[a].worker \in known \cup {Unplaced}
    /\ known \subseteq Worker
    /\ pending \subseteq Handler
    /\ beats \subseteq Beat
    /\ loop \in [Worker -> Loop]
    /\ \A f \in {table, doomed, birth, child, stray, record, space, unwritten} :
          f \in [Worker -> SUBSET Agent]
    /\ todo \in [Worker -> SUBSET Command]
    /\ acks \in [Worker -> SUBSET Ack]
    /\ seen \in [Worker -> Report \cup {None}]
    /\ silent \in [Worker -> 0..FenceAfter]
    /\ heard \in [Worker -> [Agent -> Nat]]
    /\ faults \in 0..MaxFaults

Init ==
    /\ rows = [a \in Agent |-> NoRow]
    /\ known = Worker
    /\ pending = {} /\ beats = {}
    /\ loop = [w \in Worker |-> "joining"]
    /\ todo = [w \in Worker |-> {}]
    /\ table = [w \in Worker |-> {}] /\ doomed = [w \in Worker |-> {}]
    /\ birth = [w \in Worker |-> {}]
    /\ acks = [w \in Worker |-> {}]
    /\ seen = [w \in Worker |-> None]
    /\ silent = [w \in Worker |-> 0]
    /\ child = [w \in Worker |-> {}] /\ record = [w \in Worker |-> {}]
    /\ space = [w \in Worker |-> {}]
    /\ stray = [w \in Worker |-> {}] /\ unwritten = [w \in Worker |-> {}]
    /\ heard = [w \in Worker |-> [a \in Agent |-> 0]]
    /\ faults = 0

-----------------------------------------------------------------------------
(* The control plane.                                                      *)

(* handle_create_agent: choose_worker read rows that may have moved since, *)
(* so the statement may be given any worker, or none.                      *)
Create(a) ==
    /\ rows[a].status = "absent"
    /\ \E w \in Worker \cup {Unplaced} :
          rows' = [rows EXCEPT ![a] = Created(rows, a, w, known, Cap)]
    /\ UNCHANGED <<known, pending, beats, memory, disk, heard, faults>>

Ask(op, a, w) ==
    /\ rows[a].generation < MaxGeneration
    /\ Cardinality(pending) < MaxHandlers
    /\ pending' = pending \cup {[op |-> op, agent |-> a, worker |-> w]}
    /\ UNCHANGED <<rows, known, beats, memory, disk, heard, faults>>

(* handle_start_agent up to its fence: a retired agent is refused, one     *)
(* that is already meant to run is answered without a write.               *)
AskStart(a) ==
    rows[a].status = "ready" /\ rows[a].desired # "running" /\ Ask("start", a, Unplaced)

(* handle_stop_agent up to its statement: a retired agent is answered      *)
(* without a write.                                                        *)
AskStop(a) == rows[a].status = "ready" /\ Ask("stop", a, Unplaced)

(* handle_place_agent: the agent exists; the worker is the caller's, or    *)
(* the one choose_worker found.                                            *)
AskPlace(a, w) == rows[a].status # "absent" /\ Ask("place", a, w)

(* The statement of a handler, whatever has happened since its read, the   *)
(* loss of the lease included.  That of a stop is unfenced.                *)
Statement(h, held) ==
    CASE h.op = "start" -> [rows EXCEPT ![h.agent] = WithDesired(@, "running", held)]
      [] h.op = "stop"  -> [rows EXCEPT ![h.agent] = Retired(@)]
      [] h.op = "place" -> Assigned(rows, h.agent, h.worker, known, Cap, held)

Issue(h) ==
    /\ h \in pending
    /\ pending' = pending \ {h}
    /\ \E held \in BOOLEAN : rows' = Statement(h, held)
    /\ UNCHANGED <<known, beats, memory, disk, heard, faults>>

(* deregister_worker: the row goes, and its agents' placement with it.     *)
DeleteWorker(w) ==
    /\ w \in known /\ Fault("delete")
    /\ known' = known \ {w}
    /\ rows' = [a \in Agent |-> WorkerGone(rows[a], w)]
    /\ UNCHANGED <<pending, beats, memory, disk, heard>>

-----------------------------------------------------------------------------
(* The heartbeat handler: acks, observations and the list are statements   *)
(* of their own; a failing one is logged and the next one runs.            *)

Handled(b, stage, commands) ==
    beats' = (beats \ {b}) \cup {[b EXCEPT !.stage = stage, !.commands = commands]}

HandleAcks(b) ==
    /\ b.stage = "acks"
    /\ b.worker \in known
    /\ Handled(b, "observations", None)
    /\ \/ rows' = Acked(rows, b.worker, b.acks) /\ UNCHANGED faults
       \/ Fault("store") /\ UNCHANGED rows
    /\ UNCHANGED <<known, pending, memory, disk, heard>>

HandleObservations(b) ==
    /\ b.stage = "observations"
    /\ IF b.live THEN Handled(b, "list", None) ELSE beats' = beats \ {b}
    /\ \/ /\ rows' = IF b.seen = None THEN rows
                     ELSE ObservedBy(rows, b.worker, b.seen)
          /\ UNCHANGED faults
       \/ Fault("store") /\ UNCHANGED rows
    /\ UNCHANGED <<known, pending, memory, disk, heard>>

HandleList(b) ==
    /\ b.stage = "list"
    /\ \/ Handled(b, "answer", Commands(rows, b.worker)) /\ UNCHANGED faults
       \/ Fault("store") /\ Handled(b, "answer", None)
    /\ UNCHANGED <<control, memory, disk, heard>>

(* A request whose worker no longer waits may be cut off anywhere.         *)
Abandon(b) ==
    /\ ~b.live
    /\ beats' = beats \ {b}
    /\ UNCHANGED <<control, memory, disk, heard, faults>>

-----------------------------------------------------------------------------
(* The worker's heartbeat loop.                                            *)

BeatsOf(w) == {b \in beats : b.worker = w}

(* The worker waits no more.  Its request goes on in the control plane, or *)
(* is yet to arrive; what is left of it after the observations only reads. *)
HangUp(w) ==
    beats' = (beats \ BeatsOf(w)) \cup
             {[b EXCEPT !.live = FALSE] :
                 b \in {c \in BeatsOf(w) : c.stage \in {"acks", "observations"}}}

(* heartbeat_once takes the buffers before it sends: what it took is gone  *)
(* if the request gets lost (a request that is cut off before its acks).   *)
SendBeat(w) ==
    /\ loop[w] = "idle"
    /\ Cardinality(BeatsOf(w)) < 2
    /\ loop' = [loop EXCEPT ![w] = "waiting"]
    /\ beats' = beats \cup {[worker |-> w, acks |-> acks[w], seen |-> seen[w],
                              stage |-> "acks", live |-> TRUE, commands |-> None]}
    /\ acks' = [acks EXCEPT ![w] = {}]
    /\ seen' = [seen EXCEPT ![w] = None]
    /\ UNCHANGED <<control, table, todo, doomed, birth, silent, disk, heard, faults>>

(* reconcile, first half: processes that exited leave the table, those not *)
(* asked for leave it to be terminated, and their records are removed.     *)
Reap(w, keep) ==
    /\ table' = [table EXCEPT ![w] = @ \cap child[w] \cap keep]
    /\ record' = [record EXCEPT ![w] = @ \ (table[w] \ table'[w])]
    /\ doomed' = [doomed EXCEPT ![w] = (table[w] \cap child[w]) \ keep]

(* The answer arrives.  Without a list nothing is touched; with one its    *)
(* commands are what the next beat acknowledges.                           *)
Answered(w) ==
    /\ loop[w] = "waiting"
    /\ \E b \in BeatsOf(w) :
          /\ b.live /\ b.stage = "answer"
          /\ beats' = beats \ {b}
          /\ IF b.commands = None
             THEN /\ loop' = [loop EXCEPT ![w] = "idle"]
                  /\ UNCHANGED <<table, todo, doomed, acks, seen, record, heard>>
             ELSE /\ loop' = [loop EXCEPT ![w] = "killing"]
                  /\ todo' = [todo EXCEPT ![w] = b.commands]
                  /\ acks' = [acks EXCEPT ![w] =
                        {[agent |-> c.agent, generation |-> c.generation] : c \in b.commands}]
                  /\ seen' = [seen EXCEPT ![w] = [a \in Agent |-> "none"]]
                  /\ heard' = [heard EXCEPT ![w] = [a \in Agent |->
                        IF \E c \in b.commands : c.agent = a /\ c.generation > @[a]
                        THEN (CHOOSE c \in b.commands : c.agent = a).generation ELSE @[a]]]
                  /\ Reap(w, AgentsOf(b.commands, "running"))
    /\ silent' = [silent EXCEPT ![w] = 0]
    /\ UNCHANGED <<control, birth, child, stray, space, unwritten, faults>>

(* The loop goes back to sleep once every command has been looked at.      *)
Onward(left) == IF left = {} THEN "idle" ELSE "starting"

(* reconcile: terminate, then remove the workspaces of stopped agents.     *)
Kill(w) ==
    /\ loop[w] = "killing"
    /\ loop' = [loop EXCEPT ![w] = Onward(AgentsOf(todo[w], "running"))]
    /\ child' = [child EXCEPT ![w] = @ \ doomed[w]]
    /\ doomed' = [doomed EXCEPT ![w] = {}]
    /\ space' = [space EXCEPT ![w] = @ \ AgentsOf(todo[w], "stopped")]
    /\ todo' = [todo EXCEPT ![w] = {c \in @ : c.desired = "running"}]
    /\ UNCHANGED <<control, beats, table, birth, acks, seen, silent, stray, record,
                   unwritten, heard, faults>>

(* reconcile, second half, one command: already running, no room or no     *)
(* process (observed as failed), or a process of its own.                  *)
Start(w) ==
    /\ loop[w] = "starting"
    /\ \E c \in todo[w] :
          LET a == c.agent
              room == a \notin table[w] /\ Cardinality(table[w]) < Cap
          IN  /\ todo' = [todo EXCEPT ![w] = @ \ {c}]
              /\ \/ /\ ~room
                    /\ seen' = [seen EXCEPT ![w][a] =
                                   IF a \in table[w] THEN "running" ELSE "failed"]
                    /\ loop' = [loop EXCEPT ![w] = Onward(todo'[w])]
                    /\ UNCHANGED <<birth, child, space, faults>>
                 \/ /\ room /\ Fault("spawn")
                    /\ seen' = [seen EXCEPT ![w][a] = "failed"]
                    /\ loop' = [loop EXCEPT ![w] = Onward(todo'[w])]
                    /\ UNCHANGED <<birth, child, space>>
                 \/ /\ room
                    /\ loop' = [loop EXCEPT ![w] = "recording"]
                    /\ birth' = [birth EXCEPT ![w] = {a}]
                    /\ child' = [child EXCEPT ![w] = @ \cup {a}]
                    /\ space' = [space EXCEPT ![w] = @ \cup {a}]
                    /\ UNCHANGED <<seen, faults>>
    /\ UNCHANGED <<control, beats, table, doomed, acks, silent, stray, record,
                   unwritten, heard>>

(* write_spawn_record, and only then the table: also of a process whose    *)
(* record could not be written.                                            *)
Record(w) ==
    /\ loop[w] = "recording"
    /\ loop' = [loop EXCEPT ![w] = Onward(todo[w])]
    /\ \/ /\ record' = [record EXCEPT ![w] = @ \cup birth[w]]
          /\ unwritten' = [unwritten EXCEPT ![w] = @ \ birth[w]]
       \/ /\ "record" \in Faults
          /\ unwritten' = [unwritten EXCEPT ![w] = @ \cup birth[w]]
          /\ UNCHANGED record
    /\ table' = [table EXCEPT ![w] = @ \cup birth[w]]
    /\ birth' = [birth EXCEPT ![w] = {}]
    /\ seen' = [seen EXCEPT ![w] =
                   [a \in Agent |-> IF a \in birth[w] THEN "running" ELSE @[a]]]
    /\ UNCHANGED <<control, beats, todo, doomed, acks, silent, child, stray, space,
                   heard, faults>>

(* Every process leaves the table and its record is removed; terminating   *)
(* comes after.                                                            *)
Drain(w) ==
    /\ table' = [table EXCEPT ![w] = {}]
    /\ record' = [record EXCEPT ![w] = @ \ table[w]]
    /\ doomed' = [doomed EXCEPT ![w] = table[w]]

(* Mutant: the deadline is never reached.                                  *)
NeverOverdue(w) == FALSE

(* last_contact.elapsed() >= fence_after.                                  *)
Overdue(w) == silent[w] + 1 >= FenceAfter

(* The beat fails: the control plane refuses a worker it has no row of, or *)
(* an answer does not come in time.  Past the deadline the                 *)
(* worker stops its own processes (fence_all).                             *)
BeatFails(w) ==
    /\ loop[w] = "waiting"
    /\ \/ w \notin known /\ UNCHANGED faults
       \/ Fault("timeout")
    /\ HangUp(w)
    /\ silent' = [silent EXCEPT ![w] = IF @ < FenceAfter THEN @ + 1 ELSE @]
    /\ IF Overdue(w)
       THEN loop' = [loop EXCEPT ![w] = "fencing"] /\ Drain(w)
       ELSE loop' = [loop EXCEPT ![w] = "idle"] /\ UNCHANGED <<table, record, doomed>>
    /\ UNCHANGED <<control, todo, birth, acks, seen, child, stray, space, unwritten,
                   heard>>

(* terminate_all after a fence or a shutdown.                              *)
Terminate(w) ==
    /\ loop[w] \in {"fencing", "leaving"}
    /\ loop' = [loop EXCEPT ![w] = IF @ = "fencing" THEN "idle" ELSE "dead"]
    /\ child' = [child EXCEPT ![w] = @ \ doomed[w]]
    /\ doomed' = [doomed EXCEPT ![w] = {}]
    /\ UNCHANGED <<control, beats, table, todo, birth, acks, seen, silent,
                   stray, record, space, unwritten, heard, faults>>

-----------------------------------------------------------------------------
(* A worker process that ends, and one that begins.                        *)

(* What is in memory is gone, and with it every process that is not on     *)
(* record.                                                                 *)
Forgotten(w) ==
    /\ loop' = [loop EXCEPT ![w] = "dead"]
    /\ table' = [table EXCEPT ![w] = {}]
    /\ todo' = [todo EXCEPT ![w] = {}]
    /\ doomed' = [doomed EXCEPT ![w] = {}]
    /\ birth' = [birth EXCEPT ![w] = {}]
    /\ acks' = [acks EXCEPT ![w] = {}]
    /\ seen' = [seen EXCEPT ![w] = None]
    /\ silent' = [silent EXCEPT ![w] = 0]
    /\ stray' = [stray EXCEPT ![w] = @ \cup (child[w] \ record[w])]
    /\ unwritten' = [unwritten EXCEPT ![w] = {}]
    /\ HangUp(w)

(* SIGKILL, power, panic: kill_on_drop does not run and the processes      *)
(* live on.                                                                *)
Crash(w) ==
    /\ loop[w] # "dead" /\ Fault("crash")
    /\ Forgotten(w)
    /\ child' = [child EXCEPT ![w] = @ \cap record[w]]
    /\ UNCHANGED <<control, record, space, heard>>

(* Processes on record that kill(2) may leave alive.                       *)
Spared(w) == IF "kill" \in Faults THEN SUBSET (child[w] \cap record[w]) ELSE {{}}

(* The runtime is stalled: the watchdog thread kills what is on record,    *)
(* leaves the records, and exits the process.                              *)
Watchdog(w) ==
    /\ loop[w] \notin {"dead", "joining", "leaving"} /\ Fault("watchdog")
    /\ Forgotten(w)
    /\ \E spared \in Spared(w) : child' = [child EXCEPT ![w] = spared]
    /\ UNCHANGED <<control, record, space, heard>>

(* A shutdown signal: the loop ends first, then shutdown_all.              *)
Shutdown(w) ==
    /\ loop[w] \in {"idle", "waiting"} /\ Fault("shutdown")
    /\ loop' = [loop EXCEPT ![w] = "leaving"]
    /\ Drain(w)
    /\ HangUp(w)
    /\ acks' = [acks EXCEPT ![w] = {}]
    /\ seen' = [seen EXCEPT ![w] = None]
    /\ silent' = [silent EXCEPT ![w] = 0]
    /\ UNCHANGED <<control, todo, birth, child, stray, space, unwritten, heard>>

Restart(w) ==
    /\ loop[w] = "dead"
    /\ loop' = [loop EXCEPT ![w] = "joining"]
    /\ UNCHANGED <<control, beats, table, todo, doomed, birth, acks, seen, silent,
                   disk, heard, faults>>

(* Mutant: the sweep removes the records and leaves the processes.         *)
SweepRecordsOnly(w) ==
    /\ record' = [record EXCEPT ![w] = {}]
    /\ UNCHANGED <<child, stray>>

(* sweep_stale_incarnation: kill what is on record, then drop the records, *)
(* those of processes that could not be killed as well.                    *)
Sweep(w) ==
    /\ child' = [child EXCEPT ![w] = @ \ record[w]]
    /\ \E spared \in Spared(w) : stray' = [stray EXCEPT ![w] = @ \cup spared]
    /\ record' = [record EXCEPT ![w] = {}]

(* register_with_retry, until it gets through; the sweep comes after it.   *)
(* A worker whose row is gone would be given another id: it never returns  *)
(* under this one.                                                         *)
Register(w) ==
    /\ loop[w] = "joining" /\ w \in known
    /\ loop' = [loop EXCEPT ![w] = "idle"]
    /\ Sweep(w)
    /\ UNCHANGED <<control, beats, table, todo, doomed, birth, acks, seen, silent,
                   space, unwritten, heard, faults>>

(* An agent process exits by itself.                                       *)
ChildExits(w, a) ==
    /\ Fault("exit")
    /\ \/ /\ a \in child[w]
          /\ child' = [child EXCEPT ![w] = @ \ {a}]
          /\ UNCHANGED stray
       \/ /\ a \in stray[w]
          /\ stray' = [stray EXCEPT ![w] = @ \ {a}]
          /\ UNCHANGED child
    /\ UNCHANGED <<control, beats, memory, record, space, unwritten, heard>>

-----------------------------------------------------------------------------
Operate ==
    \/ \E a \in Agent : Create(a) \/ AskStart(a) \/ AskStop(a)
    \/ \E a \in Agent, w \in Worker : AskPlace(a, w)
    \/ \E w \in Worker : DeleteWorker(w)

Heed(w) ==
    \E b \in BeatsOf(w) :
        HandleAcks(b) \/ HandleObservations(b) \/ HandleList(b) \/ Abandon(b)

Run(w) ==
    \/ SendBeat(w) \/ Answered(w) \/ BeatFails(w)
    \/ Kill(w) \/ Start(w) \/ Record(w)
    \/ Terminate(w) \/ Restart(w) \/ Register(w)

Break(w) ==
    \/ Crash(w) \/ Watchdog(w) \/ Shutdown(w)
    \/ \E a \in Agent : ChildExits(w, a)

Next ==
    \/ Operate \/ \E h \in pending : Issue(h)
    \/ \E w \in Worker : Heed(w) \/ Run(w) \/ Break(w)

Spec == Init /\ [][Next]_vars

(* A handler that began goes on, the heartbeat loop is never left idle,    *)
(* and the service manager restarts a worker that ended.                   *)
FairSpec ==
    /\ Spec
    /\ \A w \in Worker : WF_vars(Heed(w)) /\ WF_vars(Run(w))

-----------------------------------------------------------------------------
(* Once a stop has been acknowledged by the agent's worker, that worker    *)
(* runs no process of the agent it can reach (ack_agent_commands believes  *)
(* the ack; the worker sends it one beat after reconcile).  Strays, which  *)
(* no code can stop any more, are apart.                                   *)
AckedStopIsStopped ==
    \A a \in Agent, w \in Worker :
        (/\ rows[a].worker = w /\ rows[a].desired = "stopped"
         /\ rows[a].acked = rows[a].generation /\ rows[a].generation > 0)
        => a \notin child[w]

(* command_delivered never speaks of a worker the command has not reached: *)
(* an assignment to another worker is undelivered until that one hears.    *)
DeliveredMeansHeard ==
    \A a \in Agent, w \in Worker :
        (/\ rows[a].worker = w /\ rows[a].generation > 0
         /\ rows[a].acked = rows[a].generation)
        => heard[w][a] = rows[a].generation

(* A living process that is neither being started nor being terminated is  *)
(* on record, so that the next incarnation will find it, or its start is   *)
(* known to have left no record: no other way leads to an unrecorded one.  *)
(* A worker at rest supervises every process it can reach and has left it  *)
(* its workspace, and has on record all it supervises but those.           *)
SupervisedAndRecorded ==
    \A w \in Worker :
        /\ child[w] \ record[w] \subseteq birth[w] \cup doomed[w] \cup unwritten[w]
        /\ loop[w] \in {"idle", "waiting"}
            => /\ child[w] \subseteq table[w] \cap space[w]
               /\ table[w] \ unwritten[w] \subseteq record[w]

(* What the rows ask for is what runs, here and nowhere else, on every     *)
(* worker that has a row or a loop, strays apart; and every command is     *)
(* acknowledged.                                                           *)
Converged ==
    \A a \in Agent :
        /\ \A w \in Worker :
              w \in known \/ loop[w] \notin {"dead", "joining"} =>
                  (a \in child[w] <=> /\ rows[a].status = "ready"
                                      /\ rows[a].desired = "running"
                                      /\ rows[a].worker = w)
        /\ rows[a].worker \in known => rows[a].acked = rows[a].generation

(* When operators and faults stop, the processes become what the rows ask  *)
(* for: lost acks, stale observations, double starts and the processes of  *)
(* an earlier placement all disappear.                                     *)
Converges == <>[]Converged

(* The heartbeat loop of a worker the control plane no longer answers (its *)
(* row is gone) leaves no process it can reach behind, unless it ends      *)
(* first and cannot register again (register_with_retry comes before the   *)
(* sweep).                                                                 *)
CutOffStops ==
    \A w \in Worker :
        (w \notin known /\ loop[w] \notin {"dead", "joining"})
            ~> (child[w] = {} \/ loop[w] \in {"dead", "joining"})
=============================================================================
