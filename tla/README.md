# A TLA+ specification of the fleet orchestrator's control plane

This directory specifies and verifies the core of grok-fleet-orchestrator: *who may act* (the
control-plane lease), *what becomes of a task* (its row, its way to a dispatch, the handlers of every
orchestrator process that write it, the session that executes it), *which worker is trusted with one*
(circuit breakers, worker rows, health scan), *which agents run where* (agent rows, commands, the
worker's processes), *who becomes a worker* (enrolment, provisioning) and *what belongs to a project*
(its tasks, agents with their templates, issues). The modules follow the Rust code under `src/crates/`; `PROJECT.json` names, for
every definition, the lines it stands for.

* Checked with TLC: `tlc -config MCTaskFlow.cfg MCTaskFlow`, and so on for the runs below.
* Proved with TLAPS 1.4.5 (Z3, Zenon, LS4): `tlapm ControlLeaseProofs.tla`, and so on for the eight
  modules named `*Proofs`.

## 1. The system

An *orchestrator process* (`fleet serve`) accepts tasks over HTTP, MCP and the dashboard, picks a
worker, and drives an agent on it over ACP (JSON-RPC on a websocket). Several processes may share
one PostgreSQL store; one of them holds the control-plane lease and acts, the others stand by. A
*worker* (`fleet-worker`) registers, sends heartbeats, keeps its agent processes running and stops
them when it has lost the orchestrator for too long.

| component (crate) | state it keeps | operations | talks to |
|---|---|---|---|
| control-plane lease (`fleet-scheduler/lease.rs`, row in `fleet-store`) | row: holder, epoch, expires_at; per process: `LeaseStatus`, loop position | acquire, renew, release, graceful and aborted shutdown | the store; read by every handler through `LeaseObserver` |
| task row (`fleet-store`, `fleet-core/task.rs`) | phase, dispatch generation, ACP session, retry count, dependencies | `compare_and_set_task_status`, `record_task_acp_session`, list/get | written by dispatcher, reconciler, CLI |
| dispatcher (`fleet-scheduler/dispatcher.rs`) | recovery ledger per control generation, running gauge | submit, dispatch_existing, cancel, the worker-event loop, mark_failed, DAG dispatch | store, transport, breakers, selector |
| reconciler (`fleet-scheduler/reconcile.rs`) | none between rounds | dead letters, stale dispatches, redispatch, orphan sessions, unacknowledged commands | store, transport, dispatcher |
| ACP transport (`fleet-transport`) | connection per worker, in-flight session map, capacity permits, event broadcast | dispatch, cancel, list_sessions, fail_all, supervision and reconnect | worker's agent; events to the dispatcher |
| circuit breaker (`breaker.rs`, `sync.rs`) | state, sample window, probe slots per worker | check, record, force_open, reset, synchronisation by events | dispatcher; other processes through the event log |
| selection (`selector.rs`, `placement.rs`, `router.rs`) | none | filter and rank workers, count running tasks | store |
| health scan (`health.rs`, `cleanup.rs`) | none | mark silent workers offline, delete expired sessions | worker rows |
| agents (`fleet-store`, `fleet-mcp`) | desired and observed status, command generation, worker slots | create, assign, set desired, acknowledge, apply observations | worker through registration and commands |
| worker agent (`fleet-worker`) | child processes, incarnation, last contact | heartbeat loop, reconcile agents, self-fencing, watchdog | HTTP API of the orchestrator |
| projects, templates, issues (`fleet-dashboard`, `fleet-mcp`, `fleet-store`, rules in `fleet-core`) | project status; template status, revisions, pins; issue status and fields, links to tasks | submit into, create an agent in, archive a project; revise, revoke, retire; edit, transition, link | people on two surfaces; the rows of tasks and agents |
| enrolment (`fleet-store`, `fleet-api`, `join.rs`) | bootstrap tokens, worker rows, credentials | issue, revoke, consume, enrol, rotate, revoke a credential | worker's join; the provisioner |
| API, MCP, dashboard, CLI | sessions, rate limits | decode, authorise, call the above | all of the above |
| provisioner (`fleet-provisioner`), credentials | a run of the playbook; on a host: `worker.toml`, the service; encrypted secrets | probe and apply each step over SSH, encrypt and decrypt | hosts; the API for tokens and heartbeats |

How they interact, where it matters:

1. A task is created `Pending` and dispatched by the request that submitted it, by the reconciler's
   redispatch, or by a completion that makes it ready. All go through `dispatch_existing`, and the
   compare-and-set `Pending -> Dispatched` decides which of them sends the task to the worker.
2. The worker's answer comes back as an event on a *bounded broadcast*, in order, to the process
   that sent the task and to no other; the event loop handles one event at a time.
3. The reconciler repairs what events did not: tasks whose worker restarted or is offline, tasks
   whose session the worker no longer lists.
4. Every write of a lease-holding process carries a *fence* (its epoch), and the database checks it
   in the same statement. Outcomes of executions also have to match the row's *dispatch generation*.
5. `fleet tasks cancel` is an operator's own process: no lease, no fence.

### Hard behaviours, and the properties that make a component correct

| component | hard | what must hold |
|---|---|---|
| lease | lost and late replies, expiry while a statement is under way, aborted shutdown, crash | one holder per epoch; a late renewal revives nothing; a survivor takes over; a graceful stop hands over at once |
| task row | any number of writers, in other processes, some of them dead | an ended task stays ended; fenced writes are the holder's; an outcome is recorded only by the generation that dispatched it |
| dispatcher | several dispatches, cancels and events at once; lease lost between check and write | a task is executed at most once; the worker is asked for its inventory before new work under a new generation; a cancel reaches the worker |
| reconciler | rows and inventories read at different moments, workers that do not answer | no living execution is failed; every dispatched task ends some time |
| transport | loss of connection racing an answer, timeouts, lag of a slow subscriber | every dispatch has an outcome; a completion has the whole output; a timed-out agent is told; permits come back; what is lost is found by the sweep |
| breaker | probes whose result never comes, events of other processes | at most max_probes at once; an open circuit is probed again |
| selection and capacity | count, then send | never more than the worker's limit |
| health scan, registration, heartbeat | three writers of a whole worker row, each with a copy of its own age | an incarnation never goes back; a restart is noticed; a dead periodic worker ends Offline and a living one is seen again |
| task flow | submissions repeated under one key, predecessors that complete while a submission looks, retries counted by two callers, deletions | a key runs once and names one task; predecessors come first; no ready task falls between submission and completion, or waits for ever |
| agents | commands and acknowledgements that overtake each other, placement against processes that already run | an acknowledged stop has stopped; what is delivered was heard by the right worker; the processes become what the rows ask for |
| worker agent | contact lost while commands are on their way; crash between any two steps | agents of a cut-off worker stop; a process is on record unless its record could not be written, and supervised as long as it can be reached; no process loses its workspace |
| projects, templates, issues | checks and inserts in separate statements, archiving against both; transactions that lock against each other; whole rows written back | nothing is asked of a closed project and gets in; an archive comes to its end; a pin is good when it commits; an issue is where its last transition put it |
| enrolment | joins in open transactions, tokens revoked and workers deleted between their statements | a use of a token, a row and a credential come together or not at all |
| provisioner | a session that breaks anywhere, a join whose answer was lost, runs that are repeated | a host is configured as a worker that was enrolled for it; a reported success has done what it is for; repeated, the playbook gets there unless a lost answer holds the name |

`PROJECT.json` "hazards" lists the concrete ones with their lines. Smaller ones, which no property
covers: `RUNNING_GAUGE` is decremented for a cancelled task that was never counted, and again by its
event, and wraps below zero (nothing outside the tests reads it); a dispatch whose failure write is
fenced leaves a row as an orphaned dispatch does; a task cancelled between claim and send is sent; a
successor of a task that failed or was deleted waits for ever, by design; a circuit's row and its event
may fail one without the other; an agent's record is removed before its process is terminated.

## 2. Modules

| module | what it is |
|---|---|
| `ControlAuthority` | **abstract**: what the rest of the program may rely on from the lease: authority is granted only after it lapsed, each grant has the next epoch, an instance believes in its own last grant or in nothing |
| `ControlLease` | **detailed**: the row's three statements and the lease manager, each statement and the observation of its reply separate steps; implements `ControlAuthority` |
| `ControlLeaseProofs` | the inductive invariant of `ControlLease` and the refinement, proved |
| `TaskStore` | the task row and its conditional statements, as operators |
| `TaskControl` | extends `ControlAuthority` and `TaskStore`: dispatcher, reconciler, transport, worker and operator, over the abstract lease |
| `TaskControlProofs` | the inductive invariant of `TaskControl` and three theorems, proved |
| `CircuitBreaker` | one process's breaker for one worker, with its sample window and probe slots, and the dispatches that pass it |
| `CircuitSync` | the same worker's circuit in every process, the worker's row and the event log between them |
| `TaskFlow` | from a submission to its dispatch: idempotency keys, dependencies, refused attempts and retries, dead letters, deletion; the three callers of `dispatch_existing` |
| `TaskFlowProofs` | four inductive invariants of `TaskFlow`: dependencies, keys, attempts and retries, and what follows from them, proved |
| `AcpSessions` | one worker's connection, its supervisor, and the dispatches that hold its permits and sessions |
| `WorkerLinkProofs` | what the processes keep towards one worker: the inductive invariants of `CircuitBreaker` (the bound on probes; a trip needs new results), of `AcpSessions`, with its safety properties, and of `CircuitSync` (the processes come to agree), proved; it extends all three, whose names are kept apart by prefixes (`AcpSpec`, `SyncSpec`) |
| `WorkerRows` | one worker name's rows, and the handlers and the scan that write stale copies over each other |
| `WorkerRowsProofs` | the inductive invariant of `WorkerRows`, its types, and what it says of incarnations, proved |
| `AgentStore` | the agent row and its statements, as operators |
| `Agents` | extends `AgentStore`: the agent tools, the heartbeat handler, and the workers with their processes, spawn records and workspaces |
| `AgentsProofs` | the inductive invariant of `Agents`, and what it says of supervision, delivery and stops, proved |
| `EnrolmentLedger` | **abstract**: what enrolment promises: a token is spent in one step with the worker and the credential it is spent on |
| `Enrolment` | **detailed**: the join handler with its transaction, statement by statement, administrators, registration by credential; implements `EnrolmentLedger` |
| `Provisioning` | extends `Enrolment`: the playbook run against a host, its commands, the host's files and service, joins by hand |
| `ProvisioningProofs` | the inductive invariant of `Enrolment` and the refinement; the inductive invariant of `Provisioning`, that what it adds keeps the ledger's promise, and that reports of success are true; proved |
| `ProjectState` | the rows of projects and what belongs to them, the rule tables, what the handlers share |
| `ProjectWork` | extends `ProjectState`: submissions, creating and stopping agents, archiving |
| `TemplateWork` | extends `ProjectWork`: templates, revisions, and the transactions that lock against its pins |
| `IssueWork` | extends `ProjectState`: issues and their links |
| `Projects` | composes `TemplateWork` and `IssueWork` |
| `ProjectsProofs` | the inductive invariant of `Projects` and its three safety properties, proved |
| `MC*` | instances for TLC (`ControlLease` is run as it is) |

How they divide the system: `TaskControl` is about the writes of a task row once somebody dispatches
it, in any number of processes; `TaskFlow` about how it gets there, in one process that keeps the
lease (its dispatch is `TaskControl`'s, reduced to claim, send and outcome). `AcpSessions` is what
happens inside one `SessionOpens ... ExecutionEnds` of `TaskControl`. `WorkerRows` provides the
`worker = "offline"` and the restarts that `TaskControl` reacts to. `Agents` shares nothing with the
task side but the lease (`held`) and the deletion of a worker. `Enrolment` and `Provisioning` are how a
row that `WorkerRows` starts from comes to be; of registration they keep the authentication and the
whole-row upsert, of the scan that it turns a worker Offline. `Projects` is what happens before
`TaskFlow` inserts a row and before `Agents` creates one: of a task it keeps whether it has ended, of an
agent whether it was retired.

`TaskControl` uses `ControlAuthority` in place of `ControlLease`: since the lease implements the
abstract module (theorem `Refinement`, run `lease`), what holds of tasks over the abstract lease
holds over the real one, and the state space stays small.

### `ControlLease` and the code

`lease` is the row, with `left = expires_at - NOW()` cut off at -1. `pc[i]` is where the manager
task of process `i` is in `run`/`renew_loop`; `status[i]` and `held[i]` together are `LeaseStatus`;
`reply[i]` is an answer that has not been observed. `mine` is history.

| code | action |
|---|---|
| `acquire_control_lease` (`INSERT … ON CONFLICT … WHERE expires_at < NOW()`) | `AcquireGranted`, `AcquireRefused` |
| `renew_control_lease`, `release_control_lease` | `RenewStatement`, `ReleaseStatement` |
| `try_acquire`, `try_renew`, on `Ok` and on `Err` | `ObserveAcquired`, `ObserveNotAcquired`, `ObserveRenewed`, `ObserveNotRenewed` |
| the `select!`s of `run` and `renew_loop` | `RenewDue`, `Retry`, `BeginRelease` |
| `LeaseManagerHandle::shutdown`, in time and aborted | `Shutdown`, `AbortShutdown`, `ReleaseFailed` |
| the end of the process | `Crash` (a statement under way may still take effect) |

An error is observed either before the statement was executed (which then never is, if the manager
goes on) or after it. The instance id is fresh at every start of a process, so a restart is another
member of `Instance`.

### `TaskControl` and the code

`task[t]` is the row: phase, dispatch generation, and whether `acp_session_id` is set (one name per
task suffices: a task is executed once). `job[i][p]` is the handler in place `p` of process `i`:
requests in `Slot`, the event loop in `"loop"`, the reconciler in `"sweep"`. A handler is cut at
every `await`; `step` is the point it waits at, the other fields are the locals that live across it.
`ledger[i]` is `recovered_workers`, `inbox[i]` the broadcast, `exec` and `routed` the worker's
sessions and the transport's in-flight map.

| code | actions |
|---|---|
| `dispatch_existing` | `DispatchBegins`, `DispatchRefused`, `RecoverWorker`, `AskInventory`, `ListForRecovery`, `ReapVanished`, `MarkAsked`, `Claim`, `Send`, `SendFails` |
| `cancel`, `run_tasks_cancel` | `CancelBegins`, `CancelReads`, `CancelSignals`; `OperatorCancels` |
| `handle_worker_event` | `TakeEvent`, `RecordOutcome` |
| `reconcile_once`, `reap_stale_dispatched` | `SweepBegins`, `DeadLetter`, `SweepLists`, `JudgeLost`, `SweepAsks`, `JudgeVanished`, `JudgeSpared` |
| `compare_and_set_task_status`, `record_task_acp_session` | `StatusStatement`, `SessionStatement`, `StatementFails` |
| `AcpTransport::dispatch` | `SessionOpens`, `SessionRefused`, `ExecutionEnds`, `PromptTimesOut` |
| `WorkerSession::fail_all`, `subscribe` (Lagged) | `ConnectionLost`, `WorkerOffline`, `WorkerRestarts`, `EventLagged` |
| `LeaseManager` | `AuthorityMoves` (the actions of `ControlAuthority`) |

`Transition` is the table of all compare-and-set calls of the code: from which phases, to which one,
and as which `TransitionOrigin`. A statement is sent with the fence that is read at that moment
(`Write`) and takes effect in a later step, by when the lease may have moved, or the sender died.

What is abstracted, and why it is safe:

* One worker: ledger and inventories are per worker and never compared.
* `check_after` and the offline grace are not counted: the sweep may judge any row it listed. "The
  worker's row is gone" and "the worker is offline too long" are one condition, `worker = "offline"`.
* The reconciler's redispatch and `dispatch_ready_tasks` call `dispatch_existing` one task after
  another, from their own loops; here any of them may occupy a `Slot` and overlap. Every
  interleaving of the code is among these.
* The agent opening a session and the transport entering it in its map are one step; a `session/new`
  whose connection drops is `SessionRefused`.
* A refusal reads its fence in the step in which it refuses.
* A statement that errs was executed before the error is seen, or never is. (A statement of a
  *dead* process may still be executed.)
* `execution-consistency.md` describes a residual window of READ COMMITTED inside one `UPDATE`: the
  statement is atomic here, so that window is not in the model.

### `CircuitBreaker` and the code

`state`, `samples`, `opened` and `slots` are the fields of `BreakerInner` (`opened_at` as the ticks
since). A dispatch `d` is selected, passes or fails `check` some awaits later, and ends: with one
result recorded, with none, or with two. `slots` holds the names of dispatches where the code holds
the times they passed; `age[d]` is the time. The code pops one slot in `record` and then clears them
all, whichever way the probe went, so the names carry nothing the times do not. `counted` is history.

| code | action |
|---|---|
| `WorkerSelector::select`, filter 3 | `Select` |
| `check`, by state | `CheckClosed`, `CheckCooled`, `CheckProbe`, `CheckRefuses` |
| `record`, from `Completed`, `Failed`, a failed recovery or send | `Reported`, `ReportedLate` (by state: `RecordClosed`, `RecordHalfOpen`, `RecordOpen`) |
| the returns of `dispatch_existing` that record nothing; lost events | `Unreported` |
| `reset`, `force_open` | `Reset`, `ForceOpen` |
| the clock | `Tick` |

Each call holds the breaker's mutex and is one step. Every state a breaker can be made in
(`new_with_state`, from the row) is an initial state. A result may be recorded for a dispatch that
passed at any time before: the history of the circuit in between is arbitrary. Times saturate where
no condition can tell them apart any more (`Older`, `Tick`).

### `CircuitSync` and the code

`circuit[p]` is the worker's entry in the registry of process `p`, `row` is `workers.circuit_state`,
`log` the events with their visibility, `read[p]` the `last_seq` of its stream, `fetched[p]` what it has
fetched and not yet applied; `job[p][h]` is what
a handler that has moved the circuit has still to publish: two statements, each behind an await.

| code | action |
|---|---|
| `BreakerRegistry::get` with `get_worker_circuit_state` | `Get` |
| `check`, `record` where the state changed | `Move` |
| `fleet_reset_worker_breaker` | `ResetCircuit` |
| `scan_once`: `upsert_worker` of the listed row, `worker_left` | `ScanReportsLeft` |
| `update_worker_circuit_state`, `append_event` | `WriteRow`, `AppendEvent`, `Commit` |
| `listen_events` | `Fetch` |
| `apply_events`, `apply_one_to` | `Apply` |

What is abstracted: the state read before and after a call takes the mutex again in the code, so a
move of another thread in between may be published in place of one's own; here a handler publishes
its own move. The entry is made out of the row in the step that reads the row. A batch of `list_events` is fetched
in one step (its limit of 100 is not modelled) and applied event by event, with other steps in between.
Events become visible in any order, as PostgreSQL has it: the number is drawn by the INSERT, and the row is seen when
its transaction commits. A stream goes on from the last number it read, so it passes over what commits
later with a lower one; `skipped[p]`, a history variable, remembers what that was. A behaviour meets
one `incident`. Store errors and restarts of a process are not modelled.

### `TaskFlow` and the code

`row[t]` is the phase and retry count; ids are numbered by `created_at`. `call[t]` and `answer[t]` are
the request and its response; `at[h]` is where handler `h` waits: the submit call of a task, the event
loop (`Loop`) or the reconciler (`Sweep`), with the dependencies it has still to look up, the rest of
the list it works on, and the tasks that were listed with their retries exhausted.

| code | actions |
|---|---|
| `submit`, `insert_task_idempotent` | `Submit`, `Insert`, `Lookup`, `LookUpDependency` |
| `dispatch_existing` (and what each caller makes of its result) | `Refused`, `Claim`, `Send` |
| `handle_worker_event`, `dispatch_ready_tasks` | `CompletedHeard`, `FailedHeard`, `ReadyListed`, `OutcomeNotWritten` |
| `reconcile_once` | `SweepLists`, `DeadLetter` |
| `cancel`, `delete_task` | `Cancel`, `DeleteAsked`, `DeleteRow` |
| `reap_stale_dispatched` | `LostExecutionReaped` |
| store errors, a crash | `StoreFails`, `Crash` |

What is abstracted: selection, circuit, recovery and skills are one choice (`Refused`, with
`"unavailable"` for the errors that are counted), taken with the statement that follows it; every
Pending row counts as older than `stale_after`; the payload hash is represented by the dependencies,
the one part of a payload that changes what happens. `deps` may name any earlier row.

### `AcpSessions` and the code

`sup` is where `spawn_supervisor`'s loop is, `handle` and `connected` the two fields a dispatch looks
at (they are set one after the other, and looked at one after the other), `routed` the session map,
`st[t]` where the dispatch of `t` waits and `via[t]` the connection it cloned. `queue` and `output` are
the session's channel and what its consumer has appended.

| code | actions |
|---|---|
| `spawn_supervisor` | `Connect`, `ConnectFails`, `Lose`, `Disconnect`, `Retry` |
| `fail_all` | `FailAllCopy`, `FailAllReport` |
| `unregister` | `Unregister` |
| `dispatch` and the task it spawns | `AcceptDispatch`, `Clone`, `OpenSession`, `OpenFails`, `Prompt`, `PromptReturns`, `PromptExpires`, `Conclude` |
| `handle_session_notification`, the consumer | `Chunk`, `Consume` |
| `cancel` | `Cancel` |

The `Flush` barrier is a guard of `Conclude`: the queue is empty, if the entry is still there. When
`fail_all` removes the entry while the flush waits, `Conclude` may go on with output missing, which
includes what the code does; `CompletedIsWhole` therefore speaks of a Completed that is the only
outcome. Two registrations of one worker at once are not modelled.

### `WorkerRows` and the code

`row` is the workers row with the *age* of `last_seen`, and `copy` in a handler is the struct it read,
which ages with it. Ids and incarnations are numbers that are never used twice.

| code | actions |
|---|---|
| `register_worker`, `bump_worker_incarnation`, `build_worker`, `upsert_and_register` | `RegisterRead`, `RegisterBump`, `RegisterUpsert` |
| `heartbeat` | `BeatRead`, `BeatTouch`, `BeatStatus`, `BeatHost`, `BeatDrain` |
| `deregister_worker` | `Deregister` |
| `scan_once` | `ScanRead`, `ScanOffline`, `ScanHost`, `ScanHostWrite` |
| the worker process, the clock | `Start`, `Stop`, `Tick` |

`Upsert` is `ON CONFLICT (id) DO UPDATE` of every column but `registered_at` and
`incarnation_started_at`. A handler does not outlive the grace period (requests time out after 10 s,
the grace is 45 s by default), and registration is taken to be quick against it. `mode` is the
`liveness_mode` a process was configured with, any of the two at each start; registration writes it
into the row, and a stale copy may write an earlier one back. An on_demand worker sends no heartbeats
(`runner.rs`) and the scan does not judge it (`health.rs`), so `DeadIsNoticed` and `AliveIsSeen` speak
of periodic workers only, whatever their predecessors were.

### `Agents` and the code

`rows` are the agents, `known` the workers that have a row, `pending` the handlers between the read and
the statement they will send, `beats` the heartbeat requests, each at the statement it comes to next
(`live` if the worker still waits). Of a worker: `loop` is where `run_heartbeat_loop` is, `table` its
`procs`, `todo` and `doomed` the locals of `reconcile`, `birth` a process spawned and not yet recorded;
`child`, `record` and `space` are what is on the host and survives it. `stray` are the living processes
nobody will look for any more, and `unwritten` remembers whose last start left no record.

| code | actions |
|---|---|
| `handle_create_agent`, `handle_place_agent`, `handle_start_agent`, `handle_stop_agent` | `Create`, `AskPlace`, `AskStart`, `AskStop`, then `Issue` (`Statement`) |
| `deregister_worker`, the trigger of migration 036 | `DeleteWorker` (`WorkerGone`, `PlacedAt`) |
| `heartbeat`: acks, observations, list | `HandleAcks`, `HandleObservations`, `HandleList`, `Abandon` |
| `heartbeat_once`, `run_heartbeat_loop` | `SendBeat`, `Answered`, `BeatFails` |
| `reconcile`, `spawn`, `write_spawn_record` | `Reap` (in `Answered`), `Kill`, `Start`, `Record` |
| `fence_all`, `shutdown_all`, `terminate_all` | `Drain`, `Terminate` |
| `register_with_retry`, `sweep_stale_incarnation` | `Register`, `Sweep` |
| `watchdog`, crash, shutdown, an agent that exits | `Watchdog`, `Crash`, `Shutdown`, `ChildExits` |

`held` is the lease predicate of a fenced statement and is chosen freely: the lease may be lost between
any read and its statement. A worker whose row was deleted never returns under its id (the code gives
a new registration a new id), so it stays in `"joining"`. Two failures are logged and go unpunished in the
code, and in the model: a spawn record that cannot be written (`Record`; the process enters the table all
the same) and a kill that fails (`Spared`; the watchdog leaves the record and the next sweep tries again,
`Sweep` removes it whatever came of the kill). Neither counts as one of the run's faults, so that they meet
every crash. The process of a worker that ended before, or without, a record and one the sweep could not
kill are `stray`: they live until they exit by themselves, and every property of processes but
`SupervisedAndRecorded`, which says who may become one, speaks of the others. A record that cannot be
removed is checked against pid and start time by whoever reads it, and a workspace that cannot be removed
is only left over; both are left out. So are ports and the orphan and fence reports: they change no row.

### `Enrolment`, `Provisioning` and the code

`tokens`, `workers`, `creds` are the committed tables; what an open join has written is in its `stage`,
and its locks are `TokenLocked` and `NameLocked`: the store runs at READ COMMITTED, where a statement
waits for the writer of the row (or unique key) it wants to write. A request is named by the worker id it
draws. `run[h]` is the playbook against host `h`: the step, the command of `apply` it is at, the token it
minted, the request it waits for, and the copy of `worker.toml` that `configure_mtls` took; `toml` and
`service` are the file and what the service was started with, `ran` the commands whose effect is left on
the host, which is what `is_applied` looks at.

| code | actions |
|---|---|
| `create_bootstrap_token`, `revoke_bootstrap_token`, `expires_at` | `Issue`, `RevokeToken`, `Expire` |
| `join_worker`: the early look at the name; `consume_bootstrap_token_tx`, the insert, the credential, the commit | `Ask`, `Consume`, `InsertWorker`, `Commit` |
| its answer, an error, a dropped request | `Answer`, `Lose`, `Abort` |
| `rotate_worker_credential`, `revoke_worker_credential`, `deregister_worker` | `RotateCredential`, `RevokeCredential`, `Deregister` |
| `register_worker` by operational token; `scan_once` | `FindRow`, `WriteRow`; `MarkOffline` |
| `Playbook::run` | `Begin`, `Probe`, `ToNextStep`, `AfterCommand`, `Execute` |
| `mint_bootstrap_token`, `perform_join`, `run_join` | `Mint`, `StartJoin`, `JoinEnds`, `Deliver` |
| `ConfigureMtls::apply` | `ReadConfig`, `AppendSection` |
| `StartServices::apply`, `wait_for_heartbeat` | `StartUnit`, `Wait` |
| a broken session, a lost answer | `RunBreaks`, `MintBreaks`, `RequestBreaks` |

What is abstracted: the name of a worker is the name of its host. A fresh token or id is random, so any
unused one will do (`NewToken`, `NewId`). `status` distinguishes the `Online` the join inserts ("joined")
from one a registration wrote, which the row does not. `check_prereqs` only looks, and `install_grok` is
one more step like `install_deps`. `configure_mtls` moves its file in one command; the upload before it
leaves nothing anybody looks at. The playbook is run as a user who can read `worker.toml` (see section 5).
It is the whole standard playbook: tag filters and dry runs are left out, and with them the one way on which
`start_services` is reached without an API token and skips its wait (`push_credentials`, which is always
applied directly before it, refuses to run without). `replaced` is history: the hosts whose file a join wrote
after their run had got beyond the `[mtls]` section, by hand or as what is left of an earlier run; that file
has no such section, and no later step looks. With every token drawn a run ends at `TokensDrawn`, a bound.

`ReportsAreTrue` asks of a success that the packages, the binary, the unit, the credentials, a worker's
configuration and a started service are there, and with mTLS the certificates and the `[mtls]` section in the
file, except on a host that is `replaced`. It says nothing of the trailing chmods, which the program does not
guarantee (`RerunsFinishTheWork`, section 5). `ProvisionedOrTaken` excuses a host only if its name *stays*
taken by an enrolment whose answer is lost for good (`TakenByTheLost`): a run whose session breaks while its
join goes on must get there when it is repeated, because that join ends and writes the file.

### `Projects` and the code

`job[r]` is a handler in slot `r`: which one (`op`), the statement it comes to next (`at`), and the locals
it carries there. A handler is answered, or cut off, at every statement. `late`, `barred` and `decided`
are history; `closed` in a job is what was closed when the request came.

| code | actions |
|---|---|
| `handle_dispatch_task`, `submit_task_api`, `apply_agent_pin`, `ensure_project_accepts_new_tasks` | `SubmitBegins`, `FindParent`, `CheckNamed`, `FindAgent`, `CheckInherited`, `CheckFinal`, `InsertTask` |
| `create_agent_api`, `ensure_project_accepts_new_agents`, `create_agent` | `AgentBegins`, `CheckAgentProject`, `LockPin`, `InsertAgent` |
| `handle_stop_agent`; a task's terminal status; `delete_task` | `StopAgent`; `TaskEnds`, `DeleteTask` |
| `advance_project_archive`, `update_project_status`, `archive_project_if_drained` | `ArchiveBegins`, `Drain`, `Seal`, `AskTasks`, `AskAgents`, `Look` |
| `create_agent_template_revision`, `revoke_agent_template_revision` | `ReviseBegins`, `LockToRevise`, `InsertRevision`, `Revoke` |
| `change_agent_template_status_api`, `retire_agent_template` | `TurnBegins`, `CheckTurn`, `WriteTurn`, `LockToRetire`, `CommitRetire` |
| `create_issue_api`, `update_issue_api`, `transition_issue_api` | `CreateIssue`, `EditBegins`, `WriteFields`, `TurnIssueBegins`, `WriteStatus` |
| `link_issue_task_api`, `unlink_issue_task_api` | `LinkBegins`, `FindLinkTask`, `WriteLink`, `Unlink` |

The locks of a transaction are `Shares` (FOR SHARE on a pinned revision and its template) and `Holds` (FOR
UPDATE on a template); a statement that needs the row waits. Names, descriptions, revision bodies and hashes
are left out; the hash a retirement sends stands for the set of dependents it was computed from
(`shown`). The MCP server's and the dashboard's way to a task differ in what they check, and are told
apart (`surface`).

## 3. Runs

| run | instance | what it shows |
|---|---|---|
| `lease` | 2 instances, TTL 2, 3 epochs | `FenceNamesTheHolder`, `GracefulStopGivesBack`; the lease implements `ControlAuthority`; `SurvivorTakesOver` |
| `tasks` | 2 processes, 1 task, 1 request place each, 2 handlers at once, 2 epochs, crashes | `TerminalIsFinal`, `ExecutedOnce`, `FencedWritesAreTheHolders`, `OutcomeFromOwnGeneration`, `SweepSparesTheLiving` |
| `tasks_live` | 1 process that loses and regains the lease, 1 task, 1 handler at once, every fault | `NamedDispatchEnds` |
| `flow` | 2 submissions, 1 key, 1 upset; no retries with a list limit of 1, and one retry with 2 | `DependenciesFirst`, `OneTaskPerKey`, `ReadyIsTried`, `RefusedIsSettled`, `ReadyIsServed` |
| `acp` | 2 dispatches, 2 permits, 2 connections, 1 chunk each | `DoneIsReported`, `CompletedIsWhole`, `NobodyRunsUntold`, `PermitsComeBack` |
| `breaker` | 3 dispatches, cool-down 2 ticks, 2 probes, window of 3 results | `ProbesBounded`, `TripNeedsNewResults`, `HalfOpenNeverWedges` |
| `sync` | 2 processes, 2 handlers each, 3 events that become visible in any order, with health scans or with entries made late | `ProcessesAgree` |
| `workers` | 1 worker name, 2 ids or incarnations, both liveness modes, 1 heartbeat at a time, grace 1 tick | `RestartIsNoticed`, `IncarnationNeverBack`, `DeadIsNoticed`, `AliveIsSeen` |
| `agents` | 1 agent, 2 workers with one place, 2 commands, 2 handlers, 1 fault of eight kinds, and records and kills that fail at will | `AckedStopIsStopped`, `DeliveredMeansHeard`, `SupervisedAndRecorded` |
| `agents_live` | the same, with store errors, a deleted worker, failed spawns and exits | `Converges`, `CutOffStops` |
| `enrol` | 1 host, 3 tokens and 4 join requests, of which 1 and 2 are people's, 1 upset | `ConfiguredMeansEnrolled`, `ReportsAreTrue`, `ProvisionedOrTaken`; enrolment implements `EnrolmentLedger` |
| `projects` | 5 scenes of 1 or 2 projects, 2 requests at a time, 2 tasks, 1 agent, 1 template with 2 revisions, 1 issue | `ClosedProjectsDrain`, `PinsAreSettled`, `IssueStatusIsDecided`, `DrainedIsArchived` |

Bounds. Epochs are bounded by `MaxEpoch` (two are a fail-over, three a fail-over back to the first
instance); the requests a process handles at a time by `Slot`, and the handlers that run at all by
`MaxBusy`: two, so that every *pair* of handlers meets (dispatch against dispatch, cancel against
completion, sweep against event loop, in one process and across two), with statements of handlers
in flight while the lease moves or the process dies. One task is enough for properties of a single
row; the listing loops work on sets and are exercised with two tasks in `MCTaskControlRecovery.cfg`. Faults and
interventions from outside (store errors, lost connections, restarts, timeouts, an operator's cancel)
are chosen per run by `Faults`. In `CircuitBreaker`, `MaxSamples` (3, one more than `min_samples`)
bounds the results of a window: a circuit may stay closed with results in it, trip, and close again;
three dispatches are the two probes the circuit admits and one more. In `CircuitSync`, two handlers
of two processes publish at a time (`Handler`), so that moves, row writes and events of one process
cross each other as well as those of two; three events (`MaxEvents`) are one that is passed over
or overtaken, one that overtakes it, and one that decides after both; the theorem is for any number. In `TaskFlow`, two submissions are a successor and its predecessor or a call and its repetition;
`Configs` holds a limit of 1, where the older task is out of every list, beside one that never bites.
One upset (`MaxUpsets`) is a store error, a crash, a cancel or a deletion; three submissions were tried
for the invariants and show nothing new. In `AcpSessions`, two connections are a loss and a return with
dispatches of the first still under way. In `WorkerRows`, `MaxStamp` 2 is one restart or one
registration after a deletion; grace 1 lets a row expire after any beat that is missed. In `Agents`,
`MaxGeneration` 2 bounds the commands an agent is given (start and stop, or start and move),
`MaxHandlers` the handlers between read and statement (2, and 1 in `agents_live`), `MaxFaults` 1 the faults of a
behaviour: each one meets every state, no two of them meet. In `Provisioning`, one host means that every
request competes for one name: a run's first join, its repetition after a failure, and two made by hand,
which share a token with a single use (`MaxUses`) and so compete for that too; the two tokens beside it are
those a run and its repetition mint. `MaxGeneration` 2 is one rotation. `MaxUpsets` 1 is one broken session,
lost answer, expiry, revocation, rotation or deletion, at any point. In `Projects`, two requests at a time
(`Request`) are a pair on the same rows; `Scenes` says which kinds of request meet, since all of them at
once are more than TLC can visit: submissions and archives beside an agent; a project that is created,
given an agent and archived; submissions by a parent or an agent of either of two projects; agents against
template transactions; edits, transitions and links of an issue. `scene.lost` is the number of handlers
that are cut off; `MaxRevision` 2 is a revision to pin and one that is added
meanwhile, or the two of two people who publish at once.

`CHECK_DEADLOCK FALSE` where the system stops: once the last epoch is used up and nobody believes in
it, every process has stopped, every submission has settled, every dispatch has ended, the only
worker left has no row and goes on trying to register, the tokens and ids a run needs are used up
(`enrol`), or nothing is left to ask for (`projects`). `workers` checks for deadlock: time goes on.

Fairness. `lease`: the clock goes on; a live manager's timers fire and its answers arrive
(weak); a statement tried again and again is executed and observed some time (strong: the store is
not down for ever). `tasks_live`: handlers go on (weak), and the store answers a statement that is tried
again and again (strong: it may be away in between); the reconciler's
interval and the event loop get their turn (strong, because `MaxBusy` may make them wait); the agent
declares `session/list` and answers it some time (strong; the code leaves a task of an agent that
never declares it alone); executions end, since prompts have a timeout. No fairness on faults, on
the lease moving, or on new requests. `breaker`: time goes on; there is one more
task to dispatch at any time (the reconciler comes back to what is pending); a dispatch that selected
the worker reaches `check`; an execution ends, since prompts time out. Nothing has to be recorded,
and nobody has to reset a circuit. `flow`: weak fairness of the reconciler alone, which is a loop on an
interval; neither calls nor completions are needed. `acp`: the supervisor works off a loss, spawned
tasks go on and timers fire (weak, per task); an agent need not answer, and a connection need not come
back. `workers`: time passes, handlers that began go on, the scan runs on its interval, and a worker
that is up beats (weak). `agents_live`: a heartbeat handler that began goes on, and the heartbeat loop of
a worker is never left idle (weak, per worker; the service manager restarts a worker that ended).
`enrol`: a run proceeds, requests are served and their answers arrive or are lost (weak, per host and per request: each
step has a timeout), and a run that failed is started again, which is the operator's part and what
`ProvisionedOrTaken` asks of one; a command fails only as an upset. `projects`: a handler that began goes
on, tasks end, operators retire the agents of a project that closes (the answer `Draining` asks for it) and
ask again for the archive as long as it is draining (strong, since other requests may take the slot), and
the lease is not lost at every `archive_project_if_drained` that would go through (strong). No
fairness on operators, on exits, or on faults.

## 4. What is proved

For every set of processes, tasks and request places, every TTL and bound, and every choice of
faults. Assumptions: `NoOneAssumption`, `TtlAssumption`, `EpochBoundAssumption` (ControlLease),
`MaxEpochAssumption` (ControlAuthority), `TaskAssumption`, `NoneAssumption`, `SlotAssumption`,
`FaultsAssumption` (TaskControl), `DispatchAssumption` (finitely many dispatches),
`TimesAssumption`, `RatesAssumption` (CircuitBreaker), `TaskFlowAssumption`, `AcpSessionsAssumption`,
`WorkerRowsAssumption`, `AgentsAssumption`, `EnrolmentAssumption`, `ProvisioningAssumption` and
`ProjectsAssumption` (finitely many ids and handlers, since ids are counted). TLC evaluates each of them in
the runs of its module. None of the proofs uses that a bound is small.

`ControlLeaseProofs`. None of the properties is inductive: a late reply could name any epoch. The
invariant `IInv` adds what the row, the replies and the managers know of each other: a grant is
never ahead of the row and never shared, and the row's epoch is its holder's last grant
(`GrantsInv`); a reply names its receiver's last grant (`RepliesInv`); a manager renews or releases
its own last grant only, and is `Active` only while it renews (`ManagersInv`). From it:
`TypeCorrect`, `FenceIsTheHolders`, `StopGivesBack`, and `Refinement`, where an acquire is `Grant`,
expiry or release is `Lapse`, an observed success is `Learn`, every failure is `Forget`, and all
other steps stutter.

`TaskControlProofs`. The invariant is `TypeOK` and `FencesAreGranted`: what an instance believes is
at most its last grant, which is at most the row's epoch, and no handler carries a fence above its
instance's last grant. It is needed because a fenced statement is accepted when fence = epoch, and
only then does fence =< mine =< epoch give mine = epoch. There is a lemma per handler, and the
theorems `TypeCorrect`, `EndedStaysEnded` (`TerminalIsFinal`: no entry of `Transition` starts from
an ended phase), and `FencedWritesAreCurrent` (`FencedWritesAreTheHolders`). The other three need a
second invariant, `Fits`, because none of what they say is in the guard of the step that could break
it. A dispatch sends several steps after its claim: `SoleSender` and `ClaimFits` say that between them it
is the only one with a claim on the task, and that the task has not been executed (`TasksExecuteOnce`,
`ExecutedOnce`). The event loop writes under the fence it read, not the one of the execution: `RowFits` ties
the row's generation to the execution's, and `InboxFits` an event to an execution that is over
(`OutcomesKeepTheirGeneration`). The sweep judges an inventory that is older than its list of rows or
younger: `SweepFits` says that a listed row's session existed by the time the worker was asked, so that
one the worker does not hold has ended (`SweepIsSafe`). All of it goes handler by handler, through
every fault.

`WorkerLinkProofs`, the circuit. That few probes are *sent* within a cool-down does not follow from the number
of slots alone: slots are cleared when the circuit opens, while their probes run on. The invariant
adds `SlotsInv`: in HalfOpen every probe younger than the cool-down holds a slot, and slots are at
most the limit; in Open every such probe is at least as old as the opening, so that none is
left when `check` admits the first probe of the next round. The theorem is `ProbesAreBounded`
(`ProbesBounded`), with a lemma per call; closing needs nothing, since probes are only sent from Open
and HalfOpen. That a circuit trips only on results recorded since it closed (`TripsAreNew`,
`TripNeedsNewResults`) rests on `CountInv`: the window is emptied when the circuit closes, so that it holds
no more results than were counted since, unless enough of them were.

`TaskFlowProofs`. `DependenciesFirst` is not inductive: the handler that claims a task has looked at
one dependency after another, some steps ago. `FlowInv` says what a handler knows in between: its call
does not change any more, the dependencies that are not among those left have completed, and nothing is
left when it attempts the task; `completed` keeps what was seen, since rows are deleted. The theorem is
`PredecessorsComeFirst`. For `OneTaskPerKey` a second invariant, `KeyInv`, is proved under the first: two
rows never carry one key, only a task that was inserted is worked on or executed, and the id in a
successful answer was inserted under the key of the call (`KeysNameOneTask`). A third one, `TryInv`, is
about attempts: while nothing failed, a Pending task that waits for nothing was tried, or is on its way to
be, in the hands of its submit call or of the event loop (`TriedInv`, `Carries`). That is what the two
callers hand to each other: a submission that finds a predecessor not completed lets go only of a
task that does wait for it, and the completion that ends the wait is followed by a new list, which has every task with
fewer than `limit` newer ones. `HandlerMoves` and `OverTry` say it once for all handlers
(`NoReadyTaskFallsThrough`, `ReadyIsTried`); `FreshInv` and `ClaimedInv`, the rest of `TryInv`, give `ErrorsAreSettled`
(`RefusedIsSettled`). The fourth, `CountInv`, bounds the retries, which are counted by a statement
without a predicate: a sweep carries only tasks that were below the maximum when it listed them, and
attempts each once; a submit call counts once. So either of the two may count the last retry and then the
other one more, and never a third (`RetriesAreBounded`, with the types of everything else). All four go action by
action through submissions, lookups, sweeps, refusals, outcomes, deletions, store errors and crashes.

`WorkerLinkProofs`, the connection. `SessionsInv` ties three things together for each dispatch: where it stands and
whether the agent can still run (`AgentInv`); whether its entry is in the map, was drained, or has been
reported (`ReportInv`: an entry that is gone was removed by the dispatch itself or by `fail_all`, which
reports it); and the chunks on their way (`ChunksInv`: while there is an entry none is lost). That a lost
connection never carries again (`ConnectionInv`) makes `fail_all` and a late answer exclusive. It gives
`SessionsTypeCorrect`, `TheEndIsReported` (`DoneIsReported`), `OutputIsWhole` (`CompletedIsWhole`) and
`NobodyIsLeftRunning` (`NobodyRunsUntold`).

`WorkerLinkProofs`, the circuits of the other processes. `ProcessesAgree` speaks of moments when everything is
published and read, and says nothing of how they are reached. `SyncInv` does: every event but HalfOpen decides for
whoever applies it, whatever the circuits were, so that a process is either to apply a decision yet (`Awaits`: it
is owed to the log, or is in it beyond what was read, or in the batch), or its stream has passed over the last one
(`skipped`), or it is where the last decision of the log put it (`DecidedInv`). That rests on what was applied
coming before what is still in the batch (`StreamInv`), though not on the order in which events become visible:
a decision passed over does no harm as long as it is not the last one. HalfOpen leaves
suspicion as it was; as long as nothing was decided, entries and row agree on it as they did in the beginning
(`UndecidedInv`), which is what an entry made late of the row needs. Whatever is not visible yet has a handler that is about to commit it
(`LogInv`), so nothing stays invisible once all is published. And an entry is
missing only where nobody is reported as gone and nothing was applied (`EntriesInv`). The theorem is `ProcessesComeToAgree`.

`WorkerRowsProofs`. That the incarnation never goes back rests on every stale copy carrying stamps that
were given before (`StampsInv`) and on an upsert leaving the incarnation of a row alone
(`UpsertGiven`): `IncarnationsGrow` (`IncarnationNeverBack`). That a restart is noticed needs the
order of a registration too (`FormerInv`): from its lookup on it holds the row the former process left,
and by its upsert the incarnation was bumped (`RestartsShow`, `RestartIsNoticed`). The types are a theorem
as well (`RowTypes`): the foreign key of the hosts table is part of them, and no stale copy that is
written back breaks it. Stamps are typed as numbers without a bound, since a process whose row is
re-inserted older than it has to register again, any number of times.

`AgentsProofs`. None of the three properties is inductive, since each is about what a worker heard some
heartbeats ago, of a row that has moved on. `AgentsInv` says what may have happened in between: where the processes,
records and workspaces of an agent can be, by the stage of the heartbeat loop, and that only a start whose record
could not be written leaves a process without one (`LoopInv`); that
a worker waits for one heartbeat at a time, whose list names the row's command or one the row has since replaced
(`BeatsInv`); that nothing heard, listed or acknowledged is ahead of the row's generation, and
that what a worker still has to do is what it heard last (`HearingInv`); and that from the moment a stop is
heard nothing is started for the agent, and no acknowledgement is under way while its process is being
killed (`StopInv`). Steps are split into those that move rows and those a worker takes by itself, which keep different parts.
The theorems are `AgentsInvariance`, `AgentsTypeCorrect`, `ProcessesAreSupervised` (`SupervisedAndRecorded`),
`DeliveryIsHeard` (`DeliveredMeansHeard`) and `StopsAreObeyed` (`AckedStopIsStopped`).

`ProvisioningProofs`, enrolment. The refinement maps `Commit` to the ledger's `Enrol`, and every other statement of a
join to a stutter. For that `Commit` must find, steps later, what the statements before it saw: the
token still usable, the name still free, the id without a credential. None of it is in the commit's
guard. `EnrolmentInv` ties each request to the tables by its stage: from `Consume` on its token is live
with a use left and no other open request has it, from `InsertWorker` on its name is free and it is the only
one (both are the locks); an id has a credential exactly from its commit on, and a row exists only with an
id that had one. The theorems are `Invariance` and `EnrolmentIsAtomic` (`ImplementsLedger`); an upsert of a row that
was deleted in between is the ledger's `Relist`, the one step of registration that is not a stutter.

`ProvisioningProofs`, the playbook. Every step of a run, an upset or a join by hand is a step of `Enrolment` or leaves
its tables alone (`ProvisioningNextRefines`), so that `EnrolmentInv` and the refinement carry over
(`ProvisioningKeepsTheLedger`). `ProvisioningInv` adds where a run can be (`GoodRun`: a token it holds, a
request it waits for, a command its step has) and that a file, a service and a *copy* of a file name a
worker that was enrolled for the host (`Known`); the copy is what makes `ConfiguredMeansEnrolled`
inductive. The theorems are `ProvisioningTypes` and `HostsAreEnrolled`. That a success is one needs a
second invariant, `ReportInv`, because a run skips every step whose probe finds it applied, by an earlier
run or a join: past each command the run has on its host what the command is for, whoever put it there
(`Done`); the join a run waits for is its own (`OwnJoin`), and an answered join wrote the file of its
host (`DeliveredInv`). Files and services are never taken away, so that it lasts to the report. The `[mtls]`
section is: a join replaces the file without it. `MtlsInv` is therefore an invariant of its own: beyond the
command that writes the section (`Secured`), a run with mTLS has it in the file or its host is `replaced`. A run
gets there by writing it, or by a probe that found it (`ProbeKeeps`), and by no other step (`OthersKeep`).
The theorem is `SuccessMeansDone` (`ReportsAreTrue`).

`ProjectsProofs`. A handler of `Projects` is a row of statements, and what one of them found is not looked at
again by the next. `ProjectsInv` says, for each handler by its stage, what it may still rely on (`Fits`,
`FoundUnderLock`). Some of it lasts because rows only grow (`Grows`, `FitsLast`): a project once closed never
accepts again, an agent or a task that was there keeps its project, an issue stays filed. So a submission
that reaches its insert had its project accepted after it was asked for, by whichever of the five ways it
came by the project, and `barred` stays empty. The rest lasts because of locks: whoever holds a template is
alone with it (`LocksInv`), so that what a pin, a revision or a retirement saw is unchanged at its commit, although
none of the commits looks again (`FoundElsewhere`). `RoomInv` counts the ids promised to running handlers, so that an
insert finds one. Steps are split into those of one handler that move no row (`HandlerGoes`) and those that move
rows (`RowStep`). The theorems are `ProjectsInvariance`, `ProjectsTypeCorrect`, `ClosedProjectsStayDrained`
(`ClosedProjectsDrain`), `IssuesAreDecided` (`IssueStatusIsDecided`) and `PinsHold` (`PinsAreSettled`).

Proved and no longer checked by a run: the types of lease, tasks, breaker, task flow, ACP sessions, worker
rows, agents, provisioning and projects; those of `CircuitSync` (`SyncTypes`) are part of `SyncInv`.

Every safety property of the runs is a theorem. Only model-checked, and for good: `SurvivorTakesOver`,
`NamedDispatchEnds`, `HalfOpenNeverWedges`, `ReadyIsServed`, `PermitsComeBack`, `DeadIsNoticed`,
`AliveIsSeen`, `Converges`, `CutOffStops`, `DrainedIsArchived` and `ProvisionedOrTaken`: liveness under
fairness, and `ENABLED`, are out of the prover's reach.

## 5. Where the documents and the code disagree

Each line is a property stated as the text has it, with a configuration under which TLC finds a
behaviour of the code that violates it: `tlc -config MCTaskControlReclaim.cfg MCTaskControl`, and so on.

| property, configuration | the text | the code |
|---|---|---|
| `ExpiredMeansSilent`, `MCWorkerRowsSilent.cfg` | `health.rs`: the scan turns workers Offline that missed a number of heartbeats | a worker comes back from Offline; its heartbeat sets `last_seen` and then writes back the copy it read before, with the `last_seen` from before the outage. The next scan marks it Offline again, and so after every beat, while `reap_stale_dispatched` may fail its tasks |
| `SupersededNeverWrites`, `MCTaskControlSuperseded.cfg` | `lease.rs`: a `None` fence is not a permission to write without one; `execution-consistency.md`: the CLI cancel is the only unfenced path | a handler that passed the lease check and is fenced before its write reads `None`, and its statement has no epoch predicate at all |
| `RecoverySparesTheLiving`, `MCTaskControlRecovery.cfg` | `dispatcher.rs`: this path runs once per generation, so no task can have started since | two dispatches of a generation both ask; the later one fails a task the earlier one has just started |
| `CancelIsSentFirst`, `MCTaskControlCancel.cfg` | `dispatcher.rs`: a dispatched task is cancelled at the worker first | a task dispatched between cancel's read and its write is recorded `Cancelled`, and runs |
| `OrphanedDispatchEnds`, `MCTaskControlReclaim.cfg` | `execution-consistency.md`: the sweep recovers what was dispatched before a restart | a row whose session was never recorded is left alone as long as its worker is up |
| `OpenIsProbedAgain`, `MCCircuitBreakerReprobe.cfg` | `config.rs`: an open circuit goes to HalfOpen after `open_duration_secs` | it does so inside `check`, and `check` is called for selected workers only, which those with an open circuit never are. Without the filter in `Select` the property holds |
| `EverybodyAgrees`, `MCCircuitSyncGap.cfg` | `runtime.rs`: events of other instances are reflected in the local registry | `listen_events` goes on from the last number it read: an event that commits after a later number was read is never read, and when it was the last to decide, the processes stay apart. What holds is `ProcessesAgree` |
| `StartedMeansHeard`, `MCProvisioningHeard.cfg` | `start_services.rs`: after starting the service the step polls until a heartbeat arrives | the poll looks for a worker listed as online, and `join_worker` inserts its row as online: the wait is over before anything was heard |
| `RerunsFinishTheWork`, `MCProvisioningRerun.cfg` | `worker-provisioning.md`, `steps.rs`: a step may be applied again after it failed | a run that breaks between the join (or the `[mtls]` section) and its `chmod 600` is repeated without it: the step counts as applied, and the run succeeds with a file others can read |
| `MtlsIsInForce`, `MCProvisioningMtls.cfg` | `configure_mtls.rs`: the step makes the worker's configuration mTLS | `start_services` is skipped while the service is active: a host provisioned without mTLS and again with it goes on without, until somebody restarts the service |

More, read off the code while it was modelled, and shown by no configuration:

* `dispatcher.rs` says of inventory-first that it cannot be violated, structurally; but
  `ensure_worker_recovered` inserts the worker into the ledger, and the claim reads its fence, without
  looking whether the generation is still the one that was asked under.
* `breaker.rs` says at most `half_open_max_probes` concurrent probes; a probe that runs longer than
  the cool-down loses its slot, and another one is sent. What holds is `ProbesBounded`.
* `config.rs` says that with `enabled = false` every worker passes; nobody reads `enabled`, so the
  model has no such parameter.
* `placement.rs` says that `workers.circuit_state` lags one write behind the registry; it may stay
  behind for good, since `WorkerLeft` resets the registries and not the row, and since row writes of
  two handlers overtake each other. For the same reason `ProcessesAgree` is claimed of a worker that
  is reported as gone, and of one whose entry is made late out of the row, but not of both at once
  (`incident`).
* `PgStore::list_tasks` applies its limit (at most 1000, newest first) to all rows and filters by status
  afterwards, in memory; `MemStore` filters first. `reconcile.rs` sets the limit to 1000 so that the loop
  misses none of a large number of stale tasks; it misses every one that is older than 1000 rows of any
  phase. `ReadyIsTried` and `ReadyIsServed` are claimed of the newest `Limit` rows (`Scanned`).
* The event loop dispatches whatever is ready, however young: it may claim a task whose submit call is
  still on its way, and that call answers its client an error (`NotPending`) although the task runs. The
  comment at `NotPending` speaks of a cancel or another instance. With retries enabled, a missing skill or
  a worker that cannot be asked makes submit answer an error while the row stays Pending and may run
  later; `RefusedIsSettled` is claimed of a process without retries.
* `reconcile.rs` says of the errors it does not count that they are transport errors and `NotPending`; a
  missing skill and a failed recovery are among them too, and such a task stays Pending for ever without a
  dead letter (`excused` in `ReadyIsServed`).
* `fail_all` copies the map, and reports every copied task, also one whose dispatch has reported its own
  failure in between; a comment in `dispatch` says that a task is reported Failed at most once.
* `fleet-api`'s heartbeat says that an unhealthy agent turns a worker Degraded but leaves Offline alone;
  the condition excludes Draining only. (Leaving Offline alone would keep a worker with an unhealthy agent
  Offline for ever: the mutant of `AliveIsSeen`.)
* `health.rs` names Online and Degraded as what the scan lists; the code lists Draining too, which
  `DeadIsNoticed` needs.
* `register_worker` treats a row that disappeared before the bump "as a fresh registration", but inserts
  the old incarnation it had read; a heartbeat or a scan that read the row may likewise insert it again
  after a deregistration.
* `health.rs` says that an on_demand worker is not judged. A scan that read the row of a periodic process
  writes it back over the registration of an on_demand one, as Offline and periodic; no heartbeat takes
  that back.
* The placement predicate looks at the *observed* status: an agent that was started and not yet observed
  may be moved, and two workers run it until the first one's next beat.
* `set_agent_desired_status` does not look at the status column: a start that overtakes a stop makes a
  retired agent run again; once it is acknowledged and dropped, its workspace is never removed.
* `heartbeat_once` takes its buffers before it sends. Acknowledgements and observations are made anew;
  orphan and fence reports are lost with a failing beat, against the comment that wants them kept.
* A worker registers before it sweeps: after a crash, while the control plane cannot be reached or has
  deleted the worker's row, the processes of the previous incarnation run without supervision.
  `CutOffStops` is therefore claimed of a worker whose loop runs.
* `sweep_stale_incarnation` removes a record whether or not the kill went through; `terminate` in the
  watchdog keeps it, so that the next sweep "tries again", and that sweep tries once. What it could not kill
  runs on with nothing that points to it (`stray`), and the agent is started beside it.
* The default SSH user is `ubuntu` (`inventory.rs`, `main.rs`), and `join_worker`'s `is_applied` reads
  `/etc/fleet/worker.toml` without `sudo`, where `configure_mtls` uses it. Once the file is root's alone,
  such a user finds the step not applied, joins again and meets its own worker's name: a conflict, against
  the module's section on idempotence. The model's user is one who can read the file.
* `advance_project_archive` reads the status and writes `draining` with a statement that looks at nothing but
  the fence: a request that read `active` takes a project that was archived in between back to draining. It
  is archived again (`DrainedIsArchived`). `project_rules.rs` closes the window between the gates and the
  archive by putting both in one statement; the window between a submission's check and its insert stays, and
  a row that was checked in time is alive under an archived project (`late` in `ClosedProjectsDrain`).
* `update_agent_template_status` writes by id alone: a change to deprecated that was checked before a
  retirement is written after it, and the template accepts pins again, although `retired` has no way out in
  `allowed_transitions`.
* `update_issue_fields` writes back every field of the row the handler read: of two edits at once the later
  one undoes the earlier. Status and reason are not among the fields (`IssueStatusIsDecided`).
* A join whose answer was lost leaves a worker that is listed as online until the scan gives it up, with a
  credential nobody has; `TakenByTheLost` is the way out that `ProvisionedOrTaken` has to allow. The
  step's comment leaves it to an operator's decision, and the model has that decision
  (`Deregister`, as an upset).

## 6. Mutants

Each property has a mutant: an operator marked `Mutant:` beside the definition it changes, a bug
that could have been written (a dropped predicate, an epoch not incremented, an error taken for an
empty inventory), under which the run of that property fails. Nothing else uses these operators.

## 7. Not modelled, and the plan

Not modelled at all: administrators' API tokens and sessions, the contents of credentials and their
encryption, host inventories, tag filters and dry runs of the provisioner, the tunnel (cloudflared),
decoding, rendering and authorisation in the API, MCP server and dashboard, label, model and credential
filters and ranking (pure predicates), and records that one statement writes and nothing decides by
(threads, audit, output chunks). Most of the source that no definition maps is of this
kind; `MemStore` is a second implementation of the same statements for tests.

Partly modelled: `PROJECT.json` "components" says of each what is missing. Of the circuits these are
lost appends and restarts of a process.

Next, in this order:

1. `OrphanSessions`: `reap_orphan_sessions`, the mirror image of the sweep (sessions no live task
   names), composed with `TaskControl`; closes the hazard of cancels that reach nobody.
2. `Placement` as an abstract specification (an agent's processes are where its row was) which `Agents`
   implements.
3. `RunningGauge`, if anything comes to read it.
