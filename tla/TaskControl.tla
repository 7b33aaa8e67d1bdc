------------------------------ MODULE TaskControl ------------------------------
(***************************************************************************)
(* The control plane's handling of tasks: every handler of an orchestrator *)
(* process that moves a task row or talks to the worker that runs it.      *)
(*                                                                         *)
(* A process runs many handlers at once: requests (dispatch and cancel) in *)
(* the places of Slot, the event loop of the dispatcher in "loop", and the *)
(* reconciler in "sweep".  A handler is cut at every await: it reads       *)
(* something, and uses it one or more steps later.  A store write is two   *)
(* steps: the handler reads its fence and sends the statement, and the     *)
(* statement takes effect later, possibly after the handler's process      *)
(* died.                                                                   *)
(*                                                                         *)
(* The lease is seen through module ControlAuthority.  One worker runs     *)
(* the executions; the recovery ledger and the inventory are kept per      *)
(* worker and no handler compares two of them.                             *)
(***************************************************************************)
EXTENDS ControlAuthority, TaskStore, SequencesExt

CONSTANTS
    Task,       \* tasks, all submitted and Pending at the start
    Slot,       \* bound: requests one process handles at the same time
    MaxBusy,    \* bound: handlers that run at the same time, in all processes
    None,       \* no task, no instance
    Faults      \* which of the faults and outside interventions below happen

ASSUME TaskAssumption == IsFiniteSet(Task)
ASSUME NoneAssumption == None \notin Task \cup Instance
ASSUME SlotAssumption == Slot \cap {"loop", "sweep"} = {}
ASSUME FaultsAssumption ==
    Faults \subseteq {"crash", "store", "lag", "connection", "offline", "restart",
                       "timeout", "operator"}

VARIABLES
    task,       \* the rows of the tasks table
    job,        \* job[i][p]: the handler in place p of process i
    ledger,     \* ledger[i]: Dispatcher::recovered_workers
    inbox,      \* inbox[i]: transport events its event loop has not taken yet
    up,         \* the processes that have not died
    exec,       \* exec[t]: the execution of t on the worker, and who sent it
    routed,     \* tasks whose session is in its sender's in-flight map
    worker,     \* "online", or "offline" for longer than the grace period
    outlived    \* tasks dispatched before the worker's current incarnation

controlVars == <<task, job, ledger, inbox>>
workerVars == <<exec, routed, worker, outlived>>
vars == <<authorityVars, controlVars, up, workerVars>>

allButJob == <<authorityVars, task, ledger, inbox, up, workerVars>>

Place == Slot \cup {"loop", "sweep"}

Move(from, to, origin) == [from |-> from, to |-> to, origin |-> origin]
Decision(from, to) == Move(from, to, "ControlDecision")
Outcome(to) == Move({"Dispatched"}, to, "WorkerOutcome")

(* The status statements, by the step of the handler that waits for one.   *)
Transition ==
    [claiming            |-> Decision({"Pending"}, "Dispatched"),
     givingUp            |-> Decision({"Pending"}, "Failed"),
     deadLettering       |-> Decision({"Pending"}, "Failed"),
     sendFailing         |-> Decision({"Dispatched"}, "Failed"),
     recoverFailing      |-> Decision({"Dispatched"}, "Failed"),
     vanishFailing       |-> Decision({"Dispatched"}, "Failed"),
     lostFailing         |-> Decision({"Dispatched"}, "Failed"),
     cancelling          |-> Decision({"Pending", "Dispatched"}, "Cancelled"),
     signalledCancelling |-> Decision({"Pending", "Dispatched"}, "Cancelled"),
     completing          |-> Outcome("Completed"),
     failing             |-> Outcome("Failed")]

InFlight == DOMAIN Transition \cup {"recording"}

Step == InFlight \cup
    {"idle", "recover", "ask", "list", "reap", "claim", "send",
     "cancelRead", "cancelSignal", "completed", "failed",
     "sweep", "judge"}

(***************************************************************************)
(* A handler: the task it was called for; the row its statement in flight  *)
(* is about and the fence that statement carries; the listed tasks it has  *)
(* still to judge; the sessions it judges them by (recovery: those the     *)
(* worker reported; sweep: those named by listed rows, then the ones of    *)
(* them the worker no longer holds); and whether this sweep has asked.     *)
(***************************************************************************)
Job == [step : Step, task : Task \cup {None}, on : Task \cup {None}, fence : Nat,
        listed : SUBSET Task, sessions : SUBSET Task, asked : BOOLEAN]

Idle == [step |-> "idle", task |-> None, on |-> None, fence |-> NoFence,
         listed |-> {}, sessions |-> {}, asked |-> FALSE]

Event == [kind : {"opened", "completed", "failed"}, task : Task]

TypeOK ==
    /\ AuthorityTypeOK
    /\ task \in [Task -> TaskRow]
    /\ job \in [Instance -> [Place -> Job]]
    /\ ledger \in [Instance -> [generation : Nat, asked : BOOLEAN]]
    /\ inbox \in [Instance -> Seq(Event)]
    /\ up \subseteq Instance
    /\ exec \in [Task -> [by : Instance \cup {None}, generation : Nat,
                          state : {"none", "opening", "open", "ended"}]]
    /\ routed \subseteq Task
    /\ worker \in {"online", "offline"}
    /\ outlived \subseteq Task

NewLedger == [generation |-> NoFence, asked |-> FALSE]

Init ==
    /\ AuthorityInit
    /\ task = [t \in Task |-> NewRow]
    /\ job = [i \in Instance |-> [p \in Place |-> Idle]]
    /\ ledger = [i \in Instance |-> NewLedger]
    /\ inbox = [i \in Instance |-> <<>>]
    /\ up = Instance
    /\ exec = [t \in Task |-> [by |-> None, generation |-> NoFence, state |-> "none"]]
    /\ routed = {}
    /\ worker = "online"
    /\ outlived = {}

-----------------------------------------------------------------------------
(* FleetState::control_fence: no fence at all unless the lease is Active.  *)
ControlFence(i) == belief[i]

At(i, p, step) == i \in up /\ job[i][p].step = step
Become(i, p, j) == job' = [job EXCEPT ![i][p] = j]
Goto(i, p, step) == Become(i, p, [job[i][p] EXCEPT !.step = step])

(* The handler reads its fence and sends a statement about row t.          *)
Write(i, p, step, t) ==
    Become(i, p, [job[i][p] EXCEPT !.step = step, !.on = t, !.fence = ControlFence(i)])

(* A sweep is done with listed task t.                                     *)
Judged(j, t) ==
    IF j.listed = {t} THEN Idle ELSE [j EXCEPT !.step = "judge", !.listed = @ \ {t},
                                              !.on = None, !.fence = NoFence]

(* Mutant: the outcome of the claim is not looked at.                      *)
MaySendUnclaimed(j, applied) == j.step = "claiming"

(* Only who moved the row to Dispatched sends the task to the worker.      *)
MaySend(j, applied) == j.step = "claiming" /\ applied

(* What the handler does once its statement is answered.                   *)
Answered(j, applied) ==
    CASE MaySend(j, applied) -> [j EXCEPT !.step = "send", !.on = None]
      [] j.step = "recoverFailing" ->
            [j EXCEPT !.step = "reap", !.listed = @ \ {j.on}, !.on = None,
                      !.fence = NoFence]
      [] j.step \in {"vanishFailing", "lostFailing"} -> Judged(j, j.on)
      [] j.step = "deadLettering" -> [Idle EXCEPT !.step = "sweep"]
      [] OTHER -> Idle

(* A process that died after sending a statement hears no answer.          *)
Hear(i, p, applied) ==
    Become(i, p, IF i \in up THEN Answered(job[i][p], applied) ELSE Idle)

(***************************************************************************)
(* compare_and_set_task_status takes effect.  The connection to the store  *)
(* may be lost before the handler hears that it did.                       *)
(***************************************************************************)
StatusStatement(i, p) ==
    LET j == job[i][p]
        move == Transition[j.step]
        applied == CasOutcome(task[j.on], epoch, move.from, j.fence, move.origin)
                        = "Applied"
    IN /\ j.step \in DOMAIN Transition
       /\ task' = IF applied
                  THEN [task EXCEPT ![j.on] = Moved(@, move.to, j.fence)]
                  ELSE task
       /\ \/ Hear(i, p, applied)
          \/ "store" \in Faults /\ Hear(i, p, FALSE)
       /\ UNCHANGED <<authorityVars, ledger, inbox, up, workerVars>>

(* record_task_acp_session takes effect.                                   *)
SessionStatement(i, p) ==
    LET j == job[i][p]
    IN /\ j.step = "recording"
       /\ task' = IF SessionRecordable(task[j.on], epoch, j.fence)
                  THEN [task EXCEPT ![j.on].session = TRUE]
                  ELSE task
       /\ Become(i, p, Idle)
       /\ UNCHANGED <<authorityVars, ledger, inbox, up, workerVars>>

(* The store is not reached, and the statement never takes effect.         *)
StatementFails(i, p) ==
    /\ "store" \in Faults
    /\ job[i][p].step \in InFlight
    /\ Hear(i, p, FALSE)
    /\ UNCHANGED <<authorityVars, task, ledger, inbox, up, workerVars>>

-----------------------------------------------------------------------------
(* One more handler may run.                                               *)
Room == Cardinality({h \in Instance \X Place : job[h[1]][h[2]] # Idle}) < MaxBusy

(* Dispatcher::dispatch_existing, from its lease check, for a task that    *)
(* was just submitted, or that the reconciler just listed as Pending.      *)
DispatchBegins(i, s, t) ==
    /\ At(i, s, "idle") /\ Room
    /\ task[t].phase = "Pending"
    /\ AllowsControl(i)
    /\ Become(i, s, [Idle EXCEPT !.step = "recover", !.task = t])
    /\ UNCHANGED allButJob

(***************************************************************************)
(* 3., 4., 4.5, 4.7: no worker, circuit open, the inventory could not be   *)
(* read, or a skill is missing.  The task is given up at the first         *)
(* submission if retries are off, and left Pending otherwise.              *)
(***************************************************************************)
DispatchRefused(i, s) ==
    /\ \E step \in {"recover", "ask", "claim"} : At(i, s, step)
    /\ \/ Write(i, s, "givingUp", job[i][s].task)
       \/ Become(i, s, Idle)
    /\ UNCHANGED allButJob

(* ensure_worker_recovered: has this control generation asked the worker?  *)
RecoverWorker(i, s) ==
    LET current == IF ledger[i].generation = ControlFence(i)
                   THEN ledger[i]
                   ELSE [NewLedger EXCEPT !.generation = ControlFence(i)]
    IN /\ At(i, s, "recover")
       /\ ledger' = [ledger EXCEPT ![i] = current]
       /\ Goto(i, s, IF current.asked THEN "claim" ELSE "ask")
       /\ UNCHANGED <<authorityVars, task, inbox, up, workerVars>>

(* The sessions the worker holds (session/list).                           *)
Held == {t \in Task : exec[t].state = "open"}

(* list_sessions answers: an inventory, or nothing one can judge by.       *)
AskInventory(i, s) ==
    /\ At(i, s, "ask")
    /\ worker = "online"
    /\ \/ Become(i, s, [job[i][s] EXCEPT !.step = "list", !.sessions = Held])
       \/ Goto(i, s, "reap")
    /\ UNCHANGED allButJob

(* reap_vanished_on_worker lists after the worker has answered; if it      *)
(* cannot list, it reaps nothing, and the worker counts as asked.          *)
ListForRecovery(i, s) ==
    /\ At(i, s, "list")
    /\ \/ Become(i, s, [job[i][s] EXCEPT
               !.step = "reap",
               !.listed = {t \in Task : task[t].phase = "Dispatched" /\ task[t].session}
                             \ job[i][s].sessions,
               !.sessions = {}])
       \/ /\ "store" \in Faults
          /\ Become(i, s, [job[i][s] EXCEPT !.step = "reap", !.sessions = {}])
    /\ UNCHANGED allButJob

ReapVanished(i, s) ==
    /\ At(i, s, "reap")
    /\ \E t \in job[i][s].listed : Write(i, s, "recoverFailing", t)
    /\ UNCHANGED allButJob

(* The worker counts as asked, in whichever generation the ledger is now.  *)
MarkAsked(i, s) ==
    /\ At(i, s, "reap")
    /\ job[i][s].listed = {}
    /\ ledger' = [ledger EXCEPT ![i].asked = TRUE]
    /\ Goto(i, s, "claim")
    /\ UNCHANGED <<authorityVars, task, inbox, up, workerVars>>

(* 5. The compare-and-set that takes the task.                             *)
Claim(i, s) ==
    /\ At(i, s, "claim")
    /\ Write(i, s, "claiming", job[i][s].task)
    /\ UNCHANGED allButJob

(* 6. AcpTransport::dispatch: the request leaves for the worker ...        *)
Send(i, s) ==
    LET j == job[i][s]
    IN /\ At(i, s, "send")
       /\ worker = "online"
       /\ exec' = [exec EXCEPT ![j.task] =
                      [by |-> i, generation |-> j.fence, state |-> "opening"]]
       /\ Become(i, s, Idle)
       /\ UNCHANGED <<authorityVars, task, ledger, inbox, up, routed, worker, outlived>>

(* ... or not: bad request, not connected, at capacity.                    *)
SendFails(i, s) ==
    /\ At(i, s, "send")
    /\ Write(i, s, "sendFailing", job[i][s].task)
    /\ UNCHANGED allButJob

-----------------------------------------------------------------------------
(* Dispatcher::cancel (a call for an ended task changes nothing).          *)
CancelBegins(i, s, t) ==
    /\ At(i, s, "idle") /\ Room
    /\ AllowsControl(i)
    /\ task[t].phase \notin Terminal
    /\ Become(i, s, [Idle EXCEPT !.step = "cancelRead", !.task = t])
    /\ UNCHANGED allButJob

(* get_task: an ended task is refused, a Dispatched one is signalled first.*)
CancelReads(i, s) ==
    LET t == job[i][s].task
    IN /\ At(i, s, "cancelRead")
       /\ \/ task[t].phase \in Terminal /\ Become(i, s, Idle)
          \/ task[t].phase = "Dispatched" /\ Goto(i, s, "cancelSignal")
          \/ task[t].phase = "Pending" /\ Write(i, s, "cancelling", t)
       /\ UNCHANGED allButJob

(***************************************************************************)
(* transport.cancel, best effort: a notification without an answer.  What  *)
(* the worker does with it is ExecutionEnds, which needs no cause.         *)
(***************************************************************************)
CancelSignals(i, s) ==
    /\ At(i, s, "cancelSignal")
    /\ Write(i, s, "signalledCancelling", job[i][s].task)
    /\ UNCHANGED allButJob

(* `fleet tasks cancel`: an operator's process, no lease and no fence.     *)
OperatorCancels(t) ==
    /\ "operator" \in Faults
    /\ CasOutcome(task[t], epoch, {"Pending", "Dispatched"}, NoFence,
                  "ControlDecision") = "Applied"
    /\ task' = [task EXCEPT ![t] = Moved(@, "Cancelled", NoFence)]
    /\ UNCHANGED <<authorityVars, job, ledger, inbox, up, workerVars>>

-----------------------------------------------------------------------------
(***************************************************************************)
(* Dispatcher::handle_worker_event, one event at a time.  Completed and    *)
(* Failed are dropped without the lease; SessionOpened is recorded under   *)
(* whatever fence there is.                                                *)
(***************************************************************************)
TakeEvent(i) ==
    /\ At(i, "loop", "idle") /\ Room
    /\ inbox[i] # <<>>
    /\ inbox' = [inbox EXCEPT ![i] = Tail(@)]
    /\ LET event == Head(inbox[i])
       IN CASE event.kind = "opened" -> Write(i, "loop", "recording", event.task)
            [] event.kind # "opened" /\ AllowsControl(i) ->
                 Become(i, "loop", [Idle EXCEPT !.step = event.kind, !.task = event.task])
            [] OTHER -> UNCHANGED job
    /\ UNCHANGED <<authorityVars, task, ledger, up, workerVars>>

(* After the circuit breaker was updated, the outcome is written.          *)
RecordOutcome(i) ==
    /\ \/ At(i, "loop", "completed") /\ Write(i, "loop", "completing", job[i]["loop"].task)
       \/ At(i, "loop", "failed") /\ Write(i, "loop", "failing", job[i]["loop"].task)
    /\ UNCHANGED allButJob

-----------------------------------------------------------------------------
(* Reconciler::reconcile_once.                                             *)
SweepBegins(i) ==
    /\ At(i, "sweep", "idle") /\ Room
    /\ AllowsControl(i)
    /\ Goto(i, "sweep", "sweep")
    /\ UNCHANGED allButJob

(* Retries exhausted.                                                      *)
DeadLetter(i, t) ==
    /\ At(i, "sweep", "sweep")
    /\ task[t].phase = "Pending"
    /\ Write(i, "sweep", "deadLettering", t)
    /\ UNCHANGED allButJob

(* reap_stale_dispatched: the rows are listed before the worker is asked.  *)
SweepLists(i) ==
    LET dispatched == {t \in Task : task[t].phase = "Dispatched"}
    IN /\ At(i, "sweep", "sweep")
       /\ Become(i, "sweep",
                 IF dispatched = {} THEN Idle
                 ELSE [job[i]["sweep"] EXCEPT
                         !.step = "judge", !.listed = dispatched,
                         !.sessions = {t \in dispatched : task[t].session}])
       /\ UNCHANGED allButJob

(* The worker's row gives t up: restarted since, or offline for too long.  *)
LostWithWorker(t) == worker = "offline" \/ t \in outlived

JudgeLost(i) ==
    /\ At(i, "sweep", "judge")
    /\ \E t \in job[i]["sweep"].listed :
         LostWithWorker(t) /\ Write(i, "sweep", "lostFailing", t)
    /\ UNCHANGED allButJob

(* Mutant: no answer counts as an answer that names no session.            *)
SweepAsksErrorIsEmpty(i) ==
    LET j == job[i]["sweep"]
    IN /\ At(i, "sweep", "judge")
       /\ ~j.asked
       /\ \E t \in j.listed : ~LostWithWorker(t) /\ t \in j.sessions
       /\ \E absent \in {j.sessions \ Held, j.sessions} :
            Become(i, "sweep", [j EXCEPT !.asked = TRUE, !.sessions = absent])
       /\ UNCHANGED allButJob

(* Once per sweep and only when needed.  Without an answer one can judge   *)
(* by (undeclared, refused, not reached) no session counts as vanished.    *)
SweepAsks(i) ==
    LET j == job[i]["sweep"]
    IN /\ At(i, "sweep", "judge")
       /\ ~j.asked
       /\ \E t \in j.listed : ~LostWithWorker(t) /\ t \in j.sessions
       /\ \E absent \in {j.sessions \ Held, {}} :
            Become(i, "sweep", [j EXCEPT !.asked = TRUE, !.sessions = absent])
       /\ UNCHANGED allButJob

JudgeVanished(i) ==
    LET j == job[i]["sweep"]
    IN /\ At(i, "sweep", "judge")
       /\ j.asked
       /\ \E t \in j.listed \cap j.sessions :
            ~LostWithWorker(t) /\ Write(i, "sweep", "vanishFailing", t)
       /\ UNCHANGED allButJob

(* Still held, or no session to look for: "ignorance, not absence".        *)
JudgeSpared(i) ==
    LET j == job[i]["sweep"]
    IN /\ At(i, "sweep", "judge")
       /\ \E t \in j.listed \ j.sessions :
            ~LostWithWorker(t) /\ Become(i, "sweep", Judged(j, t))
       /\ UNCHANGED allButJob

-----------------------------------------------------------------------------
(* What the transport tells the process that sent t, while it lives.       *)
Tell(t, kind) ==
    inbox' = IF exec[t].by \in up
             THEN [inbox EXCEPT ![exec[t].by] = Append(@, [kind |-> kind, task |-> t])]
             ELSE inbox

allButTransport == <<authorityVars, task, job, ledger, up, worker, outlived>>

(* session/new is answered: the session enters the in-flight map.          *)
SessionOpens(t) ==
    /\ exec[t].state = "opening"
    /\ worker = "online"
    /\ exec' = [exec EXCEPT ![t].state = "open"]
    /\ routed' = IF exec[t].by \in up THEN routed \cup {t} ELSE routed
    /\ Tell(t, "opened")
    /\ UNCHANGED allButTransport

(* session/new is refused or times out.                                    *)
SessionRefused(t) ==
    /\ exec[t].state = "opening"
    /\ exec' = [exec EXCEPT ![t].state = "ended"]
    /\ Tell(t, "failed")
    /\ UNCHANGED <<allButTransport, routed>>

(* session/prompt is answered, with a result or an error.                  *)
ExecutionEnds(t) ==
    /\ exec[t].state = "open"
    /\ exec' = [exec EXCEPT ![t].state = "ended"]
    /\ routed' = routed \ {t}
    /\ IF t \in routed
       THEN Tell(t, "completed") \/ Tell(t, "failed")
       ELSE UNCHANGED inbox
    /\ UNCHANGED allButTransport

(* The prompt times out; the execution may well go on.                     *)
PromptTimesOut(t) ==
    /\ "timeout" \in Faults
    /\ t \in routed
    /\ routed' = routed \ {t}
    /\ Tell(t, "failed")
    /\ UNCHANGED <<allButTransport, exec>>

-----------------------------------------------------------------------------
(* fail_all of one process: every in-flight session is reported lost.      *)
Lost(i) == {t \in routed : exec[t].by = i}

(* One event per session, in the arbitrary order of the hash map.          *)
Reports(kind, about) ==
    {[n \in 1 .. Len(order) |-> [kind |-> kind, task |-> order[n]]] :
        order \in SetToSeqs(about)}

(* An answer that arrived just before the loss is still reported after it: *)
(* only a failed prompt looks whether fail_all took its session first.     *)
ConnectionLost(i) ==
    /\ "connection" \in Faults
    /\ Lost(i) # {}
    /\ routed' = routed \ Lost(i)
    /\ \E answered \in SUBSET Lost(i) :
         /\ \E lost \in Reports("failed", Lost(i)), late \in Reports("completed", answered) :
              inbox' = [inbox EXCEPT ![i] = @ \o lost \o late]
         /\ exec' = [t \in Task |-> IF t \in answered
                                   THEN [exec[t] EXCEPT !.state = "ended"] ELSE exec[t]]
    /\ UNCHANGED allButTransport

AllConnectionsLost ==
    /\ routed' = {}
    /\ \E lost \in [Instance -> UNION {Reports("failed", Lost(i)) : i \in Instance}] :
         /\ \A i \in Instance : lost[i] \in Reports("failed", Lost(i))
         /\ inbox' = [i \in Instance |-> inbox[i] \o lost[i]]
    /\ UNCHANGED <<authorityVars, task, job, ledger, up>>

(* The worker is cut off for longer than the grace period ...              *)
WorkerOffline ==
    /\ "offline" \in Faults /\ worker = "online"
    /\ worker' = "offline"
    /\ AllConnectionsLost
    /\ UNCHANGED <<exec, outlived>>

(* ... and comes back with the sessions it had.                            *)
WorkerOnline ==
    /\ worker = "offline"
    /\ worker' = "online"
    /\ UNCHANGED <<authorityVars, task, job, ledger, inbox, up, exec, routed, outlived>>

(* The worker process restarts under its name: a new incarnation.          *)
WorkerRestarts ==
    /\ "restart" \in Faults
    /\ exec' = [t \in Task |-> IF exec[t].state \in {"opening", "open"}
                               THEN [exec[t] EXCEPT !.state = "ended"] ELSE exec[t]]
    /\ outlived' = {t \in Task : task[t].phase = "Dispatched"}
    /\ worker' = "online"
    /\ AllConnectionsLost

(* A slow subscriber of the event broadcast loses its oldest event.        *)
EventLagged(i) ==
    /\ "lag" \in Faults
    /\ inbox[i] # <<>>
    /\ inbox' = [inbox EXCEPT ![i] = Tail(@)]
    /\ UNCHANGED <<authorityVars, task, job, ledger, up, workerVars>>

(* A process dies for good; its restart is another instance.  What it had  *)
(* sent to the store may still take effect.                                *)
Crash(i) ==
    /\ "crash" \in Faults
    /\ i \in up
    /\ up' = up \ {i}
    /\ Forget(i)
    /\ job' = [job EXCEPT ![i] = [p \in Place |-> IF job[i][p].step \in InFlight
                                                 THEN job[i][p] ELSE Idle]]
    /\ ledger' = [ledger EXCEPT ![i] = NewLedger]
    /\ inbox' = [inbox EXCEPT ![i] = <<>>]
    /\ routed' = routed \ Lost(i)
    /\ UNCHANGED <<task, exec, worker, outlived>>

(* The lease under the handlers' feet.                                     *)
AuthorityMoves ==
    /\ \/ Lapse
       \/ \E i \in up : Grant(i) \/ Learn(i) \/ Forget(i)
    /\ UNCHANGED <<controlVars, up, workerVars>>
-----------------------------------------------------------------------------
Statement(i, p) ==
    StatusStatement(i, p) \/ SessionStatement(i, p) \/ StatementFails(i, p)

Request(i, s) ==
    \/ \E t \in Task : DispatchBegins(i, s, t) \/ CancelBegins(i, s, t)
    \/ DispatchRefused(i, s)
    \/ RecoverWorker(i, s) \/ AskInventory(i, s) \/ ListForRecovery(i, s)
    \/ ReapVanished(i, s) \/ MarkAsked(i, s) \/ Claim(i, s)
    \/ Send(i, s) \/ SendFails(i, s)
    \/ CancelReads(i, s) \/ CancelSignals(i, s)

EventLoop(i) == TakeEvent(i) \/ RecordOutcome(i)

Judge(i) == JudgeLost(i) \/ SweepAsks(i) \/ JudgeVanished(i) \/ JudgeSpared(i)

Sweep(i) ==
    \/ SweepBegins(i) \/ SweepLists(i) \/ Judge(i)
    \/ \E t \in Task : DeadLetter(i, t)

Worker ==
    \/ \E t \in Task : SessionOpens(t) \/ SessionRefused(t)
                       \/ ExecutionEnds(t) \/ PromptTimesOut(t)
    \/ WorkerOffline \/ WorkerOnline \/ WorkerRestarts

Next ==
    \/ \E i \in Instance :
         \/ \E p \in Place : Statement(i, p)
         \/ \E s \in Slot : Request(i, s)
         \/ EventLoop(i) \/ Sweep(i)
         \/ ConnectionLost(i) \/ EventLagged(i) \/ Crash(i)
    \/ \E t \in Task : OperatorCancels(t)
    \/ Worker
    \/ AuthorityMoves

Spec == Init /\ [][Next]_vars

(* What a request does on its own, once begun.                             *)
RequestGoesOn(i, s) ==
    \/ RecoverWorker(i, s) \/ AskInventory(i, s) \/ ListForRecovery(i, s)
    \/ ReapVanished(i, s) \/ MarkAsked(i, s) \/ Claim(i, s)
    \/ Send(i, s) \/ SendFails(i, s) \/ DispatchRefused(i, s)
    \/ CancelReads(i, s) \/ CancelSignals(i, s)

(* The worker answers session/list with an inventory.                      *)
InventoryReported(i) ==
    /\ SweepAsks(i)
    /\ job'[i]["sweep"].sessions = job[i]["sweep"].sessions \ Held

(***************************************************************************)
(* Handlers go on, and the store answers a statement that is tried again   *)
(* and again (strong fairness: it may be away in between); the reconciler's *)
(* interval timer fires again and again (strong, since MaxBusy may make it *)
(* wait); the worker declares session/list and answers it some time; and   *)
(* no execution, and no opening of a session, takes for ever.              *)
(***************************************************************************)
Fairness ==
    /\ \A i \in Instance :
         /\ \A p \in Place : SF_vars(StatusStatement(i, p) \/ SessionStatement(i, p))
         /\ \A s \in Slot : WF_vars(RequestGoesOn(i, s))
         /\ SF_vars(TakeEvent(i)) /\ WF_vars(RecordOutcome(i))
         /\ SF_vars(SweepBegins(i)) /\ WF_vars(SweepLists(i)) /\ WF_vars(Judge(i))
         /\ SF_vars(InventoryReported(i))
    /\ \A t \in Task :
         WF_vars(SessionOpens(t) \/ SessionRefused(t)) /\ WF_vars(ExecutionEnds(t))

FairSpec == Spec /\ Fairness

-----------------------------------------------------------------------------
(* Row t changes by the statement in flight of place p of process i.       *)
Writes(i, p, t) ==
    /\ job[i][p].step \in DOMAIN Transition /\ job[i][p].on = t
    /\ job'[i][p] # job[i][p]
    /\ task'[t] # task[t]

(***************************************************************************)
(* An ended task stays as it ended, however many completions, failures,    *)
(* sweeps, dispatches and cancels are under way for it in however many     *)
(* processes, and whichever of them died (compare_and_set_task_status).    *)
(***************************************************************************)
TerminalIsFinal ==
    [][\A t \in Task :
          task[t].phase \in Terminal => task'[t].phase = task[t].phase]_vars

(***************************************************************************)
(* A task reaches a worker at most once, whatever dispatches, redispatches *)
(* and fail-overs compete for it (dispatch_existing, step 5).              *)
(***************************************************************************)
ExecutedOnce ==
    [][\A t \in Task :
          exec[t].state # "none" =>
             /\ exec'[t].by = exec[t].by
             /\ exec'[t].state = "opening" => exec[t].state = "opening"]_vars

(***************************************************************************)
(* A fenced statement that changes a row was sent by the instance the      *)
(* lease row names now: whatever a superseded process had under way, or    *)
(* sent before it died, comes to nothing (the EXISTS predicate of          *)
(* compare_and_set_task_status and record_task_acp_session).               *)
(***************************************************************************)
FencedWritesAreTheHolders ==
    [][\A i \in Instance, p \in Place, t \in Task :
          /\ job[i][p].step \in InFlight /\ job[i][p].on = t
          /\ job'[i][p] # job[i][p]
          /\ task'[t] # task[t]
          /\ job[i][p].fence # NoFence
          => mine[i] = epoch]_vars

(***************************************************************************)
(* A process that lost the lease and got it back does not record, under    *)
(* its new epoch, the outcome of an execution it started under an old one  *)
(* (the dispatch_control_epoch predicate).                                 *)
(***************************************************************************)
OutcomeFromOwnGeneration ==
    [][\A i \in Instance, t \in Task :
          /\ Writes(i, "loop", t)
          /\ task'[t].phase \in Terminal
          /\ job[i]["loop"].fence # NoFence
          => exec[t].generation \in {NoFence, job[i]["loop"].fence}]_vars

(***************************************************************************)
(* The sweep fails a task for a vanished session only when the execution   *)
(* really ended: it lists the rows first and asks the worker afterwards    *)
(* (reap_stale_dispatched).                                                *)
(***************************************************************************)
SweepSparesTheLiving ==
    \A i \in Instance :
        LET j == job[i]["sweep"]
        IN j.step = "vanishFailing" => exec[j.on].state = "ended"

(***************************************************************************)
(* The same of the recovery before a dispatch, which asks first and lists  *)
(* afterwards (dispatcher.rs: reap_vanished_on_worker, "cannot exist").    *)
(***************************************************************************)
RecoverySparesTheLiving ==
    \A i \in Instance, s \in Slot :
        LET j == job[i][s]
        IN j.step = "recoverFailing" => exec[j.on].state # "open"

(***************************************************************************)
(* A process whose lease went to another instance changes no task: "None   *)
(* is not used as a permission to write without a fence" (lease.rs: fence).*)
(***************************************************************************)
SupersededNeverWrites ==
    [][\A i \in Instance, p \in Place, t \in Task :
          Writes(i, p, t) => mine[i] = epoch]_vars

(***************************************************************************)
(* A dispatched task that Dispatcher::cancel records as Cancelled had the  *)
(* cancel sent to its worker before (the doc comment of cancel).           *)
(***************************************************************************)
CancelIsSentFirst ==
    [][\A i \in Instance, s \in Slot, t \in Task :
          /\ Writes(i, s, t)
          /\ task[t].phase = "Dispatched" /\ task'[t].phase = "Cancelled"
          => job[i][s].step = "signalledCancelling"]_vars

(* From some time on, process i keeps the lease and knows it.              *)
KeepsControl(i) == <>[](i \in up /\ epoch # 0 /\ belief[i] = epoch)

(***************************************************************************)
(* A dispatched task whose session was recorded ends, under an instance    *)
(* that keeps control, even if the process that dispatched it died and no  *)
(* event about it ever arrives (reap_stale_dispatched).                    *)
(***************************************************************************)
NamedDispatchEnds ==
    \A i \in Instance : KeepsControl(i) =>
        \A t \in Task : (task[t].phase = "Dispatched" /\ task[t].session)
                            ~> task[t].phase \in Terminal

(***************************************************************************)
(* The same of every task whose dispatching process died: "the events of   *)
(* dispatches before the restart cannot reach the new process, and the     *)
(* reconciler's orphan and offline sweep recovers the task"                *)
(* (execution-consistency.md).                                             *)
(***************************************************************************)
OrphanedDispatchEnds ==
    \A i \in Instance : KeepsControl(i) =>
        \A t \in Task :
            (task[t].phase = "Dispatched" /\ exec[t].by \in Instance \ up)
                ~> task[t].phase \in Terminal

=============================================================================
