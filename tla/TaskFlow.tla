------------------------------- MODULE TaskFlow -------------------------------
(***************************************************************************)
(* How a task comes to its dispatch: submission under an idempotency key,  *)
(* the dependencies it waits for, the attempts that are refused and        *)
(* counted, dead letters, deletion.  Three callers meet in                 *)
(* Dispatcher::dispatch_existing: the submit call that created the row,    *)
(* the event loop after a completion (dispatch_ready_tasks) and the        *)
(* reconciler's sweep.  None of them holds a lock between two statements.  *)
(*                                                                         *)
(* One process that keeps the lease: who may write at all, and what        *)
(* becomes of an execution, is TaskControl's subject.                      *)
(***************************************************************************)
EXTENDS Integers, FiniteSets, FiniteSetsExt

CONSTANTS Key,         \* idempotency keys clients use
          NoKey,       \* a submission without one
          Configs,     \* max_dispatch_retries and the LIMIT of list_tasks (1000)
          MaxTasks,    \* bound: submissions
          MaxUpsets    \* bound: store errors, crashes, cancels and deletions

ASSUME TaskFlowAssumption ==
    /\ NoKey \notin Key
    /\ Configs \subseteq [retries : Nat, limit : Nat \ {0}]
    /\ MaxTasks \in Nat \ {0}
    /\ MaxUpsets \in Nat

(* Ids are numbered by created_at, which list_tasks sorts by.  A handler   *)
(* is the submit call of an id, the event loop or the sweep.               *)
Task == 1..MaxTasks
Loop == 0
Sweep == MaxTasks + 1
Handler == 0..(MaxTasks + 1)

VARIABLES
    config,      \* the configuration the process runs with
    call,        \* what each submit call asked for
    answer,      \* what it was answered: an id, "refused", "conflict"
    row,         \* the tasks table
    at,          \* where each handler is
    running,     \* executions on the workers
    events,      \* outcomes broadcast and not yet handled
    deleting,    \* delete_task calls that found no pending dependent
    upsets,      \* store errors, crashes, cancels and deletions so far
    faulty,      \* history: whether a store error or a crash was among them
    completed,   \* history: tasks that were ever Completed
    executed,    \* history: tasks that were ever claimed
    deleted,     \* history: tasks whose row was deleted
    tried,       \* history: tasks submit or the event loop tried to dispatch
    excused      \* history: tasks whose last refusal in a sweep is not counted

store == <<row, completed, executed, deleted>>
clients == <<config, call, answer>>
workers == <<running, events>>
bounds == <<upsets, faulty>>
attempts == <<tried, excused>>
vars == <<clients, store, at, workers, deleting, bounds, attempts>>

Phase == {"Absent", "Pending", "Dispatched", "Completed", "Failed", "Cancelled"}
Terminal == {"Completed", "Failed", "Cancelled"}
Absent == [phase |-> "Absent", retries |-> 0]

(* Where a handler waits: `on` is the task it works on, `left` are the     *)
(* dependencies it has yet to look up, `todo` the tasks of its list still  *)
(* to come, `due` those that were listed with their retries exhausted.     *)
PC == {"idle", "insert", "lookup", "list", "deps", "attempt", "send", "deadletter"}
Idle == [pc |-> "idle", on |-> 0, left |-> {}, todo |-> {}, due |-> {}]

(* A retry is counted once more than the maximum at most: by a sweep that  *)
(* listed the row before submit counted its own.                           *)
TypeOK ==
    /\ config \in Configs
    /\ call \in [Task -> [made : BOOLEAN, key : Key \cup {NoKey}, deps : SUBSET Task]]
    /\ answer \in [Task -> [is : {"none", "ok", "conflict", "refused"}, id : 0..MaxTasks]]
    /\ row \in [Task -> [phase : Phase, retries : 0..(config.retries + 1)]]
    /\ at \in [Handler -> [pc : PC, on : 0..MaxTasks, left : SUBSET Task,
                           todo : SUBSET Task, due : SUBSET Task]]
    /\ UNION {running, deleting, completed, executed, deleted, tried, excused}
          \subseteq Task
    /\ events \subseteq Task \X BOOLEAN
    /\ upsets \in 0..MaxUpsets /\ faulty \in BOOLEAN

Init ==
    /\ config \in Configs
    /\ call = [t \in Task |-> [made |-> FALSE, key |-> NoKey, deps |-> {}]]
    /\ answer = [t \in Task |-> [is |-> "none", id |-> 0]]
    /\ row = [t \in Task |-> Absent]
    /\ at = [h \in Handler |-> Idle]
    /\ running = {} /\ events = {} /\ deleting = {}
    /\ upsets = 0 /\ faulty = FALSE
    /\ completed = {} /\ executed = {} /\ deleted = {} /\ tried = {} /\ excused = {}

-------------------------------------------------------------------------------
(* Helpers.                                                                *)

Retries == config.retries
Limit == config.limit

Is(t, phase) == row[t].phase = phase
Present == {t \in Task : ~Is(t, "Absent")}

(* The submit call of a task carries its id.                               *)
Submits(h) == h \in Task

At(h, pc) == at[h].pc = pc
Become(h, state) == at' = [at EXCEPT ![h] = state]

Upset == upsets < MaxUpsets /\ upsets' = upsets + 1

Answer(t, is, id) == answer' = [answer EXCEPT ![t] = [is |-> is, id |-> id]]

(* compare_and_set_task_status with the phases it expects; one that does   *)
(* not find them changes nothing.                                          *)
Cas(t, expected, to) ==
    row' = IF row[t].phase \in expected THEN [row EXCEPT ![t].phase = to] ELSE row

(* Once every dependency is found Completed a task is attempted, or is     *)
(* given up if its retries were exhausted when the sweep listed it.        *)
Looking(state) ==
    [state EXCEPT !.pc = IF state.left # {} THEN "deps"
                         ELSE IF state.on \in state.due THEN "deadletter"
                         ELSE "attempt"]

(* A loop goes on with the newest task of its list that is left.           *)
GoOn(todo, due) ==
    IF todo = {} THEN Idle
    ELSE LET t == Max(todo) IN
         Looking([pc |-> "deps", on |-> t, left |-> call[t].deps,
                  todo |-> todo \ {t}, due |-> due])

(* An attempt is over with the given result.  The submit call answers its  *)
(* client; the loops ignore the result.                                    *)
Over(h, is) ==
    IF Submits(h)
    THEN Become(h, Idle) /\ Answer(h, is, IF is = "ok" THEN h ELSE 0)
    ELSE Become(h, GoOn(at[h].todo, at[h].due)) /\ UNCHANGED answer

-------------------------------------------------------------------------------
(* Submission.                                                             *)

(* A client knows the ids of rows that were inserted.  The payload hash    *)
(* covers the dependencies, which stand for the payload here.              *)
Submit(t) ==
    /\ ~call[t].made /\ \A u \in 1..(t - 1) : call[u].made
    /\ \E k \in Key \cup {NoKey}, D \in SUBSET (Present \cap 1..(t - 1)) :
          call' = [call EXCEPT ![t] = [made |-> TRUE, key |-> k, deps |-> D]]
    /\ Become(t, [pc |-> "insert", on |-> t, left |-> {}, todo |-> {}, due |-> {}])
    /\ UNCHANGED <<config, answer, store, workers, deleting, bounds, attempts>>

(* Mutant: only the rows that have not ended are in the unique index.      *)
KeyTakenByTheLiving(t) ==
    /\ call[t].key # NoKey
    /\ \E u \in Present : call[u].key = call[t].key /\ row[u].phase \notin Terminal

(* The unique index on (created_by, idempotency_key).                      *)
KeyTaken(t) ==
    /\ call[t].key # NoKey
    /\ \E u \in Present : call[u].key = call[t].key

(* insert_task_idempotent: INSERT ... ON CONFLICT DO NOTHING.              *)
Insert(t) ==
    /\ At(t, "insert")
    /\ IF KeyTaken(t)
       THEN Become(t, [at[t] EXCEPT !.pc = "lookup"]) /\ UNCHANGED row
       ELSE /\ Become(t, Looking([at[t] EXCEPT !.left = call[t].deps]))
            /\ row' = [row EXCEPT ![t].phase = "Pending"]
    /\ UNCHANGED <<clients, completed, executed, deleted, workers, deleting,
                   bounds, attempts>>

(* The SELECT after an INSERT that met the key: the row may be gone again. *)
Lookup(t) ==
    /\ At(t, "lookup") /\ Become(t, Idle)
    /\ LET found == {u \in Present : call[u].key = call[t].key} IN
       \/ found = {} /\ Answer(t, "refused", 0)
       \/ \E u \in found :
             IF call[u].deps = call[t].deps THEN Answer(t, "ok", u)
                                            ELSE Answer(t, "conflict", 0)
    /\ UNCHANGED <<config, call, store, workers, deleting, bounds, attempts>>

-------------------------------------------------------------------------------
(* The dependencies, looked up one after another.                          *)

(* Mutant: any ended predecessor counts.                                   *)
SatisfiedByTheEnded(d) == row[d].phase \in Terminal

Satisfied(d) == Is(d, "Completed")

(* A missing one, also if it was deleted after it completed, holds the     *)
(* task back: submit leaves it Pending, the loops go on.                   *)
LookUpDependency(h) ==
    /\ At(h, "deps")
    /\ \E d \in at[h].left :
          IF Satisfied(d)
          THEN Become(h, Looking([at[h] EXCEPT !.left = @ \ {d}])) /\ UNCHANGED answer
          ELSE Over(h, "ok")
    /\ UNCHANGED <<config, call, store, workers, deleting, bounds, attempts>>

-------------------------------------------------------------------------------
(* dispatch_existing.  What it does between its statements (selection,     *)
(* circuit, recovery of the worker, skills) reads nothing modelled here    *)
(* and may take any time; it is one choice, taken with the statement that  *)
(* follows it.                                                             *)

Tries(h) == tried' = IF h = Sweep THEN tried ELSE tried \cup {at[h].on}

(* mark_unavailable_as_failed: only submit's attempt, only without retries.*)
Marks(h) == Submits(h) /\ Retries = 0

(* Mutant: only submit counts its refusal.                                 *)
CountedForSubmits(h, why) == why = "unavailable" /\ Retries > 0 /\ Submits(h)

(* NoWorker and CircuitOpen are counted; a worker that cannot be asked and *)
(* a missing skill are not, and neither is what the event loop attempts.   *)
Counted(h, why) == why = "unavailable" /\ Retries > 0 /\ h # Loop

Excuse(h, why) ==
    excused' = CASE h # Sweep -> excused
                 [] h = Sweep /\ (why = "other" \/ Retries = 0) -> excused \cup {at[h].on}
                 [] OTHER -> excused \ {at[h].on}

(* Mutant: what is not the fleet's fault is not written down.              *)
RefusedQuietly(h, why) ==
    LET t == at[h].on IN
    /\ At(h, "attempt") /\ Tries(h) /\ Excuse(h, why)
    /\ \/ /\ Marks(h) /\ Over(h, "refused")
          /\ IF why = "unavailable" THEN Cas(t, {"Pending"}, "Failed") ELSE UNCHANGED row
       \/ /\ Counted(h, why) /\ Over(h, "ok")
          /\ row' = IF t \in Present THEN [row EXCEPT ![t].retries = @ + 1] ELSE row
       \/ /\ ~Marks(h) /\ ~Counted(h, why) /\ Over(h, "refused")
          /\ UNCHANGED row
    /\ UNCHANGED <<config, call, completed, executed, deleted, workers, deleting, bounds>>

(* The attempt is refused.  Marked, the task fails; counted, it stays      *)
(* Pending and submit calls that a success; else submit answers an error.  *)
(* increment_task_retry_count has no predicate but the id.                 *)
Refused(h, why) ==
    LET t == at[h].on IN
    /\ At(h, "attempt") /\ Tries(h) /\ Excuse(h, why)
    /\ \/ Marks(h) /\ Over(h, "refused") /\ Cas(t, {"Pending"}, "Failed")
       \/ /\ Counted(h, why) /\ Over(h, "ok")
          /\ row' = IF t \in Present THEN [row EXCEPT ![t].retries = @ + 1] ELSE row
       \/ /\ ~Marks(h) /\ ~Counted(h, why) /\ Over(h, "refused")
          /\ UNCHANGED row
    /\ UNCHANGED <<config, call, completed, executed, deleted, workers, deleting, bounds>>

(* Pending -> Dispatched; a task that left Pending is somebody else's, and *)
(* a submit call is told so as an error.                                   *)
Claim(h) ==
    LET t == at[h].on IN
    /\ At(h, "attempt") /\ Tries(h)
    /\ Cas(t, {"Pending"}, "Dispatched")
    /\ IF Is(t, "Pending")
       THEN /\ executed' = executed \cup {t}
            /\ Become(h, [at[h] EXCEPT !.pc = "send"]) /\ UNCHANGED answer
       ELSE Over(h, "refused") /\ UNCHANGED executed
    /\ UNCHANGED <<config, call, completed, deleted, workers, deleting, bounds, excused>>

(* transport.dispatch; if it is refused the task fails at once.            *)
Send(h) ==
    LET t == at[h].on IN
    /\ At(h, "send")
    /\ \/ running' = running \cup {t} /\ Over(h, "ok") /\ UNCHANGED row
       \/ Cas(t, {"Dispatched"}, "Failed") /\ Over(h, "refused") /\ UNCHANGED running
    /\ UNCHANGED <<config, call, completed, executed, deleted, events, deleting,
                   bounds, attempts>>

-------------------------------------------------------------------------------
(* The event loop and the sweep.                                           *)

(* list_tasks: the newest Limit rows of the table, whatever their      *)
(* status; the status filter is applied to those.                          *)
Scanned == {t \in Present : Cardinality({u \in Present : u > t}) < Limit}
PendingTasks == {t \in Scanned : Is(t, "Pending")}

(* Mutant: what is ready is judged before the completion is written.       *)
CompletedHeardAfterListing(t) ==
    /\ At(Loop, "idle") /\ <<t, TRUE>> \in events
    /\ events' = events \ {<<t, TRUE>>}
    /\ Cas(t, {"Dispatched"}, "Completed")
    /\ completed' = IF Is(t, "Dispatched") THEN completed \cup {t} ELSE completed
    /\ Become(Loop, GoOn({u \in PendingTasks : \A d \in call[u].deps : Satisfied(d)}, {}))
    /\ UNCHANGED <<clients, executed, deleted, running, deleting, bounds, attempts>>

(* Completed: dispatch_ready_tasks follows whatever the statement answers. *)
CompletedHeard(t) ==
    /\ At(Loop, "idle") /\ <<t, TRUE>> \in events
    /\ events' = events \ {<<t, TRUE>>}
    /\ Cas(t, {"Dispatched"}, "Completed")
    /\ completed' = IF Is(t, "Dispatched") THEN completed \cup {t} ELSE completed
    /\ Become(Loop, [Idle EXCEPT !.pc = "list"])
    /\ UNCHANGED <<clients, executed, deleted, running, deleting, bounds, attempts>>

(* Failed: nobody looks for successors, they stay Pending.                 *)
FailedHeard(t) ==
    /\ At(Loop, "idle") /\ <<t, FALSE>> \in events
    /\ events' = events \ {<<t, FALSE>>}
    /\ Cas(t, {"Dispatched"}, "Failed")
    /\ UNCHANGED <<clients, completed, executed, deleted, at, running, deleting,
                   bounds, attempts>>

ReadyListed ==
    /\ At(Loop, "list") /\ Become(Loop, GoOn(PendingTasks, {}))
    /\ UNCHANGED <<clients, store, workers, deleting, bounds, attempts>>

(* reconcile_once, on its interval.  Every row that is Pending is taken to *)
(* be older than stale_after; a younger one is one this sweep comes before.*)
(* The retries are judged by the row as it is listed.                      *)
SweepLists ==
    /\ At(Sweep, "idle") /\ PendingTasks # {}
    /\ Become(Sweep, GoOn(PendingTasks,
              {t \in PendingTasks : Retries > 0 /\ row[t].retries >= Retries}))
    /\ UNCHANGED <<clients, store, workers, deleting, bounds, attempts>>

DeadLetter ==
    /\ At(Sweep, "deadletter")
    /\ Cas(at[Sweep].on, {"Pending"}, "Failed") /\ Over(Sweep, "ok")
    /\ UNCHANGED <<config, call, completed, executed, deleted, workers, deleting,
                   bounds, attempts>>

-------------------------------------------------------------------------------
(* Executions, cancels, deletions.                                         *)

ExecutionEnds(t) ==
    /\ t \in running
    /\ running' = running \ {t}
    /\ \E well \in BOOLEAN : events' = events \cup {<<t, well>>}
    /\ UNCHANGED <<clients, store, at, deleting, bounds, attempts>>

(* reap_stale_dispatched, seen from here: a dispatch that has no execution *)
(* and of which no outcome will be heard fails in the end.                 *)
LostExecutionReaped(t) ==
    /\ Is(t, "Dispatched") /\ t \notin running
    /\ \A e \in events : e[1] # t
    /\ \A h \in Handler : ~(At(h, "send") /\ at[h].on = t)
    /\ Cas(t, {"Dispatched"}, "Failed")
    /\ UNCHANGED <<clients, completed, executed, deleted, at, workers, deleting,
                   bounds, attempts>>

(* Dispatcher::cancel; the execution is told and ends by itself.           *)
Cancel(t) ==
    /\ Upset /\ row[t].phase \in {"Pending", "Dispatched"}
    /\ Cas(t, {"Pending", "Dispatched"}, "Cancelled")
    /\ UNCHANGED <<clients, completed, executed, deleted, at, workers, deleting,
                   faulty, attempts>>

(* delete_task, its first statement: pending dependents block it.          *)
DeleteAsked(t) ==
    /\ Upset /\ t \in Present \ deleting
    /\ \A u \in Task : Is(u, "Pending") => t \notin call[u].deps
    /\ deleting' = deleting \cup {t}
    /\ UNCHANGED <<clients, store, at, workers, faulty, attempts>>

(* Its second one, where the phase must be terminal.                       *)
DeleteRow(t) ==
    /\ t \in deleting /\ deleting' = deleting \ {t}
    /\ IF row[t].phase \in Terminal
       THEN row' = [row EXCEPT ![t] = Absent] /\ deleted' = deleted \cup {t}
       ELSE UNCHANGED <<row, deleted>>
    /\ UNCHANGED <<clients, completed, executed, at, workers, bounds, attempts>>

-------------------------------------------------------------------------------
(* Faults.                                                                 *)

(* A statement fails.  A dependency that cannot be read holds the task     *)
(* back; a failure or a refusal that cannot be written is dropped; an      *)
(* INSERT and a claim may have been committed all the same.                *)
StoreFails(h) ==
    LET t == at[h].on IN
    /\ Upset /\ faulty' = TRUE
    /\ \/ /\ At(h, "insert") /\ Over(h, "refused") /\ UNCHANGED executed
          /\ \/ UNCHANGED row
             \/ ~KeyTaken(h) /\ row' = [row EXCEPT ![h].phase = "Pending"]
       \/ /\ At(h, "attempt") /\ Over(h, "refused")
          /\ \/ UNCHANGED <<row, executed>>
             \/ /\ Is(t, "Pending") /\ Cas(t, {"Pending"}, "Dispatched")
                /\ executed' = executed \cup {t}
       \/ /\ At(h, "attempt") /\ Counted(h, "unavailable") /\ Over(h, "ok")
          /\ UNCHANGED <<row, executed>>
       \/ At(h, "deps") /\ Over(h, "ok") /\ UNCHANGED <<row, executed>>
       \/ At(h, "deadletter") /\ Over(h, "ok") /\ UNCHANGED <<row, executed>>
       \/ At(h, "lookup") /\ Over(h, "refused") /\ UNCHANGED <<row, executed>>
       \/ At(h, "send") /\ Over(h, "refused") /\ UNCHANGED <<row, executed>>
       \/ At(h, "list") /\ Become(h, Idle) /\ UNCHANGED <<row, executed, answer>>
    /\ UNCHANGED <<config, call, completed, deleted, workers, deleting, attempts>>

(* The write of an outcome fails: logged; a completion's successors are    *)
(* looked for all the same.                                                *)
OutcomeNotWritten(t) ==
    /\ Upset /\ faulty' = TRUE
    /\ At(Loop, "idle")
    /\ \E well \in BOOLEAN :
          /\ <<t, well>> \in events /\ events' = events \ {<<t, well>>}
          /\ Become(Loop, [Idle EXCEPT !.pc = IF well THEN "list" ELSE "idle"])
    /\ UNCHANGED <<clients, store, running, deleting, attempts>>

(* The process dies and is started again: calls are not answered, outcomes *)
(* on their way are lost with the connections.                             *)
Crash ==
    /\ Upset /\ faulty' = TRUE
    /\ at' = [h \in Handler |-> Idle]
    /\ running' = {} /\ events' = {} /\ deleting' = {}
    /\ UNCHANGED <<clients, store, attempts>>

-------------------------------------------------------------------------------
Attempt(h) ==
    \/ LookUpDependency(h) \/ Claim(h) \/ Send(h)
    \/ \E why \in {"unavailable", "other"} : Refused(h, why)

SubmitGoesOn(t) == Insert(t) \/ Lookup(t) \/ Attempt(t)

EventLoop ==
    \/ \E t \in Task : CompletedHeard(t) \/ FailedHeard(t)
    \/ ReadyListed \/ Attempt(Loop)

Reconciler == SweepLists \/ DeadLetter \/ Attempt(Sweep)

Next ==
    \/ \E t \in Task : \/ Submit(t) \/ SubmitGoesOn(t) \/ ExecutionEnds(t)
                       \/ LostExecutionReaped(t) \/ Cancel(t)
                       \/ DeleteAsked(t) \/ DeleteRow(t) \/ OutcomeNotWritten(t)
    \/ EventLoop \/ Reconciler
    \/ \E h \in Handler : StoreFails(h)
    \/ Crash

Spec == Init /\ [][Next]_vars

(* The reconciler's loop sweeps on an interval and finishes each sweep.    *)
(* Nothing here needs the calls and the event loop to be scheduled.        *)
FairSpec == Spec /\ WF_vars(Reconciler)

-------------------------------------------------------------------------------
(* Properties.                                                             *)

(* A task is dispatched after all its predecessors have completed, however *)
(* submission, completions, cancels, deletions and sweeps interleave.      *)
DependenciesFirst ==
    \A t \in executed : call[t].deps \subseteq completed

(* Repeated submissions under one key lead to one execution, and to answers *)
(* with one id, also when the first call was not answered, unless the task *)
(* was deleted in between.                                                 *)
OneTaskPerKey ==
    \A t, u \in Task :
        call[t].key = call[u].key /\ call[t].key # NoKey =>
            /\ \A a, b \in {t, u} \cap executed :
                   a = b \/ a \in deleted \/ b \in deleted
            /\ answer[t].is = "ok" /\ answer[u].is = "ok" =>
                   \/ answer[t].id = answer[u].id
                   \/ answer[t].id \in deleted \/ answer[u].id \in deleted

WaitsForNothing(t) ==
    /\ Is(t, "Pending")
    /\ \A d \in call[t].deps : Is(d, "Completed")

(* Between a submission that reads its predecessors and a completion that  *)
(* looks for successors no task falls through: when neither is under way,  *)
(* what waits for nothing was tried by one of them, without the sweep.     *)
ReadyIsTried ==
    (/\ ~faulty /\ events = {}
     /\ \A h \in Task \cup {Loop} : At(h, "idle"))
    => \A t \in Task :
          (/\ WaitsForNothing(t)
           /\ Cardinality({u \in Task : call[u].made /\ u > t}) < Limit)
          => t \in tried

(* Without retries a submission that was answered with an error leaves no  *)
(* Pending task behind that could still be dispatched later.               *)
RefusedIsSettled ==
    \A t \in Task : (Retries = 0 /\ ~faulty /\ answer[t].is = "refused")
                    => ~Is(t, "Pending")

(* A Pending task whose predecessors have completed, and that is among the *)
(* newest Limit rows, is dispatched or ends as a dead letter, except   *)
(* while what refuses it is not counted.                                   *)
ReadyIsServed ==
    \A t \in Task :
        <>[](WaitsForNothing(t) /\ t \in Scanned)
        => []<>(t \in excused)
===============================================================================
