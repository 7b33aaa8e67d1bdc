------------------------------ MODULE ProjectWork ------------------------------
(***************************************************************************)
(* Submitting tasks, creating and stopping agents, archiving projects: the *)
(* handlers that look at a project's status and the ones that move it.     *)
(***************************************************************************)
EXTENDS ProjectState

CreateProject(p) ==
    /\ Asked("project") /\ project[p] = "none"
    /\ project' = [project EXCEPT ![p] = "active"]
    /\ UNCHANGED <<task, agent, template, revisions, issue, links, job, scene,
                   upsets, history>>

-----------------------------------------------------------------------------
(* Submitting a task: handle_dispatch_task and submit_task_api up to the   *)
(* insert.  The dashboard may name a parent task and checks the project it *)
(* ends up with; the MCP server checks the one it was given.               *)

(* Task::inherit_from_parent, the project part.                            *)
Inherited(j) ==
    IF j.project = None /\ j.parent # None THEN task[j.parent].project ELSE j.project

(* What follows the agent pin.                                             *)
Pinned(j) ==
    IF j.surface = "mcp" THEN [j EXCEPT !.at = "insert"]
    ELSE [j EXCEPT !.project = Inherited(j),
                   !.at = IF Inherited(j) = None THEN "insert" ELSE "final"]

(* apply_agent_pin has nothing to do for a submission that names no agent. *)
ToPin(j) == IF j.agent = None THEN Pinned(j) ELSE [j EXCEPT !.at = "agent"]

SubmitBegins(r) ==
    /\ Asked("submit") /\ Spare(task, "submit")
    /\ \E named \in Project \cup {None}, to \in Agent \cup {None},
          parent \in Task \cup {None}, surface \in {"mcp", "dashboard"} :
          LET j == [op |-> "submit", at |-> "begin", surface |-> surface,
                    project |-> named, agent |-> to, parent |-> parent,
                    closed |-> Closed]
          IN  /\ surface = "mcp" => parent = None
              /\ Begins(r, IF parent # None THEN [j EXCEPT !.at = "parent"]
                           ELSE IF surface = "mcp" /\ named # None
                                THEN [j EXCEPT !.at = "named"]
                                ELSE ToPin(j))
    /\ UNCHANGED <<rows, scene, upsets, history>>

FindParent(r) ==
    /\ At(r, "submit", "parent")
    /\ IF Exists(job[r].parent) THEN Goes(r, ToPin(job[r])) ELSE Answers(r)
    /\ UNCHANGED <<rows, scene, upsets, history>>

CheckNamed(r) ==
    /\ At(r, "submit", "named")
    /\ IF Accepts(job[r].project) THEN Goes(r, ToPin(job[r])) ELSE Answers(r)
    /\ UNCHANGED <<rows, scene, upsets, history>>

(* apply_agent_pin.  The agent may be retired: that is the dispatcher's    *)
(* business.  An agent of another project is refused; a submission without *)
(* a project inherits the agent's, once that has been checked too.         *)
FindAgent(r) ==
    /\ At(r, "submit", "agent")
    /\ LET a == agent[job[r].agent] IN
          IF a.is = "absent" \/ job[r].project \notin {None, a.project} THEN Answers(r)
          ELSE IF job[r].project = None THEN Moves(r, "inherit")
          ELSE Goes(r, Pinned(job[r]))
    /\ UNCHANGED <<rows, scene, upsets, history>>

(* Mutant: the inherited project is taken without asking for its status.   *)
InheritUnchecked(r) ==
    /\ At(r, "submit", "inherit")
    /\ Goes(r, Pinned([job[r] EXCEPT !.project = agent[job[r].agent].project]))
    /\ UNCHANGED <<rows, scene, upsets, history>>

CheckInherited(r) ==
    /\ At(r, "submit", "inherit")
    /\ LET p == agent[job[r].agent].project IN
          IF Accepts(p) THEN Goes(r, Pinned([job[r] EXCEPT !.project = p]))
          ELSE Answers(r)
    /\ UNCHANGED <<rows, scene, upsets, history>>

CheckFinal(r) ==
    /\ At(r, "submit", "final")
    /\ IF Accepts(job[r].project) THEN Moves(r, "insert") ELSE Answers(r)
    /\ UNCHANGED <<rows, scene, upsets, history>>

(* The insert says nothing of the project; a parent deleted meanwhile      *)
(* fails its foreign key.                                                  *)
InsertTask(r) ==
    /\ At(r, "submit", "insert")
    /\ Answers(r)
    /\ LET j == job[r]
           t == CHOOSE x \in Task : task[x].is = "absent"
       IN  IF j.parent # None /\ ~Exists(j.parent)
           THEN UNCHANGED <<task, history>>
           ELSE /\ task' = [task EXCEPT ![t] = [is |-> "live", project |-> j.project]]
                /\ Joins(t, j.project, j.closed)
    /\ UNCHANGED <<project, agent, template, revisions, issue, links, scene, upsets>>

(* A task reaches a terminal status, however it does.                      *)
TaskEnds(t) ==
    /\ task[t].is = "live"
    /\ task' = [task EXCEPT ![t].is = "ended"]
    /\ Leaves(t)
    /\ UNCHANGED <<project, agent, template, revisions, issue, links, job, scene, upsets>>

(* DELETE of a terminal row: ON DELETE SET NULL leaves the links with      *)
(* their label.                                                            *)
DeleteTask(t) ==
    /\ task[t].is = "ended"
    /\ task' = [task EXCEPT ![t].is = "deleted"]
    /\ links' = {IF l.task = t THEN [l EXCEPT !.task = None] ELSE l : l \in links}
    /\ UNCHANGED <<project, agent, template, revisions, issue, job, scene, upsets, history>>

-----------------------------------------------------------------------------
(* Creating an agent, with a pinned template revision or without.          *)

(* Mutant: the pin is read without a lock.                                 *)
SharesNothing(t) == {}

(* Row locks a transaction holds between two of its statements: FOR SHARE  *)
(* on a pinned revision and its template, FOR UPDATE on a template.        *)
Shares(t) == {r \in Request : At(r, "agent", "insert")
                              /\ job[r].pin # None /\ job[r].pin.template = t}
Holds(t) == {r \in Request : \/ At(r, "revise", "insert") /\ job[r].template = t
                             \/ At(r, "turn", "retire") /\ job[r].template = t}

Pins == [template : Template, number : 1..MaxRevision]

AgentBegins(r) ==
    /\ Asked("agent") /\ Spare(agent, "agent")
    /\ \E p \in Project, pin \in {q \in Pins : Asked("template")} \cup {None} :
          Begins(r, [op |-> "agent", at |-> "check", project |-> p, pin |-> pin,
                     closed |-> Closed])
    /\ UNCHANGED <<rows, scene, upsets, history>>

CheckAgentProject(r) ==
    /\ At(r, "agent", "check")
    /\ IF Accepts(job[r].project)
       THEN Moves(r, IF job[r].pin = None THEN "insert" ELSE "pin")
       ELSE Answers(r)
    /\ UNCHANGED <<rows, scene, upsets, history>>

Pinnable(pin) ==
    /\ pin.number <= Len(revisions[pin.template])
    /\ ~revisions[pin.template][pin.number]
    /\ template[pin.template] \in AcceptsPins

(* SELECT ... FOR SHARE OF r, t, inside the transaction of the insert.     *)
LockPin(r) ==
    /\ At(r, "agent", "pin")
    /\ Holds(job[r].pin.template) = {}
    /\ IF Pinnable(job[r].pin) THEN Moves(r, "insert") ELSE Answers(r)
    /\ UNCHANGED <<rows, scene, upsets, history>>

InsertAgent(r) ==
    /\ At(r, "agent", "insert")
    /\ Answers(r)
    /\ LET j == job[r]
           a == CHOOSE x \in Agent : agent[x].is = "absent"
       IN  /\ agent' = [agent EXCEPT ![a] =
                            [is |-> "ready", project |-> j.project, pin |-> j.pin]]
           /\ Joins(a, j.project, j.closed)
    /\ UNCHANGED <<project, task, template, revisions, issue, links, scene, upsets>>

(* handle_stop_agent and stop_agent_api: one unfenced statement.           *)
StopAgent(a) ==
    /\ agent[a].is = "ready"
    /\ agent' = [agent EXCEPT ![a].is = "stopped"]
    /\ Leaves(a)
    /\ UNCHANGED <<project, task, template, revisions, issue, links, job, scene, upsets>>

-----------------------------------------------------------------------------
(* Archiving: advance_project_archive from the read of its callers on.     *)
(* `fenced` is whether the instance has a fence to give; a fenced          *)
(* statement finds the epoch in force or not (`held`).                     *)
ArchiveFrom(r, p, at) ==
    /\ \E fenced \in BOOLEAN :
          Begins(r, [op |-> "archive", at |-> at, project |-> p, fenced |-> fenced,
                     lapsed |-> FALSE, blocked |-> FALSE])
    /\ UNCHANGED <<rows, scene, upsets, history>>

(* Mutant: a request that finds the project draining has nothing to do.    *)
ArchiveOnce(r, p) ==
    Asked("archive") /\ project[p] = "active" /\ ArchiveFrom(r, p, "drain")

ArchiveBegins(r, p) ==
    /\ Asked("archive")
    /\ \/ project[p] = "active" /\ ArchiveFrom(r, p, "drain")
       \/ project[p] = "draining" /\ ArchiveFrom(r, p, "seal")

(* update_project_status looks at nothing but the fence.                   *)
Drain(r) ==
    /\ At(r, "archive", "drain")
    /\ \E held \in BOOLEAN :
          /\ held \/ job[r].fenced
          /\ IF held THEN Moves(r, "seal") ELSE Answers(r)
          /\ project' = IF held THEN [project EXCEPT ![job[r].project] = "draining"]
                        ELSE project
    /\ UNCHANGED <<task, agent, template, revisions, issue, links, scene, upsets, history>>

(* archive_project_if_drained: phase, both gates and fence in one          *)
(* statement.                                                              *)
Seal(r) ==
    /\ At(r, "archive", "seal")
    /\ LET p == job[r].project IN
          \/ /\ project[p] = "draining" /\ Drained(p)
             /\ project' = [project EXCEPT ![p] = "archived"]
             /\ Answers(r)
          \/ /\ project[p] # "draining" \/ ~Drained(p)
             /\ Moves(r, "tasks")
             /\ UNCHANGED project
          \/ /\ job[r].fenced
             /\ Goes(r, [job[r] EXCEPT !.at = "tasks", !.lapsed = TRUE])
             /\ UNCHANGED project
    /\ UNCHANGED <<task, agent, template, revisions, issue, links, scene, upsets, history>>

(* No row was written: the reason is asked for afterwards.                 *)
AskTasks(r) ==
    /\ At(r, "archive", "tasks")
    /\ Goes(r, [job[r] EXCEPT !.at = "agents",
                              !.blocked = LiveTasks(job[r].project) # {}])
    /\ UNCHANGED <<rows, scene, upsets, history>>

(* Blocked by either: the answer is Draining.                              *)
AskAgents(r) ==
    /\ At(r, "archive", "agents")
    /\ IF job[r].blocked \/ LiveAgents(job[r].project) # {}
       THEN Answers(r) ELSE Moves(r, "look")
    /\ UNCHANGED <<rows, scene, upsets, history>>

(* The answer is Archived, or else Fenced.                                 *)
Look(r) ==
    /\ At(r, "archive", "look")
    /\ Answers(r)
    /\ UNCHANGED <<rows, scene, upsets, history>>
=============================================================================
