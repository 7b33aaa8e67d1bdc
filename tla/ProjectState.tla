----------------------------- MODULE ProjectState -----------------------------
(***************************************************************************)
(* Projects and what belongs to them: tasks, agents, agent templates with  *)
(* their revisions, issues with their links to tasks.  People ask for      *)
(* changes on two surfaces, the dashboard and the MCP server; both handle  *)
(* a request as a row of separate database statements, so other requests   *)
(* come between any two of them.  This module holds the rows, the rule     *)
(* tables of fleet-core and what the handlers of ProjectWork, TemplateWork *)
(* and IssueWork share.                                                    *)
(***************************************************************************)
EXTENDS Integers, FiniteSets, Sequences

CONSTANTS Project, Task, Agent, Template, Issue,
          Field,        \* the editable fields of an issue
          Reason,       \* the reasons an issue may be closed for
          Request,      \* bound: handlers that run at the same time
          None,         \* no project, no agent, no pin, no reason
          MaxRevision,  \* bound: revisions of one template
          Scenes        \* what people ask for, what is there when they
                        \* start, and how many handlers are lost (`lost`)

ASSUME ProjectsAssumption ==
    /\ MaxRevision \in Nat
    /\ None \notin Project \cup Task \cup Agent \cup Reason
    /\ IsFiniteSet(Task) /\ IsFiniteSet(Agent) /\ IsFiniteSet(Request)
    /\ Task \cap Agent = {}    \* `late` and `barred` hold ids of both tables
    /\ \A s \in Scenes :
          /\ s.open \subseteq Project /\ s.lost \in Nat
          /\ DOMAIN s.tasks \subseteq Task /\ DOMAIN s.agents \subseteq Agent
          /\ \A t \in DOMAIN s.tasks : s.tasks[t] \in s.open \cup {None}
          /\ \A a \in DOMAIN s.agents : s.agents[a] \in s.open

VARIABLES
    project,    \* projects.status, or "none"
    task,       \* tasks: alive, over or deleted, and the project
    agent,      \* agents: alive or retired, the project and the pin
    template,   \* agent_templates.status, or "none"
    revisions,  \* agent_template_revisions: by number, revoked or not
    issue,      \* issues
    links,      \* issue_task_links
    job,        \* the handlers, between two statements
    scene,      \* the scene being played
    upsets,     \* handlers lost so far
    late,       \* history: live rows inserted after their project closed
    barred,     \* history: rows whose project was closed when they were asked for
    decided     \* history: what the last transition of an issue wrote

rows == <<project, task, agent, template, revisions, issue, links>>
history == <<late, barred, decided>>
vars == <<rows, job, scene, upsets, history>>

-----------------------------------------------------------------------------
(* The rule tables.                                                        *)

(* ProjectStatus::accepts_new_tasks, asked for agents as well.             *)
Accepts(p) == project[p] = "active"

AcceptsPins == {"published", "deprecated"}
AcceptsRevisions == {"draft", "published", "deprecated"}

TemplateEdges ==
    {<<"draft", "published">>, <<"draft", "discarded">>,
     <<"published", "deprecated">>, <<"published", "retired">>,
     <<"deprecated", "published">>, <<"deprecated", "retired">>}

IssueEdges ==
    {<<"open", "triaged">>, <<"triaged", "ready_for_agent">>,
     <<"ready_for_agent", "triaged">>, <<"open", "resolved">>,
     <<"triaged", "resolved">>, <<"ready_for_agent", "resolved">>,
     <<"open", "closed">>, <<"triaged", "closed">>, <<"resolved", "closed">>,
     <<"resolved", "open">>, <<"closed", "open">>}

(* Issue::transition_to: an edge of the table, with a reason exactly when  *)
(* the issue is closed.                                                    *)
MayTurn(row, to, reason) ==
    <<row.status, to>> \in IssueEdges /\ (to = "closed") = (reason # None)

(* task_project_matches_issue_project: the general pool matches anything.  *)
SameProject(taskProject, issueProject) == taskProject \in {None, issueProject}

-----------------------------------------------------------------------------
(* Handlers.  A handler that has been answered is forgotten.               *)
Idle == [op |-> "idle"]

At(r, op, at) == job[r].op = op /\ job[r].at = at

Asked(kind) == kind \in scene.asks

(* The slots have no names in the code: the next free one is taken.        *)
Begins(r, j) ==
    /\ r \in Request
    /\ {s \in Request : job[s] = Idle} # {}
    /\ r = CHOOSE s \in Request : job[s] = Idle
    /\ job' = [job EXCEPT ![r] = j]

Goes(r, j) == job' = [job EXCEPT ![r] = j]
Moves(r, at) == job' = [job EXCEPT ![r].at = at]
Answers(r) == job' = [job EXCEPT ![r] = Idle]

Closed == {p \in Project : project[p] \in {"draining", "archived"}}

(* A new live row x of project p, asked for when `closed` were closed.     *)
Joins(x, p, closed) ==
    /\ late' = IF p \in Closed THEN late \cup {x} ELSE late
    /\ barred' = IF p \in closed THEN barred \cup {x} ELSE barred
    /\ UNCHANGED decided

Leaves(x) == late' = late \ {x} /\ UNCHANGED <<barred, decided>>

LiveTasks(p) == {t \in Task : task[t] = [is |-> "live", project |-> p]}
LiveAgents(p) == {a \in Agent : agent[a].is = "ready" /\ agent[a].project = p}
Drained(p) == LiveTasks(p) = {} /\ LiveAgents(p) = {}

(* A row that is there, dead or alive.                                     *)
Exists(t) == task[t].is \in {"live", "ended"}

(* Ids left to give out, the ones promised to running handlers deducted.   *)
Spare(table, op) ==
    Cardinality({x \in DOMAIN table : table[x].is = "absent"})
        > Cardinality({r \in Request : job[r].op = op})
=============================================================================
