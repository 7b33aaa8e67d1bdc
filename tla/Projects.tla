------------------------------- MODULE Projects -------------------------------
(***************************************************************************)
(* Everything a project holds, with all the handlers at work on the same   *)
(* rows: ProjectWork, TemplateWork (which locks against the pins of        *)
(* ProjectWork) and IssueWork (whose links meet its tasks).                *)
(***************************************************************************)
EXTENDS TemplateWork, IssueWork

TypeOK ==
    /\ project \in [Project -> {"none", "active", "draining", "archived"}]
    /\ task \in [Task -> [is : {"absent", "live", "ended", "deleted"},
                          project : Project \cup {None}]]
    /\ agent \in [Agent -> [is : {"absent", "ready", "stopped"},
                            project : Project \cup {None}, pin : Pins \cup {None}]]
    /\ template \in [Template -> {"none", "draft", "published", "deprecated",
                                  "retired", "discarded"}]
    /\ DOMAIN revisions = Template
    /\ \A t \in Template : revisions[t] \in Seq(BOOLEAN) /\ Len(revisions[t]) <= MaxRevision
    /\ issue \in [Issue -> [status : IssueStatus, reason : Reason \cup {None},
                            project : Project \cup {None}, revised : SUBSET Field]]
    /\ links \subseteq [issue : Issue, task : Task \cup {None}, label : Task]
    /\ DOMAIN job = Request
    /\ scene \in Scenes /\ upsets \in 0..scene.lost
    /\ late \subseteq Task \cup Agent /\ barred \subseteq Task \cup Agent
    /\ decided \in [Issue -> [status : IssueStatus, reason : Reason \cup {None}]]

Init ==
    /\ scene \in Scenes
    /\ project = [p \in Project |-> IF p \in scene.open THEN "active" ELSE "none"]
    /\ task = [t \in Task |->
                  IF t \in DOMAIN scene.tasks
                  THEN [is |-> "live", project |-> scene.tasks[t]]
                  ELSE [is |-> "absent", project |-> None]]
    /\ agent = [a \in Agent |->
                   IF a \in DOMAIN scene.agents
                   THEN [is |-> "ready", project |-> scene.agents[a], pin |-> None]
                   ELSE [is |-> "absent", project |-> None, pin |-> None]]
    /\ template = [t \in Template |-> "none"]
    /\ revisions = [t \in Template |-> <<>>]
    /\ issue = [i \in Issue |-> [status |-> "none", reason |-> None,
                                 project |-> None, revised |-> {}]]
    /\ links = {}
    /\ job = [r \in Request |-> Idle]
    /\ upsets = 0
    /\ late = {} /\ barred = {}
    /\ decided = [i \in Issue |-> [status |-> "none", reason |-> None]]

(* The process ends or the client goes away: a handler stops where it is   *)
(* and its transaction is rolled back.                                     *)
Abandon(r) ==
    /\ job[r] # Idle /\ upsets < scene.lost
    /\ upsets' = upsets + 1
    /\ Answers(r)
    /\ UNCHANGED <<rows, scene, history>>

(* What a handler that runs does next.                                     *)
Step(r) ==
    \/ FindParent(r) \/ CheckNamed(r) \/ FindAgent(r) \/ CheckInherited(r)
    \/ CheckFinal(r) \/ InsertTask(r)
    \/ CheckAgentProject(r) \/ LockPin(r) \/ InsertAgent(r)
    \/ Drain(r) \/ Seal(r) \/ AskTasks(r) \/ AskAgents(r) \/ Look(r)
    \/ LockToRevise(r) \/ InsertRevision(r)
    \/ CheckTurn(r) \/ WriteTurn(r) \/ LockToRetire(r) \/ CommitRetire(r)
    \/ WriteFields(r) \/ WriteStatus(r) \/ FindLinkTask(r) \/ WriteLink(r)

Next ==
    \/ \E p \in Project : CreateProject(p)
    \/ \E r \in Request : SubmitBegins(r) \/ AgentBegins(r) \/ Step(r) \/ Abandon(r)
    \/ \E r \in Request, p \in Project : ArchiveBegins(r, p)
    \/ \E t \in Task : TaskEnds(t) \/ DeleteTask(t)
    \/ \E a \in Agent : StopAgent(a)
    \/ \E t \in Template : CreateTemplate(t)
    \/ \E r \in Request, t \in Template : ReviseBegins(r, t)
    \/ \E t \in Template, n \in 1..MaxRevision : Revoke(t, n)
    \/ \E r \in Request, t \in Template,
          to \in {"published", "deprecated", "retired", "discarded"} : TurnBegins(r, t, to)
    \/ \E i \in Issue, p \in Project : CreateIssue(i, p)
    \/ \E r \in Request, i \in Issue, f \in Field : EditBegins(r, i, f)
    \/ \E r \in Request, i \in Issue, to \in IssueStatus \ {"none"},
          why \in Reason \cup {None} : TurnIssueBegins(r, i, to, why)
    \/ \E r \in Request, i \in Issue, t \in Task : LinkBegins(r, i, t)
    \/ \E i \in Issue, t \in Task : Unlink(i, t)

Spec == Init /\ [][Next]_vars

(* A handler goes on; tasks end; operators retire the agents of a project  *)
(* that closes, which is what the answer Draining tells them, and ask      *)
(* again for as long as it is draining, though other requests may get in   *)
(* before them; of the archive statements that are free to go, not every   *)
(* one meets a lapsed lease.                                               *)
Fairness ==
    /\ \A r \in Request : WF_vars(Step(r))
    /\ \A t \in Task : WF_vars(TaskEnds(t))
    /\ \A a \in Agent : WF_vars(agent[a].project \in Closed /\ StopAgent(a))
    /\ \A p \in Project :
          /\ SF_vars(project[p] = "draining" /\ \E r \in Request : ArchiveBegins(r, p))
          /\ SF_vars(\E r \in Request : Seal(r) /\ project'[p] # project[p])

FairSpec == Spec /\ Fairness

-----------------------------------------------------------------------------
(* Nothing is asked of a project that is already closed and gets in, by a  *)
(* named project, a parent's or an agent's; and under an archived project  *)
(* nothing is alive but what a handler had checked before the project      *)
(* closed (ensure_project_active, archive_project_if_drained).             *)
ClosedProjectsDrain ==
    /\ barred = {}
    /\ \A p \in Project : project[p] = "archived"
                             => LiveTasks(p) \cup LiveAgents(p) \subseteq late

(* At the moment a transaction commits, what it checked under its locks    *)
(* still holds: an agent is pinned to an open revision of a template that  *)
(* accepts pins, a revision joins a template that accepts revisions under  *)
(* a number no other publisher has taken, and a template is retired over   *)
(* exactly the dependents its retirer was shown (create_agent,             *)
(* create_agent_template_revision, retire_agent_template).                 *)
PinsAreSettled ==
    [][/\ \A a \in Agent :
             agent[a].is = "absent" /\ agent'[a].is = "ready" /\ agent'[a].pin # None
                => Pinnable(agent'[a].pin)
       /\ \A t \in Template :
             Len(revisions'[t]) > Len(revisions[t]) => template[t] \in AcceptsRevisions
       /\ \A r \in Request :
             At(r, "revise", "insert") => job[r].number = Len(revisions[job[r].template]) + 1
       /\ \A r \in Request :
             At(r, "turn", "retire") /\ template'[job[r].template] = "retired"
                => Dependents(job[r].template) = job[r].shown]_vars

(* Whatever edits overtake it, an issue is in the state the last           *)
(* transition put it in, with a reason exactly while it is closed          *)
(* (update_issue_fields, transition_issue); and a link names a task that   *)
(* exists and stands inside the issue's project, or the label of one that  *)
(* was deleted (link_issue_task, the foreign key of migration 023).        *)
IssueStatusIsDecided ==
    /\ \A i \in Issue : /\ issue[i].status = decided[i].status
                        /\ issue[i].reason = decided[i].reason
                        /\ (issue[i].status = "closed") = (issue[i].reason # None)
    /\ \A l \in links :
          IF l.task = None THEN task[l.label].is = "deleted"
          ELSE Exists(l.task) /\ SameProject(task[l.task].project, issue[l.issue].project)

(* An archive that has been asked for comes to its end, whatever was in    *)
(* flight when the project closed (advance_project_archive).               *)
DrainedIsArchived ==
    \A p \in Project : project[p] = "draining" ~> project[p] = "archived"
=============================================================================
