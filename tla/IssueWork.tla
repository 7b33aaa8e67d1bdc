------------------------------- MODULE IssueWork -------------------------------
(***************************************************************************)
(* Issues of a project and their links to tasks.  Every handler loads the  *)
(* row, decides on what it read and writes a statement that names the row  *)
(* and nothing else.                                                       *)
(***************************************************************************)
EXTENDS ProjectState

IssueStatus == {"none", "open", "triaged", "ready_for_agent", "resolved", "closed"}

Filed(i) == issue[i].status # "none"

(* create_issue_api, handle_create_issue: the project exists, whatever its *)
(* status; nothing deletes it between the look and the insert.             *)
CreateIssue(i, p) ==
    /\ Asked("issue") /\ ~Filed(i) /\ project[p] # "none"
    /\ issue' = [issue EXCEPT ![i] = [status |-> "open", reason |-> None,
                                      project |-> p, revised |-> {}]]
    /\ decided' = [decided EXCEPT ![i] = [status |-> "open", reason |-> None]]
    /\ UNCHANGED <<project, task, agent, template, revisions, links, job, scene,
                   upsets, late, barred>>

(* update_issue_api: the row is loaded, fields of the request replace its  *)
(* own, and all fields are written back.                                   *)
EditBegins(r, i, field) ==
    /\ Asked("issue") /\ Filed(i)
    /\ Begins(r, [op |-> "edit", at |-> "write", issue |-> i, field |-> field,
                  read |-> issue[i]])
    /\ UNCHANGED <<rows, scene, upsets, history>>

(* Mutant: the whole row is written back, the status with it.              *)
WriteWhole(r) ==
    /\ At(r, "edit", "write")
    /\ Answers(r)
    /\ issue' = [issue EXCEPT ![job[r].issue] =
                     [job[r].read EXCEPT !.revised = @ \cup {job[r].field}]]
    /\ UNCHANGED <<project, task, agent, template, revisions, links, scene, upsets, history>>

WriteFields(r) ==
    /\ At(r, "edit", "write")
    /\ Answers(r)
    /\ issue' = [issue EXCEPT ![job[r].issue].revised =
                     job[r].read.revised \cup {job[r].field}]
    /\ UNCHANGED <<project, task, agent, template, revisions, links, scene, upsets, history>>

(* transition_issue_api, handle_transition_issue: a refused transition is  *)
(* answered without a write.                                               *)
TurnIssueBegins(r, i, to, reason) ==
    /\ Asked("issue") /\ Filed(i)
    /\ MayTurn(issue[i], to, reason)
    /\ Begins(r, [op |-> "decide", at |-> "write", issue |-> i, to |-> to,
                  reason |-> reason])
    /\ UNCHANGED <<rows, scene, upsets, history>>

WriteStatus(r) ==
    /\ At(r, "decide", "write")
    /\ Answers(r)
    /\ LET i == job[r].issue IN
          /\ issue' = [issue EXCEPT ![i].status = job[r].to, ![i].reason = job[r].reason]
          /\ decided' = [decided EXCEPT ![i] = [status |-> job[r].to,
                                                reason |-> job[r].reason]]
    /\ UNCHANGED <<project, task, agent, template, revisions, links, scene, upsets,
                   late, barred>>

(* link_issue_task_api: the issue, the task, the boundary, the insert.     *)
LinkBegins(r, i, t) ==
    /\ Asked("issue") /\ Filed(i)
    /\ Begins(r, [op |-> "link", at |-> "task", issue |-> i, task |-> t])
    /\ UNCHANGED <<rows, scene, upsets, history>>

FindLinkTask(r) ==
    /\ At(r, "link", "task")
    /\ LET j == job[r] IN
          IF Exists(j.task) /\ SameProject(task[j.task].project, issue[j.issue].project)
          THEN Moves(r, "write") ELSE Answers(r)
    /\ UNCHANGED <<rows, scene, upsets, history>>

(* ON CONFLICT DO NOTHING; the foreign key refuses a task deleted since.   *)
WriteLink(r) ==
    /\ At(r, "link", "write")
    /\ Answers(r)
    /\ LET j == job[r] IN
          links' = IF Exists(j.task)
                   THEN links \cup {[issue |-> j.issue, task |-> j.task, label |-> j.task]}
                   ELSE links
    /\ UNCHANGED <<project, task, agent, template, revisions, issue, scene, upsets, history>>

(* unlink_issue_task_api: one statement; a link whose task is gone has no  *)
(* task id any more and stays.                                             *)
Unlink(i, t) ==
    /\ Asked("issue")
    /\ links' = {l \in links : l.issue # i \/ l.task # t}
    /\ links' # links
    /\ UNCHANGED <<project, task, agent, template, revisions, issue, job, scene,
                   upsets, history>>
=============================================================================
