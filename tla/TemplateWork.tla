----------------------------- MODULE TemplateWork -----------------------------
(***************************************************************************)
(* Agent templates and their revisions.  Publishing a revision and         *)
(* retiring a template are transactions that lock the template row; the    *)
(* other status changes read, decide and write without looking again.      *)
(***************************************************************************)
EXTENDS ProjectWork

Known(t) == template[t] # "none"
Unlocked(t) == Holds(t) = {}
Dependents(t) == {a \in Agent : agent[a].is # "absent" /\ agent[a].pin # None
                                /\ agent[a].pin.template = t}

(* create_agent_template_api: always a draft.                              *)
CreateTemplate(t) ==
    /\ Asked("template") /\ ~Known(t)
    /\ template' = [template EXCEPT ![t] = "draft"]
    /\ UNCHANGED <<project, task, agent, revisions, issue, links, job, scene,
                   upsets, history>>

(* create_agent_template_revision_api, from load_agent_template on; two    *)
(* people may publish at once.                                             *)
ReviseBegins(r, t) ==
    /\ Asked("template") /\ Known(t) /\ Len(revisions[t]) < MaxRevision
    /\ Begins(r, [op |-> "revise", at |-> "lock", template |-> t, number |-> 0])
    /\ UNCHANGED <<rows, scene, upsets, history>>

(* SELECT status ... FOR UPDATE waits for pins and for other holders; the  *)
(* number is the highest one plus one.  Bound: there are MaxRevision.      *)
LockToRevise(r) ==
    /\ At(r, "revise", "lock")
    /\ LET t == job[r].template
           number == Len(revisions[t]) + 1 IN
          /\ Unlocked(t) /\ Shares(t) = {}
          /\ IF template[t] \in AcceptsRevisions /\ number <= MaxRevision
             THEN Goes(r, [job[r] EXCEPT !.at = "insert", !.number = number])
             ELSE Answers(r)
    /\ UNCHANGED <<rows, scene, upsets, history>>

(* The INSERT and the commit; a number that is taken is refused.           *)
InsertRevision(r) ==
    /\ At(r, "revise", "insert")
    /\ Answers(r)
    /\ LET t == job[r].template IN
          revisions' = IF job[r].number <= Len(revisions[t]) THEN revisions
                       ELSE [revisions EXCEPT ![t] = Append(@, FALSE)]
    /\ UNCHANGED <<project, task, agent, template, issue, links, scene, upsets, history>>

(* revoke_agent_template_revision: one statement on the revision row,      *)
(* which a pin transaction may be holding.                                 *)
Revoke(t, n) ==
    /\ Asked("template")
    /\ n <= Len(revisions[t]) /\ ~revisions[t][n]
    /\ \A r \in Shares(t) : job[r].pin.number # n
    /\ revisions' = [revisions EXCEPT ![t][n] = TRUE]
    /\ UNCHANGED <<project, task, agent, template, issue, links, job, scene,
                   upsets, history>>

(* change_agent_template_status_api.  Whoever retires a template sends the *)
(* hash of the dependents it was shown (agent_template_dependents_api).    *)
TurnBegins(r, t, to) ==
    /\ Asked("template") /\ Known(t)
    /\ Begins(r, [op |-> "turn", at |-> "check", template |-> t, to |-> to,
                  shown |-> IF to = "retired" THEN Dependents(t) ELSE {}])
    /\ UNCHANGED <<rows, scene, upsets, history>>

CheckTurn(r) ==
    /\ At(r, "turn", "check")
    /\ LET j == job[r] IN
          IF <<template[j.template], j.to>> \notin TemplateEdges THEN Answers(r)
          ELSE Moves(r, IF j.to = "retired" THEN "lock" ELSE "write")
    /\ UNCHANGED <<rows, scene, upsets, history>>

(* update_agent_template_status: an UPDATE by id, which waits for locks.   *)
WriteTurn(r) ==
    /\ At(r, "turn", "write")
    /\ LET t == job[r].template IN
          /\ Unlocked(t) /\ Shares(t) = {}
          /\ template' = [template EXCEPT ![t] = job[r].to]
    /\ Answers(r)
    /\ UNCHANGED <<project, task, agent, revisions, issue, links, scene, upsets, history>>

(* retire_agent_template: the lock, the count and the comparison; then the *)
(* UPDATE and the commit.  The status it reads it does not look at.        *)
LockToRetire(r) ==
    /\ At(r, "turn", "lock")
    /\ LET t == job[r].template IN
          /\ Unlocked(t) /\ Shares(t) = {}
          /\ IF Dependents(t) = job[r].shown THEN Moves(r, "retire") ELSE Answers(r)
    /\ UNCHANGED <<rows, scene, upsets, history>>

CommitRetire(r) ==
    /\ At(r, "turn", "retire")
    /\ Answers(r)
    /\ template' = [template EXCEPT ![job[r].template] = "retired"]
    /\ UNCHANGED <<project, task, agent, revisions, issue, links, scene, upsets, history>>
=============================================================================
