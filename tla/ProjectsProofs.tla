---------------------------- MODULE ProjectsProofs ----------------------------
(***************************************************************************)
(* Theorems about module Projects, for any projects, tasks, agents,        *)
(* templates, issues and scenes, and any number of handlers at a time.     *)
(***************************************************************************)
EXTENDS Projects, FiniteSetTheorems, SequenceTheorems, TLAPS

USE ProjectsAssumption

(***************************************************************************)
(* The handlers, by what they were asked for.                              *)
(***************************************************************************)
IssueRow == [status : IssueStatus, reason : Reason \cup {None},
             project : Project \cup {None}, revised : SUBSET Field]

Turned == {"published", "deprecated", "retired", "discarded"}

SubmitJob == [op : {"submit"}, at : {"parent", "named", "agent", "inherit", "final", "insert"},
              surface : {"mcp", "dashboard"}, project : Project \cup {None},
              agent : Agent \cup {None}, parent : Task \cup {None},
              closed : SUBSET Project]
AgentJob == [op : {"agent"}, at : {"check", "pin", "insert"}, project : Project,
             pin : Pins \cup {None}, closed : SUBSET Project]
ArchiveJob == [op : {"archive"}, at : {"drain", "seal", "tasks", "agents", "look"},
               project : Project, fenced : BOOLEAN, lapsed : BOOLEAN, blocked : BOOLEAN]
ReviseJob == [op : {"revise"}, at : {"lock", "insert"}, template : Template,
              number : 0..MaxRevision]
TurnJob == [op : {"turn"}, at : {"check", "write", "lock", "retire"},
            template : Template, to : Turned, shown : SUBSET Agent]
EditJob == [op : {"edit"}, at : {"write"}, issue : Issue, field : Field, read : IssueRow]
DecideJob == [op : {"decide"}, at : {"write"}, issue : Issue,
              to : IssueStatus \ {"none"}, reason : Reason \cup {None}]
LinkJob == [op : {"link"}, at : {"task", "write"}, issue : Issue, task : Task]

Job == {Idle} \cup SubmitJob \cup AgentJob \cup ArchiveJob \cup ReviseJob
         \cup TurnJob \cup EditJob \cup DecideJob \cup LinkJob

(* A submission that goes on to its insert has had its project accepted    *)
(* since it was asked for: the one it names, inherits from its parent, or  *)
(* from its agent.                                                         *)
SubmitFits(j) ==
    /\ j.closed \subseteq Closed
    /\ j.at \in {"named", "final"} => j.project # None
    /\ j.at = "named" => j.surface = "mcp"
    /\ j.at = "parent" => j.surface = "dashboard" /\ j.parent # None
    /\ j.at \in {"agent", "inherit"} => j.agent # None
    /\ j.at = "agent" /\ j.surface = "mcp" => j.project \notin j.closed
    /\ j.at = "inherit" => agent[j.agent].is # "absent"
    /\ j.at = "insert" => j.project \notin j.closed

AgentFits(j) ==
    /\ j.closed \subseteq Closed
    /\ j.at # "check" => j.project \notin j.closed
    /\ j.at = "pin" => j.pin # None

DecideFits(j) == Filed(j.issue) /\ (j.to = "closed") = (j.reason # None)

LinkFits(j) ==
    /\ Filed(j.issue)
    /\ j.at = "write" => /\ task[j.task].is # "absent"
                         /\ SameProject(task[j.task].project, issue[j.issue].project)

(* What a handler has found out, and still holds.                          *)
Fits(j) ==
    /\ j.op = "submit" => SubmitFits(j)
    /\ j.op = "agent" => AgentFits(j)
    /\ j.op = "turn" => (j.at \in {"lock", "retire"} => j.to = "retired")
                        /\ (j.at = "write" => j.to # "retired")
    /\ j.op = "edit" => Filed(j.issue)
    /\ j.op = "decide" => DecideFits(j)
    /\ j.op = "link" => LinkFits(j)

(* The locks of a transaction, and what it has found under them.           *)
SharesIn(j, t) == j.op = "agent" /\ j.at = "insert" /\ j.pin # None /\ j.pin.template = t
HoldsIn(j, t) == \/ j.op = "revise" /\ j.at = "insert" /\ j.template = t
                 \/ j.op = "turn" /\ j.at = "retire" /\ j.template = t

FoundUnderLock(j) ==
    /\ j.op = "agent" /\ j.at = "insert" /\ j.pin # None => Pinnable(j.pin)
    /\ j.op = "revise" /\ j.at = "insert" =>
          /\ template[j.template] \in AcceptsRevisions
          /\ j.number = Len(revisions[j.template]) + 1
    /\ j.op = "turn" /\ j.at = "retire" => Dependents(j.template) = j.shown

JobsInv ==
    /\ job \in [Request -> Job]
    /\ \A r \in Request : Fits(job[r]) /\ FoundUnderLock(job[r])

(* Whoever holds a template's lock is alone with it.                       *)
LocksInv ==
    \A r, s \in Request : r # s =>
        \A t \in Template :
            HoldsIn(job[r], t) => ~HoldsIn(job[s], t) /\ ~SharesIn(job[s], t)

(* There is an id left for every handler that will insert a row.           *)
FreeTasks == {t \in Task : task[t].is = "absent"}
FreeAgents == {a \in Agent : agent[a].is = "absent"}
Doing(op) == {r \in Request : job[r].op = op}

RoomInv ==
    /\ Cardinality(Doing("submit")) <= Cardinality(FreeTasks)
    /\ Cardinality(Doing("agent")) <= Cardinality(FreeAgents)

(* A row that is there has a project (an agent), or the issue it is for.   *)
RowTypes ==
    /\ project \in [Project -> {"none", "active", "draining", "archived"}]
    /\ task \in [Task -> [is : {"absent", "live", "ended", "deleted"},
                          project : Project \cup {None}]]
    /\ agent \in [Agent -> [is : {"absent", "ready", "stopped"},
                            project : Project \cup {None}, pin : Pins \cup {None}]]
    /\ \A a \in Agent : agent[a].is # "absent" => agent[a].project \in Project

TemplateTypes ==
    /\ template \in [Template -> {"none", "draft", "published", "deprecated",
                                  "retired", "discarded"}]
    /\ revisions \in [Template -> Seq(BOOLEAN)]
    /\ \A t \in Template : Len(revisions[t]) <= MaxRevision

IssueTypes ==
    /\ issue \in [Issue -> IssueRow]
    /\ links \subseteq [issue : Issue, task : Task \cup {None}, label : Task]
    /\ decided \in [Issue -> [status : IssueStatus, reason : Reason \cup {None}]]

BoundTypes ==
    /\ scene \in Scenes /\ upsets \in 0..scene.lost
    /\ late \subseteq Task \cup Agent

DrainInv == ClosedProjectsDrain

(* A link is of an issue that was filed, and bears its task's label.       *)
IssueInv ==
    /\ IssueStatusIsDecided
    /\ \A l \in links : Filed(l.issue) /\ (l.task # None => l.task = l.label)

(* The inductive invariant.                                                *)
ProjectsInv ==
    /\ RowTypes /\ TemplateTypes /\ IssueTypes /\ BoundTypes
    /\ JobsInv /\ LocksInv /\ RoomInv /\ DrainInv /\ IssueInv

-------------------------------------------------------------------------------
(***************************************************************************)
(* The start.                                                              *)
(***************************************************************************)
LEMMA InitProjects == Init => ProjectsInv
  <1> SUFFICES ASSUME Init PROVE ProjectsInv
    OBVIOUS
  <1>0. /\ scene \in Scenes /\ scene.open \subseteq Project /\ scene.lost \in Nat
        /\ DOMAIN scene.tasks \subseteq Task /\ DOMAIN scene.agents \subseteq Agent
        /\ \A t \in DOMAIN scene.tasks : scene.tasks[t] \in scene.open \cup {None}
        /\ \A a \in DOMAIN scene.agents : scene.agents[a] \in scene.open
    BY DEF Init
  <1>1. RowTypes
    <2>1. project \in [Project -> {"none", "active", "draining", "archived"}]
      BY DEF Init
    <2>2. task \in [Task -> [is : {"absent", "live", "ended", "deleted"},
                             project : Project \cup {None}]]
      BY <1>0 DEF Init
    <2>3. ASSUME NEW a \in Agent
          PROVE  /\ agent[a] \in [is : {"absent", "ready", "stopped"},
                                  project : Project \cup {None}, pin : Pins \cup {None}]
                 /\ agent[a].is # "absent" => agent[a].project \in Project
      BY <1>0 DEF Init
    <2>4. agent = [a \in Agent |-> agent[a]]
      BY DEF Init
    <2>5. agent \in [Agent -> [is : {"absent", "ready", "stopped"},
                               project : Project \cup {None}, pin : Pins \cup {None}]]
      BY <2>3, <2>4
    <2> QED BY <2>1, <2>2, <2>3, <2>5 DEF RowTypes
  <1>2. TemplateTypes
    <2>1. revisions = [t \in Template |-> <<>>] /\ <<>> \in Seq(BOOLEAN) /\ Len(<<>>) = 0
      BY DEF Init
    <2> QED BY <2>1 DEF Init, TemplateTypes
  <1>3. IssueTypes
    BY DEF Init, IssueTypes, IssueRow, IssueStatus
  <1>4. BoundTypes
    BY <1>0 DEF Init, BoundTypes
  <1>5. \A r \in Request : job[r] = Idle /\ job[r].op = "idle"
    BY DEF Init, Idle
  <1>6. JobsInv
    BY <1>5 DEF Init, JobsInv, Job, Fits, FoundUnderLock, Idle
  <1>7. LocksInv
    BY <1>5 DEF LocksInv, HoldsIn
  <1>8. RoomInv
    <2>1. Doing("submit") = {} /\ Doing("agent") = {}
      BY <1>5 DEF Doing
    <2>2. IsFiniteSet(FreeTasks) /\ IsFiniteSet(FreeAgents)
      BY FS_Subset DEF FreeTasks, FreeAgents
    <2>3. Cardinality(FreeTasks) \in Nat /\ Cardinality(FreeAgents) \in Nat
      BY <2>2, FS_CardinalityType
    <2>4. Cardinality({}) = 0
      BY FS_EmptySet
    <2> QED BY <2>1, <2>3, <2>4 DEF RoomInv
  <1>9. DrainInv
    BY DEF Init, DrainInv, ClosedProjectsDrain
  <1>10. IssueInv
    BY DEF Init, IssueInv, IssueStatusIsDecided
  <1> QED BY <1>1, <1>2, <1>3, <1>4, <1>6, <1>7, <1>8, <1>9, <1>10 DEF ProjectsInv

-------------------------------------------------------------------------------
(***************************************************************************)
(* Steps of a handler that move no row.                                    *)
(***************************************************************************)

(* A handler that takes no new id leaves room for the others.              *)
LEMMA FewerNeedLess ==
    ASSUME NEW op, NEW S, IsFiniteSet(S), Cardinality(Doing(op)) <= Cardinality(S),
           Doing(op)' \subseteq Doing(op)
    PROVE  Cardinality(Doing(op)') <= Cardinality(S)
  <1>1. IsFiniteSet(Doing(op))
    BY FS_Subset DEF Doing
  <1>2. Cardinality(Doing(op)') <= Cardinality(Doing(op)) /\ IsFiniteSet(Doing(op)')
    BY <1>1, FS_Subset
  <1>3. /\ Cardinality(Doing(op)') \in Nat /\ Cardinality(Doing(op)) \in Nat
        /\ Cardinality(S) \in Nat
    BY <1>1, <1>2, FS_CardinalityType
  <1> QED BY <1>2, <1>3

(* One that begins takes one of those that are spare.                      *)
LEMMA OneMoreNeedsOne ==
    ASSUME NEW op, NEW S, IsFiniteSet(S), Cardinality(S) > Cardinality(Doing(op)),
           NEW r \in Request, Doing(op)' \subseteq Doing(op) \cup {r}
    PROVE  Cardinality(Doing(op)') <= Cardinality(S)
  <1>1. IsFiniteSet(Doing(op))
    BY FS_Subset DEF Doing
  <1>2. /\ IsFiniteSet(Doing(op) \cup {r})
        /\ Cardinality(Doing(op) \cup {r}) <= Cardinality(Doing(op)) + 1
    <2>1. Cardinality(Doing(op)) \in Nat
      BY <1>1, FS_CardinalityType
    <2>2. /\ IsFiniteSet(Doing(op) \cup {r})
          /\ \/ Cardinality(Doing(op) \cup {r}) = Cardinality(Doing(op))
             \/ Cardinality(Doing(op) \cup {r}) = Cardinality(Doing(op)) + 1
      BY <1>1, FS_AddElement
    <2> QED BY <2>1, <2>2
  <1>3. Cardinality(Doing(op)') <= Cardinality(Doing(op) \cup {r}) /\ IsFiniteSet(Doing(op)')
    BY <1>2, FS_Subset
  <1>4. /\ Cardinality(Doing(op)') \in Nat /\ Cardinality(Doing(op)) \in Nat
        /\ Cardinality(Doing(op) \cup {r}) \in Nat /\ Cardinality(S) \in Nat
    BY <1>1, <1>2, <1>3, FS_CardinalityType
  <1> QED BY <1>2, <1>3, <1>4

(* Whether a handler that has become j may still get its id.               *)
MayHaveRoom(r, j) ==
    /\ j.op = "submit" => job[r].op = "submit" \/ Spare(task, "submit")
    /\ j.op = "agent" => job[r].op = "agent" \/ Spare(agent, "agent")

(* Whether it gets in the way of a lock.                                   *)
MayHold(r, j) ==
    \A t \in Template :
        /\ HoldsIn(j, t) => Holds(t) = {} /\ Shares(t) = {}
        /\ SharesIn(j, t) => Holds(t) = {}

LEMMA HandlerGoes ==
    ASSUME ProjectsInv, NEW r \in Request, NEW j \in Job,
           Goes(r, j), UNCHANGED <<rows, scene, history>>,
           upsets' \in 0..scene.lost,
           Fits(j), FoundUnderLock(j), MayHaveRoom(r, j), MayHold(r, j)
    PROVE  ProjectsInv'
  <1> USE DEF rows, history
  <1>1. /\ job \in [Request -> Job] /\ job' \in [Request -> Job]
        /\ \A s \in Request : job'[s] = IF s = r THEN j ELSE job[s]
    BY DEF Goes, ProjectsInv, JobsInv
  <1>2. RowTypes' /\ TemplateTypes' /\ IssueTypes' /\ BoundTypes'
    BY DEF ProjectsInv, RowTypes, TemplateTypes, IssueTypes, BoundTypes
  <1>3. JobsInv'
    <2>1. \A k : Fits(k)' = Fits(k)
      BY DEF Fits, SubmitFits, AgentFits, DecideFits, LinkFits, Closed, Filed
    <2>2. \A k : FoundUnderLock(k)' = FoundUnderLock(k)
      BY DEF FoundUnderLock, Pinnable, Dependents
    <2> QED BY <1>1, <2>1, <2>2 DEF ProjectsInv, JobsInv
  <1>4. LocksInv'
    <2> SUFFICES ASSUME NEW s \in Request, NEW u \in Request, s # u
                 PROVE  \A t \in Template : HoldsIn(job'[s], t) =>
                            ~HoldsIn(job'[u], t) /\ ~SharesIn(job'[u], t)
      BY DEF LocksInv, HoldsIn, SharesIn
    <2>1. \A t \in Template : Holds(t) = {} => ~HoldsIn(job[s], t) /\ ~HoldsIn(job[u], t)
      BY DEF Holds, HoldsIn, At
    <2>2. \A t \in Template : Shares(t) = {} => ~SharesIn(job[u], t)
      BY DEF Shares, SharesIn, At
    <2>3. CASE s = r
      BY <1>1, <2>1, <2>2, <2>3 DEF MayHold
    <2>4. CASE u = r
      BY <1>1, <2>1, <2>4 DEF MayHold
    <2>5. CASE s # r /\ u # r
      BY <1>1, <2>5 DEF ProjectsInv, LocksInv
    <2> QED BY <2>3, <2>4, <2>5
  <1>5. RoomInv'
    <2>1. IsFiniteSet(FreeTasks) /\ IsFiniteSet(FreeAgents)
      BY FS_Subset DEF FreeTasks, FreeAgents
    <2>2. FreeTasks' = FreeTasks /\ FreeAgents' = FreeAgents
      BY DEF FreeTasks, FreeAgents
    <2>3. DOMAIN task = Task /\ DOMAIN agent = Agent
      BY DEF ProjectsInv, RowTypes
    <2>4. Spare(task, "submit") => Cardinality(FreeTasks) > Cardinality(Doing("submit"))
      BY <2>3 DEF Spare, FreeTasks, Doing
    <2>5. Spare(agent, "agent") => Cardinality(FreeAgents) > Cardinality(Doing("agent"))
      BY <2>3 DEF Spare, FreeAgents, Doing
    <2>6. \A op : Doing(op)' \subseteq Doing(op) \cup {r}
      BY <1>1 DEF Doing
    <2>7. \A op : j.op # op \/ job[r].op = op => Doing(op)' \subseteq Doing(op)
      BY <1>1 DEF Doing
    <2>8. /\ Cardinality(Doing("submit")) <= Cardinality(FreeTasks)
          /\ Cardinality(Doing("agent")) <= Cardinality(FreeAgents)
      BY DEF ProjectsInv, RoomInv
    <2>9. Cardinality(Doing("submit")') <= Cardinality(FreeTasks)
      <3>1. CASE Doing("submit")' \subseteq Doing("submit")
        BY <3>1, <2>1, <2>8, FewerNeedLess
      <3>2. CASE ~(Doing("submit")' \subseteq Doing("submit"))
        BY <3>2, <2>1, <2>4, <2>6, <2>7, OneMoreNeedsOne DEF MayHaveRoom
      <3> QED BY <3>1, <3>2
    <2>10. Cardinality(Doing("agent")') <= Cardinality(FreeAgents)
      <3>1. CASE Doing("agent")' \subseteq Doing("agent")
        BY <3>1, <2>1, <2>8, FewerNeedLess
      <3>2. CASE ~(Doing("agent")' \subseteq Doing("agent"))
        BY <3>2, <2>1, <2>5, <2>6, <2>7, OneMoreNeedsOne DEF MayHaveRoom
      <3> QED BY <3>1, <3>2
    <2> QED BY <2>2, <2>9, <2>10 DEF RoomInv
  <1>6. DrainInv'
    BY DEF ProjectsInv, DrainInv, ClosedProjectsDrain, LiveTasks, LiveAgents
  <1>7. IssueInv'
    BY DEF ProjectsInv, IssueInv, IssueStatusIsDecided, Exists, Filed
  <1> QED BY <1>2, <1>3, <1>4, <1>5, <1>6, <1>7 DEF ProjectsInv

(* The forms in which the handlers write their steps.                      *)
still == <<rows, scene, upsets, history>>

LEMMA HandlerStays ==
    ASSUME ProjectsInv, NEW r \in Request, NEW j \in Job, Goes(r, j), UNCHANGED still,
           Fits(j), FoundUnderLock(j), MayHaveRoom(r, j), MayHold(r, j)
    PROVE  ProjectsInv'
  <1>1. UNCHANGED <<rows, scene, history>> /\ upsets' \in 0..scene.lost
    BY DEF still, ProjectsInv, BoundTypes
  <1> QED BY <1>1, HandlerGoes

LEMMA JobTyped ==
    ASSUME ProjectsInv, NEW r \in Request
    PROVE  job[r] \in Job /\ Fits(job[r]) /\ FoundUnderLock(job[r])
  BY DEF ProjectsInv, JobsInv

LEMMA AnswersIs ==
    ASSUME NEW r, Answers(r)
    PROVE  Goes(r, Idle)
  BY DEF Answers, Goes

LEMMA MovesIs ==
    ASSUME NEW r, NEW at, Moves(r, at)
    PROVE  Goes(r, [job[r] EXCEPT !.at = at])
  BY DEF Moves, Goes

LEMMA BeginsIs ==
    ASSUME NEW r, NEW j, Begins(r, j)
    PROVE  r \in Request /\ job[r] = Idle /\ Goes(r, j)
  BY DEF Begins, Goes

LEMMA IdleFits ==
    ASSUME NEW r
    PROVE  /\ Idle \in Job /\ Fits(Idle) /\ FoundUnderLock(Idle)
           /\ MayHaveRoom(r, Idle) /\ MayHold(r, Idle)
  <1>1. Idle.op = "idle"
    BY DEF Idle
  <1> QED BY <1>1 DEF Job, Fits, FoundUnderLock, MayHaveRoom, MayHold, HoldsIn, SharesIn

LEMMA HandlerAnswers ==
    ASSUME ProjectsInv, NEW r \in Request, Answers(r), UNCHANGED still
    PROVE  ProjectsInv'
  BY AnswersIs, IdleFits, HandlerStays

-------------------------------------------------------------------------------
(***************************************************************************)
(* Submissions.                                                            *)
(***************************************************************************)
LEMMA SubmitGoes ==
    ASSUME ProjectsInv, NEW r \in Request, NEW j \in SubmitJob, SubmitFits(j), Goes(r, j),
           job[r].op = "submit" \/ Spare(task, "submit"), UNCHANGED still
    PROVE  ProjectsInv'
  <1>1. j \in Job /\ j.op = "submit"
    BY DEF Job, SubmitJob
  <1>2. Fits(j) /\ FoundUnderLock(j) /\ MayHaveRoom(r, j) /\ MayHold(r, j)
    BY <1>1 DEF Fits, FoundUnderLock, MayHaveRoom, MayHold, HoldsIn, SharesIn
  <1> QED BY <1>1, <1>2, HandlerStays

LEMMA SubmitTyped ==
    ASSUME ProjectsInv, NEW r \in Request, job[r].op = "submit"
    PROVE  job[r] \in SubmitJob /\ SubmitFits(job[r])
  <1>1. job[r] \in Job /\ Fits(job[r])
    BY JobTyped
  <1>2. job[r] \in SubmitJob
    BY <1>1 DEF Job, Idle, SubmitJob, AgentJob, ArchiveJob, ReviseJob, TurnJob, EditJob,
                DecideJob, LinkJob
  <1> QED BY <1>1, <1>2 DEF Fits

(* A project that accepts is not among those that were closed before.      *)
LEMMA AcceptedIsOpen ==
    ASSUME NEW closed \in SUBSET Closed, NEW p, Accepts(p)
    PROVE  p \notin closed
  BY DEF Accepts, Closed

(* What follows the agent pin, and what comes before it.                   *)
SubmitState == [op : {"submit"}, at : {"begin", "parent", "named", "agent", "inherit"},
                surface : {"mcp", "dashboard"}, project : Project \cup {None},
                agent : Agent \cup {None}, parent : Task \cup {None},
                closed : SUBSET Project]

LEMMA PinnedFits ==
    ASSUME ProjectsInv, NEW j \in SubmitState, j.closed \subseteq Closed,
           j.surface = "mcp" => j.project \notin j.closed
    PROVE  Pinned(j) \in SubmitJob /\ SubmitFits(Pinned(j))
  <1>1. CASE j.surface = "mcp"
    <2>1. Pinned(j) = [j EXCEPT !.at = "insert"]
      BY <1>1 DEF Pinned
    <2>2. Pinned(j) \in SubmitJob
      BY <2>1 DEF SubmitState, SubmitJob
    <2>3. Pinned(j).at = "insert" /\ Pinned(j).closed = j.closed /\ Pinned(j).project = j.project
      BY <2>1 DEF SubmitState
    <2> QED BY <1>1, <2>2, <2>3 DEF SubmitFits
  <1>2. CASE j.surface = "dashboard"
    <2> DEFINE p == Inherited(j)
               at == IF p = None THEN "insert" ELSE "final"
    <2>1. p \in Project \cup {None}
      BY DEF Inherited, SubmitState, ProjectsInv, RowTypes
    <2>2. Pinned(j) = [j EXCEPT !.project = p, !.at = at]
      BY <1>2 DEF Pinned
    <2>3. at \in {"insert", "final"} /\ (at = "insert" => p = None) /\ (at = "final" => p # None)
      OBVIOUS
    <2> HIDE DEF p, at
    <2>4. Pinned(j) \in SubmitJob
      BY <2>1, <2>2, <2>3 DEF SubmitState, SubmitJob
    <2>5. Pinned(j).at = at /\ Pinned(j).closed = j.closed /\ Pinned(j).project = p
      BY <2>2 DEF SubmitState
    <2>6. None \notin j.closed
      BY DEF SubmitState
    <2> QED BY <2>3, <2>4, <2>5, <2>6 DEF SubmitFits
  <1> QED BY <1>1, <1>2 DEF SubmitState

LEMMA ToPinFits ==
    ASSUME ProjectsInv, NEW j \in SubmitState, j.closed \subseteq Closed,
           j.surface = "mcp" => j.project \notin j.closed
    PROVE  ToPin(j) \in SubmitJob /\ SubmitFits(ToPin(j))
  <1>1. CASE j.agent = None
    BY <1>1, PinnedFits DEF ToPin
  <1>2. CASE j.agent # None
    <2>1. ToPin(j) = [j EXCEPT !.at = "agent"]
      BY <1>2 DEF ToPin
    <2>2. ToPin(j) \in SubmitJob
      BY <2>1 DEF SubmitState, SubmitJob
    <2>3. /\ ToPin(j).at = "agent" /\ ToPin(j).closed = j.closed /\ ToPin(j).agent = j.agent
          /\ ToPin(j).project = j.project /\ ToPin(j).surface = j.surface
      BY <2>1 DEF SubmitState
    <2> QED BY <1>2, <2>2, <2>3 DEF SubmitFits
  <1> QED BY <1>1, <1>2

LEMMA SubmitBeginsInv ==
    ASSUME ProjectsInv, NEW r \in Request, SubmitBegins(r)
    PROVE  ProjectsInv'
  <1>1. PICK named \in Project \cup {None}, to \in Agent \cup {None},
             parent \in Task \cup {None}, surface \in {"mcp", "dashboard"} :
          LET j == [op |-> "submit", at |-> "begin", surface |-> surface,
                    project |-> named, agent |-> to, parent |-> parent,
                    closed |-> Closed]
          IN  /\ surface = "mcp" => parent = None
              /\ Begins(r, IF parent # None THEN [j EXCEPT !.at = "parent"]
                           ELSE IF surface = "mcp" /\ named # None
                                THEN [j EXCEPT !.at = "named"]
                                ELSE ToPin(j))
    BY DEF SubmitBegins
  <1> DEFINE j == [op |-> "submit", at |-> "begin", surface |-> surface,
                   project |-> named, agent |-> to, parent |-> parent, closed |-> Closed]
  <1>2. Spare(task, "submit") /\ UNCHANGED still
    BY DEF SubmitBegins, still
  <1>3. /\ j \in SubmitState /\ j.closed = Closed /\ j.surface = surface
        /\ j.project = named /\ j.parent = parent
    BY DEF SubmitState, Closed
  <1>4. /\ surface = "mcp" => parent = None
        /\ Begins(r, IF parent # None THEN [j EXCEPT !.at = "parent"]
                     ELSE IF surface = "mcp" /\ named # None
                          THEN [j EXCEPT !.at = "named"]
                          ELSE ToPin(j))
    BY <1>1
  <1> HIDE DEF j
  <1>5. CASE parent # None
    <2>1. Goes(r, [j EXCEPT !.at = "parent"])
      BY <1>4, <1>5, BeginsIs
    <2>2. [j EXCEPT !.at = "parent"] \in SubmitJob
      BY <1>3 DEF SubmitState, SubmitJob
    <2>3. SubmitFits([j EXCEPT !.at = "parent"])
      BY <1>3, <1>4, <1>5 DEF SubmitState, SubmitFits
    <2> QED BY <1>2, <2>1, <2>2, <2>3, SubmitGoes
  <1>6. CASE parent = None /\ surface = "mcp" /\ named # None
    <2>1. Goes(r, [j EXCEPT !.at = "named"])
      BY <1>4, <1>6, BeginsIs
    <2>2. [j EXCEPT !.at = "named"] \in SubmitJob
      BY <1>3 DEF SubmitState, SubmitJob
    <2>3. SubmitFits([j EXCEPT !.at = "named"])
      BY <1>3, <1>6 DEF SubmitState, SubmitFits
    <2> QED BY <1>2, <2>1, <2>2, <2>3, SubmitGoes
  <1>7. CASE parent = None /\ ~(surface = "mcp" /\ named # None)
    <2>1. Goes(r, ToPin(j))
      BY <1>4, <1>7, BeginsIs
    <2>2. j.surface = "mcp" => j.project \notin j.closed
      BY <1>3, <1>7 DEF Closed
    <2> QED BY <1>2, <1>3, <2>1, <2>2, ToPinFits, SubmitGoes
  <1> QED BY <1>5, <1>6, <1>7

LEMMA SubmitStepInv ==
    ASSUME ProjectsInv, NEW r \in Request,
           \/ FindParent(r) \/ CheckNamed(r) \/ FindAgent(r) \/ CheckInherited(r) \/ CheckFinal(r)
    PROVE  ProjectsInv'
  <1>1. UNCHANGED still /\ job[r].op = "submit"
    BY DEF FindParent, CheckNamed, FindAgent, CheckInherited, CheckFinal, At, still
  <1>2. job[r] \in SubmitJob /\ SubmitFits(job[r])
    BY <1>1, SubmitTyped
  <1>3. CASE Answers(r)
    BY <1>1, <1>3, HandlerAnswers
  <1>4. CASE FindParent(r) /\ Goes(r, ToPin(job[r]))
    <2>1. job[r].at = "parent"
      BY <1>4 DEF FindParent, At
    <2>2. job[r] \in SubmitState /\ job[r].closed \subseteq Closed /\ job[r].surface # "mcp"
      BY <1>2, <2>1 DEF SubmitJob, SubmitState, SubmitFits
    <2> QED BY <1>1, <1>4, <2>2, ToPinFits, SubmitGoes
  <1>5. CASE CheckNamed(r) /\ Accepts(job[r].project) /\ Goes(r, ToPin(job[r]))
    <2>1. job[r].at = "named"
      BY <1>5 DEF CheckNamed, At
    <2>2. job[r] \in SubmitState /\ job[r].closed \subseteq Closed
      BY <1>2, <2>1 DEF SubmitJob, SubmitState, SubmitFits
    <2>3. job[r].project \notin job[r].closed
      BY <1>5, <2>2, AcceptedIsOpen
    <2> QED BY <1>1, <1>5, <2>2, <2>3, ToPinFits, SubmitGoes
  <1>6. CASE FindAgent(r) /\ agent[job[r].agent].is # "absent"
             /\ job[r].project = None /\ Moves(r, "inherit")
    <2>1. job[r].at = "agent"
      BY <1>6 DEF FindAgent, At
    <2>2. [job[r] EXCEPT !.at = "inherit"] \in SubmitJob
      BY <1>2 DEF SubmitJob
    <2>3. SubmitFits([job[r] EXCEPT !.at = "inherit"])
      BY <1>2, <1>6, <2>1 DEF SubmitJob, SubmitFits
    <2> QED BY <1>1, <1>6, <2>2, <2>3, MovesIs, SubmitGoes
  <1>7. CASE FindAgent(r) /\ Goes(r, Pinned(job[r]))
    <2>1. job[r].at = "agent"
      BY <1>7 DEF FindAgent, At
    <2>2. /\ job[r] \in SubmitState /\ job[r].closed \subseteq Closed
          /\ job[r].surface = "mcp" => job[r].project \notin job[r].closed
      BY <1>2, <2>1 DEF SubmitJob, SubmitState, SubmitFits
    <2> QED BY <1>1, <1>7, <2>2, PinnedFits, SubmitGoes
  <1>8. ASSUME NEW p, p = agent[job[r].agent].project, CheckInherited(r), Accepts(p),
               Goes(r, Pinned([job[r] EXCEPT !.project = p]))
        PROVE  ProjectsInv'
    <2>1. job[r].at = "inherit"
      BY <1>8 DEF CheckInherited, At
    <2>2. job[r].agent \in Agent /\ agent[job[r].agent].is # "absent" /\ job[r].closed \subseteq Closed
      BY <1>2, <2>1 DEF SubmitJob, SubmitFits
    <2>3. p \in Project
      BY <1>8, <2>2 DEF ProjectsInv, RowTypes
    <2>4. /\ [job[r] EXCEPT !.project = p] \in SubmitState
          /\ [job[r] EXCEPT !.project = p].closed = job[r].closed
          /\ [job[r] EXCEPT !.project = p].project = p
      BY <1>2, <2>1, <2>3 DEF SubmitJob, SubmitState
    <2>5. p \notin job[r].closed
      BY <1>8, <2>2, AcceptedIsOpen
    <2> QED BY <1>1, <1>8, <2>2, <2>4, <2>5, PinnedFits, SubmitGoes
  <1>9. CASE CheckFinal(r) /\ Accepts(job[r].project) /\ Moves(r, "insert")
    <2>1. [job[r] EXCEPT !.at = "insert"] \in SubmitJob
      BY <1>2 DEF SubmitJob
    <2>2. job[r].closed \subseteq Closed
      BY <1>2 DEF SubmitFits
    <2>3. job[r].project \notin job[r].closed
      BY <1>9, <2>2, AcceptedIsOpen
    <2>4. SubmitFits([job[r] EXCEPT !.at = "insert"])
      BY <1>2, <2>2, <2>3 DEF SubmitJob, SubmitFits
    <2> QED BY <1>1, <1>9, <2>1, <2>4, MovesIs, SubmitGoes
  <1> QED BY <1>3, <1>4, <1>5, <1>6, <1>7, <1>8, <1>9
          DEF FindParent, CheckNamed, FindAgent, CheckInherited, CheckFinal

-------------------------------------------------------------------------------
(***************************************************************************)
(* Agents, archives, templates and issues: what reads and locks.           *)
(***************************************************************************)
LEMMA AgentGoes ==
    ASSUME ProjectsInv, NEW r \in Request, NEW j \in AgentJob, AgentFits(j), Goes(r, j),
           job[r].op = "agent" \/ Spare(agent, "agent"), UNCHANGED still,
           j.at = "insert" /\ j.pin # None => Pinnable(j.pin) /\ Holds(j.pin.template) = {}
    PROVE  ProjectsInv'
  <1>1. j \in Job /\ j.op = "agent"
    BY DEF Job, AgentJob
  <1>2. Fits(j) /\ FoundUnderLock(j) /\ MayHaveRoom(r, j) /\ MayHold(r, j)
    BY <1>1 DEF Fits, FoundUnderLock, MayHaveRoom, MayHold, HoldsIn, SharesIn
  <1> QED BY <1>1, <1>2, HandlerStays

LEMMA AgentTyped ==
    ASSUME ProjectsInv, NEW r \in Request, job[r].op = "agent"
    PROVE  job[r] \in AgentJob /\ AgentFits(job[r])
  <1>1. job[r] \in Job /\ Fits(job[r])
    BY JobTyped
  <1>2. job[r] \in AgentJob
    BY <1>1 DEF Job, Idle, SubmitJob, AgentJob, ArchiveJob, ReviseJob, TurnJob, EditJob,
                DecideJob, LinkJob
  <1> QED BY <1>1, <1>2 DEF Fits

LEMMA AgentReads ==
    ASSUME ProjectsInv, NEW r \in Request, AgentBegins(r) \/ CheckAgentProject(r) \/ LockPin(r)
    PROVE  ProjectsInv'
  <1>1. UNCHANGED still
    BY DEF AgentBegins, CheckAgentProject, LockPin, still
  <1>2. CASE Answers(r)
    BY <1>1, <1>2, HandlerAnswers
  <1>3. CASE AgentBegins(r)
    <2>1. PICK p \in Project, pin \in {q \in Pins : Asked("template")} \cup {None} :
             Begins(r, [op |-> "agent", at |-> "check", project |-> p, pin |-> pin,
                        closed |-> Closed])
      BY <1>3 DEF AgentBegins
    <2> DEFINE j == [op |-> "agent", at |-> "check", project |-> p, pin |-> pin,
                     closed |-> Closed]
    <2>2. j \in AgentJob
      BY DEF AgentJob, Closed
    <2>3. AgentFits(j) /\ j.at = "check"
      BY DEF AgentFits
    <2>4. Goes(r, j) /\ Spare(agent, "agent")
      BY <1>3, <2>1, BeginsIs DEF AgentBegins
    <2> HIDE DEF j
    <2> QED BY <1>1, <2>2, <2>3, <2>4, AgentGoes
  <1>4. CASE CheckAgentProject(r) /\ Accepts(job[r].project)
             /\ Moves(r, IF job[r].pin = None THEN "insert" ELSE "pin")
    <2> DEFINE at == IF job[r].pin = None THEN "insert" ELSE "pin"
               j == [job[r] EXCEPT !.at = at]
    <2>1. job[r].op = "agent" /\ job[r] \in AgentJob /\ AgentFits(job[r])
      BY <1>4, AgentTyped DEF CheckAgentProject, At
    <2>2. /\ j \in AgentJob /\ j.at = at /\ j.closed = job[r].closed
          /\ j.project = job[r].project /\ j.pin = job[r].pin
      BY <2>1 DEF AgentJob
    <2>3. job[r].project \notin job[r].closed
      BY <1>4, <2>1, AcceptedIsOpen DEF AgentFits
    <2>4. AgentFits(j)
      BY <2>1, <2>2, <2>3 DEF AgentFits
    <2>5. Goes(r, j)
      BY <1>4, MovesIs
    <2>6. j.at = "insert" => j.pin = None
      BY <2>2
    <2> HIDE DEF j
    <2> QED BY <1>1, <2>1, <2>2, <2>4, <2>5, <2>6, AgentGoes
  <1>5. CASE LockPin(r) /\ Pinnable(job[r].pin) /\ Moves(r, "insert")
    <2> DEFINE j == [job[r] EXCEPT !.at = "insert"]
    <2>1. /\ job[r].op = "agent" /\ job[r].at = "pin"
          /\ job[r] \in AgentJob /\ AgentFits(job[r])
      BY <1>5, AgentTyped DEF LockPin, At
    <2>2. /\ j \in AgentJob /\ j.at = "insert" /\ j.closed = job[r].closed
          /\ j.project = job[r].project /\ j.pin = job[r].pin
      BY <2>1 DEF AgentJob
    <2>3. AgentFits(j) /\ Pinnable(j.pin) /\ Holds(j.pin.template) = {}
      BY <1>5, <2>1, <2>2 DEF AgentFits, LockPin
    <2>4. Goes(r, j)
      BY <1>5, MovesIs
    <2> HIDE DEF j
    <2> QED BY <1>1, <2>1, <2>2, <2>3, <2>4, AgentGoes
  <1> QED BY <1>2, <1>3, <1>4, <1>5 DEF CheckAgentProject, LockPin

(* A handler whose job says nothing of ids and locks.                      *)
Loose(j) ==
    /\ j.op \in {"archive", "turn", "edit", "decide", "link"}
    /\ j.op = "turn" => j.at # "retire"

LEMMA LooseGoes ==
    ASSUME ProjectsInv, NEW r \in Request, NEW j \in Job, Loose(j), Fits(j), Goes(r, j),
           UNCHANGED still
    PROVE  ProjectsInv'
  <1>1. FoundUnderLock(j) /\ MayHaveRoom(r, j) /\ MayHold(r, j)
    BY DEF Loose, FoundUnderLock, MayHaveRoom, MayHold, HoldsIn, SharesIn
  <1> QED BY <1>1, HandlerStays

LEMMA ArchiveTyped ==
    ASSUME ProjectsInv, NEW r \in Request, job[r].op = "archive"
    PROVE  job[r] \in ArchiveJob
  BY JobTyped DEF Job, Idle, SubmitJob, AgentJob, ArchiveJob, ReviseJob, TurnJob, EditJob,
                  DecideJob, LinkJob

LEMMA ArchiveFits ==
    ASSUME NEW j \in ArchiveJob
    PROVE  j \in Job /\ Loose(j) /\ Fits(j)
  BY DEF Job, ArchiveJob, Loose, Fits

LEMMA ArchiveReads ==
    ASSUME ProjectsInv, NEW r \in Request,
           \/ \E p \in Project : ArchiveBegins(r, p)
           \/ (Drain(r) \/ Seal(r)) /\ UNCHANGED project
           \/ AskTasks(r) \/ AskAgents(r) \/ Look(r)
    PROVE  ProjectsInv'
  <1>1. UNCHANGED still
    BY DEF ArchiveBegins, ArchiveFrom, Drain, Seal, AskTasks, AskAgents, Look, still, rows
  <1>2. CASE Answers(r)
    BY <1>1, <1>2, HandlerAnswers
  <1>3. ASSUME NEW j \in ArchiveJob, Goes(r, j) PROVE ProjectsInv'
    BY <1>1, <1>3, ArchiveFits, LooseGoes
  <1>4. ASSUME NEW p \in Project, ArchiveBegins(r, p) PROVE ProjectsInv'
    <2>1. PICK at \in {"drain", "seal"}, fenced \in BOOLEAN :
             Begins(r, [op |-> "archive", at |-> at, project |-> p, fenced |-> fenced,
                        lapsed |-> FALSE, blocked |-> FALSE])
      BY <1>4 DEF ArchiveBegins, ArchiveFrom
    <2> DEFINE j == [op |-> "archive", at |-> at, project |-> p, fenced |-> fenced,
                     lapsed |-> FALSE, blocked |-> FALSE]
    <2>2. j \in ArchiveJob
      BY DEF ArchiveJob
    <2>3. Goes(r, j)
      BY <2>1, BeginsIs
    <2> HIDE DEF j
    <2> QED BY <1>3, <2>2, <2>3
  <1>5. ASSUME NEW at \in {"seal", "tasks", "look"}, Moves(r, at), job[r].op = "archive"
        PROVE  ProjectsInv'
    <2>1. [job[r] EXCEPT !.at = at] \in ArchiveJob
      BY <1>5, ArchiveTyped DEF ArchiveJob
    <2> QED BY <1>3, <1>5, <2>1, MovesIs
  <1>6. CASE Seal(r) /\ Goes(r, [job[r] EXCEPT !.at = "tasks", !.lapsed = TRUE])
    <2>1. job[r] \in ArchiveJob
      BY <1>6, ArchiveTyped DEF Seal, At
    <2>2. ASSUME NEW lapsed \in BOOLEAN
          PROVE  [job[r] EXCEPT !.at = "tasks", !.lapsed = lapsed] \in ArchiveJob
      BY <2>1 DEF ArchiveJob
    <2>3. TRUE \in BOOLEAN
      OBVIOUS
    <2>4. [job[r] EXCEPT !.at = "tasks", !.lapsed = TRUE] \in ArchiveJob
      BY <2>2, <2>3
    <2> QED BY <1>3, <1>6, <2>4
  <1>7. CASE AskTasks(r)
    <2> DEFINE blocked == LiveTasks(job[r].project) # {}
    <2>1. blocked \in BOOLEAN
      OBVIOUS
    <2>2. Goes(r, [job[r] EXCEPT !.at = "agents", !.blocked = blocked])
      BY <1>7 DEF AskTasks
    <2> HIDE DEF blocked
    <2>3. [job[r] EXCEPT !.at = "agents", !.blocked = blocked] \in ArchiveJob
      BY <1>7, <2>1, ArchiveTyped DEF ArchiveJob, AskTasks, At
    <2> QED BY <1>3, <2>2, <2>3
  <1>8. CASE Drain(r) \/ Seal(r) \/ AskAgents(r) \/ Look(r)
    <2>1. job[r].op = "archive"
      BY <1>8 DEF Drain, Seal, AskAgents, Look, At
    <2>2. \/ Answers(r) \/ \E at \in {"seal", "tasks", "look"} : Moves(r, at)
          \/ Seal(r) /\ Goes(r, [job[r] EXCEPT !.at = "tasks", !.lapsed = TRUE])
      BY <1>8 DEF Drain, Seal, AskAgents, Look
    <2> QED BY <1>2, <1>5, <1>6, <2>1, <2>2
  <1> QED BY <1>4, <1>7, <1>8

-------------------------------------------------------------------------------
LEMMA ReviseGoes ==
    ASSUME ProjectsInv, NEW r \in Request, NEW j \in ReviseJob, Goes(r, j), UNCHANGED still,
           j.at = "insert" => /\ template[j.template] \in AcceptsRevisions
                              /\ j.number = Len(revisions[j.template]) + 1
                              /\ Holds(j.template) = {} /\ Shares(j.template) = {}
    PROVE  ProjectsInv'
  <1>1. j \in Job /\ j.op = "revise"
    BY DEF Job, ReviseJob
  <1>2. Fits(j) /\ FoundUnderLock(j) /\ MayHaveRoom(r, j) /\ MayHold(r, j)
    BY <1>1 DEF Fits, FoundUnderLock, MayHaveRoom, MayHold, HoldsIn, SharesIn
  <1> QED BY <1>1, <1>2, HandlerStays

LEMMA ReviseTyped ==
    ASSUME ProjectsInv, NEW r \in Request, job[r].op = "revise"
    PROVE  job[r] \in ReviseJob /\ FoundUnderLock(job[r])
  BY JobTyped DEF Job, Idle, SubmitJob, AgentJob, ArchiveJob, ReviseJob, TurnJob, EditJob,
                  DecideJob, LinkJob

LEMMA ReviseReads ==
    ASSUME ProjectsInv, NEW r \in Request,
           (\E t \in Template : ReviseBegins(r, t)) \/ LockToRevise(r)
    PROVE  ProjectsInv'
  <1>1. UNCHANGED still
    BY DEF ReviseBegins, LockToRevise, still
  <1>2. CASE Answers(r)
    BY <1>1, <1>2, HandlerAnswers
  <1>3. ASSUME NEW t \in Template, ReviseBegins(r, t) PROVE ProjectsInv'
    <2> DEFINE j == [op |-> "revise", at |-> "lock", template |-> t, number |-> 0]
    <2>1. j \in ReviseJob /\ j.at = "lock" /\ j.template = t
      BY DEF ReviseJob
    <2>2. Goes(r, j)
      BY <1>3, BeginsIs DEF ReviseBegins
    <2> HIDE DEF j
    <2> QED BY <1>1, <1>3, <2>1, <2>2, ReviseGoes DEF ReviseBegins
  <1>4. CASE LockToRevise(r) /\ ~Answers(r)
    <2> DEFINE t == job[r].template
               number == Len(revisions[t]) + 1
               j == [job[r] EXCEPT !.at = "insert", !.number = number]
    <2>1. /\ job[r].op = "revise" /\ Goes(r, j) /\ Holds(t) = {} /\ Shares(t) = {}
          /\ template[t] \in AcceptsRevisions /\ number <= MaxRevision
      BY <1>4 DEF LockToRevise, At, Unlocked
    <2>2. job[r] \in ReviseJob
      BY <2>1, ReviseTyped
    <2>3. Len(revisions[t]) \in Nat
      BY <2>2, LenProperties DEF ReviseJob, ProjectsInv, TemplateTypes
    <2>4. number \in 0..MaxRevision
      BY <2>1, <2>3
    <2> HIDE DEF number
    <2>5. j \in ReviseJob /\ j.template = t /\ j.number = number
      BY <2>2, <2>4 DEF ReviseJob
    <2>6. j.number = Len(revisions[j.template]) + 1
      BY <2>5 DEF number
    <2> HIDE DEF j, t
    <2> QED BY <1>1, <2>1, <2>5, <2>6, ReviseGoes
  <1> QED BY <1>2, <1>3, <1>4

LEMMA TurnTyped ==
    ASSUME ProjectsInv, NEW r \in Request, job[r].op = "turn"
    PROVE  /\ job[r] \in TurnJob /\ FoundUnderLock(job[r])
           /\ job[r].at \in {"lock", "retire"} => job[r].to = "retired"
           /\ job[r].at = "write" => job[r].to # "retired"
  <1>1. job[r] \in Job /\ Fits(job[r]) /\ FoundUnderLock(job[r])
    BY JobTyped
  <1>2. job[r] \in TurnJob
    BY <1>1 DEF Job, Idle, SubmitJob, AgentJob, ArchiveJob, ReviseJob, TurnJob, EditJob,
                DecideJob, LinkJob
  <1> QED BY <1>1, <1>2 DEF Fits

LEMMA TurnFits ==
    ASSUME NEW j \in TurnJob,
           /\ j.at \in {"lock", "retire"} => j.to = "retired"
           /\ j.at = "write" => j.to # "retired"
    PROVE  j \in Job /\ Fits(j) /\ j.op = "turn" /\ (j.at # "retire" => Loose(j))
  BY DEF Job, TurnJob, Fits, Loose

LEMMA TurnReads ==
    ASSUME ProjectsInv, NEW r \in Request,
           \/ \E t \in Template, to \in Turned : TurnBegins(r, t, to)
           \/ CheckTurn(r) \/ LockToRetire(r)
    PROVE  ProjectsInv'
  <1>1. UNCHANGED still
    BY DEF TurnBegins, CheckTurn, LockToRetire, still
  <1>2. CASE Answers(r)
    BY <1>1, <1>2, HandlerAnswers
  <1>3. ASSUME NEW t \in Template, NEW to \in Turned, TurnBegins(r, t, to) PROVE ProjectsInv'
    <2> DEFINE shown == IF to = "retired" THEN Dependents(t) ELSE {}
               j == [op |-> "turn", at |-> "check", template |-> t, to |-> to,
                     shown |-> shown]
    <2>1. shown \in SUBSET Agent
      BY DEF Dependents
    <2>2. Goes(r, j)
      BY <1>3, BeginsIs DEF TurnBegins
    <2> HIDE DEF shown
    <2>3. j \in TurnJob /\ j.at = "check"
      BY <2>1 DEF TurnJob
    <2> HIDE DEF j
    <2> QED BY <1>1, <2>2, <2>3, TurnFits, LooseGoes
  <1>4. CASE CheckTurn(r) /\ Moves(r, IF job[r].to = "retired" THEN "lock" ELSE "write")
    <2> DEFINE at == IF job[r].to = "retired" THEN "lock" ELSE "write"
               j == [job[r] EXCEPT !.at = at]
    <2>1. job[r] \in TurnJob
      BY <1>4, TurnTyped DEF CheckTurn, At
    <2>2. j \in TurnJob /\ j.at = at /\ j.to = job[r].to
      BY <2>1 DEF TurnJob
    <2>3. Goes(r, j)
      BY <1>4, MovesIs
    <2>4. /\ j.at # "retire" /\ (j.at = "lock" => j.to = "retired")
          /\ j.at = "write" => j.to # "retired"
      BY <2>2
    <2> HIDE DEF j
    <2> QED BY <1>1, <2>2, <2>3, <2>4, TurnFits, LooseGoes
  <1>5. CASE LockToRetire(r) /\ Moves(r, "retire") /\ Dependents(job[r].template) = job[r].shown
    <2> DEFINE j == [job[r] EXCEPT !.at = "retire"]
    <2>1. job[r].op = "turn" /\ job[r].at = "lock"
      BY <1>5 DEF LockToRetire, At
    <2>2. job[r] \in TurnJob /\ job[r].to = "retired"
      BY <2>1, TurnTyped
    <2>3. /\ j \in TurnJob /\ j.at = "retire" /\ j.to = "retired"
          /\ j.template = job[r].template /\ j.shown = job[r].shown
      BY <2>2 DEF TurnJob
    <2>4. Goes(r, j)
      BY <1>5, MovesIs
    <2>5. Holds(j.template) = {} /\ Shares(j.template) = {}
      BY <1>5, <2>3 DEF LockToRetire, Unlocked
    <2> HIDE DEF j
    <2>6. j \in Job /\ Fits(j) /\ j.op = "turn"
      BY <2>3, TurnFits
    <2>7. FoundUnderLock(j) /\ MayHaveRoom(r, j) /\ MayHold(r, j)
      BY <1>5, <2>3, <2>5, <2>6 DEF FoundUnderLock, MayHaveRoom, MayHold, HoldsIn, SharesIn
    <2> QED BY <1>1, <2>4, <2>6, <2>7, HandlerStays
  <1> QED BY <1>2, <1>3, <1>4, <1>5 DEF CheckTurn, LockToRetire

-------------------------------------------------------------------------------
LEMMA IssueReads ==
    ASSUME ProjectsInv, NEW r \in Request,
           \/ \E i \in Issue, f \in Field : EditBegins(r, i, f)
           \/ \E i \in Issue, to \in IssueStatus \ {"none"}, why \in Reason \cup {None} :
                 TurnIssueBegins(r, i, to, why)
           \/ \E i \in Issue, t \in Task : LinkBegins(r, i, t)
           \/ FindLinkTask(r)
    PROVE  ProjectsInv'
  <1>1. UNCHANGED still
    BY DEF EditBegins, TurnIssueBegins, LinkBegins, FindLinkTask, still
  <1>2. CASE Answers(r)
    BY <1>1, <1>2, HandlerAnswers
  <1>3. ASSUME NEW i \in Issue, NEW f \in Field, EditBegins(r, i, f) PROVE ProjectsInv'
    <2> DEFINE j == [op |-> "edit", at |-> "write", issue |-> i, field |-> f,
                     read |-> issue[i]]
    <2>1. issue[i] \in IssueRow /\ Filed(i)
      BY <1>3 DEF ProjectsInv, IssueTypes, EditBegins
    <2>2. j \in EditJob /\ j.issue = i
      BY <2>1 DEF EditJob
    <2>3. Goes(r, j)
      BY <1>3, BeginsIs DEF EditBegins
    <2> HIDE DEF j
    <2>4. j \in Job /\ Loose(j) /\ Fits(j)
      BY <2>1, <2>2 DEF Job, EditJob, Loose, Fits
    <2> QED BY <1>1, <2>3, <2>4, LooseGoes
  <1>4. ASSUME NEW i \in Issue, NEW to \in IssueStatus \ {"none"}, NEW why \in Reason \cup {None},
               TurnIssueBegins(r, i, to, why)
        PROVE  ProjectsInv'
    <2> DEFINE j == [op |-> "decide", at |-> "write", issue |-> i, to |-> to, reason |-> why]
    <2>1. Filed(i) /\ (to = "closed") = (why # None)
      BY <1>4 DEF TurnIssueBegins, MayTurn
    <2>2. j \in DecideJob /\ j.issue = i /\ j.to = to /\ j.reason = why
      BY DEF DecideJob
    <2>3. Goes(r, j)
      BY <1>4, BeginsIs DEF TurnIssueBegins
    <2> HIDE DEF j
    <2>4. j \in Job /\ Loose(j) /\ Fits(j)
      BY <2>1, <2>2 DEF Job, DecideJob, Loose, Fits, DecideFits
    <2> QED BY <1>1, <2>3, <2>4, LooseGoes
  <1>5. ASSUME NEW i \in Issue, NEW t \in Task, LinkBegins(r, i, t) PROVE ProjectsInv'
    <2> DEFINE j == [op |-> "link", at |-> "task", issue |-> i, task |-> t]
    <2>1. j \in LinkJob /\ j.issue = i /\ j.at = "task" /\ Filed(i)
      BY <1>5 DEF LinkJob, LinkBegins
    <2>2. Goes(r, j)
      BY <1>5, BeginsIs DEF LinkBegins
    <2> HIDE DEF j
    <2>3. j \in Job /\ Loose(j) /\ Fits(j)
      BY <2>1 DEF Job, LinkJob, Loose, Fits, LinkFits
    <2> QED BY <1>1, <2>2, <2>3, LooseGoes
  <1>6. CASE FindLinkTask(r) /\ Moves(r, "write") /\ Exists(job[r].task)
             /\ SameProject(task[job[r].task].project, issue[job[r].issue].project)
    <2> DEFINE j == [job[r] EXCEPT !.at = "write"]
    <2>1. job[r].op = "link" /\ job[r] \in Job /\ Fits(job[r])
      BY <1>6, JobTyped DEF FindLinkTask, At
    <2>2. job[r] \in LinkJob /\ Filed(job[r].issue)
      BY <2>1 DEF Job, Idle, SubmitJob, AgentJob, ArchiveJob, ReviseJob, TurnJob, EditJob,
                  DecideJob, LinkJob, Fits, LinkFits
    <2>3. j \in LinkJob /\ j.issue = job[r].issue /\ j.task = job[r].task
      BY <2>2 DEF LinkJob
    <2>4. Goes(r, j)
      BY <1>6, MovesIs
    <2> HIDE DEF j
    <2>5. j \in Job /\ Loose(j) /\ Fits(j)
      BY <1>6, <2>2, <2>3 DEF Job, LinkJob, Loose, Fits, LinkFits, Exists
    <2> QED BY <1>1, <2>4, <2>5, LooseGoes
  <1> QED BY <1>2, <1>3, <1>4, <1>5, <1>6 DEF FindLinkTask

LEMMA AbandonInv ==
    ASSUME ProjectsInv, NEW r \in Request, Abandon(r)
    PROVE  ProjectsInv'
  <1>1. Goes(r, Idle) /\ UNCHANGED <<rows, scene, history>>
    BY AnswersIs DEF Abandon
  <1>2. upsets' \in 0..scene.lost
    <2>1. scene.lost \in Nat /\ upsets \in 0..scene.lost
      BY DEF ProjectsInv, BoundTypes
    <2> QED BY <2>1 DEF Abandon
  <1> QED BY <1>1, <1>2, IdleFits, HandlerGoes

-------------------------------------------------------------------------------
(***************************************************************************)
(* Steps that move rows.  No row goes back to what was before it: what a   *)
(* handler has found out of rows it holds no lock on is still so.          *)
(***************************************************************************)
Grows ==
    /\ Closed \subseteq Closed'
    /\ \A t \in Task : task[t].is # "absent" => /\ task'[t].is # "absent"
                                                /\ task'[t].project = task[t].project
    /\ \A a \in Agent : agent[a].is # "absent" => agent'[a].is # "absent"
    /\ \A i \in Issue : Filed(i) => Filed(i)' /\ issue'[i].project = issue[i].project

(* No handler but those that are answered moves, and those that archive.   *)
Settles ==
    /\ job' \in [Request -> Job]
    /\ \A s \in Request : \/ job'[s] \in {job[s], Idle}
                          \/ job'[s] \in ArchiveJob /\ job[s].op = "archive"

LEMMA FitsLast ==
    ASSUME NEW j \in Job, Fits(j), Grows
    PROVE  Fits(j)'
  <1>1. CASE j \in SubmitJob
    <2>1. j.op = "submit" /\ j.agent \in Agent \cup {None} /\ SubmitFits(j)
      BY <1>1 DEF SubmitJob, Fits
    <2>2. SubmitFits(j)'
      BY <2>1 DEF SubmitFits, Grows
    <2> QED BY <2>1, <2>2 DEF Fits
  <1>2. CASE j \in AgentJob
    <2>1. j.op = "agent" /\ AgentFits(j)
      BY <1>2 DEF AgentJob, Fits
    <2>2. AgentFits(j)'
      BY <2>1 DEF AgentFits, Grows
    <2> QED BY <2>1, <2>2 DEF Fits
  <1>3. CASE j \in ArchiveJob \cup ReviseJob \cup {Idle}
    BY <1>3 DEF ArchiveJob, ReviseJob, Idle, Fits
  <1>4. CASE j \in TurnJob
    BY <1>4 DEF TurnJob, Fits
  <1>5. CASE j \in EditJob
    BY <1>5 DEF EditJob, Fits, Grows
  <1>6. CASE j \in DecideJob
    BY <1>6 DEF DecideJob, Fits, DecideFits, Grows
  <1>7. CASE j \in LinkJob
    <2>1. j.op = "link" /\ j.issue \in Issue /\ j.task \in Task /\ LinkFits(j)
      BY <1>7 DEF LinkJob, Fits
    <2>2. LinkFits(j)'
      BY <2>1 DEF LinkFits, Grows
    <2> QED BY <2>1, <2>2 DEF Fits
  <1> QED BY <1>1, <1>2, <1>3, <1>4, <1>5, <1>6, <1>7 DEF Job

LEMMA RowStep ==
    ASSUME ProjectsInv, Grows, Settles,
           RowTypes', TemplateTypes', IssueTypes', BoundTypes',
           \A s \in Request : FoundUnderLock(job[s])',
           RoomInv', DrainInv', IssueInv'
    PROVE  ProjectsInv'
  <1>1. JobsInv'
    <2>1. ASSUME NEW s \in Request PROVE Fits(job[s])'
      <3>1. job'[s] \in Job /\ job'[s] \in {job[s], Idle} \cup ArchiveJob
        BY DEF Settles
      <3>2. Fits(job'[s])
        BY <3>1, IdleFits, JobTyped, ArchiveFits
      <3>3. ASSUME NEW j \in Job, Fits(j) PROVE Fits(j)'
        BY <3>3, FitsLast
      <3>4. PICK j \in Job : j = job'[s]
        BY <3>1
      <3>5. Fits(j)'
        BY <3>2, <3>3, <3>4
      <3> QED BY <3>4, <3>5 DEF Fits, SubmitFits, AgentFits, DecideFits, LinkFits, Filed
    <2> QED BY <2>1 DEF JobsInv, Settles
  <1>2. LocksInv'
    <2>1. Idle.op = "idle" /\ \A j \in ArchiveJob : j.op = "archive"
      BY DEF Idle, ArchiveJob
    <2>2. \A s \in Request : job'[s] = job[s] \/ job'[s].op \in {"idle", "archive"}
      BY <2>1 DEF Settles
    <2> QED BY <2>2 DEF ProjectsInv, LocksInv, HoldsIn, SharesIn
  <1> QED BY <1>1, <1>2 DEF ProjectsInv

LEMMA SettlesIs ==
    ASSUME ProjectsInv, UNCHANGED job \/ \E r \in Request : Answers(r)
    PROVE  Settles
  <1>1. job \in [Request -> Job] /\ Idle \in Job
    BY DEF ProjectsInv, JobsInv, Job
  <1> QED BY <1>1 DEF Settles, Answers

LEMMA RoomKept ==
    ASSUME ProjectsInv, Settles, FreeTasks' = FreeTasks, FreeAgents' = FreeAgents
    PROVE  RoomInv'
  <1>1. IsFiniteSet(FreeTasks) /\ IsFiniteSet(FreeAgents)
    BY FS_Subset DEF FreeTasks, FreeAgents
  <1>2. Idle.op = "idle" /\ \A j \in ArchiveJob : j.op = "archive"
    BY DEF Idle, ArchiveJob
  <1>3. Doing("submit")' \subseteq Doing("submit") /\ Doing("agent")' \subseteq Doing("agent")
    BY <1>2 DEF Doing, Settles
  <1>4. /\ Cardinality(Doing("submit")) <= Cardinality(FreeTasks)
        /\ Cardinality(Doing("agent")) <= Cardinality(FreeAgents)
    BY DEF ProjectsInv, RoomInv
  <1>5. /\ Cardinality(Doing("submit")') <= Cardinality(FreeTasks)
        /\ Cardinality(Doing("agent")') <= Cardinality(FreeAgents)
    BY <1>1, <1>3, <1>4, FewerNeedLess
  <1> QED BY <1>5 DEF RoomInv

LEMMA FoundKept ==
    ASSUME ProjectsInv, Settles, UNCHANGED <<agent, template, revisions>>
    PROVE  \A s \in Request : FoundUnderLock(job[s])'
  <1>1. \A j : FoundUnderLock(j)' = FoundUnderLock(j)
    BY DEF FoundUnderLock, Pinnable, Dependents
  <1>2. ASSUME NEW s \in Request PROVE FoundUnderLock(job'[s])
    <2>1. \A j \in ArchiveJob : FoundUnderLock(j)
      BY DEF ArchiveJob, FoundUnderLock
    <2> QED BY <2>1, IdleFits, JobTyped DEF Settles
  <1> QED BY <1>2 DEF FoundUnderLock, Pinnable, Dependents

LEMMA DrainKept ==
    ASSUME ProjectsInv, UNCHANGED <<project, task, agent, late, barred>>
    PROVE  DrainInv'
  BY DEF ProjectsInv, DrainInv, ClosedProjectsDrain, LiveTasks, LiveAgents

LEMMA IssueKept ==
    ASSUME ProjectsInv, UNCHANGED <<task, issue, links, decided>>
    PROVE  IssueInv'
  BY DEF ProjectsInv, IssueInv, IssueStatusIsDecided, Exists, Filed

LEMMA GrowsKept ==
    ASSUME Closed \subseteq Closed', UNCHANGED <<task, agent, issue>>
    PROVE  Grows
  BY DEF Grows, Filed

-------------------------------------------------------------------------------
(***************************************************************************)
(* Projects.                                                               *)
(***************************************************************************)
LEMMA ProjectMoves ==
    ASSUME ProjectsInv, Settles, Closed \subseteq Closed',
           UNCHANGED <<task, agent, template, revisions, issue, links, scene, upsets, history>>,
           project' \in [Project -> {"none", "active", "draining", "archived"}],
           \A p \in Project : project'[p] = "archived" => project[p] = "archived" \/ Drained(p)
    PROVE  ProjectsInv'
  <1> USE DEF history
  <1>1. RowTypes' /\ TemplateTypes' /\ IssueTypes' /\ BoundTypes'
    BY DEF ProjectsInv, RowTypes, TemplateTypes, IssueTypes, BoundTypes
  <1>2. FreeTasks' = FreeTasks /\ FreeAgents' = FreeAgents
    BY DEF FreeTasks, FreeAgents
  <1>3. DrainInv'
    BY DEF ProjectsInv, DrainInv, ClosedProjectsDrain, Drained, LiveTasks, LiveAgents
  <1>4. Grows /\ IssueInv' /\ RoomInv' /\ \A s \in Request : FoundUnderLock(job[s])'
    BY <1>2, GrowsKept, IssueKept, RoomKept, FoundKept
  <1> QED BY <1>1, <1>3, <1>4, RowStep

LEMMA CreateProjectInv ==
    ASSUME ProjectsInv, NEW p \in Project, CreateProject(p)
    PROVE  ProjectsInv'
  <1>1. Settles
    BY SettlesIs DEF CreateProject
  <1>2. project \in [Project -> {"none", "active", "draining", "archived"}]
    BY DEF ProjectsInv, RowTypes
  <1> QED BY <1>1, <1>2, ProjectMoves DEF CreateProject, Closed

(* A handler that has had its project written is one step further.         *)
LEMMA SealInv ==
    ASSUME ProjectsInv, NEW r \in Request, Seal(r)
    PROVE  ProjectsInv'
  <1>1. CASE UNCHANGED project
    BY <1>1, ArchiveReads
  <1>2. CASE ~UNCHANGED project
    <2> DEFINE p == job[r].project
    <2>1. /\ project[p] = "draining" /\ Drained(p) /\ Answers(r)
          /\ project' = [project EXCEPT ![p] = "archived"]
      BY <1>2 DEF Seal
    <2>2. Settles
      BY <2>1, SettlesIs
    <2>3. project \in [Project -> {"none", "active", "draining", "archived"}]
      BY DEF ProjectsInv, RowTypes
    <2> QED BY <2>1, <2>2, <2>3, ProjectMoves DEF Seal, Closed
  <1> QED BY <1>1, <1>2

LEMMA DrainStepInv ==
    ASSUME ProjectsInv, NEW r \in Request, Drain(r)
    PROVE  ProjectsInv'
  <1>1. CASE UNCHANGED project
    BY <1>1, ArchiveReads
  <1>2. CASE ~UNCHANGED project
    <2> DEFINE j == [job[r] EXCEPT !.at = "seal"]
    <2>1. /\ Moves(r, "seal") /\ job[r].op = "archive"
          /\ project' = [project EXCEPT ![job[r].project] = "draining"]
      BY <1>2 DEF Drain, At
    <2>2. job[r] \in ArchiveJob
      BY <2>1, ArchiveTyped
    <2>3. j \in ArchiveJob
      BY <2>2 DEF ArchiveJob
    <2>4. Goes(r, j)
      BY <2>1, MovesIs
    <2> HIDE DEF j
    <2>5. j \in Job
      BY <2>3, ArchiveFits
    <2>6. Settles
      BY <2>1, <2>3, <2>4, <2>5 DEF Settles, Goes, ProjectsInv, JobsInv
    <2>7. project \in [Project -> {"none", "active", "draining", "archived"}]
      BY DEF ProjectsInv, RowTypes
    <2> QED BY <2>1, <2>6, <2>7, ProjectMoves DEF Drain, Closed
  <1> QED BY <1>1, <1>2

-------------------------------------------------------------------------------
(***************************************************************************)
(* Tasks.                                                                  *)
(***************************************************************************)

(* A handler that inserts a row takes an id that is spare, and gives up    *)
(* its claim to one.                                                       *)
LEMMA InsertTakesOne ==
    ASSUME NEW S, IsFiniteSet(S), NEW x \in S, NEW op, NEW r \in Doing(op),
           Cardinality(Doing(op)) <= Cardinality(S), Doing(op)' \subseteq Doing(op) \ {r}
    PROVE  Cardinality(Doing(op)') <= Cardinality(S \ {x})
  <1>1. IsFiniteSet(Doing(op))
    BY FS_Subset DEF Doing
  <1>2. /\ IsFiniteSet(Doing(op) \ {r})
        /\ Cardinality(Doing(op) \ {r}) = Cardinality(Doing(op)) - 1
    BY <1>1, FS_RemoveElement
  <1>3. IsFiniteSet(S \ {x}) /\ Cardinality(S \ {x}) = Cardinality(S) - 1
    BY FS_RemoveElement
  <1>4. Cardinality(Doing(op)') <= Cardinality(Doing(op) \ {r}) /\ IsFiniteSet(Doing(op)')
    BY <1>2, FS_Subset
  <1>5. /\ Cardinality(Doing(op)') \in Nat /\ Cardinality(Doing(op)) \in Nat
        /\ Cardinality(S) \in Nat
    BY <1>1, <1>4, FS_CardinalityType
  <1> QED BY <1>2, <1>3, <1>4, <1>5

LEMMA SomeIsFree ==
    ASSUME ProjectsInv, NEW r \in Request
    PROVE  /\ job[r].op = "submit" => \E t \in Task : task[t].is = "absent"
           /\ job[r].op = "agent" => \E a \in Agent : agent[a].is = "absent"
  <1>1. IsFiniteSet(Request)
    OBVIOUS
  <1>2. ASSUME NEW op, NEW S, Cardinality(Doing(op)) <= Cardinality(S), job[r].op = op,
               S = {}
        PROVE  FALSE
    <2>1. IsFiniteSet(Doing(op)) /\ r \in Doing(op)
      BY <1>1, <1>2, FS_Subset DEF Doing
    <2>2. Cardinality(Doing(op)) \in Nat
      BY <2>1, FS_CardinalityType
    <2>3. Cardinality(Doing(op)) # 0
      BY <2>1, FS_EmptySet
    <2>4. Cardinality(S) = 0
      BY <1>2, FS_EmptySet
    <2> QED BY <1>2, <2>2, <2>3, <2>4
  <1>3. job[r].op = "submit" => FreeTasks # {}
    BY <1>2 DEF ProjectsInv, RoomInv
  <1>4. job[r].op = "agent" => FreeAgents # {}
    BY <1>2 DEF ProjectsInv, RoomInv
  <1> QED BY <1>3, <1>4 DEF FreeTasks, FreeAgents

LEMMA InsertTaskInv ==
    ASSUME ProjectsInv, NEW r \in Request, InsertTask(r)
    PROVE  ProjectsInv'
  <1> DEFINE j == job[r]
             t == CHOOSE x \in Task : task[x].is = "absent"
  <1>1. Answers(r) /\ j.op = "submit" /\ j.at = "insert"
    BY DEF InsertTask, At
  <1>2. CASE UNCHANGED <<task, history>>
    BY <1>1, <1>2, HandlerAnswers DEF InsertTask, still, rows, history
  <1>3. CASE /\ task' = [task EXCEPT ![t] = [is |-> "live", project |-> j.project]]
             /\ Joins(t, j.project, j.closed)
    <2>1. j \in SubmitJob /\ SubmitFits(j)
      BY <1>1, SubmitTyped
    <2>2. /\ j.project \in Project \cup {None} /\ j.project \notin j.closed
          /\ j.closed \subseteq Closed
      BY <1>1, <2>1 DEF SubmitJob, SubmitFits
    <2>3. t \in Task /\ task[t].is = "absent"
      BY <1>1, SomeIsFree
    <2> DEFINE p == j.project
    <2>4. /\ task' = [task EXCEPT ![t] = [is |-> "live", project |-> p]]
          /\ late' = (IF p \in Closed THEN late \cup {t} ELSE late)
          /\ barred' = barred /\ UNCHANGED decided
      BY <1>3, <2>2 DEF Joins
    <2>5. UNCHANGED <<project, agent, template, revisions, issue, links, scene, upsets>>
      BY DEF InsertTask
    <2>6. p \in Project \cup {None}
      BY <2>2
    <2> HIDE DEF t, p
    <2>7. task \in [Task -> [is : {"absent", "live", "ended", "deleted"},
                             project : Project \cup {None}]]
      BY DEF ProjectsInv, RowTypes
    <2>8. /\ task' \in [Task -> [is : {"absent", "live", "ended", "deleted"},
                                 project : Project \cup {None}]]
          /\ task'[t] = [is |-> "live", project |-> p]
          /\ \A u \in Task \ {t} : task'[u] = task[u]
      BY <2>3, <2>4, <2>6, <2>7
    <2>9. RowTypes' /\ TemplateTypes' /\ IssueTypes' /\ BoundTypes'
      <3>1. RowTypes' /\ TemplateTypes' /\ IssueTypes'
        BY <2>4, <2>5, <2>8 DEF ProjectsInv, RowTypes, TemplateTypes, IssueTypes
      <3>2. BoundTypes'
        BY <2>3, <2>4, <2>5 DEF ProjectsInv, BoundTypes
      <3> QED BY <3>1, <3>2
    <2>10. Grows
      BY <2>3, <2>5, <2>8 DEF Grows, Closed, Filed
    <2>11. Settles
      BY <1>1, SettlesIs
    <2>12. RoomInv'
      <3>1. FreeTasks' = FreeTasks \ {t} /\ t \in FreeTasks /\ FreeAgents' = FreeAgents
        BY <2>3, <2>5, <2>8 DEF FreeTasks, FreeAgents
      <3>2. IsFiniteSet(FreeTasks) /\ IsFiniteSet(FreeAgents)
        BY FS_Subset DEF FreeTasks, FreeAgents
      <3>3. /\ Doing("submit")' \subseteq Doing("submit") \ {r} /\ r \in Doing("submit")
            /\ Doing("agent")' \subseteq Doing("agent")
        <4>1. Idle.op = "idle" /\ job \in [Request -> Job]
          BY DEF Idle, ProjectsInv, JobsInv
        <4>2. job' = [job EXCEPT ![r] = Idle]
          BY <1>1 DEF Answers
        <4> QED BY <1>1, <4>1, <4>2 DEF Doing
      <3>4. /\ Cardinality(Doing("submit")) <= Cardinality(FreeTasks)
            /\ Cardinality(Doing("agent")) <= Cardinality(FreeAgents)
        BY DEF ProjectsInv, RoomInv
      <3>5. Cardinality(Doing("submit")') <= Cardinality(FreeTasks \ {t})
        BY <3>1, <3>2, <3>3, <3>4, InsertTakesOne
      <3>6. Cardinality(Doing("agent")') <= Cardinality(FreeAgents)
        BY <3>2, <3>3, <3>4, FewerNeedLess
      <3> QED BY <3>1, <3>5, <3>6 DEF RoomInv
    <2>13. DrainInv'
      <3>1. barred = {} /\ \A q \in Project : project[q] = "archived"
                               => LiveTasks(q) \cup LiveAgents(q) \subseteq late
        BY DEF ProjectsInv, DrainInv, ClosedProjectsDrain
      <3>2. ASSUME NEW q \in Project, project[q] = "archived"
            PROVE  LiveTasks(q)' \cup LiveAgents(q)' \subseteq late'
        <4>1. LiveAgents(q)' = LiveAgents(q) /\ late \subseteq late'
          BY <2>4, <2>5 DEF LiveAgents
        <4>2. ASSUME NEW u \in LiveTasks(q)', u # t PROVE u \in LiveTasks(q)
          BY <4>2, <2>8 DEF LiveTasks
        <4>3. t \in LiveTasks(q)' => t \in late'
          <5>1. t \in LiveTasks(q)' => p = q
            BY <2>8 DEF LiveTasks
          <5>2. p = q => p \in Closed
            BY <3>2 DEF Closed
          <5> QED BY <5>1, <5>2, <2>4
        <4> QED BY <3>1, <3>2, <4>1, <4>2, <4>3
      <3> QED BY <3>1, <3>2, <2>4, <2>5 DEF DrainInv, ClosedProjectsDrain
    <2>14. IssueInv'
      <3>1. \A l \in links : IF l.task = None THEN task[l.label].is = "deleted"
                             ELSE /\ Exists(l.task)
                                  /\ SameProject(task[l.task].project, issue[l.issue].project)
        BY DEF ProjectsInv, IssueInv, IssueStatusIsDecided
      <3>2. links \subseteq [issue : Issue, task : Task \cup {None}, label : Task]
        BY DEF ProjectsInv, IssueTypes
      <3>3. \A l \in links : IF l.task = None THEN task'[l.label].is = "deleted"
                             ELSE /\ Exists(l.task)'
                                  /\ SameProject(task'[l.task].project, issue[l.issue].project)
        BY <3>1, <3>2, <2>3, <2>8 DEF Exists
      <3> QED BY <3>3, <2>4, <2>5 DEF ProjectsInv, IssueInv, IssueStatusIsDecided, Exists, Filed
    <2>15. \A s \in Request : FoundUnderLock(job[s])'
      BY <2>5, <2>11, FoundKept
    <2> QED BY <2>9, <2>10, <2>11, <2>12, <2>13, <2>14, <2>15, RowStep
  <1> QED BY <1>2, <1>3 DEF InsertTask

LEMMA TaskMoves ==
    ASSUME ProjectsInv, NEW t \in Task, NEW is \in {"ended", "deleted"},
           task[t].is \in {"live", "ended"}, task' = [task EXCEPT ![t].is = is],
           late' \in {late, late \ {t}},
           IssueTypes', IssueInv',
           UNCHANGED <<project, agent, template, revisions, issue, job, scene, upsets,
                       barred, decided>>
    PROVE  ProjectsInv'
  <1>1. task \in [Task -> [is : {"absent", "live", "ended", "deleted"},
                           project : Project \cup {None}]]
    BY DEF ProjectsInv, RowTypes
  <1>2. /\ task' \in [Task -> [is : {"absent", "live", "ended", "deleted"},
                               project : Project \cup {None}]]
        /\ task'[t].is = is /\ task'[t].project = task[t].project
        /\ \A u \in Task \ {t} : task'[u] = task[u]
    BY <1>1
  <1>3. RowTypes' /\ TemplateTypes' /\ BoundTypes'
    BY <1>2 DEF ProjectsInv, RowTypes, TemplateTypes, BoundTypes
  <1>4. Grows
    BY <1>2 DEF Grows, Closed, Filed
  <1>5. Settles
    BY SettlesIs
  <1>6. FreeTasks' = FreeTasks /\ FreeAgents' = FreeAgents
    BY <1>2 DEF FreeTasks, FreeAgents
  <1>7. RoomInv' /\ \A s \in Request : FoundUnderLock(job[s])'
    BY <1>5, <1>6, RoomKept, FoundKept
  <1>8. DrainInv'
    <2>1. \A q \in Project : LiveTasks(q)' \subseteq LiveTasks(q) \ {t}
      BY <1>2 DEF LiveTasks
    <2>2. \A q \in Project : LiveAgents(q)' = LiveAgents(q) /\ t \notin LiveAgents(q)
      BY DEF LiveAgents
    <2>3. barred = {} /\ \A q \in Project : project[q] = "archived"
                             => LiveTasks(q) \cup LiveAgents(q) \subseteq late
      BY DEF ProjectsInv, DrainInv, ClosedProjectsDrain
    <2>4. \A q \in Project : project[q] = "archived"
                             => LiveTasks(q)' \cup LiveAgents(q)' \subseteq late'
      BY <2>1, <2>2, <2>3
    <2> QED BY <2>3, <2>4 DEF DrainInv, ClosedProjectsDrain
  <1> QED BY <1>3, <1>4, <1>5, <1>7, <1>8, RowStep

LEMMA TaskEndsInv ==
    ASSUME ProjectsInv, NEW t \in Task, TaskEnds(t)
    PROVE  ProjectsInv'
  <1>1. task \in [Task -> [is : {"absent", "live", "ended", "deleted"},
                           project : Project \cup {None}]]
    BY DEF ProjectsInv, RowTypes
  <1>2. /\ task[t].is = "live" /\ task' = [task EXCEPT ![t].is = "ended"]
        /\ late' = late \ {t}
        /\ UNCHANGED <<project, agent, template, revisions, issue, links, job, scene,
                       upsets, barred, decided>>
    BY DEF TaskEnds, Leaves
  <1>3. IssueTypes'
    BY <1>2 DEF ProjectsInv, IssueTypes
  <1>4. IssueInv'
    <2>1. \A u \in Task : /\ Exists(u) => Exists(u)'
                          /\ task[u].is = "deleted" => task'[u].is = "deleted"
                          /\ task'[u].project = task[u].project
      BY <1>1, <1>2 DEF Exists
    <2>2. links \subseteq [issue : Issue, task : Task \cup {None}, label : Task]
      BY DEF ProjectsInv, IssueTypes
    <2>3. \A l \in links : IF l.task = None THEN task[l.label].is = "deleted"
                           ELSE /\ Exists(l.task)
                                /\ SameProject(task[l.task].project, issue[l.issue].project)
      BY DEF ProjectsInv, IssueInv, IssueStatusIsDecided
    <2>4. \A l \in links : IF l.task = None THEN task'[l.label].is = "deleted"
                           ELSE /\ Exists(l.task)'
                                /\ SameProject(task'[l.task].project, issue[l.issue].project)
      BY <2>1, <2>2, <2>3
    <2> QED BY <1>2, <2>4 DEF ProjectsInv, IssueInv, IssueStatusIsDecided, Exists, Filed
  <1> QED BY <1>2, <1>3, <1>4, TaskMoves

LEMMA DeleteTaskInv ==
    ASSUME ProjectsInv, NEW t \in Task, DeleteTask(t)
    PROVE  ProjectsInv'
  <1>1. task \in [Task -> [is : {"absent", "live", "ended", "deleted"},
                           project : Project \cup {None}]]
    BY DEF ProjectsInv, RowTypes
  <1>2. /\ task[t].is = "ended" /\ task' = [task EXCEPT ![t].is = "deleted"]
        /\ links' = {IF l.task = t THEN [l EXCEPT !.task = None] ELSE l : l \in links}
        /\ UNCHANGED <<project, agent, template, revisions, issue, job, scene,
                       upsets, late, barred, decided>>
    BY DEF DeleteTask, history
  <1>3. links \subseteq [issue : Issue, task : Task \cup {None}, label : Task]
    BY DEF ProjectsInv, IssueTypes
  <1>4. ASSUME NEW l \in links'
        PROVE  \E k \in links :
                  /\ l \in [issue : Issue, task : Task \cup {None}, label : Task]
                  /\ l.issue = k.issue /\ l.label = k.label
                  /\ IF k.task = t THEN l.task = None ELSE l.task = k.task
    <2>1. PICK k \in links : l = IF k.task = t THEN [k EXCEPT !.task = None] ELSE k
      BY <1>2
    <2> QED BY <2>1, <1>3
  <1>5. IssueTypes'
    BY <1>2, <1>4 DEF ProjectsInv, IssueTypes
  <1>6. IssueInv'
    <2>1. /\ task'[t].is = "deleted" /\ task'[t].project = task[t].project
          /\ \A u \in Task \ {t} : task'[u] = task[u]
      BY <1>1, <1>2
    <2>2. \A l \in links :
             /\ Filed(l.issue) /\ (l.task # None => l.task = l.label)
             /\ IF l.task = None THEN task[l.label].is = "deleted"
                ELSE /\ Exists(l.task)
                     /\ SameProject(task[l.task].project, issue[l.issue].project)
      BY DEF ProjectsInv, IssueInv, IssueStatusIsDecided
    <2>3. ASSUME NEW l \in links'
          PROVE  /\ Filed(l.issue) /\ (l.task # None => l.task = l.label)
                 /\ IF l.task = None THEN task'[l.label].is = "deleted"
                    ELSE /\ task'[l.task].is \in {"live", "ended"}
                         /\ SameProject(task'[l.task].project, issue[l.issue].project)
      <3>1. PICK k \in links :
                  /\ l \in [issue : Issue, task : Task \cup {None}, label : Task]
                  /\ l.issue = k.issue /\ l.label = k.label
                  /\ IF k.task = t THEN l.task = None ELSE l.task = k.task
        BY <1>4
      <3>2. k.label \in Task /\ k.task \in Task \cup {None}
        BY <1>3
      <3>3. /\ Filed(k.issue) /\ (k.task # None => k.task = k.label)
            /\ IF k.task = None THEN task[k.label].is = "deleted"
               ELSE /\ task[k.task].is \in {"live", "ended"}
                    /\ SameProject(task[k.task].project, issue[k.issue].project)
        BY <2>2 DEF Exists
      <3>4. CASE k.task = t
        BY <3>1, <3>2, <3>3, <3>4, <2>1
      <3>5. CASE k.task = None
        <4>1. k.label # t
          BY <3>3, <3>5, <1>2
        <4> QED BY <3>1, <3>2, <3>3, <3>5, <4>1, <2>1
      <3>6. CASE k.task \notin {t, None}
        BY <3>1, <3>2, <3>3, <3>6, <2>1
      <3> QED BY <3>4, <3>5, <3>6
    <2> QED BY <1>2, <2>3 DEF ProjectsInv, IssueInv, IssueStatusIsDecided, Exists, Filed
  <1> QED BY <1>2, <1>5, <1>6, TaskMoves

-------------------------------------------------------------------------------
(***************************************************************************)
(* Agents.                                                                 *)
(***************************************************************************)
LEMMA InsertAgentInv ==
    ASSUME ProjectsInv, NEW r \in Request, InsertAgent(r)
    PROVE  ProjectsInv'
  <1> DEFINE j == job[r]
             a == CHOOSE x \in Agent : agent[x].is = "absent"
  <1>1. Answers(r) /\ j.op = "agent" /\ j.at = "insert"
    BY DEF InsertAgent, At
  <1>2. j \in AgentJob /\ AgentFits(j)
    BY <1>1, AgentTyped
  <1>3. a \in Agent /\ agent[a].is = "absent"
    BY <1>1, SomeIsFree
  <1> DEFINE p == j.project
             pin == j.pin
  <1>4. p \in Project /\ pin \in Pins \cup {None} /\ p \notin j.closed
    BY <1>1, <1>2 DEF AgentJob, AgentFits
  <1>5. /\ agent' = [agent EXCEPT ![a] = [is |-> "ready", project |-> p, pin |-> pin]]
        /\ late' = (IF p \in Closed THEN late \cup {a} ELSE late)
        /\ barred' = barred /\ UNCHANGED decided
    BY <1>4 DEF InsertAgent, Joins
  <1>6. UNCHANGED <<project, task, template, revisions, issue, links, scene, upsets>>
    BY DEF InsertAgent
  <1>7. \A t \in Template : pin # None /\ pin.template = t => SharesIn(j, t)
    BY <1>1 DEF SharesIn
  <1> HIDE DEF a, p, pin
  <1> DEFINE AgentRow == [is : {"absent", "ready", "stopped"},
                          project : Project \cup {None}, pin : Pins \cup {None}]
  <1>8. agent \in [Agent -> AgentRow]
    BY DEF ProjectsInv, RowTypes
  <1>9. [is |-> "ready", project |-> p, pin |-> pin] \in AgentRow
    BY <1>4
  <1>10. /\ agent' \in [Agent -> AgentRow]
         /\ agent'[a] = [is |-> "ready", project |-> p, pin |-> pin]
         /\ \A b \in Agent \ {a} : agent'[b] = agent[b]
    <2> HIDE DEF AgentRow
    <2> QED BY <1>3, <1>5, <1>8, <1>9
  <1>11. RowTypes' /\ TemplateTypes' /\ IssueTypes' /\ BoundTypes'
    <2>1. \A b \in Agent : agent'[b].is # "absent" => agent'[b].project \in Project
      BY <1>4, <1>10 DEF ProjectsInv, RowTypes
    <2>2. RowTypes'
      BY <1>6, <1>10, <2>1 DEF ProjectsInv, RowTypes, Pins
    <2>3. TemplateTypes' /\ IssueTypes'
      BY <1>5, <1>6 DEF ProjectsInv, TemplateTypes, IssueTypes
    <2>4. BoundTypes'
      BY <1>3, <1>5, <1>6 DEF ProjectsInv, BoundTypes
    <2> QED BY <2>2, <2>3, <2>4
  <1>12. Grows
    BY <1>3, <1>6, <1>10 DEF Grows, Closed, Filed
  <1>13. Settles
    BY <1>1, SettlesIs
  <1>14. RoomInv'
    <2>1. FreeAgents' = FreeAgents \ {a} /\ a \in FreeAgents /\ FreeTasks' = FreeTasks
      BY <1>3, <1>6, <1>10 DEF FreeTasks, FreeAgents
    <2>2. IsFiniteSet(FreeTasks) /\ IsFiniteSet(FreeAgents)
      BY FS_Subset DEF FreeTasks, FreeAgents
    <2>3. /\ Doing("agent")' \subseteq Doing("agent") \ {r} /\ r \in Doing("agent")
          /\ Doing("submit")' \subseteq Doing("submit")
      <3>1. Idle.op = "idle" /\ job \in [Request -> Job]
        BY DEF Idle, ProjectsInv, JobsInv
      <3>2. job' = [job EXCEPT ![r] = Idle]
        BY <1>1 DEF Answers
      <3> QED BY <1>1, <3>1, <3>2 DEF Doing
    <2>4. /\ Cardinality(Doing("submit")) <= Cardinality(FreeTasks)
          /\ Cardinality(Doing("agent")) <= Cardinality(FreeAgents)
      BY DEF ProjectsInv, RoomInv
    <2>5. Cardinality(Doing("agent")') <= Cardinality(FreeAgents \ {a})
      BY <2>1, <2>2, <2>3, <2>4, InsertTakesOne
    <2>6. Cardinality(Doing("submit")') <= Cardinality(FreeTasks)
      BY <2>2, <2>3, <2>4, FewerNeedLess
    <2> QED BY <2>1, <2>5, <2>6 DEF RoomInv
  <1>15. DrainInv'
    <2>1. barred = {} /\ \A q \in Project : project[q] = "archived"
                             => LiveTasks(q) \cup LiveAgents(q) \subseteq late
      BY DEF ProjectsInv, DrainInv, ClosedProjectsDrain
    <2>2. ASSUME NEW q \in Project, project[q] = "archived"
          PROVE  LiveTasks(q)' \cup LiveAgents(q)' \subseteq late'
      <3>1. LiveTasks(q)' = LiveTasks(q) /\ late \subseteq late'
        BY <1>5, <1>6 DEF LiveTasks
      <3>2. ASSUME NEW b \in LiveAgents(q)', b # a PROVE b \in LiveAgents(q)
        BY <3>2, <1>10 DEF LiveAgents
      <3>3. a \in LiveAgents(q)' => a \in late'
        <4>1. a \in LiveAgents(q)' => p = q
          BY <1>10 DEF LiveAgents
        <4>2. p = q => p \in Closed
          BY <2>2 DEF Closed
        <4> QED BY <4>1, <4>2, <1>5
      <3> QED BY <2>1, <2>2, <3>1, <3>2, <3>3
    <2> QED BY <2>1, <2>2, <1>5, <1>6 DEF DrainInv, ClosedProjectsDrain
  <1>16. IssueInv'
    BY <1>5, <1>6, IssueKept
  <1>17. \A s \in Request : FoundUnderLock(job[s])'
    <2>1. \A q : Pinnable(q)' = Pinnable(q)
      BY <1>6 DEF Pinnable
    <2>2. ASSUME NEW t \in Template, pin = None \/ pin.template # t
          PROVE  Dependents(t)' = Dependents(t)
      BY <2>2, <1>3, <1>10 DEF Dependents
    <2>3. ASSUME NEW s \in Request, job'[s].op = "turn", job'[s].at = "retire"
          PROVE  job'[s] = job[s] /\ Dependents(job[s].template)' = Dependents(job[s].template)
      <3>1. job'[s] = job[s] /\ s # r
        <4>1. job'[s] \in {job[s], Idle} /\ job'[r] = Idle
          BY <1>1 DEF Answers, ProjectsInv, JobsInv
        <4>2. Idle.op = "idle"
          BY DEF Idle
        <4> QED BY <4>1, <4>2, <2>3
      <3>2. job[s].template \in Template /\ HoldsIn(job[s], job[s].template)
        BY <2>3, <3>1, TurnTyped DEF TurnJob, HoldsIn
      <3>3. ~SharesIn(j, job[s].template)
        BY <3>1, <3>2 DEF ProjectsInv, LocksInv
      <3> QED BY <3>1, <3>2, <3>3, <1>7, <2>2
    <2>4. ASSUME NEW s \in Request PROVE FoundUnderLock(job[s])'
      <3>1. job'[s] \in {job[s], Idle}
        BY <1>1 DEF Answers, ProjectsInv, JobsInv
      <3>2. Idle.op = "idle" /\ FoundUnderLock(job[s])
        BY JobTyped DEF Idle
      <3> QED BY <3>1, <3>2, <2>1, <2>3, <1>6 DEF FoundUnderLock
    <2> QED BY <2>4
  <1> QED BY <1>11, <1>12, <1>13, <1>14, <1>15, <1>16, <1>17, RowStep

LEMMA StopAgentInv ==
    ASSUME ProjectsInv, NEW a \in Agent, StopAgent(a)
    PROVE  ProjectsInv'
  <1> DEFINE AgentRow == [is : {"absent", "ready", "stopped"},
                          project : Project \cup {None}, pin : Pins \cup {None}]
  <1>1. agent \in [Agent -> AgentRow]
    BY DEF ProjectsInv, RowTypes
  <1>2. /\ agent[a].is = "ready" /\ agent' = [agent EXCEPT ![a].is = "stopped"]
        /\ late' = late \ {a}
        /\ UNCHANGED <<project, task, template, revisions, issue, links, job, scene,
                       upsets, barred, decided>>
    BY DEF StopAgent, Leaves
  <1>3. /\ agent' \in [Agent -> AgentRow] /\ agent'[a].is = "stopped"
        /\ agent'[a].project = agent[a].project /\ agent'[a].pin = agent[a].pin
        /\ \A b \in Agent \ {a} : agent'[b] = agent[b]
    BY <1>1, <1>2
  <1>4. RowTypes' /\ TemplateTypes' /\ IssueTypes' /\ BoundTypes'
    <2>1. \A b \in Agent : agent'[b].is # "absent" => agent'[b].project \in Project
      BY <1>2, <1>3 DEF ProjectsInv, RowTypes
    <2>2. RowTypes'
      BY <1>2, <1>3, <2>1 DEF ProjectsInv, RowTypes, Pins
    <2>3. TemplateTypes' /\ IssueTypes' /\ BoundTypes'
      BY <1>2 DEF ProjectsInv, TemplateTypes, IssueTypes, BoundTypes
    <2> QED BY <2>2, <2>3
  <1>5. Grows
    BY <1>2, <1>3 DEF Grows, Closed, Filed
  <1>6. Settles
    BY <1>2, SettlesIs
  <1>7. FreeTasks' = FreeTasks /\ FreeAgents' = FreeAgents
    BY <1>2, <1>3 DEF FreeTasks, FreeAgents
  <1>8. DrainInv'
    <2>1. \A q \in Project : LiveAgents(q)' \subseteq LiveAgents(q) \ {a}
      BY <1>2, <1>3 DEF LiveAgents
    <2>2. \A q \in Project : LiveTasks(q)' = LiveTasks(q) /\ a \notin LiveTasks(q)
      BY <1>2 DEF LiveTasks
    <2>3. barred = {} /\ \A q \in Project : project[q] = "archived"
                             => LiveTasks(q) \cup LiveAgents(q) \subseteq late
      BY DEF ProjectsInv, DrainInv, ClosedProjectsDrain
    <2>4. \A q \in Project : project[q] = "archived"
                             => LiveTasks(q)' \cup LiveAgents(q)' \subseteq late'
      BY <1>2, <2>1, <2>2, <2>3
    <2> QED BY <1>2, <2>3, <2>4 DEF DrainInv, ClosedProjectsDrain
  <1>9. \A s \in Request : FoundUnderLock(job[s])'
    <2>1. \A q : Pinnable(q)' = Pinnable(q)
      BY <1>2 DEF Pinnable
    <2>2. \A t : Dependents(t)' = Dependents(t)
      BY <1>2, <1>3 DEF Dependents
    <2>3. \A s \in Request : FoundUnderLock(job[s])
      BY JobTyped
    <2> QED BY <1>2, <2>1, <2>2, <2>3 DEF FoundUnderLock
  <1>10. RoomInv' /\ IssueInv'
    BY <1>2, <1>6, <1>7, RoomKept, IssueKept
  <1> QED BY <1>4, <1>5, <1>6, <1>8, <1>9, <1>10, RowStep

-------------------------------------------------------------------------------
(***************************************************************************)
(* Templates: nobody but the holder of a template's lock changes what the  *)
(* others have found under theirs.                                         *)
(***************************************************************************)
LEMMA TemplateStep ==
    ASSUME ProjectsInv, Settles, TemplateTypes',
           \A s \in Request : FoundUnderLock(job[s])',
           UNCHANGED <<project, task, agent, issue, links, scene, upsets, history>>
    PROVE  ProjectsInv'
  <1> USE DEF history
  <1>1. RowTypes' /\ IssueTypes' /\ BoundTypes'
    BY DEF ProjectsInv, RowTypes, IssueTypes, BoundTypes
  <1>2. FreeTasks' = FreeTasks /\ FreeAgents' = FreeAgents /\ Closed' = Closed
    BY DEF FreeTasks, FreeAgents, Closed
  <1>3. Grows /\ RoomInv' /\ DrainInv' /\ IssueInv'
    BY <1>2, GrowsKept, RoomKept, DrainKept, IssueKept
  <1> QED BY <1>1, <1>3, RowStep

(* What a handler keeps when only template t changes, if it has no lock on *)
(* it.                                                                     *)
LEMMA FoundElsewhere ==
    ASSUME ProjectsInv, NEW s \in Request, job'[s] \in {job[s], Idle}, UNCHANGED agent,
           NEW t \in Template,
           \A u \in Template \ {t} : template'[u] = template[u] /\ revisions'[u] = revisions[u],
           job'[s] = job[s] => ~SharesIn(job[s], t) /\ ~HoldsIn(job[s], t)
    PROVE  FoundUnderLock(job[s])'
  <1>1. CASE job'[s] = Idle
    BY <1>1 DEF FoundUnderLock, Idle
  <1>2. CASE job'[s] = job[s]
    <2>1. FoundUnderLock(job[s]) /\ job[s] \in Job
      BY JobTyped
    <2>2. ASSUME job[s].op = "agent", job[s].at = "insert", job[s].pin # None
          PROVE  Pinnable(job[s].pin)'
      <3>1. job[s].pin \in Pins
        BY <2>2, AgentTyped DEF AgentJob
      <3>2. job[s].pin.template \in Template \ {t}
        BY <1>2, <2>2, <3>1 DEF SharesIn, Pins
      <3> QED BY <1>2, <2>1, <2>2, <3>2 DEF FoundUnderLock, Pinnable
    <2>3. ASSUME job[s].op = "revise", job[s].at = "insert"
          PROVE  /\ template'[job[s].template] \in AcceptsRevisions
                 /\ job[s].number = Len(revisions'[job[s].template]) + 1
      <3>1. job[s].template \in Template
        BY <2>3, ReviseTyped DEF ReviseJob
      <3>2. job[s].template # t
        BY <1>2, <2>3 DEF HoldsIn
      <3> QED BY <1>2, <2>1, <2>3, <3>1, <3>2 DEF FoundUnderLock
    <2>4. \A u : Dependents(u)' = Dependents(u)
      BY DEF Dependents
    <2> QED BY <1>2, <2>1, <2>2, <2>3, <2>4 DEF FoundUnderLock
  <1> QED BY <1>1, <1>2

LEMMA CreateTemplateInv ==
    ASSUME ProjectsInv, NEW t \in Template, CreateTemplate(t)
    PROVE  ProjectsInv'
  <1>1. /\ template[t] = "none" /\ template' = [template EXCEPT ![t] = "draft"]
        /\ UNCHANGED <<project, task, agent, revisions, issue, links, job, scene,
                       upsets, history>>
    BY DEF CreateTemplate, Known
  <1>2. TemplateTypes'
    BY <1>1 DEF ProjectsInv, TemplateTypes
  <1>3. ASSUME NEW s \in Request PROVE FoundUnderLock(job[s])'
    <2>1. FoundUnderLock(job[s])
      BY JobTyped
    <2>2. \A u : Dependents(u)' = Dependents(u)
      BY <1>1 DEF Dependents
    <2>3. template \in [Template -> {"none", "draft", "published", "deprecated",
                                     "retired", "discarded"}]
      BY DEF ProjectsInv, TemplateTypes
    <2>4. \A q \in Pins : Pinnable(q) => Pinnable(q)'
      BY <1>1, <2>3 DEF Pinnable, Pins, AcceptsPins
    <2>5. job[s].op = "agent" /\ job[s].pin # None => job[s].pin \in Pins
      BY AgentTyped DEF AgentJob
    <2>6. job[s].op = "revise" => job[s].template \in Template
      BY ReviseTyped DEF ReviseJob
    <2>7. \A u \in Template : template[u] \in AcceptsRevisions
                                 => template'[u] \in AcceptsRevisions
      BY <1>1, <2>3 DEF AcceptsRevisions
    <2> QED BY <1>1, <2>1, <2>2, <2>4, <2>5, <2>6, <2>7 DEF FoundUnderLock
  <1> QED BY <1>1, <1>2, <1>3, SettlesIs, TemplateStep

LEMMA InsertRevisionInv ==
    ASSUME ProjectsInv, NEW r \in Request, InsertRevision(r)
    PROVE  ProjectsInv'
  <1> DEFINE t == job[r].template
  <1>1. /\ job[r].op = "revise" /\ job[r].at = "insert" /\ Answers(r)
        /\ UNCHANGED <<project, task, agent, template, issue, links, scene, upsets, history>>
        /\ revisions' = IF job[r].number <= Len(revisions[t]) THEN revisions
                        ELSE [revisions EXCEPT ![t] = Append(@, FALSE)]
    BY DEF InsertRevision, At
  <1>2. /\ t \in Template /\ HoldsIn(job[r], t)
        /\ job[r].number \in 0..MaxRevision /\ job[r].number = Len(revisions[t]) + 1
    BY <1>1, ReviseTyped DEF ReviseJob, HoldsIn, FoundUnderLock
  <1>3. /\ Len(revisions[t]) \in Nat /\ Len(revisions[t]) + 1 <= MaxRevision
        /\ revisions' = [revisions EXCEPT ![t] = Append(@, FALSE)]
    <2>1. Len(revisions[t]) \in Nat
      BY <1>2, LenProperties DEF ProjectsInv, TemplateTypes
    <2> QED BY <1>1, <1>2, <2>1
  <1> HIDE DEF t
  <1>4. TemplateTypes'
    <2>1. /\ revisions \in [Template -> Seq(BOOLEAN)]
          /\ \A u \in Template : Len(revisions[u]) <= MaxRevision
      BY DEF ProjectsInv, TemplateTypes
    <2>2. FALSE \in BOOLEAN
      OBVIOUS
    <2>3. /\ Append(revisions[t], FALSE) \in Seq(BOOLEAN)
          /\ Len(Append(revisions[t], FALSE)) = Len(revisions[t]) + 1
          /\ Len(revisions[t]) \in Nat
      BY <1>2, <1>3, <2>1, <2>2, AppendProperties
    <2>4. Len(Append(revisions[t], FALSE)) <= MaxRevision
      BY <1>3, <2>3
    <2>5. revisions' = [revisions EXCEPT ![t] = Append(revisions[t], FALSE)]
      BY <1>3
    <2>6. /\ revisions' \in [Template -> Seq(BOOLEAN)]
          /\ \A u \in Template : Len(revisions'[u]) <= MaxRevision
      BY <1>2, <2>1, <2>3, <2>4, <2>5
    <2> QED BY <1>1, <2>6 DEF ProjectsInv, TemplateTypes
  <1>5. Settles
    BY <1>1, SettlesIs
  <1>6. ASSUME NEW s \in Request PROVE FoundUnderLock(job[s])'
    <2>1. job'[s] \in {job[s], Idle} /\ (s = r => job'[s] = Idle)
      BY <1>1 DEF Answers, ProjectsInv, JobsInv
    <2>2. s # r => ~SharesIn(job[s], t) /\ ~HoldsIn(job[s], t)
      BY <1>2 DEF ProjectsInv, LocksInv
    <2>3. \A u \in Template \ {t} : revisions'[u] = revisions[u]
      BY <1>3 DEF ProjectsInv, TemplateTypes
    <2>4. job[r] # Idle
      BY <1>1 DEF Idle
    <2> QED BY <1>1, <1>2, <2>1, <2>2, <2>3, <2>4, FoundElsewhere
  <1> QED BY <1>1, <1>4, <1>5, <1>6, TemplateStep

LEMMA RevokeInv ==
    ASSUME ProjectsInv, NEW t \in Template, NEW n \in 1..MaxRevision, Revoke(t, n)
    PROVE  ProjectsInv'
  <1>1. /\ n <= Len(revisions[t]) /\ \A r \in Shares(t) : job[r].pin.number # n
        /\ revisions' = [revisions EXCEPT ![t] = [@ EXCEPT ![n] = TRUE]]
        /\ UNCHANGED <<project, task, agent, template, issue, links, job, scene,
                       upsets, history>>
    BY DEF Revoke
  <1>2. /\ revisions \in [Template -> Seq(BOOLEAN)]
        /\ \A u \in Template : Len(revisions[u]) <= MaxRevision
    BY DEF ProjectsInv, TemplateTypes
  <1> DEFINE q == [revisions[t] EXCEPT ![n] = TRUE]
  <1>3. q \in Seq(BOOLEAN) /\ Len(q) = Len(revisions[t])
    <2>1. revisions[t] \in Seq(BOOLEAN)
      BY <1>2
    <2>2. n \in 1..Len(revisions[t])
      BY <1>1, <2>1, LenProperties
    <2>3. TRUE \in BOOLEAN
      OBVIOUS
    <2> QED BY <2>1, <2>2, <2>3, ExceptSeq
  <1>4. \A m \in 1..MaxRevision : m # n => q[m] = revisions[t][m]
    OBVIOUS
  <1>5. revisions' = [revisions EXCEPT ![t] = q]
    BY <1>1
  <1> HIDE DEF q
  <1>6. /\ revisions' \in [Template -> Seq(BOOLEAN)]
        /\ \A u \in Template : Len(revisions'[u]) = Len(revisions[u])
    BY <1>2, <1>3, <1>5
  <1>7. TemplateTypes'
    BY <1>1, <1>2, <1>6 DEF ProjectsInv, TemplateTypes
  <1>8. ASSUME NEW s \in Request PROVE FoundUnderLock(job[s])'
    <2>1. FoundUnderLock(job[s])
      BY JobTyped
    <2>2. \A u : Dependents(u)' = Dependents(u)
      BY <1>1 DEF Dependents
    <2>3. ASSUME job[s].op = "agent", job[s].at = "insert", job[s].pin # None
          PROVE  Pinnable(job[s].pin)'
      <3>1. job[s].pin \in Pins
        BY <2>3, AgentTyped DEF AgentJob
      <3>2. job[s].pin.template # t \/ job[s].pin.number # n
        BY <1>1, <2>3 DEF Shares, At
      <3>3. Pinnable(job[s].pin)
        BY <2>1, <2>3 DEF FoundUnderLock
      <3>4. job[s].pin.template \in Template /\ job[s].pin.number \in 1..MaxRevision
        BY <3>1 DEF Pins
      <3>5. revisions'[job[s].pin.template][job[s].pin.number]
              = revisions[job[s].pin.template][job[s].pin.number]
        BY <1>2, <1>4, <1>5, <3>2, <3>4
      <3> QED BY <1>1, <1>6, <3>3, <3>4, <3>5 DEF Pinnable
    <2>4. job[s].op = "revise" => job[s].template \in Template
      BY ReviseTyped DEF ReviseJob
    <2> QED BY <1>1, <1>6, <2>1, <2>2, <2>3, <2>4 DEF FoundUnderLock
  <1> QED BY <1>1, <1>7, <1>8, SettlesIs, TemplateStep

LEMMA TurnWrites ==
    ASSUME ProjectsInv, NEW r \in Request, WriteTurn(r) \/ CommitRetire(r)
    PROVE  ProjectsInv'
  <1>1. job[r].op = "turn"
    BY DEF WriteTurn, CommitRetire, At
  <1>2. /\ job[r] \in TurnJob /\ FoundUnderLock(job[r])
        /\ job[r].at \in {"lock", "retire"} => job[r].to = "retired"
    BY <1>1, TurnTyped
  <1>3. job[r].template \in Template /\ job[r].to \in Turned
    BY <1>2 DEF TurnJob
  <1> DEFINE t == job[r].template
  <1>4. /\ Answers(r) /\ template' = [template EXCEPT ![t] = job[r].to]
        /\ UNCHANGED <<project, task, agent, revisions, issue, links, scene, upsets, history>>
    BY <1>2 DEF WriteTurn, CommitRetire, At
  <1>5. ASSUME NEW s \in Request \ {r}
        PROVE  ~SharesIn(job[s], t) /\ ~HoldsIn(job[s], t)
    <2>1. CASE WriteTurn(r)
      BY <2>1 DEF WriteTurn, Unlocked, Holds, Shares, At, HoldsIn, SharesIn
    <2>2. CASE CommitRetire(r)
      <3>1. HoldsIn(job[r], t)
        BY <2>2 DEF CommitRetire, At, HoldsIn
      <3> QED BY <1>3, <3>1 DEF ProjectsInv, LocksInv
    <2> QED BY <2>1, <2>2
  <1>6. TemplateTypes'
    BY <1>3, <1>4 DEF ProjectsInv, TemplateTypes, Turned
  <1>7. Settles
    BY <1>4, SettlesIs
  <1>8. ASSUME NEW s \in Request PROVE FoundUnderLock(job[s])'
    <2>1. job'[s] \in {job[s], Idle} /\ (s = r => job'[s] = Idle)
      BY <1>4 DEF Answers, ProjectsInv, JobsInv
    <2>2. job[r] # Idle
      BY <1>1 DEF Idle
    <2>3. \A u \in Template \ {t} : template'[u] = template[u]
      BY <1>4 DEF ProjectsInv, TemplateTypes
    <2>4. job'[s] = job[s] => s # r
      BY <2>1, <2>2
    <2> HIDE DEF t
    <2>5. t \in Template
      BY <1>3 DEF t
    <2> QED BY <1>4, <1>5, <2>1, <2>3, <2>4, <2>5, FoundElsewhere
  <1> QED BY <1>4, <1>6, <1>7, <1>8, TemplateStep

-------------------------------------------------------------------------------
(***************************************************************************)
(* Issues.                                                                 *)
(***************************************************************************)
LEMMA IssueStep ==
    ASSUME ProjectsInv, Settles, IssueTypes', IssueInv',
           \A i \in Issue : Filed(i) => Filed(i)' /\ issue'[i].project = issue[i].project,
           UNCHANGED <<project, task, agent, template, revisions, scene, upsets, late, barred>>
    PROVE  ProjectsInv'
  <1>1. RowTypes' /\ TemplateTypes' /\ BoundTypes'
    BY DEF ProjectsInv, RowTypes, TemplateTypes, BoundTypes
  <1>2. FreeTasks' = FreeTasks /\ FreeAgents' = FreeAgents
    BY DEF FreeTasks, FreeAgents
  <1>3. Grows
    BY DEF Grows, Closed
  <1>4. RoomInv' /\ DrainInv' /\ \A s \in Request : FoundUnderLock(job[s])'
    BY <1>2, RoomKept, DrainKept, FoundKept
  <1> QED BY <1>1, <1>3, <1>4, RowStep

LEMMA CreateIssueInv ==
    ASSUME ProjectsInv, NEW i \in Issue, NEW p \in Project, CreateIssue(i, p)
    PROVE  ProjectsInv'
  <1> DEFINE row == [status |-> "open", reason |-> None, project |-> p, revised |-> {}]
             turn == [status |-> "open", reason |-> None]
  <1>1. /\ ~Filed(i) /\ issue' = [issue EXCEPT ![i] = row]
        /\ decided' = [decided EXCEPT ![i] = turn]
        /\ UNCHANGED <<project, task, agent, template, revisions, links, job, scene,
                       upsets, late, barred>>
    BY DEF CreateIssue
  <1>2. /\ row \in IssueRow /\ turn \in [status : IssueStatus, reason : Reason \cup {None}]
        /\ row.status = "open" /\ row.reason = None
        /\ turn.status = "open" /\ turn.reason = None
    BY DEF IssueRow, IssueStatus
  <1> HIDE DEF row, turn
  <1>3. /\ issue \in [Issue -> IssueRow]
        /\ links \subseteq [issue : Issue, task : Task \cup {None}, label : Task]
        /\ decided \in [Issue -> [status : IssueStatus, reason : Reason \cup {None}]]
    BY DEF ProjectsInv, IssueTypes
  <1>4. IssueTypes'
    BY <1>1, <1>2, <1>3 DEF IssueTypes
  <1>5. /\ issue'[i] = row /\ decided'[i] = turn
        /\ \A k \in Issue \ {i} : issue'[k] = issue[k] /\ decided'[k] = decided[k]
    BY <1>1, <1>3
  <1>6. \A k \in Issue : Filed(k) => Filed(k)' /\ issue'[k].project = issue[k].project
    BY <1>1, <1>5 DEF Filed
  <1>7. IssueInv'
    <2>1. \A k \in Issue : /\ issue'[k].status = decided'[k].status
                           /\ issue'[k].reason = decided'[k].reason
                           /\ (issue'[k].status = "closed") = (issue'[k].reason # None)
      BY <1>2, <1>5 DEF ProjectsInv, IssueInv, IssueStatusIsDecided
    <2>2. \A l \in links : l.issue \in Issue /\ Filed(l.issue)
      BY <1>3 DEF ProjectsInv, IssueInv
    <2>3. \A l \in links : Filed(l.issue)' /\ issue'[l.issue].project = issue[l.issue].project
      BY <1>6, <2>2
    <2> QED BY <1>1, <2>1, <2>3 DEF ProjectsInv, IssueInv, IssueStatusIsDecided, Exists
  <1> QED BY <1>1, <1>4, <1>6, <1>7, SettlesIs, IssueStep

LEMMA WriteFieldsInv ==
    ASSUME ProjectsInv, NEW r \in Request, WriteFields(r)
    PROVE  ProjectsInv'
  <1> DEFINE i == job[r].issue
             fields == job[r].read.revised \cup {job[r].field}
  <1>1. /\ job[r].op = "edit" /\ Answers(r)
        /\ issue' = [issue EXCEPT ![i].revised = fields]
        /\ UNCHANGED <<project, task, agent, template, revisions, links, scene, upsets, history>>
    BY DEF WriteFields, At
  <1>2. job[r] \in EditJob
    BY <1>1, JobTyped DEF Job, Idle, SubmitJob, AgentJob, ArchiveJob, ReviseJob, TurnJob,
                          EditJob, DecideJob, LinkJob
  <1>3. i \in Issue /\ fields \in SUBSET Field
    BY <1>2 DEF EditJob, IssueRow
  <1> HIDE DEF i, fields
  <1>4. issue \in [Issue -> IssueRow]
    BY DEF ProjectsInv, IssueTypes
  <1>5. issue' \in [Issue -> IssueRow]
    BY <1>1, <1>3, <1>4 DEF IssueRow
  <1>6. \A k \in Issue : /\ issue'[k].status = issue[k].status
                         /\ issue'[k].reason = issue[k].reason
                         /\ issue'[k].project = issue[k].project
    BY <1>1, <1>3, <1>4 DEF IssueRow
  <1>7. IssueTypes'
    BY <1>1, <1>5 DEF ProjectsInv, IssueTypes, history
  <1>8. IssueInv'
    <2>1. \A l \in links : l.issue \in Issue
      BY DEF ProjectsInv, IssueTypes
    <2> QED BY <1>1, <1>6, <2>1 DEF ProjectsInv, IssueInv, IssueStatusIsDecided, Exists,
                                    Filed, history
  <1>9. Settles
    BY <1>1, SettlesIs
  <1> QED BY <1>1, <1>6, <1>7, <1>8, <1>9, IssueStep DEF Filed, history

LEMMA WriteStatusInv ==
    ASSUME ProjectsInv, NEW r \in Request, WriteStatus(r)
    PROVE  ProjectsInv'
  <1> DEFINE i == job[r].issue
             to == job[r].to
             why == job[r].reason
             turn == [status |-> to, reason |-> why]
  <1>1. /\ job[r].op = "decide" /\ Answers(r)
        /\ issue' = [issue EXCEPT ![i].status = to, ![i].reason = why]
        /\ decided' = [decided EXCEPT ![i] = turn]
        /\ UNCHANGED <<project, task, agent, template, revisions, links, scene, upsets,
                       late, barred>>
    BY DEF WriteStatus, At
  <1>2. job[r] \in Job /\ Fits(job[r])
    BY JobTyped
  <1>3. job[r] \in DecideJob /\ DecideFits(job[r])
    BY <1>1, <1>2 DEF Job, Idle, SubmitJob, AgentJob, ArchiveJob, ReviseJob, TurnJob,
                      EditJob, DecideJob, LinkJob, Fits
  <1>4. /\ i \in Issue /\ to \in IssueStatus \ {"none"} /\ why \in Reason \cup {None}
        /\ (to = "closed") = (why # None)
    BY <1>3 DEF DecideJob, DecideFits
  <1>5. /\ turn \in [status : IssueStatus, reason : Reason \cup {None}]
        /\ turn.status = to /\ turn.reason = why
    BY <1>4
  <1> HIDE DEF i, to, why, turn
  <1>6. /\ issue \in [Issue -> IssueRow]
        /\ decided \in [Issue -> [status : IssueStatus, reason : Reason \cup {None}]]
    BY DEF ProjectsInv, IssueTypes
  <1> DEFINE row == [issue[i] EXCEPT !.status = to, !.reason = why]
  <1>13. row \in IssueRow /\ row.status = to /\ row.reason = why /\ row.project = issue[i].project
    <2>1. issue[i] \in IssueRow
      BY <1>4, <1>6
    <2> QED BY <1>4, <2>1 DEF IssueRow
  <1>14. issue' = [issue EXCEPT ![i] = row]
    BY <1>1, <1>4, <1>6 DEF IssueRow
  <1> HIDE DEF row
  <1>7. issue' \in [Issue -> IssueRow]
    BY <1>4, <1>6, <1>13, <1>14
  <1>8. /\ \A k \in Issue \ {i} : issue'[k] = issue[k] /\ decided'[k] = decided[k]
        /\ issue'[i].status = to /\ issue'[i].reason = why /\ decided'[i] = turn
        /\ issue'[i].project = issue[i].project
    BY <1>1, <1>4, <1>6, <1>13, <1>14
  <1>9. IssueTypes'
    BY <1>1, <1>4, <1>5, <1>6, <1>7 DEF ProjectsInv, IssueTypes
  <1>10. \A k \in Issue : Filed(k) => Filed(k)' /\ issue'[k].project = issue[k].project
    BY <1>4, <1>8 DEF Filed
  <1>11. IssueInv'
    <2>1. \A l \in links : l.issue \in Issue
      BY DEF ProjectsInv, IssueTypes
    <2>2. \A k \in Issue : /\ issue'[k].status = decided'[k].status
                           /\ issue'[k].reason = decided'[k].reason
                           /\ (issue'[k].status = "closed") = (issue'[k].reason # None)
      BY <1>4, <1>5, <1>8 DEF ProjectsInv, IssueInv, IssueStatusIsDecided
    <2>3. \A l \in links : Filed(l.issue)' /\ issue'[l.issue].project = issue[l.issue].project
      BY <1>10, <2>1 DEF ProjectsInv, IssueInv
    <2> QED BY <1>1, <2>2, <2>3 DEF ProjectsInv, IssueInv, IssueStatusIsDecided, Exists
  <1>12. Settles
    BY <1>1, SettlesIs
  <1> QED BY <1>1, <1>9, <1>10, <1>11, <1>12, IssueStep

LEMMA LinksMove ==
    ASSUME ProjectsInv, Settles, IssueTypes',
           \A l \in links' : l \in links
                             \/ /\ Filed(l.issue) /\ l.task = l.label /\ l.task # None
                                /\ Exists(l.task)
                                /\ SameProject(task[l.task].project, issue[l.issue].project),
           UNCHANGED <<project, task, agent, template, revisions, issue, scene, upsets, history>>
    PROVE  ProjectsInv'
  <1>1. IssueInv'
    BY DEF ProjectsInv, IssueInv, IssueStatusIsDecided, Exists, Filed, history
  <1> QED BY <1>1, IssueStep DEF Filed, history

LEMMA WriteLinkInv ==
    ASSUME ProjectsInv, NEW r \in Request, WriteLink(r)
    PROVE  ProjectsInv'
  <1> DEFINE j == job[r]
             new == [issue |-> j.issue, task |-> j.task, label |-> j.task]
  <1>1. /\ j.op = "link" /\ j.at = "write" /\ Answers(r)
        /\ (Exists(j.task) /\ links' = links \cup {new}) \/ links' = links
        /\ UNCHANGED <<project, task, agent, template, revisions, issue, scene, upsets, history>>
    BY DEF WriteLink, At
  <1>2. j \in Job /\ Fits(j)
    BY JobTyped
  <1>3. j \in LinkJob /\ LinkFits(j)
    BY <1>1, <1>2 DEF Job, Idle, SubmitJob, AgentJob, ArchiveJob, ReviseJob, TurnJob,
                      EditJob, DecideJob, LinkJob, Fits
  <1>4. /\ j.issue \in Issue /\ j.task \in Task /\ Filed(j.issue)
        /\ SameProject(task[j.task].project, issue[j.issue].project)
    BY <1>1, <1>3 DEF LinkJob, LinkFits
  <1>5. /\ new \in [issue : Issue, task : Task \cup {None}, label : Task]
        /\ new.issue = j.issue /\ new.task = j.task /\ new.label = j.task
    BY <1>4
  <1> HIDE DEF new
  <1>6. IssueTypes'
    <2>1. links' \subseteq [issue : Issue, task : Task \cup {None}, label : Task]
      BY <1>1, <1>5 DEF ProjectsInv, IssueTypes
    <2> QED BY <1>1, <2>1 DEF ProjectsInv, IssueTypes, history
  <1>7. \A l \in links' : l \in links \/ (l = new /\ Exists(j.task))
    <2>1. CASE Exists(j.task) /\ links' = links \cup {new}
      BY <2>1
    <2>2. CASE links' = links
      BY <2>2
    <2> QED BY <1>1, <2>1, <2>2
  <1>8. None \notin Task
    OBVIOUS
  <1>9. \A l \in links' : l \in links
                          \/ /\ Filed(l.issue) /\ l.task = l.label /\ l.task # None
                             /\ Exists(l.task)
                             /\ SameProject(task[l.task].project, issue[l.issue].project)
    BY <1>4, <1>5, <1>7, <1>8
  <1>10. Settles
    BY <1>1, SettlesIs
  <1> QED BY <1>1, <1>6, <1>9, <1>10, LinksMove

LEMMA UnlinkInv ==
    ASSUME ProjectsInv, NEW i \in Issue, NEW t \in Task, Unlink(i, t)
    PROVE  ProjectsInv'
  <1>1. IssueTypes' /\ \A l \in links' : l \in links
    BY DEF Unlink, ProjectsInv, IssueTypes, history
  <1> QED BY <1>1, SettlesIs, LinksMove DEF Unlink

-------------------------------------------------------------------------------
(***************************************************************************)
(* Every step.                                                             *)
(***************************************************************************)
LEMMA StepInv ==
    ASSUME ProjectsInv, NEW r \in Request, Step(r)
    PROVE  ProjectsInv'
  <1>1. CASE \/ FindParent(r) \/ CheckNamed(r) \/ FindAgent(r) \/ CheckInherited(r)
             \/ CheckFinal(r) \/ InsertTask(r)
    BY <1>1, SubmitStepInv, InsertTaskInv
  <1>2. CASE CheckAgentProject(r) \/ LockPin(r) \/ InsertAgent(r)
    BY <1>2, AgentReads, InsertAgentInv
  <1>3. CASE Drain(r) \/ Seal(r) \/ AskTasks(r) \/ AskAgents(r) \/ Look(r)
    BY <1>3, ArchiveReads, DrainStepInv, SealInv
  <1>4. CASE \/ LockToRevise(r) \/ InsertRevision(r)
             \/ CheckTurn(r) \/ WriteTurn(r) \/ LockToRetire(r) \/ CommitRetire(r)
    BY <1>4, ReviseReads, InsertRevisionInv, TurnReads, TurnWrites
  <1>5. CASE WriteFields(r) \/ WriteStatus(r) \/ FindLinkTask(r) \/ WriteLink(r)
    BY <1>5, WriteFieldsInv, WriteStatusInv, IssueReads, WriteLinkInv
  <1> QED BY <1>1, <1>2, <1>3, <1>4, <1>5 DEF Step

LEMMA NextProjects == ProjectsInv /\ [Next]_vars => ProjectsInv'
  <1> SUFFICES ASSUME ProjectsInv, [Next]_vars PROVE ProjectsInv'
    OBVIOUS
  <1>1. ASSUME NEW p \in Project, CreateProject(p) PROVE ProjectsInv'
    BY <1>1, CreateProjectInv
  <1>2. ASSUME NEW r \in Request,
               SubmitBegins(r) \/ AgentBegins(r) \/ Step(r) \/ Abandon(r)
        PROVE  ProjectsInv'
    BY <1>2, SubmitBeginsInv, AgentReads, StepInv, AbandonInv
  <1>3. ASSUME NEW r \in Request, NEW p \in Project, ArchiveBegins(r, p) PROVE ProjectsInv'
    BY <1>3, ArchiveReads
  <1>4. ASSUME NEW t \in Task, TaskEnds(t) \/ DeleteTask(t) PROVE ProjectsInv'
    BY <1>4, TaskEndsInv, DeleteTaskInv
  <1>5. ASSUME NEW a \in Agent, StopAgent(a) PROVE ProjectsInv'
    BY <1>5, StopAgentInv
  <1>6. ASSUME NEW t \in Template, CreateTemplate(t) PROVE ProjectsInv'
    BY <1>6, CreateTemplateInv
  <1>7. ASSUME NEW r \in Request, NEW t \in Template, ReviseBegins(r, t) PROVE ProjectsInv'
    BY <1>7, ReviseReads
  <1>8. ASSUME NEW t \in Template, NEW n \in 1..MaxRevision, Revoke(t, n) PROVE ProjectsInv'
    BY <1>8, RevokeInv
  <1>9. ASSUME NEW r \in Request, NEW t \in Template,
               NEW to \in {"published", "deprecated", "retired", "discarded"},
               TurnBegins(r, t, to)
        PROVE  ProjectsInv'
    BY <1>9, TurnReads DEF Turned
  <1>10. ASSUME NEW i \in Issue, NEW p \in Project, CreateIssue(i, p) PROVE ProjectsInv'
    BY <1>10, CreateIssueInv
  <1>11. ASSUME NEW r \in Request, NEW i \in Issue, NEW f \in Field, EditBegins(r, i, f)
         PROVE  ProjectsInv'
    BY <1>11, IssueReads
  <1>12. ASSUME NEW r \in Request, NEW i \in Issue, NEW to \in IssueStatus \ {"none"},
                NEW why \in Reason \cup {None}, TurnIssueBegins(r, i, to, why)
         PROVE  ProjectsInv'
    BY <1>12, IssueReads
  <1>13. ASSUME NEW r \in Request, NEW i \in Issue, NEW t \in Task, LinkBegins(r, i, t)
         PROVE  ProjectsInv'
    BY <1>13, IssueReads
  <1>14. ASSUME NEW i \in Issue, NEW t \in Task, Unlink(i, t) PROVE ProjectsInv'
    BY <1>14, UnlinkInv
  <1>15. CASE UNCHANGED vars
    <2>1. Settles /\ UNCHANGED <<project, task, agent, template, revisions, issue, links,
                                 scene, upsets, history>>
      BY <1>15, SettlesIs DEF vars, rows
    <2>2. TemplateTypes'
      BY <2>1 DEF ProjectsInv, TemplateTypes
    <2> QED BY <2>1, <2>2, FoundKept, TemplateStep
  <1> QED BY <1>1, <1>2, <1>3, <1>4, <1>5, <1>6, <1>7, <1>8, <1>9, <1>10, <1>11, <1>12,
             <1>13, <1>14, <1>15 DEF Next

-------------------------------------------------------------------------------
(***************************************************************************)
(* The theorems.                                                           *)
(***************************************************************************)

(* What a handler found out before its last statement, and may rely on,    *)
(* is in force in every state.                                             *)
THEOREM ProjectsInvariance == Spec => []ProjectsInv
  BY InitProjects, NextProjects, PTL DEF Spec

(* Every row and every handler of a project keeps its shape, revisions     *)
(* stay within the bound, and every row found late is one of its table.    *)
THEOREM ProjectsTypeCorrect == Spec => []TypeOK
  <1>1. ProjectsInv => TypeOK
    <2> SUFFICES ASSUME ProjectsInv PROVE TypeOK
      OBVIOUS
    <2>1. DOMAIN job = Request /\ barred \subseteq Task \cup Agent
      BY DEF ProjectsInv, JobsInv, DrainInv, ClosedProjectsDrain
    <2>2. RowTypes /\ TemplateTypes /\ IssueTypes /\ BoundTypes
      BY DEF ProjectsInv
    <2>3. DOMAIN revisions = Template /\ \A t \in Template : revisions[t] \in Seq(BOOLEAN)
      BY <2>2 DEF TemplateTypes
    <2> QED BY <2>1, <2>2, <2>3 DEF TypeOK, RowTypes, TemplateTypes, IssueTypes,
                                    BoundTypes, IssueRow
  <1> QED BY <1>1, ProjectsInvariance, PTL

(* Nothing asked of a project that was closed by then gets in, and under   *)
(* an archived project only what was checked before it closed is alive     *)
(* (ensure_project_active, archive_project_if_drained).                    *)
THEOREM ClosedProjectsStayDrained == Spec => []ClosedProjectsDrain
  <1>1. ProjectsInv => ClosedProjectsDrain
    BY DEF ProjectsInv, DrainInv
  <1> QED BY <1>1, ProjectsInvariance, PTL

(* An issue is where its last transition put it, whatever edits overtake   *)
(* it, and its links name tasks that are there and stand inside its        *)
(* project (update_issue_fields, transition_issue, link_issue_task).       *)
THEOREM IssuesAreDecided == Spec => []IssueStatusIsDecided
  <1>1. ProjectsInv => IssueStatusIsDecided
    BY DEF ProjectsInv, IssueInv
  <1> QED BY <1>1, ProjectsInvariance, PTL

(* What a transaction has checked under its locks holds when it commits:   *)
(* pins, new revisions with their numbers, and retirements rest on what    *)
(* is there then (create_agent, create_agent_template_revision,            *)
(* retire_agent_template).                                                 *)
THEOREM PinsHold == Spec => PinsAreSettled
  <1>1. ASSUME ProjectsInv, Next
        PROVE  \A a \in Agent :
                  agent[a].is = "absent" /\ agent'[a].is = "ready" /\ agent'[a].pin # None
                     => Pinnable(agent'[a].pin)
    <2> SUFFICES ASSUME NEW a \in Agent, agent[a].is = "absent", agent'[a].is = "ready",
                        agent'[a].pin # None
                 PROVE  Pinnable(agent'[a].pin)
      OBVIOUS
    <2>1. agent \in [Agent -> [is : {"absent", "ready", "stopped"},
                               project : Project \cup {None}, pin : Pins \cup {None}]]
      BY <1>1 DEF ProjectsInv, RowTypes
    <2>2. agent' # agent
      OBVIOUS
    <2>3. ASSUME NEW b \in Agent, StopAgent(b) PROVE FALSE
      BY <2>1, <2>3 DEF StopAgent
    <2>4. PICK r \in Request : InsertAgent(r)
      BY <1>1, <2>2, <2>3
         DEF Next, Step, rows, CreateProject, SubmitBegins, AgentBegins, Abandon, ArchiveBegins,
             ArchiveFrom, FindParent, CheckNamed, FindAgent, CheckInherited, CheckFinal,
             InsertTask, CheckAgentProject, LockPin, Drain, Seal, AskTasks, AskAgents, Look,
             LockToRevise, InsertRevision, CheckTurn, WriteTurn, LockToRetire, CommitRetire,
             WriteFields, WriteStatus, FindLinkTask, WriteLink, TaskEnds, DeleteTask,
             CreateTemplate, ReviseBegins, Revoke, TurnBegins, CreateIssue, EditBegins,
             TurnIssueBegins, LinkBegins, Unlink
    <2> DEFINE x == CHOOSE x \in Agent : agent[x].is = "absent"
    <2>5. /\ job[r].op = "agent" /\ job[r].at = "insert"
          /\ agent' = [agent EXCEPT ![x] = [is |-> "ready", project |-> job[r].project,
                                            pin |-> job[r].pin]]
      BY <2>4 DEF InsertAgent, At
    <2> HIDE DEF x
    <2>6. a = x
      BY <2>1, <2>5
    <2>7. agent'[a].pin = job[r].pin
      BY <2>1, <2>5, <2>6
    <2> QED BY <1>1, <2>5, <2>7, JobTyped DEF FoundUnderLock
  <1>2. ASSUME ProjectsInv, Next
        PROVE  \A t \in Template :
                  Len(revisions'[t]) > Len(revisions[t]) => template[t] \in AcceptsRevisions
    <2> SUFFICES ASSUME NEW t \in Template, Len(revisions'[t]) > Len(revisions[t])
                 PROVE  template[t] \in AcceptsRevisions
      OBVIOUS
    <2>1. revisions \in [Template -> Seq(BOOLEAN)]
      BY <1>2 DEF ProjectsInv, TemplateTypes
    <2>2. Len(revisions[t]) \in Nat
      BY <2>1, LenProperties
    <2>3. revisions' # revisions
      BY <2>2
    <2>4. ASSUME NEW u \in Template, NEW n \in 1..MaxRevision, Revoke(u, n) PROVE FALSE
      <3>1. revisions' = [revisions EXCEPT ![u] = [@ EXCEPT ![n] = TRUE]] /\ n <= Len(revisions[u])
        BY <2>4 DEF Revoke
      <3> DEFINE q == [revisions[u] EXCEPT ![n] = TRUE]
      <3>2. Len(q) = Len(revisions[u])
        <4>1. revisions[u] \in Seq(BOOLEAN) /\ TRUE \in BOOLEAN
          BY <2>1
        <4>2. n \in 1..Len(revisions[u])
          BY <3>1, <4>1, LenProperties
        <4> QED BY <4>1, <4>2, ExceptSeq
      <3>3. revisions' = [revisions EXCEPT ![u] = q]
        BY <3>1
      <3> HIDE DEF q
      <3>4. Len(revisions'[t]) = Len(revisions[t])
        BY <2>1, <3>2, <3>3
      <3> QED BY <2>2, <3>4
    <2>5. PICK r \in Request : InsertRevision(r)
      BY <1>2, <2>3, <2>4
         DEF Next, Step, rows, CreateProject, SubmitBegins, AgentBegins, Abandon, ArchiveBegins,
             ArchiveFrom, FindParent, CheckNamed, FindAgent, CheckInherited, CheckFinal,
             InsertTask, CheckAgentProject, LockPin, InsertAgent, Drain, Seal, AskTasks,
             AskAgents, Look, LockToRevise, CheckTurn, WriteTurn, LockToRetire, CommitRetire,
             WriteFields, WriteStatus, FindLinkTask, WriteLink, TaskEnds, DeleteTask, StopAgent,
             CreateTemplate, ReviseBegins, TurnBegins, CreateIssue, EditBegins,
             TurnIssueBegins, LinkBegins, Unlink
    <2>6. /\ job[r].op = "revise" /\ job[r].at = "insert"
          /\ \/ revisions' = revisions
             \/ revisions' = [revisions EXCEPT ![job[r].template] = Append(@, FALSE)]
      BY <2>5 DEF InsertRevision, At
    <2>7. t = job[r].template
      <3>1. revisions' = [revisions EXCEPT ![job[r].template] = Append(@, FALSE)]
        BY <2>3, <2>6
      <3>2. t # job[r].template => revisions'[t] = revisions[t]
        BY <2>1, <3>1
      <3> QED BY <2>2, <3>2
    <2> QED BY <1>2, <2>6, <2>7, JobTyped DEF FoundUnderLock
  <1>3. ASSUME ProjectsInv, NEW r \in Request, At(r, "turn", "retire")
        PROVE  Dependents(job[r].template) = job[r].shown
    BY <1>3, JobTyped DEF FoundUnderLock, At
  <1>6. ASSUME ProjectsInv, NEW r \in Request, At(r, "revise", "insert")
        PROVE  job[r].number = Len(revisions[job[r].template]) + 1
    BY <1>6, JobTyped DEF FoundUnderLock, At
  <1> DEFINE Settled ==
        /\ \A a \in Agent :
              agent[a].is = "absent" /\ agent'[a].is = "ready" /\ agent'[a].pin # None
                 => Pinnable(agent'[a].pin)
        /\ \A t \in Template :
              Len(revisions'[t]) > Len(revisions[t]) => template[t] \in AcceptsRevisions
        /\ \A r \in Request :
              At(r, "revise", "insert") => job[r].number = Len(revisions[job[r].template]) + 1
        /\ \A r \in Request :
              At(r, "turn", "retire") /\ template'[job[r].template] = "retired"
                 => Dependents(job[r].template) = job[r].shown
  <1>4. ProjectsInv /\ [Next]_vars => [Settled]_vars
    BY <1>1, <1>2, <1>3, <1>6
  <1> HIDE DEF Settled
  <1>5. Spec => [][Settled]_vars
    BY <1>4, ProjectsInvariance, PTL DEF Spec
  <1> QED BY <1>5 DEF PinsAreSettled, Settled
=============================================================================
