---------------------------- MODULE TaskFlowProofs ----------------------------
(***************************************************************************)
(* Theorems about module TaskFlow, for any number of submissions, any set  *)
(* of keys, and any limits and numbers of retries.                         *)
(***************************************************************************)
EXTENDS TaskFlow, FiniteSetTheorems, WellFoundedInduction, TLAPS

USE TaskFlowAssumption

(***************************************************************************)
(* What a handler knows of the task it works on: its call was made, so it  *)
(* does not change any more; the dependencies the handler has looked up    *)
(* have completed; when it attempts the task, it has looked up all of them.*)
(***************************************************************************)
Made == {t \in Task : call[t].made}

HandlerState == [pc : PC, on : 0..MaxTasks, left : SUBSET Task,
                 todo : SUBSET Task, due : SUBSET Task]

Knows(h, state) ==
    /\ state \in HandlerState
    /\ state.todo \subseteq Made
    /\ state.pc \in {"insert", "lookup"} => h \in Task /\ state.on = h
    /\ state.pc \in PC \ {"idle", "list"} => state.on \in Made
    /\ state.pc \in {"deps", "attempt", "send", "deadletter"} =>
           call[state.on].deps \ state.left \subseteq completed
    /\ state.pc \in {"attempt", "send"} => state.left = {}

HandlersInv == \A h \in Handler : Knows(h, at[h])

(* Rows are of calls that were made; `completed` misses none.              *)
RowsInv ==
    /\ row \in [Task -> [phase : Phase, retries : Nat]]
    /\ \A t \in Task : ~Is(t, "Absent") => t \in Made
    /\ \A t \in Task : Is(t, "Completed") => t \in completed

FlowTypeOK ==
    /\ call \in [Task -> [made : BOOLEAN, key : Key \cup {NoKey}, deps : SUBSET Task]]
    /\ at \in [Handler -> HandlerState]

(* The inductive invariant.                                                *)
FlowInv ==
    /\ FlowTypeOK
    /\ HandlersInv
    /\ RowsInv
    /\ executed \subseteq Made
    /\ DependenciesFirst

-------------------------------------------------------------------------------
(* The greatest id of a list is in it.                                     *)
LEMMA MaxInList ==
    ASSUME NEW S \in SUBSET Task, S # {}
    PROVE  Max(S) \in S
  <1> DEFINE D == {MaxTasks - x : x \in S}
  <1>1. D \subseteq Nat /\ D # {}
    BY DEF Task
  <1>2. PICK d \in D : \A e \in D : ~ (<<e, d>> \in OpToRel(<, Nat))
    <2> HIDE DEF D
    <2> QED BY <1>1, NatLessThanWellFounded, WFMin
  <1>3. \A e \in D : ~ (e < d)
    BY <1>1, <1>2 DEF OpToRel
  <1>4. PICK x \in S : d = MaxTasks - x
    OBVIOUS
  <1>5. ASSUME NEW y \in S PROVE x >= y
    <2>1. MaxTasks - y \in D /\ x \in Int /\ y \in Int
      BY DEF Task
    <2>2. ~ (MaxTasks - y < MaxTasks - x)
      BY <1>3, <1>4, <2>1
    <2> QED BY <2>1, <2>2
  <1> QED BY <1>5 DEF Max

(***************************************************************************)
(* What a handler becomes.                                                 *)

LEMMA IdleKnows ==
    ASSUME NEW h \in Handler
    PROVE  Knows(h, Idle) /\ Knows(h, [Idle EXCEPT !.pc = "list"])
  BY DEF Knows, Idle, HandlerState, PC, Task

(* A look at the dependencies that are left.                               *)
LEMMA LookingKnows ==
    ASSUME NEW h \in Handler, NEW state \in HandlerState,
           state.todo \subseteq Made, state.on \in Made,
           call[state.on].deps \ state.left \subseteq completed
    PROVE  Knows(h, Looking(state))
  <1> DEFINE pc == IF state.left # {} THEN "deps"
                   ELSE IF state.on \in state.due THEN "deadletter" ELSE "attempt"
  <1>1. Looking(state) = [state EXCEPT !.pc = pc]
    BY DEF Looking
  <1>2. pc \in {"deps", "deadletter", "attempt"} /\ (pc = "attempt" => state.left = {})
    OBVIOUS
  <1> HIDE DEF pc
  <1>3. /\ Looking(state) \in HandlerState
        /\ Looking(state).pc = pc /\ Looking(state).on = state.on
        /\ Looking(state).left = state.left /\ Looking(state).todo = state.todo
    BY <1>1, <1>2 DEF HandlerState, PC
  <1> QED BY <1>2, <1>3 DEF Knows

LEMMA GoOnKnows ==
    ASSUME NEW h \in Handler, NEW todo \in SUBSET Made, NEW due \in SUBSET Task, FlowTypeOK
    PROVE  Knows(h, GoOn(todo, due))
  <1>1. CASE todo = {}
    BY <1>1, IdleKnows DEF GoOn
  <1>2. CASE todo # {}
    <2> DEFINE t == Max(todo)
               state == [pc |-> "deps", on |-> t, left |-> call[t].deps,
                         todo |-> todo \ {t}, due |-> due]
    <2>1. t \in todo /\ todo \subseteq Task
      BY <1>2, MaxInList DEF Made
    <2> HIDE DEF t
    <2>2. state \in HandlerState
      BY <2>1 DEF HandlerState, PC, FlowTypeOK, Task
    <2>3. Knows(h, Looking(state))
      BY <2>1, <2>2, LookingKnows
    <2> QED BY <1>2, <2>3 DEF GoOn, t
  <1> QED BY <1>1, <1>2

(* The handlers after one of them became something else.                   *)
LEMMA BecomeKnows ==
    ASSUME FlowTypeOK, HandlersInv, NEW h \in Handler, NEW state,
           Knows(h, state), Become(h, state)
    PROVE  /\ at' \in [Handler -> HandlerState]
           /\ \A g \in Handler : Knows(g, at'[g])
  <1>1. \A g \in Handler : at'[g] = IF g = h THEN state ELSE at[g]
    BY DEF Become, FlowTypeOK
  <1>2. at' \in [Handler -> HandlerState]
    BY DEF Become, FlowTypeOK, Knows
  <1> QED BY <1>1, <1>2 DEF HandlersInv

LEMMA OverKnows ==
    ASSUME FlowTypeOK, HandlersInv, NEW h \in Handler, NEW is, Over(h, is)
    PROVE  /\ at' \in [Handler -> HandlerState]
           /\ \A g \in Handler : Knows(g, at'[g])
  <1>1. at[h].todo \in SUBSET Made /\ at[h].due \in SUBSET Task
    BY DEF HandlersInv, Knows, HandlerState
  <1>2. Become(h, Idle) \/ Become(h, GoOn(at[h].todo, at[h].due))
    BY DEF Over
  <1> QED BY <1>1, <1>2, IdleKnows, GoOnKnows, BecomeKnows

(***************************************************************************)
(* What is known stays known: a call that was made does not change, and    *)
(* `completed` only grows.                                                 *)
(***************************************************************************)
LEMMA KnowledgeStays ==
    ASSUME FlowTypeOK, UNCHANGED call, completed \subseteq completed',
           at' \in [Handler -> HandlerState], \A g \in Handler : Knows(g, at'[g])
    PROVE  FlowTypeOK' /\ HandlersInv'
  <1>1. Made' = Made
    BY DEF Made
  <1> QED BY <1>1 DEF FlowTypeOK, HandlersInv, Knows

(* A step that claims nothing keeps the rest with it.                      *)
LEMMA FlowInvStays ==
    ASSUME FlowInv, UNCHANGED <<call, executed>>, completed \subseteq completed',
           at' \in [Handler -> HandlerState], \A g \in Handler : Knows(g, at'[g]),
           RowsInv'
    PROVE  FlowInv'
  <1>1. FlowTypeOK' /\ HandlersInv'
    BY KnowledgeStays DEF FlowInv
  <1>2. Made' = Made
    BY DEF Made
  <1> QED BY <1>1, <1>2 DEF FlowInv, DependenciesFirst

(* A compare-and-set to anything but Completed keeps the rows in order.    *)
LEMMA CasRows ==
    ASSUME RowsInv, UNCHANGED <<call, completed>>, NEW t \in Task, NEW expected,
           "Absent" \notin expected, NEW to \in Phase \ {"Completed", "Absent"},
           Cas(t, expected, to)
    PROVE  RowsInv'
  <1>1. Made' = Made
    BY DEF Made
  <1>2. \A u \in Task : row'[u] = IF u = t /\ row[t].phase \in expected
                                  THEN [row[u] EXCEPT !.phase = to] ELSE row[u]
    BY DEF Cas, RowsInv
  <1>3. row' \in [Task -> [phase : Phase, retries : Nat]]
    BY DEF Cas, RowsInv
  <1>4. \A u \in Task : row'[u].phase =
            IF u = t /\ row[t].phase \in expected THEN to ELSE row[u].phase
    BY <1>2 DEF RowsInv
  <1> QED BY <1>1, <1>3, <1>4 DEF RowsInv, Is

LEMMA RowsStay ==
    ASSUME RowsInv, UNCHANGED <<row, call, completed>>
    PROVE  RowsInv'
  BY DEF RowsInv, Is, Made

-------------------------------------------------------------------------------
(* The invariant, action by action.                                        *)

LEMMA InitFlow == Init => FlowInv
  <1> SUFFICES ASSUME Init PROVE FlowInv
    OBVIOUS
  <1>1. \A h \in Handler : Knows(h, Idle)
    BY IdleKnows
  <1>2. FlowTypeOK /\ HandlersInv
    BY <1>1 DEF Init, FlowTypeOK, HandlersInv, Knows
  <1>3. RowsInv
    BY DEF Init, RowsInv, Is, Absent, Phase
  <1> QED BY <1>2, <1>3 DEF Init, FlowInv, DependenciesFirst

LEMMA SubmitFlow ==
    ASSUME FlowInv, NEW t \in Task, Submit(t)
    PROVE  FlowInv'
  <1> USE DEF FlowInv, Submit
  <1>1. PICK k \in Key \cup {NoKey}, D \in SUBSET Task :
            call' = [call EXCEPT ![t] = [made |-> TRUE, key |-> k, deps |-> D]]
    BY DEF Present
  <1>2. call' \in [Task -> [made : BOOLEAN, key : Key \cup {NoKey}, deps : SUBSET Task]]
    BY <1>1 DEF FlowTypeOK
  <1>3. Made' = Made \cup {t} /\ \A u \in Made : call'[u] = call[u]
    BY <1>1 DEF FlowTypeOK, Made
  <1> DEFINE fresh == [pc |-> "insert", on |-> t, left |-> {}, todo |-> {}, due |-> {}]
  <1>4. /\ fresh \in HandlerState /\ fresh.todo = {}
        /\ fresh.pc = "insert" /\ fresh.on = t
    BY DEF HandlerState, PC, Task
  <1>5. /\ at' \in [Handler -> HandlerState]
        /\ \A g \in Handler : at'[g] = IF g = t THEN fresh ELSE at[g]
    BY <1>4 DEF Become, FlowTypeOK
  <1>6. HandlersInv'
    <2> SUFFICES ASSUME NEW g \in Handler PROVE Knows(g, at[g])'
      BY DEF HandlersInv
    <2>1. completed' = completed
      BY DEF store
    <2> HIDE DEF fresh
    <2>2. CASE g = t
      BY <1>3, <1>4, <1>5, <2>2 DEF Knows
    <2>3. CASE g # t
      <3>1. Knows(g, at[g]) /\ at'[g] = at[g]
        BY <1>5, <2>3 DEF HandlersInv
      <3>2. at[g].on \in Made => call'[at[g].on] = call[at[g].on]
        BY <1>3
      <3> HIDE DEF FlowInv, Submit
      <3> QED BY <1>3, <2>1, <3>1, <3>2 DEF Knows, PC
    <2> QED BY <2>2, <2>3
  <1>7. RowsInv'
    BY <1>3 DEF store, RowsInv, Is
  <1>8. DependenciesFirst' /\ (executed \subseteq Made)'
    BY <1>3 DEF store, DependenciesFirst
  <1> QED BY <1>2, <1>5, <1>6, <1>7, <1>8 DEF FlowTypeOK

LEMMA InsertFlow ==
    ASSUME FlowInv, NEW t \in Task, Insert(t)
    PROVE  FlowInv'
  <1> USE DEF FlowInv, Insert, clients
  <1>1. t \in Handler
    BY DEF Handler, Task
  <1>2. at[t] \in HandlerState /\ at[t].on = t /\ t \in Made /\ at[t].todo \subseteq Made
    BY <1>1 DEF HandlersInv, Knows, At, PC
  <1>3. CASE KeyTaken(t)
    <2>1. Knows(t, [at[t] EXCEPT !.pc = "lookup"])
      BY <1>2 DEF Knows, HandlerState, PC
    <2>2. RowsInv'
      BY <1>3, RowsStay
    <2> QED BY <1>1, <1>3, <2>1, <2>2, BecomeKnows, FlowInvStays
  <1>4. CASE ~KeyTaken(t)
    <2> DEFINE state == [at[t] EXCEPT !.left = call[t].deps]
    <2>1. state \in HandlerState /\ state.todo = at[t].todo /\ state.on = t
          /\ state.left = call[t].deps
      BY <1>2 DEF HandlerState, FlowTypeOK
    <2>2. Knows(t, Looking(state))
      <3> HIDE DEF state
      <3> QED BY <1>1, <1>2, <2>1, LookingKnows
    <2>3. row' = [row EXCEPT ![t].phase = "Pending"] /\ Made' = Made
      BY <1>4 DEF Made
    <2>4. /\ row' \in [Task -> [phase : Phase, retries : Nat]]
          /\ \A u \in Task : row'[u].phase = IF u = t THEN "Pending" ELSE row[u].phase
      BY <2>3 DEF RowsInv, Phase
    <2>5. RowsInv'
      BY <1>2, <2>3, <2>4 DEF RowsInv, Is
    <2> QED BY <1>1, <1>4, <2>2, <2>5, BecomeKnows, FlowInvStays
  <1> QED BY <1>3, <1>4

LEMMA LookupFlow ==
    ASSUME FlowInv, NEW t \in Task, Lookup(t)
    PROVE  FlowInv'
  <1>1. t \in Handler
    BY DEF Handler, Task
  <1>2. RowsInv'
    BY RowsStay DEF FlowInv, Lookup, store
  <1> QED BY <1>1, <1>2, IdleKnows, BecomeKnows, FlowInvStays DEF FlowInv, Lookup, store

LEMMA LookUpDependencyFlow ==
    ASSUME FlowInv, NEW h \in Handler, LookUpDependency(h)
    PROVE  FlowInv'
  <1> USE DEF FlowInv, LookUpDependency, store
  <1>1. PICK d \in at[h].left :
            IF Satisfied(d)
            THEN Become(h, Looking([at[h] EXCEPT !.left = @ \ {d}]))
            ELSE Over(h, "ok")
    OBVIOUS
  <1>2. RowsInv'
    BY RowsStay
  <1>3. CASE Satisfied(d)
    <2> DEFINE state == [at[h] EXCEPT !.left = @ \ {d}]
    <2>1. /\ at[h] \in HandlerState /\ at[h].todo \subseteq Made /\ at[h].on \in Made
          /\ call[at[h].on].deps \ at[h].left \subseteq completed
      BY DEF HandlersInv, Knows, At, PC
    <2>2. state \in HandlerState /\ state.todo = at[h].todo /\ state.on = at[h].on
          /\ state.left = at[h].left \ {d}
      BY <2>1 DEF HandlerState
    <2>3. d \in completed
      BY <1>3, <2>1 DEF Satisfied, RowsInv, HandlerState
    <2>4. call[state.on].deps \ state.left \subseteq completed
      BY <2>1, <2>2, <2>3
    <2>5. Knows(h, Looking(state))
      <3> HIDE DEF state
      <3> QED BY <2>1, <2>2, <2>4, LookingKnows
    <2> QED BY <1>1, <1>2, <1>3, <2>5, BecomeKnows, FlowInvStays
  <1>4. CASE ~Satisfied(d)
    BY <1>1, <1>2, <1>4, OverKnows, FlowInvStays
  <1> QED BY <1>3, <1>4

LEMMA RefusedFlow ==
    ASSUME FlowInv, NEW h \in Handler, NEW why, Refused(h, why)
    PROVE  FlowInv'
  <1> USE DEF FlowInv
  <1> DEFINE t == at[h].on
  <1>1. t \in Task
    BY DEF Refused, HandlersInv, Knows, At, PC, Made
  <1>2. UNCHANGED <<call, completed, executed>> /\ \E is : Over(h, is)
    BY DEF Refused
  <1>3. RowsInv'
    <2>1. CASE Cas(t, {"Pending"}, "Failed")
      <3> HIDE DEF t
      <3> QED BY <1>1, <1>2, <2>1, CasRows DEF Phase
    <2>2. CASE row' = [row EXCEPT ![t].retries = @ + 1]
      <3> HIDE DEF t
      <3>1. /\ row' \in [Task -> [phase : Phase, retries : Nat]]
            /\ \A u \in Task : row'[u].phase = row[u].phase
        BY <1>1, <2>2 DEF RowsInv
      <3> QED BY <1>2, <3>1 DEF RowsInv, Is, Made
    <2>3. CASE UNCHANGED row
      BY <1>2, <2>3, RowsStay
    <2> QED BY <2>1, <2>2, <2>3 DEF Refused
  <1> QED BY <1>2, <1>3, OverKnows, FlowInvStays

(* Only here is a task executed: all its dependencies were looked up.      *)
LEMMA ClaimFlow ==
    ASSUME FlowInv, NEW h \in Handler, Claim(h)
    PROVE  FlowInv'
  <1> USE DEF FlowInv
  <1> DEFINE t == at[h].on
  <1>1. t \in Made /\ call[t].deps \subseteq completed /\ Knows(h, at[h])
    BY DEF Claim, HandlersInv, Knows, At, PC
  <1>2. UNCHANGED <<call, completed>> /\ executed' \subseteq executed \cup {t}
    BY DEF Claim
  <1>3. RowsInv'
    <2> HIDE DEF t
    <2>1. Cas(t, {"Pending"}, "Dispatched")
      BY DEF Claim, t
    <2> QED BY <1>1, <1>2, <2>1, CasRows DEF Phase, Made
  <1>4. Knows(h, [at[h] EXCEPT !.pc = "send"])
    <2>1. at[h].pc = "attempt"
      BY DEF Claim, At
    <2>2. at[h].pc # "insert" /\ at[h].pc # "lookup" /\ at[h].left = {}
      BY <1>1, <2>1 DEF Knows
    <2> QED BY <1>1, <2>1, <2>2 DEF Knows, HandlerState, PC
  <1>5. at' \in [Handler -> HandlerState] /\ \A g \in Handler : Knows(g, at'[g])
    BY <1>4, OverKnows, BecomeKnows DEF Claim
  <1>6. FlowTypeOK' /\ HandlersInv'
    BY <1>2, <1>5, KnowledgeStays
  <1>7. DependenciesFirst' /\ (executed \subseteq Made)'
    <2> HIDE DEF t
    <2> QED BY <1>1, <1>2 DEF DependenciesFirst, Made
  <1> QED BY <1>3, <1>6, <1>7

LEMMA SendFlow ==
    ASSUME FlowInv, NEW h \in Handler, Send(h)
    PROVE  FlowInv'
  <1> USE DEF FlowInv
  <1> DEFINE t == at[h].on
  <1>1. t \in Task
    BY DEF Send, HandlersInv, Knows, At, PC, Made
  <1>2. UNCHANGED <<call, completed, executed>> /\ \E is : Over(h, is)
    BY DEF Send
  <1>3. RowsInv'
    <2>1. UNCHANGED row \/ Cas(t, {"Dispatched"}, "Failed")
      BY DEF Send
    <2> HIDE DEF t
    <2> QED BY <1>1, <1>2, <2>1, RowsStay, CasRows DEF Phase
  <1> QED BY <1>2, <1>3, OverKnows, FlowInvStays

LEMMA AttemptFlow ==
    ASSUME FlowInv, NEW h \in Handler, Attempt(h)
    PROVE  FlowInv'
  BY LookUpDependencyFlow, ClaimFlow, SendFlow, RefusedFlow DEF Attempt

LEMMA CompletedHeardFlow ==
    ASSUME FlowInv, NEW t \in Task, CompletedHeard(t)
    PROVE  FlowInv'
  <1> USE DEF FlowInv
  <1>1. Loop \in Handler
    BY DEF Loop, Handler
  <1>2. UNCHANGED <<call, executed>> /\ completed \subseteq completed'
    BY DEF CompletedHeard, clients
  <1>3. RowsInv'
    <2>1. /\ row' \in [Task -> [phase : Phase, retries : Nat]]
          /\ \A u \in Task : row'[u].phase =
                 IF u = t /\ Is(t, "Dispatched") THEN "Completed" ELSE row[u].phase
      BY DEF CompletedHeard, Cas, RowsInv, Is, Phase
    <2>2. completed' = IF Is(t, "Dispatched") THEN completed \cup {t} ELSE completed
      BY DEF CompletedHeard
    <2>3. Made' = Made
      BY <1>2 DEF Made
    <2> QED BY <2>1, <2>2, <2>3 DEF RowsInv, Is
  <1>4. at' \in [Handler -> HandlerState] /\ \A g \in Handler : Knows(g, at'[g])
    BY <1>1, IdleKnows, BecomeKnows DEF CompletedHeard
  <1> QED BY <1>2, <1>3, <1>4, FlowInvStays

(* Lists are of rows, and rows of calls that were made.                    *)
LEMMA ListedAreMade ==
    ASSUME RowsInv
    PROVE  PendingTasks \subseteq Made
  BY DEF RowsInv, PendingTasks, Scanned, Present

LEMMA ReadyListedFlow ==
    ASSUME FlowInv, ReadyListed
    PROVE  FlowInv'
  <1>1. Loop \in Handler
    BY DEF Loop, Handler
  <1>2. RowsInv'
    BY RowsStay DEF FlowInv, ReadyListed, clients, store
  <1>3. Knows(Loop, GoOn(PendingTasks, {}))
    BY <1>1, ListedAreMade, GoOnKnows DEF FlowInv
  <1> QED BY <1>1, <1>2, <1>3, BecomeKnows, FlowInvStays
          DEF FlowInv, ReadyListed, clients, store

LEMMA SweepListsFlow ==
    ASSUME FlowInv, SweepLists
    PROVE  FlowInv'
  <1> DEFINE due == {t \in PendingTasks : Retries > 0 /\ row[t].retries >= Retries}
  <1>1. Sweep \in Handler
    BY DEF Sweep, Handler
  <1>2. RowsInv'
    BY RowsStay DEF FlowInv, SweepLists, clients, store
  <1>3. PendingTasks \in SUBSET Made /\ due \in SUBSET Task
    BY ListedAreMade DEF FlowInv, Made
  <1>4. Knows(Sweep, GoOn(PendingTasks, due))
    <2> HIDE DEF due
    <2> QED BY <1>1, <1>3, GoOnKnows DEF FlowInv
  <1> QED BY <1>1, <1>2, <1>4, BecomeKnows, FlowInvStays
          DEF FlowInv, SweepLists, clients, store

LEMMA DeadLetterFlow ==
    ASSUME FlowInv, DeadLetter
    PROVE  FlowInv'
  <1>1. Sweep \in Handler
    BY DEF Sweep, Handler
  <1>2. at[Sweep].on \in Task
    BY <1>1 DEF FlowInv, DeadLetter, HandlersInv, Knows, At, PC, Made
  <1>3. RowsInv'
    BY <1>2, CasRows DEF FlowInv, DeadLetter, Phase
  <1> QED BY <1>1, <1>3, OverKnows, FlowInvStays DEF FlowInv, DeadLetter

(* Steps that no handler takes part in.                                    *)
LEMMA HandlersStay ==
    ASSUME FlowInv, UNCHANGED <<call, completed, executed, at>>, RowsInv'
    PROVE  FlowInv'
  <1>1. at' \in [Handler -> HandlerState] /\ \A g \in Handler : Knows(g, at'[g])
    BY DEF FlowInv, FlowTypeOK, HandlersInv
  <1> QED BY <1>1, FlowInvStays

LEMMA FailedHeardFlow ==
    ASSUME FlowInv, NEW t \in Task, FailedHeard(t)
    PROVE  FlowInv'
  <1>1. RowsInv'
    BY CasRows DEF FlowInv, FailedHeard, clients, Phase
  <1> QED BY <1>1, HandlersStay DEF FailedHeard, clients

LEMMA ReapedFlow ==
    ASSUME FlowInv, NEW t \in Task, LostExecutionReaped(t)
    PROVE  FlowInv'
  <1>1. RowsInv'
    BY CasRows DEF FlowInv, LostExecutionReaped, clients, Phase
  <1> QED BY <1>1, HandlersStay DEF LostExecutionReaped, clients

LEMMA CancelFlow ==
    ASSUME FlowInv, NEW t \in Task, Cancel(t)
    PROVE  FlowInv'
  <1>1. RowsInv'
    BY CasRows DEF FlowInv, Cancel, clients, Phase
  <1> QED BY <1>1, HandlersStay DEF Cancel, clients

LEMMA DeleteRowFlow ==
    ASSUME FlowInv, NEW t \in Task, DeleteRow(t)
    PROVE  FlowInv'
  <1>1. UNCHANGED <<call, completed, executed, at>>
    BY DEF DeleteRow, clients
  <1>2. row' = row \/ row' = [row EXCEPT ![t] = Absent]
    BY DEF DeleteRow
  <1>3. /\ row' \in [Task -> [phase : Phase, retries : Nat]]
        /\ \A u \in Task : row'[u].phase \in {row[u].phase, "Absent"}
    BY <1>2 DEF FlowInv, RowsInv, Absent, Phase
  <1>4. RowsInv'
    BY <1>1, <1>3 DEF FlowInv, RowsInv, Is, Made
  <1> QED BY <1>1, <1>4, HandlersStay

(* Steps that change neither rows nor handlers.                            *)
LEMMA QuietFlow ==
    ASSUME FlowInv, UNCHANGED <<call, row, completed, executed, at>>
    PROVE  FlowInv'
  BY RowsStay, HandlersStay DEF FlowInv

(* A statement that fails may have been committed, and must be in order    *)
(* then as well.                                                           *)
LEMMA StoreFailsFlow ==
    ASSUME FlowInv, NEW h \in Handler, StoreFails(h)
    PROVE  FlowInv'
  <1> USE DEF FlowInv
  <1> DEFINE t == at[h].on
  <1>1. UNCHANGED <<call, completed>>
    BY DEF StoreFails
  <1>2. Made' = Made
    BY <1>1 DEF Made
  <1>3. at' \in [Handler -> HandlerState] /\ \A g \in Handler : Knows(g, at'[g])
    BY OverKnows, IdleKnows, BecomeKnows DEF StoreFails
  <1>4. FlowTypeOK' /\ HandlersInv'
    BY <1>1, <1>3, KnowledgeStays
  <1>5. CASE UNCHANGED <<row, executed>>
    BY <1>1, <1>3, <1>5, RowsStay, FlowInvStays
  <1>6. CASE At(h, "insert") /\ UNCHANGED executed /\ row' = [row EXCEPT ![h].phase = "Pending"]
    <2>1. h \in Made
      BY <1>6 DEF HandlersInv, Knows, At, PC
    <2>2. /\ row' \in [Task -> [phase : Phase, retries : Nat]]
          /\ \A u \in Task : row'[u].phase = IF u = h THEN "Pending" ELSE row[u].phase
      BY <1>6, <2>1 DEF RowsInv, Phase, Made
    <2>3. RowsInv'
      BY <1>1, <1>2, <2>1, <2>2 DEF RowsInv, Is
    <2> QED BY <1>1, <1>3, <1>6, <2>3, FlowInvStays
  <1>7. CASE At(h, "attempt") /\ Cas(t, {"Pending"}, "Dispatched")
             /\ executed' = executed \cup {t}
    <2>1. t \in Made /\ call[t].deps \subseteq completed
      BY <1>7 DEF HandlersInv, Knows, At, PC
    <2> HIDE DEF t
    <2>2. RowsInv'
      BY <1>1, <1>7, <2>1, CasRows DEF Phase, Made
    <2>3. DependenciesFirst' /\ (executed \subseteq Made)'
      BY <1>1, <1>2, <1>7, <2>1 DEF DependenciesFirst
    <2> QED BY <1>4, <2>2, <2>3
  <1> QED BY <1>5, <1>6, <1>7 DEF StoreFails

LEMMA OutcomeNotWrittenFlow ==
    ASSUME FlowInv, NEW t \in Task, OutcomeNotWritten(t)
    PROVE  FlowInv'
  <1>1. PICK well \in BOOLEAN :
            Become(Loop, [Idle EXCEPT !.pc = IF well THEN "list" ELSE "idle"])
    BY DEF OutcomeNotWritten
  <1>2. Loop \in Handler
    BY DEF Loop, Handler
  <1>3. Knows(Loop, [Idle EXCEPT !.pc = IF well THEN "list" ELSE "idle"])
    BY <1>2, IdleKnows DEF Idle
  <1>4. RowsInv'
    BY RowsStay DEF FlowInv, OutcomeNotWritten, clients, store
  <1> QED BY <1>1, <1>2, <1>3, <1>4, BecomeKnows, FlowInvStays
          DEF FlowInv, OutcomeNotWritten, clients, store

LEMMA CrashFlow ==
    ASSUME FlowInv, Crash
    PROVE  FlowInv'
  <1>1. at' \in [Handler -> HandlerState] /\ \A g \in Handler : Knows(g, at'[g])
    BY IdleKnows DEF Crash, Knows
  <1>2. RowsInv'
    BY RowsStay DEF FlowInv, Crash, clients, store
  <1> QED BY <1>1, <1>2, FlowInvStays DEF FlowInv, Crash, clients, store

LEMMA NextFlow == FlowInv /\ [Next]_vars => FlowInv'
  <1> SUFFICES ASSUME FlowInv, [Next]_vars PROVE FlowInv'
    OBVIOUS
  <1>1. Task \subseteq Handler /\ Loop \in Handler /\ Sweep \in Handler
    BY DEF Task, Loop, Sweep, Handler
  <1>2. ASSUME NEW t \in Task, Submit(t) \/ SubmitGoesOn(t) PROVE FlowInv'
    BY <1>1, <1>2, SubmitFlow, InsertFlow, LookupFlow, AttemptFlow DEF SubmitGoesOn
  <1>3. ASSUME NEW t \in Task, ExecutionEnds(t) \/ DeleteAsked(t) PROVE FlowInv'
    BY <1>3, QuietFlow DEF ExecutionEnds, DeleteAsked, clients, store
  <1>4. ASSUME NEW t \in Task,
               LostExecutionReaped(t) \/ Cancel(t) \/ DeleteRow(t) \/ OutcomeNotWritten(t)
        PROVE  FlowInv'
    BY <1>4, ReapedFlow, CancelFlow, DeleteRowFlow, OutcomeNotWrittenFlow
  <1>5. CASE EventLoop
    BY <1>1, <1>5, CompletedHeardFlow, FailedHeardFlow, ReadyListedFlow, AttemptFlow
       DEF EventLoop
  <1>6. CASE Reconciler
    BY <1>1, <1>6, SweepListsFlow, DeadLetterFlow, AttemptFlow DEF Reconciler
  <1>7. ASSUME NEW h \in Handler, StoreFails(h) PROVE FlowInv'
    BY <1>7, StoreFailsFlow
  <1>8. CASE Crash
    BY <1>8, CrashFlow
  <1>9. CASE UNCHANGED vars
    BY <1>9, QuietFlow DEF vars, clients, store
  <1> QED BY <1>2, <1>3, <1>4, <1>5, <1>6, <1>7, <1>8, <1>9 DEF Next

(* Handlers, rows and calls agree on what has been looked up: submit,      *)
(* dispatch_existing, dispatch_ready_tasks and reconcile_once.             *)
THEOREM FlowInvariance == Spec => []FlowInv
  <1> QED BY InitFlow, NextFlow, PTL DEF Spec

(* No task is executed before all its predecessors have completed          *)
(* (dispatch_existing, and who calls it), however submissions,             *)
(* completions, sweeps, cancels, deletions, store errors and crashes       *)
(* interleave.                                                             *)
THEOREM PredecessorsComeFirst == Spec => []DependenciesFirst
  <1>1. FlowInv => DependenciesFirst
    BY DEF FlowInv
  <1> QED BY <1>1, FlowInvariance, PTL

-------------------------------------------------------------------------------
(***************************************************************************)
(* Keys.  A task that was inserted is in the table or was deleted; two     *)
(* rows never share a key; an answer names a task that was inserted under  *)
(* the key of the call; a call that is past its insertion was inserted.    *)
(***************************************************************************)
Working == {"deps", "attempt", "send", "deadletter"}
Inserted == Present \cup deleted

KeysUnique ==
    \A t, u \in Present : call[t].key = call[u].key /\ call[t].key # NoKey => t = u

AnswersInv ==
    /\ answer \in [Task -> [is : {"none", "ok", "conflict", "refused"}, id : 0..MaxTasks]]
    /\ \A t \in Task : answer[t].is = "ok" =>
           /\ t \in Made /\ answer[t].id \in Inserted
           /\ call[answer[t].id].key = call[t].key

WorkingInserted == \A t \in Task : at[t].pc \in Working => t \in Inserted

KeyInv ==
    /\ deleted \subseteq Made
    /\ executed \subseteq Inserted
    /\ WorkingInserted
    /\ KeysUnique
    /\ AnswersInv

LEMMA InsertedMade ==
    ASSUME FlowInv, KeyInv
    PROVE  Inserted \subseteq Made
  BY DEF FlowInv, KeyInv, RowsInv, Inserted, Present

(* A compare-and-set neither adds a row nor removes one.                   *)
LEMMA CasPresent ==
    ASSUME RowsInv, NEW t \in Task, NEW expected, "Absent" \notin expected,
           NEW to \in Phase \ {"Absent"}, Cas(t, expected, to)
    PROVE  Present' = Present
  <1>1. \A u \in Task : row'[u].phase =
            IF u = t /\ row[t].phase \in expected THEN to ELSE row[u].phase
    BY DEF Cas, RowsInv
  <1> QED BY <1>1 DEF Present, Is

LEMMA RowPresent ==
    ASSUME UNCHANGED row
    PROVE  Present' = Present
  BY DEF Present, Is

LEMMA BecomeWorking ==
    ASSUME FlowInv, KeyInv, NEW h \in Handler, NEW state, Become(h, state),
           h \in Task /\ state.pc \in Working => h \in Inserted',
           Inserted \subseteq Inserted'
    PROVE  WorkingInserted'
  <1>1. \A t \in Task : t \in Handler
    BY DEF Task, Handler
  <1>2. \A t \in Task : at'[t] = IF t = h THEN state ELSE at[t]
    BY <1>1 DEF Become, FlowInv, FlowTypeOK
  <1> QED BY <1>2 DEF KeyInv, WorkingInserted

(* A call is answered with its own id once its row was inserted.           *)
LEMMA OverAnswers ==
    ASSUME FlowInv, KeyInv, UNCHANGED call, Inserted \subseteq Inserted',
           NEW h \in Handler, NEW is \in {"ok", "refused"},
           at[h].pc \in Working \/ is = "refused", Over(h, is)
    PROVE  AnswersInv' /\ WorkingInserted'
  <1>1. Made' = Made
    BY DEF Made
  <1>2. CASE h \in Task
    <2>1. Become(h, Idle) /\ Answer(h, is, IF is = "ok" THEN h ELSE 0)
      BY <1>2 DEF Over, Submits
    <2>2. is = "ok" => h \in Inserted /\ h \in Made
      BY <1>2, InsertedMade DEF KeyInv, WorkingInserted, Working
    <2>3. /\ answer' \in [Task -> [is : {"none", "ok", "conflict", "refused"},
                                   id : 0..MaxTasks]]
          /\ \A t \in Task : answer'[t] =
                 IF t = h THEN [is |-> is, id |-> IF is = "ok" THEN h ELSE 0] ELSE answer[t]
      BY <1>2, <2>1 DEF Answer, KeyInv, AnswersInv, Task
    <2>4. AnswersInv'
      BY <1>1, <2>2, <2>3 DEF KeyInv, AnswersInv
    <2>5. WorkingInserted'
      BY <2>1, BecomeWorking DEF Idle, Working
    <2> QED BY <2>4, <2>5
  <1>3. CASE h \notin Task
    <2>1. UNCHANGED answer /\ Become(h, GoOn(at[h].todo, at[h].due))
      BY <1>3 DEF Over, Submits
    <2>2. AnswersInv'
      BY <1>1, <2>1 DEF KeyInv, AnswersInv
    <2>3. WorkingInserted'
      BY <1>3, <2>1, BecomeWorking
    <2> QED BY <2>2, <2>3
  <1> QED BY <1>2, <1>3

(* Answers stay right when nobody is answered.                             *)
LEMMA AnswersStay ==
    ASSUME KeyInv, UNCHANGED <<call, answer>>, Inserted \subseteq Inserted'
    PROVE  AnswersInv'
  BY DEF KeyInv, AnswersInv, Made

(* A step that neither adds nor removes a row.                             *)
LEMMA KeysStay ==
    ASSUME KeyInv, UNCHANGED <<call, deleted>>, Present' = Present,
           executed' \subseteq executed \cup Present, AnswersInv', WorkingInserted'
    PROVE  KeyInv'
  <1>1. Made' = Made /\ Inserted' = Inserted
    BY DEF Made, Inserted
  <1> QED BY <1>1 DEF KeyInv, KeysUnique, Inserted

LEMMA InitKey == Init => KeyInv
  <1> SUFFICES ASSUME Init PROVE KeyInv
    OBVIOUS
  <1>1. Present = {}
    BY DEF Init, Present, Is, Absent
  <1>2. AnswersInv
    BY DEF Init, AnswersInv
  <1>3. \A t \in Task : at[t].pc = "idle"
    BY DEF Init, Task, Handler, Idle
  <1> QED BY <1>1, <1>2, <1>3 DEF Init, KeyInv, KeysUnique, WorkingInserted, Working

LEMMA SubmitKey ==
    ASSUME FlowInv, KeyInv, NEW t \in Task, Submit(t)
    PROVE  KeyInv'
  <1>1. PICK k \in Key \cup {NoKey}, D \in SUBSET Task :
            call' = [call EXCEPT ![t] = [made |-> TRUE, key |-> k, deps |-> D]]
    BY DEF Submit, Present
  <1>2. /\ Made' = Made \cup {t} /\ \A u \in Made : call'[u] = call[u]
        /\ t \notin Made
    BY <1>1 DEF Submit, FlowInv, FlowTypeOK, Made
  <1>3. Present' = Present /\ Inserted' = Inserted /\ Inserted \subseteq Made
    BY InsertedMade, RowPresent DEF Submit, store, Inserted
  <1>4. WorkingInserted'
    <2>1. t \in Handler
      BY DEF Task, Handler
    <2> QED BY <1>3, <2>1, BecomeWorking DEF Submit, Working
  <1>5. AnswersInv'
    BY <1>2, <1>3 DEF Submit, KeyInv, AnswersInv
  <1>6. KeysUnique'
    BY <1>2, <1>3 DEF KeyInv, KeysUnique, Inserted
  <1> QED BY <1>2, <1>3, <1>4, <1>5, <1>6 DEF Submit, store, KeyInv

(* A row comes with a key no other row has.                                *)
LEMMA RowInserted ==
    ASSUME FlowInv, KeyInv, NEW t \in Task, ~KeyTaken(t), t \in Made,
           row' = [row EXCEPT ![t].phase = "Pending"],
           UNCHANGED <<call, executed, deleted>>, AnswersInv', WorkingInserted'
    PROVE  KeyInv'
  <1>1. Present' = Present \cup {t}
    BY DEF Present, Is, FlowInv, RowsInv
  <1>2. KeysUnique'
    BY <1>1 DEF KeyTaken, KeyInv, KeysUnique, Present
  <1>3. Made' = Made /\ Inserted \subseteq Inserted'
    BY <1>1 DEF Made, Inserted
  <1> QED BY <1>1, <1>2, <1>3 DEF KeyInv

LEMMA InsertKey ==
    ASSUME FlowInv, KeyInv, NEW t \in Task, Insert(t)
    PROVE  KeyInv'
  <1> USE DEF Insert, clients
  <1>1. t \in Handler /\ t \in Made /\ at[t] \in HandlerState
    BY DEF Task, Handler, FlowInv, HandlersInv, Knows, At, PC
  <1>2. CASE KeyTaken(t)
    <2>1. [at[t] EXCEPT !.pc = "lookup"].pc = "lookup"
      BY <1>1 DEF HandlerState
    <2>2. Present' = Present /\ Inserted' = Inserted
      BY <1>2, RowPresent DEF Inserted
    <2>3. WorkingInserted'
      BY <1>1, <1>2, <2>1, <2>2, BecomeWorking DEF Working
    <2> QED BY <2>2, <2>3, AnswersStay, KeysStay
  <1>3. CASE ~KeyTaken(t)
    <2>1. row' = [row EXCEPT ![t].phase = "Pending"]
      BY <1>3
    <2>2. Present' = Present \cup {t}
      BY <2>1 DEF Present, Is, FlowInv, RowsInv
    <2>3. Inserted \subseteq Inserted' /\ t \in Inserted'
      BY <2>2 DEF Inserted
    <2>4. WorkingInserted'
      BY <1>1, <1>3, <2>3, BecomeWorking
    <2> QED BY <1>1, <1>3, <2>1, <2>3, <2>4, AnswersStay, RowInserted
  <1> QED BY <1>2, <1>3

(* Answered with the id of a row that has the key now, or with none.       *)
LEMMA LookupKey ==
    ASSUME FlowInv, KeyInv, NEW t \in Task, Lookup(t)
    PROVE  KeyInv'
  <1> USE DEF Lookup, store
  <1>1. t \in Handler /\ t \in Made
    BY DEF Task, Handler, FlowInv, HandlersInv, Knows, At, PC
  <1>2. PICK is \in {"ok", "conflict", "refused"}, id \in 0..MaxTasks :
            /\ Answer(t, is, id)
            /\ is = "ok" => id \in Present /\ call[id].key = call[t].key
    BY DEF Present, Task
  <1>3. Present' = Present /\ Inserted' = Inserted /\ Made' = Made
    BY RowPresent DEF Inserted, Made
  <1>4. /\ answer' \in [Task -> [is : {"none", "ok", "conflict", "refused"},
                                 id : 0..MaxTasks]]
        /\ \A u \in Task : answer'[u] = IF u = t THEN [is |-> is, id |-> id] ELSE answer[u]
    BY <1>2 DEF Answer, KeyInv, AnswersInv
  <1>5. AnswersInv'
    BY <1>1, <1>2, <1>3, <1>4 DEF KeyInv, AnswersInv, Inserted
  <1>6. WorkingInserted'
    BY <1>1, <1>3, BecomeWorking DEF Idle, Working
  <1> QED BY <1>3, <1>5, <1>6, KeysStay

LEMMA LookUpDependencyKey ==
    ASSUME FlowInv, KeyInv, NEW h \in Handler, LookUpDependency(h)
    PROVE  KeyInv'
  <1> USE DEF LookUpDependency, store
  <1>1. at[h].pc \in Working
    BY DEF At, Working
  <1>2. Present' = Present /\ Inserted' = Inserted
    BY RowPresent DEF Inserted
  <1>3. CASE Over(h, "ok")
    BY <1>1, <1>2, <1>3, OverAnswers, KeysStay
  <1>4. CASE UNCHANGED answer /\ \E state : Become(h, state)
    <2>1. WorkingInserted'
      BY <1>1, <1>2, <1>4, BecomeWorking DEF KeyInv, WorkingInserted
    <2> QED BY <1>2, <1>4, <2>1, AnswersStay, KeysStay
  <1> QED BY <1>3, <1>4

LEMMA RefusedKey ==
    ASSUME FlowInv, KeyInv, NEW h \in Handler, NEW why, Refused(h, why)
    PROVE  KeyInv'
  <1> DEFINE t == at[h].on
  <1>1. at[h].pc \in Working /\ t \in Task
    BY DEF Refused, At, Working, FlowInv, HandlersInv, Knows, PC, Made
  <1>2. UNCHANGED <<call, executed, deleted>>
    BY DEF Refused
  <1>3. Present' = Present
    <2>1. CASE Cas(t, {"Pending"}, "Failed")
      <3> HIDE DEF t
      <3> QED BY <1>1, <2>1, CasPresent DEF FlowInv, Phase
    <2>2. CASE row' = [row EXCEPT ![t].retries = @ + 1]
      <3> HIDE DEF t
      <3> QED BY <1>1, <2>2 DEF FlowInv, RowsInv, Present, Is
    <2>3. CASE UNCHANGED row
      BY <2>3, RowPresent
    <2> QED BY <2>1, <2>2, <2>3 DEF Refused
  <1>4. Inserted' = Inserted
    BY <1>2, <1>3 DEF Inserted
  <1>5. Over(h, "ok") \/ Over(h, "refused")
    BY DEF Refused
  <1> QED BY <1>1, <1>2, <1>3, <1>4, <1>5, OverAnswers, KeysStay

LEMMA ClaimKey ==
    ASSUME FlowInv, KeyInv, NEW h \in Handler, Claim(h)
    PROVE  KeyInv'
  <1> DEFINE t == at[h].on
  <1>1. at[h].pc \in Working /\ t \in Task /\ at[h] \in HandlerState
    BY DEF Claim, At, Working, FlowInv, HandlersInv, Knows, PC, Made
  <1>2. UNCHANGED <<call, deleted>> /\ executed' \subseteq executed \cup Present
    BY <1>1 DEF Claim, Present, Is
  <1>3. Present' = Present
    <2>1. Cas(t, {"Pending"}, "Dispatched")
      BY DEF Claim
    <2> HIDE DEF t
    <2> QED BY <1>1, <2>1, CasPresent DEF FlowInv, Phase
  <1>4. Inserted' = Inserted
    BY <1>2, <1>3 DEF Inserted
  <1>5. CASE Over(h, "refused")
    BY <1>1, <1>2, <1>3, <1>4, <1>5, OverAnswers, KeysStay
  <1>6. CASE UNCHANGED answer /\ \E state : Become(h, state)
    <2>1. WorkingInserted'
      BY <1>1, <1>4, <1>6, BecomeWorking DEF KeyInv, WorkingInserted
    <2> QED BY <1>2, <1>3, <1>4, <1>6, <2>1, AnswersStay, KeysStay
  <1> QED BY <1>5, <1>6 DEF Claim

LEMMA SendKey ==
    ASSUME FlowInv, KeyInv, NEW h \in Handler, Send(h)
    PROVE  KeyInv'
  <1> DEFINE t == at[h].on
  <1>1. at[h].pc \in Working /\ t \in Task
    BY DEF Send, At, Working, FlowInv, HandlersInv, Knows, PC, Made
  <1>2. UNCHANGED <<call, executed, deleted>>
    BY DEF Send
  <1>3. Present' = Present
    <2>1. UNCHANGED row \/ Cas(t, {"Dispatched"}, "Failed")
      BY DEF Send
    <2> HIDE DEF t
    <2> QED BY <1>1, <2>1, RowPresent, CasPresent DEF FlowInv, Phase
  <1>4. Inserted' = Inserted
    BY <1>2, <1>3 DEF Inserted
  <1>5. Over(h, "ok") \/ Over(h, "refused")
    BY DEF Send
  <1> QED BY <1>1, <1>2, <1>3, <1>4, <1>5, OverAnswers, KeysStay

LEMMA AttemptKey ==
    ASSUME FlowInv, KeyInv, NEW h \in Handler, Attempt(h)
    PROVE  KeyInv'
  BY LookUpDependencyKey, ClaimKey, SendKey, RefusedKey DEF Attempt

(* What the loops do between their attempts answers nobody.                *)
LEMMA LoopKey ==
    ASSUME FlowInv, KeyInv, NEW h \in {Loop, Sweep}, NEW state, Become(h, state),
           UNCHANGED <<call, answer, executed, deleted>>, Present' = Present
    PROVE  KeyInv'
  <1>1. h \in Handler /\ h \notin Task
    BY DEF Loop, Sweep, Handler, Task
  <1>2. Inserted' = Inserted
    BY DEF Inserted
  <1>3. WorkingInserted'
    BY <1>1, <1>2, BecomeWorking
  <1> QED BY <1>2, <1>3, AnswersStay, KeysStay

LEMMA EventLoopKey ==
    ASSUME FlowInv, KeyInv, EventLoop
    PROVE  KeyInv'
  <1>1. ASSUME NEW t \in Task, CompletedHeard(t) PROVE KeyInv'
    <2>1. Present' = Present
      BY <1>1, CasPresent DEF CompletedHeard, FlowInv, Phase
    <2> QED BY <1>1, <2>1, LoopKey DEF CompletedHeard, clients
  <1>2. ASSUME NEW t \in Task, FailedHeard(t) PROVE KeyInv'
    <2>1. Present' = Present
      BY <1>2, CasPresent DEF FailedHeard, FlowInv, Phase
    <2>2. UNCHANGED <<call, answer, executed, deleted, at>>
      BY <1>2 DEF FailedHeard, clients
    <2>3. AnswersInv' /\ WorkingInserted'
      BY <2>1, <2>2, AnswersStay DEF KeyInv, WorkingInserted, Inserted
    <2> QED BY <2>1, <2>2, <2>3, KeysStay
  <1>3. CASE ReadyListed
    BY <1>3, RowPresent, LoopKey DEF ReadyListed, clients, store
  <1>4. CASE Attempt(Loop)
    BY <1>4, AttemptKey DEF Loop, Handler
  <1> QED BY <1>1, <1>2, <1>3, <1>4 DEF EventLoop

LEMMA ReconcilerKey ==
    ASSUME FlowInv, KeyInv, Reconciler
    PROVE  KeyInv'
  <1>1. Sweep \in Handler /\ Sweep \notin Task
    BY DEF Sweep, Handler, Task
  <1>2. CASE SweepLists
    BY <1>2, RowPresent, LoopKey DEF SweepLists, clients, store
  <1>3. CASE DeadLetter
    <2>1. at[Sweep].on \in Task
      BY <1>1, <1>3 DEF FlowInv, DeadLetter, HandlersInv, Knows, At, PC, Made
    <2>2. Present' = Present
      BY <1>3, <2>1, CasPresent DEF DeadLetter, FlowInv, Phase
    <2> QED BY <1>1, <1>3, <2>2, LoopKey DEF DeadLetter, Over, Submits
  <1>4. CASE Attempt(Sweep)
    BY <1>1, <1>4, AttemptKey
  <1> QED BY <1>2, <1>3, <1>4 DEF Reconciler

(* Steps that no handler takes part in.                                    *)
LEMMA OutsideKey ==
    ASSUME KeyInv, UNCHANGED <<call, answer, executed, deleted, at>>, Present' = Present
    PROVE  KeyInv'
  <1>1. AnswersInv' /\ WorkingInserted'
    BY AnswersStay DEF KeyInv, WorkingInserted, Inserted
  <1> QED BY <1>1, KeysStay

LEMMA EndedKey ==
    ASSUME FlowInv, KeyInv, NEW t \in Task, LostExecutionReaped(t) \/ Cancel(t)
    PROVE  KeyInv'
  <1>1. Present' = Present
    BY CasPresent DEF LostExecutionReaped, Cancel, FlowInv, Phase
  <1> QED BY <1>1, OutsideKey DEF LostExecutionReaped, Cancel, clients

(* A row that is removed was there, and its id is remembered.              *)
LEMMA DeleteRowKey ==
    ASSUME FlowInv, KeyInv, NEW t \in Task, DeleteRow(t)
    PROVE  KeyInv'
  <1> USE DEF DeleteRow, clients
  <1>1. CASE row[t].phase \in Terminal
    <2>1. row' = [row EXCEPT ![t] = Absent] /\ deleted' = deleted \cup {t}
      BY <1>1
    <2>2. t \in Present /\ Present' = Present \ {t}
      BY <1>1, <2>1 DEF Present, Is, Absent, Terminal, FlowInv, RowsInv
    <2>3. Inserted' = Inserted /\ Made' = Made /\ t \in Made
      BY <2>1, <2>2 DEF Inserted, Made, FlowInv, RowsInv, Present
    <2>4. AnswersInv' /\ WorkingInserted' /\ KeysUnique'
      BY <2>2, <2>3, AnswersStay DEF KeyInv, WorkingInserted, KeysUnique
    <2> QED BY <2>1, <2>3, <2>4 DEF KeyInv
  <1>2. CASE row[t].phase \notin Terminal
    BY <1>2, RowPresent, OutsideKey
  <1> QED BY <1>1, <1>2

LEMMA StoreFailsKey ==
    ASSUME FlowInv, KeyInv, NEW h \in Handler, StoreFails(h)
    PROVE  KeyInv'
  <1> DEFINE t == at[h].on
  <1>1. UNCHANGED <<call, deleted>>
    BY DEF StoreFails
  <1>2. \/ \E state : Become(h, state) /\ state.pc = "idle" /\ UNCHANGED answer
        \/ Over(h, "refused")
        \/ at[h].pc \in Working /\ Over(h, "ok")
    BY DEF StoreFails, At, Working, Idle
  <1>3. ASSUME Inserted \subseteq Inserted' PROVE AnswersInv' /\ WorkingInserted'
    <2>1. CASE \E state : Become(h, state) /\ state.pc = "idle" /\ UNCHANGED answer
      BY <1>1, <1>3, <2>1, AnswersStay, BecomeWorking DEF Working
    <2>2. CASE Over(h, "refused")
      BY <1>1, <1>3, <2>2, OverAnswers
    <2>3. CASE at[h].pc \in Working /\ Over(h, "ok")
      BY <1>1, <1>3, <2>3, OverAnswers
    <2> QED BY <1>2, <2>1, <2>2, <2>3
  <1>4. CASE UNCHANGED <<row, executed>>
    <2>1. Present' = Present /\ Inserted' = Inserted
      BY <1>1, <1>4, RowPresent DEF Inserted
    <2> QED BY <1>1, <1>3, <1>4, <2>1, KeysStay
  <1>5. CASE /\ At(h, "insert") /\ UNCHANGED executed /\ ~KeyTaken(h)
             /\ row' = [row EXCEPT ![h].phase = "Pending"]
    <2>1. h \in Task /\ h \in Made
      BY <1>5 DEF FlowInv, HandlersInv, Knows, At, PC
    <2>2. Inserted \subseteq Inserted'
      BY <1>1, <1>5, <2>1 DEF Inserted, Present, Is, FlowInv, RowsInv
    <2> QED BY <1>1, <1>3, <1>5, <2>1, <2>2, RowInserted
  <1>6. CASE /\ At(h, "attempt") /\ Is(t, "Pending") /\ Cas(t, {"Pending"}, "Dispatched")
             /\ executed' = executed \cup {t}
    <2>1. t \in Task
      BY <1>6 DEF FlowInv, HandlersInv, Knows, At, PC, Made
    <2> HIDE DEF t
    <2>2. Present' = Present /\ Inserted' = Inserted
      BY <1>1, <1>6, <2>1, CasPresent DEF FlowInv, Phase, Inserted
    <2>3. t \in Present
      BY <1>6, <2>1 DEF Present, Is
    <2> QED BY <1>1, <1>3, <1>6, <2>2, <2>3, KeysStay
  <1> QED BY <1>4, <1>5, <1>6 DEF StoreFails

LEMMA CrashKey ==
    ASSUME FlowInv, KeyInv, Crash
    PROVE  KeyInv'
  <1>1. Present' = Present /\ Inserted' = Inserted
    BY RowPresent DEF Crash, store, Inserted
  <1>2. WorkingInserted'
    BY DEF Crash, WorkingInserted, Working, Idle, Task, Handler
  <1> QED BY <1>1, <1>2, AnswersStay, KeysStay DEF Crash, clients, store

LEMMA NextKey == FlowInv /\ KeyInv /\ [Next]_vars => KeyInv'
  <1> SUFFICES ASSUME FlowInv, KeyInv, [Next]_vars PROVE KeyInv'
    OBVIOUS
  <1>1. Task \subseteq Handler
    BY DEF Task, Handler
  <1>2. ASSUME NEW t \in Task, Submit(t) \/ SubmitGoesOn(t) PROVE KeyInv'
    BY <1>1, <1>2, SubmitKey, InsertKey, LookupKey, AttemptKey DEF SubmitGoesOn
  <1>3. ASSUME NEW t \in Task, ExecutionEnds(t) \/ DeleteAsked(t) PROVE KeyInv'
    BY <1>3, RowPresent, OutsideKey DEF ExecutionEnds, DeleteAsked, clients, store
  <1>4. ASSUME NEW t \in Task, LostExecutionReaped(t) \/ Cancel(t) \/ DeleteRow(t)
        PROVE  KeyInv'
    BY <1>4, EndedKey, DeleteRowKey
  <1>5. ASSUME NEW t \in Task, OutcomeNotWritten(t) PROVE KeyInv'
    BY <1>5, RowPresent, LoopKey DEF OutcomeNotWritten, clients, store
  <1>6. CASE EventLoop \/ Reconciler
    BY <1>6, EventLoopKey, ReconcilerKey
  <1>7. CASE Crash \/ \E h \in Handler : StoreFails(h)
    BY <1>7, CrashKey, StoreFailsKey
  <1>8. CASE UNCHANGED vars
    BY <1>8, RowPresent, OutsideKey DEF vars, clients, store
  <1> QED BY <1>2, <1>3, <1>4, <1>5, <1>6, <1>7, <1>8 DEF Next

(* Repeated submissions under one key, answered or not, lead to one        *)
(* execution and one id, unless the task was deleted in between (submit,   *)
(* insert_task_idempotent).                                                *)
THEOREM KeysNameOneTask == Spec => []OneTaskPerKey
  <1>1. FlowInv /\ KeyInv => OneTaskPerKey
    <2> SUFFICES ASSUME FlowInv, KeyInv, NEW t \in Task, NEW u \in Task,
                        call[t].key = call[u].key, call[t].key # NoKey
                 PROVE  /\ \A a, b \in {t, u} \cap executed :
                               a = b \/ a \in deleted \/ b \in deleted
                        /\ answer[t].is = "ok" /\ answer[u].is = "ok" =>
                               \/ answer[t].id = answer[u].id
                               \/ answer[t].id \in deleted \/ answer[u].id \in deleted
      BY DEF OneTaskPerKey
    <2> QED BY DEF KeyInv, KeysUnique, AnswersInv, Inserted
  <1>2. Init => FlowInv /\ KeyInv
    BY InitFlow, InitKey
  <1>3. FlowInv /\ KeyInv /\ [Next]_vars => (FlowInv /\ KeyInv)'
    BY NextFlow, NextKey
  <1> QED BY <1>1, <1>2, <1>3, PTL DEF Spec

-------------------------------------------------------------------------------
(***************************************************************************)
(* Attempts.  A submit call works on its own task, inserts its row once,   *)
(* and a row that was claimed is never Pending again; a Pending task that  *)
(* waits for nothing was tried, or is on its way to be, in the hands of    *)
(* its submit call or of the event loop.                                   *)
(***************************************************************************)
Place(h, state) ==
    /\ state.pc = "idle" => state.todo = {}
    /\ state.pc = "list" => h = Loop
    /\ state.pc = "deps" => state.left \subseteq call[state.on].deps
    /\ h # Sweep => state.due = {} /\ state.pc # "deadletter"
    /\ h \in Task => state.todo = {} /\ (state.pc # "idle" => state.on = h)

Carries(h, state, t) ==
    \/ h = Loop /\ (state.pc = "list" \/ t \in state.todo)
    \/ h \in {t, Loop} /\ state.pc \in {"deps", "attempt"} /\ state.on = t

Before(t) == ~call[t].made \/ at[t].pc \in {"insert", "lookup"}

FreshInv ==
    \A t \in Task : Before(t) => /\ Is(t, "Absent") /\ answer[t].is = "none"
                                 /\ t \notin executed

ClaimedInv ==
    /\ \A t \in executed : ~Is(t, "Pending")
    /\ \A h \in Handler : at[h].pc = "send" => at[h].on \in executed

FewNewer(t) == Cardinality({u \in Task : call[u].made /\ u > t}) < Limit

TriedInv ==
    ~faulty => \A t \in Task : WaitsForNothing(t) /\ FewNewer(t) =>
                   t \in tried \/ \E h \in {t, Loop} : Carries(h, at[h], t)

TryInv ==
    /\ config \in Configs /\ \A h \in Handler : Place(h, at[h])
    /\ FreshInv /\ ClaimedInv /\ RefusedIsSettled /\ TriedInv

LEMMA InitTry == Init => TryInv
  <1> SUFFICES ASSUME Init PROVE TryInv
    OBVIOUS
  <1>1. /\ config \in Configs /\ \A h \in Handler : at[h] = Idle
        /\ \A t \in Task : /\ ~call[t].made /\ Is(t, "Absent") /\ ~Is(t, "Pending")
                           /\ answer[t].is = "none"
        /\ executed = {}
    BY DEF Init, Is, Absent
  <1>2. \A h \in Handler : Place(h, at[h]) /\ at[h].pc = "idle"
    BY <1>1 DEF Place, Idle
  <1>3. FreshInv /\ ClaimedInv
    BY <1>1, <1>2 DEF FreshInv, ClaimedInv
  <1>4. RefusedIsSettled /\ TriedInv
    BY <1>1 DEF RefusedIsSettled, TriedInv, WaitsForNothing
  <1> QED BY <1>1, <1>2, <1>3, <1>4 DEF TryInv

(* Rows that a step of a handler inserts are its own, and were not there;  *)
(* no other row becomes Pending, or appears.                               *)
RowsEased(h) ==
    \A u \in Task :
        (\/ Is(u, "Absent") /\ ~Is(u, "Absent")'
         \/ ~Is(u, "Pending") /\ Is(u, "Pending")')
        => u = h /\ at[h].pc = "insert" /\ at'[h].pc \notin {"insert", "lookup"}

(* What is claimed was there and is not Pending any more; what is sent was *)
(* claimed.                                                                *)
ClaimsEased(h) ==
    /\ executed \subseteq executed' /\ executed' \subseteq Task
    /\ \A t \in executed' \ executed : ~Is(t, "Absent") /\ ~Is(t, "Pending")'
    /\ at'[h].pc = "send" => at'[h].on \in executed'

(* Only the call that ends is answered, and if with an error, its task is  *)
(* settled.                                                                *)
AnswersEased(h) ==
    \A t \in Task : answer'[t].is # answer[t].is =>
        /\ t = h /\ t \in Made /\ at'[h].pc = "idle"
        /\ Retries = 0 /\ ~faulty' /\ answer'[t].is = "refused" => ~Is(t, "Pending")'

(* Nobody puts down a task that waits for nothing before it was tried.     *)
Followed(h) ==
    ~faulty' => \A t \in Task :
        WaitsForNothing(t)' /\ FewNewer(t) =>
            \/ t \in tried' \/ Carries(h, at'[h], t)
            \/ WaitsForNothing(t) /\ ~Carries(h, at[h], t)

LEMMA HandlerMoves ==
    ASSUME FlowInv, TryInv, NEW h \in Handler, NEW state, Become(h, state),
           Place(h, state), state.pc \in {"insert", "lookup"} => at[h].pc = "insert",
           UNCHANGED <<config, call>>, tried \subseteq tried', faulty => faulty',
           RowsEased(h), ClaimsEased(h), AnswersEased(h), Followed(h)
    PROVE  TryInv'
  <1>1. \A g \in Handler : at'[g] = IF g = h THEN state ELSE at[g]
    BY DEF Become, FlowInv, FlowTypeOK
  <1>2. Task \subseteq Handler /\ Loop \in Handler /\ Sweep \in Handler
    BY DEF Task, Handler, Loop, Sweep
  <1>3. \A g \in Handler : Place(g, at[g])'
    BY <1>1 DEF TryInv, Place
  <1>4. \A t \in Task : Before(t)' => Before(t)
    BY <1>1, <1>2 DEF Before
  <1>5. FreshInv'
    <2> SUFFICES ASSUME NEW t \in Task, Before(t)'
                 PROVE  (Is(t, "Absent") /\ answer[t].is = "none" /\ t \notin executed)'
      BY DEF FreshInv
    <2>1. Is(t, "Absent") /\ answer[t].is = "none" /\ t \notin executed
      BY <1>4 DEF TryInv, FreshInv
    <2>2. t \notin executed'
      BY <2>1 DEF ClaimsEased
    <2>3. CASE at'[t].pc \in {"insert", "lookup"}
      BY <2>1, <2>2, <2>3 DEF RowsEased, AnswersEased
    <2>4. CASE ~call[t].made
      <3>1. t \notin Made
        BY <2>4 DEF Made
      <3>2. t # h \/ at[h].pc # "insert"
        BY <3>1 DEF FlowInv, HandlersInv, Knows, PC
      <3> QED BY <2>1, <2>2, <3>1, <3>2 DEF RowsEased, AnswersEased
    <2> QED BY <2>3, <2>4 DEF Before
  <1>6. ClaimedInv'
    <2>1. ASSUME NEW t \in executed' PROVE ~Is(t, "Pending")'
      <3>1. CASE t \in executed
        <4>1. t \in Task /\ ~Is(t, "Pending") /\ ~Before(t)
          BY <3>1 DEF TryInv, ClaimedInv, FreshInv, FlowInv, Made
        <4> QED BY <4>1 DEF RowsEased, Before
      <3> QED BY <3>1 DEF ClaimsEased
    <2>2. \A g \in Handler : at'[g].pc = "send" => at'[g].on \in executed'
      BY <1>1 DEF TryInv, ClaimedInv, ClaimsEased
    <2> QED BY <2>1, <2>2 DEF ClaimedInv
  <1>7. RefusedIsSettled'
    <2> SUFFICES ASSUME NEW t \in Task, Retries = 0, ~faulty', answer'[t].is = "refused"
                 PROVE  ~Is(t, "Pending")'
      BY DEF RefusedIsSettled, Retries
    <2>1. CASE answer'[t].is # answer[t].is
      BY <2>1 DEF AnswersEased
    <2>2. CASE answer'[t].is = answer[t].is
      <3>1. ~Is(t, "Pending")
        BY <2>2 DEF TryInv, RefusedIsSettled
      <3>2. ~Before(t)
        BY <2>2 DEF TryInv, FreshInv
      <3> QED BY <3>1, <3>2 DEF RowsEased, Before
    <2> QED BY <2>1, <2>2
  <1>8. TriedInv'
    <2> SUFFICES ASSUME ~faulty', NEW t \in Task, WaitsForNothing(t)', FewNewer(t)'
                 PROVE  t \in tried' \/ \E g \in {t, Loop} : Carries(g, at'[g], t)
      BY DEF TriedInv, Carries
    <2>1. FewNewer(t)
      BY DEF FewNewer, Limit
    <2>2. CASE Carries(h, at'[h], t)
      <3>1. h \in {t, Loop}
        BY <2>2 DEF Carries
      <3> QED BY <2>2, <3>1
    <2>3. CASE WaitsForNothing(t) /\ ~Carries(h, at[h], t)
      <3>1. t \in tried \/ \E g \in {t, Loop} : Carries(g, at[g], t)
        BY <2>1, <2>3 DEF TryInv, TriedInv
      <3> QED BY <1>1, <1>2, <2>3, <3>1
    <2> QED BY <2>1, <2>2, <2>3 DEF Followed
  <1> QED BY <1>3, <1>5, <1>6, <1>7, <1>8 DEF TryInv

(***************************************************************************)
(* What a handler becomes.                                                 *)

LEMMA IdlePlaced ==
    ASSUME NEW h \in Handler
    PROVE  Place(h, Idle) /\ (h = Loop => Place(h, [Idle EXCEPT !.pc = "list"]))
  BY DEF Place, Idle, Loop, Task

LEMMA LookingPlaced ==
    ASSUME NEW h \in Handler, NEW state \in HandlerState,
           state.left \subseteq call[state.on].deps,
           h # Sweep => state.due = {},
           h \in Task => state.todo = {} /\ state.on = h
    PROVE  /\ Place(h, Looking(state))
           /\ Looking(state).pc \in {"deps", "attempt", "deadletter"}
           /\ h # Sweep => Looking(state).pc \in {"deps", "attempt"}
           /\ Looking(state).on = state.on /\ Looking(state).todo = state.todo
           /\ Looking(state).left = state.left /\ Looking(state).due = state.due
  <1> DEFINE pc == IF state.left # {} THEN "deps"
                   ELSE IF state.on \in state.due THEN "deadletter" ELSE "attempt"
  <1>1. Looking(state) = [state EXCEPT !.pc = pc]
    BY DEF Looking
  <1>2. pc \in {"deps", "deadletter", "attempt"} /\ (h # Sweep => pc # "deadletter")
    OBVIOUS
  <1> HIDE DEF pc
  <1>3. /\ Looking(state).pc = pc /\ Looking(state).on = state.on
        /\ Looking(state).left = state.left /\ Looking(state).todo = state.todo
        /\ Looking(state).due = state.due
    BY <1>1, <1>2 DEF HandlerState
  <1> QED BY <1>2, <1>3 DEF Place

LEMMA GoOnPlaced ==
    ASSUME FlowTypeOK, NEW h \in {Loop, Sweep}, NEW todo \in SUBSET Made,
           NEW due \in SUBSET Task, h = Loop => due = {}
    PROVE  /\ Place(h, GoOn(todo, due))
           /\ GoOn(todo, due).pc \in {"idle", "deps", "attempt", "deadletter"}
           /\ \A t \in todo : h = Loop => Carries(h, GoOn(todo, due), t)
           /\ h = Sweep /\ todo # {} =>
                  /\ GoOn(todo, due).due = due
                  /\ GoOn(todo, due).todo \cup {GoOn(todo, due).on} = todo
  <1>1. Loop \notin Task /\ Sweep \notin Task /\ Loop # Sweep /\ h \in Handler
    BY DEF Loop, Sweep, Task, Handler
  <1>2. CASE todo = {}
    BY <1>1, <1>2, IdlePlaced DEF GoOn, Idle
  <1>3. CASE todo # {}
    <2> DEFINE t == Max(todo)
               state == [pc |-> "deps", on |-> t, left |-> call[t].deps,
                         todo |-> todo \ {t}, due |-> due]
    <2>1. t \in todo /\ todo \subseteq Task
      BY <1>3, MaxInList DEF Made
    <2> HIDE DEF t
    <2>2. state \in HandlerState
      BY <2>1 DEF HandlerState, PC, FlowTypeOK, Task
    <2>3. /\ state.left = call[state.on].deps /\ state.due = due
          /\ state.on = t /\ state.todo = todo \ {t}
      OBVIOUS
    <2>4. GoOn(todo, due) = Looking(state)
      BY <1>3 DEF GoOn, t
    <2> HIDE DEF state
    <2>5. /\ Place(h, Looking(state))
          /\ Looking(state).pc \in {"deps", "attempt", "deadletter"}
          /\ h # Sweep => Looking(state).pc \in {"deps", "attempt"}
          /\ Looking(state).on = t /\ Looking(state).todo = todo \ {t}
          /\ Looking(state).due = due
      BY <1>1, <2>2, <2>3, LookingPlaced
    <2> QED BY <1>1, <2>1, <2>4, <2>5 DEF Carries
  <1> QED BY <1>2, <1>3

(* No row becomes Pending or Completed, and none appears.                  *)
RowsSettle ==
    \A u \in Task : \/ row'[u].phase = row[u].phase
                    \/ /\ ~Is(u, "Absent")
                       /\ row'[u].phase \notin {"Pending", "Completed"}

LEMMA CasSettles ==
    ASSUME FlowInv, NEW t \in Task, NEW expected, "Absent" \notin expected,
           NEW to \in Phase \ {"Pending", "Completed", "Absent"}, Cas(t, expected, to)
    PROVE  /\ RowsSettle
           /\ row[t].phase \in expected => Is(t, to)'
           /\ row[t].phase \notin expected => row'[t] = row[t]
  <1>1. \A u \in Task : row'[u].phase =
            IF u = t /\ row[t].phase \in expected THEN to ELSE row[u].phase
    BY DEF Cas, FlowInv, RowsInv
  <1>2. row[t].phase \notin expected => row'[t] = row[t]
    BY DEF Cas
  <1> QED BY <1>1, <1>2 DEF RowsSettle, Is

LEMMA SettledWaits ==
    ASSUME FlowInv, RowsSettle, UNCHANGED call, NEW t \in Task, WaitsForNothing(t)'
    PROVE  WaitsForNothing(t)
  <1>1. \A d \in call[t].deps : d \in Task
    BY DEF FlowInv, FlowTypeOK
  <1> QED BY <1>1 DEF RowsSettle, WaitsForNothing, Is

LEMMA SettledEases ==
    ASSUME RowsSettle, NEW h \in Handler
    PROVE  RowsEased(h)
  BY DEF RowsSettle, RowsEased, Is

(* An attempt is over: it was tried, or it still waits for something.      *)
LEMMA OverTry ==
    ASSUME FlowInv, TryInv, NEW h \in Handler, NEW is, Over(h, is), RowsSettle,
           UNCHANGED <<config, call>>, tried \subseteq tried', faulty => faulty',
           ClaimsEased(h),
           h \in Task => at[h].pc # "idle",
           h = Loop => at[h].pc # "list" \/ faulty',
           NEW on, on = at[h].on,
           \/ faulty' \/ h = Sweep \/ on \in tried'
           \/ at[h].pc \notin {"deps", "attempt"} \/ ~WaitsForNothing(on)',
           h \in Task /\ is = "refused" /\ Retries = 0 /\ ~faulty' => ~Is(h, "Pending")'
    PROVE  TryInv'
  <1>1. Loop \notin Task /\ Sweep \notin Task /\ Loop # Sweep /\ Handler = Task \cup {Loop, Sweep}
    BY DEF Loop, Sweep, Task, Handler
  <1>2. Place(h, at[h]) /\ Knows(h, at[h]) /\ at \in [Handler -> HandlerState]
    BY DEF TryInv, FlowInv, HandlersInv, FlowTypeOK
  <1>3. RowsEased(h)
    BY SettledEases
  <1>6. ASSUME ~faulty', NEW t \in Task, WaitsForNothing(t)', t \notin tried'
        PROVE  h = Sweep \/ ~(at[h].pc \in {"deps", "attempt"} /\ at[h].on = t)
    BY <1>6
  <1>4. CASE h \in Task
    <2>1. Become(h, Idle) /\ Answer(h, is, IF is = "ok" THEN h ELSE 0)
      BY <1>4 DEF Over, Submits
    <2>2. at'[h] = Idle /\ Idle.pc = "idle" /\ Place(h, Idle)
      BY <1>2, <2>1, IdlePlaced DEF Become, Idle
    <2>3. h \in Made
      BY <1>1, <1>2, <1>4 DEF Place, Knows, PC, HandlerState, Made
    <2>4. AnswersEased(h)
      BY <1>4, <2>1, <2>2, <2>3 DEF AnswersEased, Answer
    <2>5. Followed(h)
      <3> SUFFICES ASSUME ~faulty', NEW t \in Task, WaitsForNothing(t)', t \notin tried'
                   PROVE  ~Carries(h, at[h], t)
        BY SettledWaits DEF Followed
      <3> QED BY <1>1, <1>4, <1>6 DEF Carries
    <2> QED BY <1>3, <2>1, <2>2, <2>4, <2>5, HandlerMoves
  <1>5. CASE h \notin Task
    <2> DEFINE state == GoOn(at[h].todo, at[h].due)
    <2>1. Become(h, state) /\ UNCHANGED answer
      BY <1>5 DEF Over, Submits
    <2>2. at[h].todo \in SUBSET Made /\ at[h].due \in SUBSET Task
      BY <1>2 DEF Knows, HandlerState
    <2>3. /\ Place(h, state) /\ state.pc \in {"idle", "deps", "attempt", "deadletter"}
          /\ \A t \in at[h].todo : h = Loop => Carries(h, state, t)
      <3>1. h \in {Loop, Sweep} /\ (h = Loop => at[h].due = {}) /\ FlowTypeOK
        BY <1>1, <1>2, <1>5 DEF Place, FlowInv
      <3> DEFINE todo == at[h].todo
                 due == at[h].due
      <3>2. todo \in SUBSET Made /\ due \in SUBSET Task /\ (h = Loop => due = {})
        BY <2>2, <3>1
      <3> HIDE DEF todo, due
      <3>3. /\ Place(h, GoOn(todo, due))
            /\ GoOn(todo, due).pc \in {"idle", "deps", "attempt", "deadletter"}
            /\ \A t \in todo : h = Loop => Carries(h, GoOn(todo, due), t)
        BY <3>1, <3>2, GoOnPlaced
      <3> QED BY <3>3 DEF todo, due
    <2> HIDE DEF state
    <2>4. at'[h] = state
      BY <1>2, <2>1 DEF Become
    <2>5. AnswersEased(h)
      BY <2>1 DEF AnswersEased
    <2>6. Followed(h)
      <3> SUFFICES ASSUME ~faulty', NEW t \in Task, WaitsForNothing(t)', t \notin tried',
                          Carries(h, at[h], t)
                   PROVE  Carries(h, state, t)
        BY <2>4, SettledWaits DEF Followed
      <3>1. h = Loop
        BY <1>5 DEF Carries
      <3>2. t \in at[h].todo
        BY <1>1, <1>6, <3>1 DEF Carries
      <3> QED BY <2>3, <3>1, <3>2
    <2> QED BY <1>3, <2>1, <2>3, <2>4, <2>5, <2>6, HandlerMoves
  <1> QED BY <1>4, <1>5

(* What a handler becomes when an attempt is over has claimed nothing yet. *)
LEMMA OverClaimsNothing ==
    ASSUME FlowInv, NEW h \in Handler, NEW is, Over(h, is), UNCHANGED executed
    PROVE  ClaimsEased(h)
  <1>1. \A todo, due : GoOn(todo, due).pc # "send"
    BY DEF GoOn, Looking, Idle
  <1>2. at'[h].pc # "send"
    BY <1>1 DEF Over, Become, Idle, FlowInv, FlowTypeOK
  <1> QED BY <1>2 DEF ClaimsEased, FlowInv, Made

(* The ids of a list are finitely many, so that fewer are no more.         *)
LEMMA FewerIds ==
    ASSUME NEW S \in SUBSET Task, NEW T \in SUBSET S
    PROVE  Cardinality(T) <= Cardinality(S) /\ Cardinality(T) \in Nat /\ Cardinality(S) \in Nat
  <1>1. IsFiniteSet(Task)
    BY FS_Interval DEF Task
  <1>2. IsFiniteSet(S) /\ IsFiniteSet(T) /\ Cardinality(T) <= Cardinality(S)
    BY <1>1, FS_Subset
  <1> QED BY <1>2, FS_CardinalityType

LEMMA LimitType == TryInv => Limit \in Nat
  BY DEF TryInv, Limit

LEMMA SubmitTry ==
    ASSUME FlowInv, TryInv, NEW t \in Task, Submit(t)
    PROVE  TryInv'
  <1>1. PICK k \in Key \cup {NoKey}, D \in SUBSET Task :
            call' = [call EXCEPT ![t] = [made |-> TRUE, key |-> k, deps |-> D]]
    BY DEF Submit, Present
  <1>2. /\ call'[t].made /\ ~call[t].made /\ t \notin Made
        /\ \A u \in Task \ {t} : call'[u] = call[u]
    BY <1>1 DEF Submit, FlowInv, FlowTypeOK, Made
  <1> DEFINE fresh == [pc |-> "insert", on |-> t, left |-> {}, todo |-> {}, due |-> {}]
  <1>3. /\ \A g \in Handler : at'[g] = IF g = t THEN fresh ELSE at[g]
        /\ fresh.pc = "insert" /\ Place(t, fresh) /\ t \notin {Loop, Sweep}
    BY DEF Submit, Become, FlowInv, FlowTypeOK, Place, Task, Loop, Sweep
  <1>4. UNCHANGED <<config, answer, row, executed, tried, faulty>>
    BY DEF Submit, store, bounds, attempts
  <1> HIDE DEF fresh
  <1>5. Task \subseteq Handler /\ Loop \in Handler
    BY DEF Task, Handler, Loop
  <1>6. ASSUME NEW g \in Handler PROVE Place(g, at[g])'
    <2>1. CASE g = t
      BY <1>3, <2>1 DEF Place
    <2>2. CASE g # t
      <3>1. at'[g] = at[g] /\ Place(g, at[g]) /\ Knows(g, at[g])
        BY <1>3, <2>2 DEF TryInv, FlowInv, HandlersInv
      <3>2. at[g].pc = "deps" => call'[at[g].on] = call[at[g].on]
        BY <1>2, <3>1 DEF Knows, PC, Made
      <3> QED BY <3>1, <3>2 DEF Place
    <2> QED BY <2>1, <2>2
  <1>7. FreshInv'
    <2>1. \A u \in Task : Before(u)' => Before(u)
      BY <1>2, <1>3, <1>5 DEF Before
    <2> QED BY <1>4, <2>1 DEF TryInv, FreshInv, Is
  <1>8. ClaimedInv'
    BY <1>3, <1>4 DEF TryInv, ClaimedInv, Is
  <1>9. RefusedIsSettled'
    BY <1>4 DEF TryInv, RefusedIsSettled, Retries, Is
  <1>10. TriedInv'
    <2> SUFFICES ASSUME ~faulty, NEW u \in Task, WaitsForNothing(u)', FewNewer(u)'
                 PROVE  u \in tried \/ \E g \in {u, Loop} : Carries(g, at'[g], u)
      BY <1>4 DEF TriedInv, Carries
    <2>1. u # t
      BY <1>2, <1>4 DEF TryInv, FreshInv, Before, WaitsForNothing, Is
    <2>2. WaitsForNothing(u)
      BY <1>2, <1>4, <2>1 DEF WaitsForNothing, Is
    <2>3. FewNewer(u)
      <3> DEFINE S == {v \in Task : call'[v].made /\ v > u}
                 T == {v \in Task : call[v].made /\ v > u}
      <3>1. T \in SUBSET S /\ S \in SUBSET Task
        BY <1>2
      <3>2. Cardinality(S) < Limit
        BY <1>4 DEF FewNewer, Limit
      <3> HIDE DEF S, T
      <3>3. Cardinality(T) < Limit
        BY <3>1, <3>2, FewerIds, LimitType
      <3> QED BY <3>3 DEF T, FewNewer
    <2>4. u \in tried \/ \E g \in {u, Loop} : Carries(g, at[g], u)
      BY <2>2, <2>3 DEF TryInv, TriedInv
    <2> QED BY <1>3, <1>5, <2>1, <2>4
  <1> QED BY <1>4, <1>6, <1>7, <1>8, <1>9, <1>10 DEF TryInv

LEMMA InsertTry ==
    ASSUME FlowInv, TryInv, NEW t \in Task, Insert(t)
    PROVE  TryInv'
  <1>1. t \in Handler /\ t # Loop /\ t # Sweep
    BY DEF Handler, Task, Loop, Sweep
  <1>2. /\ at[t] \in HandlerState /\ at[t].pc = "insert" /\ at[t].on = t
        /\ Place(t, at[t]) /\ t \in Made
    BY <1>1 DEF Insert, FlowInv, HandlersInv, Knows, At, TryInv, PC
  <1>3. /\ UNCHANGED <<config, call, answer, executed, tried, faulty>>
        /\ executed \subseteq Task
    BY DEF Insert, clients, bounds, attempts, FlowInv, Made
  <1>4. \A u : ~Carries(t, at[t], u)
    BY <1>1, <1>2 DEF Carries
  <1>5. AnswersEased(t)
    BY <1>3 DEF AnswersEased
  <1>6. CASE KeyTaken(t)
    <2> DEFINE state == [at[t] EXCEPT !.pc = "lookup"]
    <2>1. Place(t, state) /\ state.pc = "lookup"
      BY <1>1, <1>2 DEF HandlerState, Place
    <2> HIDE DEF state
    <2>2. Become(t, state) /\ UNCHANGED row
      BY <1>6 DEF Insert, state
    <2>3. at'[t] = state
      BY <1>1, <2>2 DEF Become, FlowInv, FlowTypeOK
    <2>4. RowsEased(t) /\ ClaimsEased(t)
      BY <1>3, <2>1, <2>2, <2>3 DEF RowsEased, ClaimsEased, Is
    <2>5. Followed(t)
      BY <1>3, <1>4, <2>2 DEF Followed, WaitsForNothing, Is
    <2> QED BY <1>1, <1>2, <1>3, <1>5, <2>1, <2>2, <2>4, <2>5, HandlerMoves
  <1>7. CASE ~KeyTaken(t)
    <2> DEFINE looks == [at[t] EXCEPT !.left = call[t].deps]
               state == Looking(looks)
    <2>1. /\ looks \in HandlerState /\ looks.on = t /\ looks.left = call[t].deps
          /\ looks.todo = {} /\ looks.due = {}
      BY <1>1, <1>2 DEF HandlerState, Place, FlowInv, FlowTypeOK
    <2>2. Become(t, state) /\ row' = [row EXCEPT ![t].phase = "Pending"]
      BY <1>7 DEF Insert
    <2> HIDE DEF looks
    <2>3. Place(t, state) /\ state.pc \in {"deps", "attempt"} /\ state.on = t
      BY <1>1, <2>1, LookingPlaced
    <2> HIDE DEF state
    <2>4. at'[t] = state
      BY <1>1, <2>2 DEF Become, FlowInv, FlowTypeOK
    <2>5. \A u \in Task : row'[u].phase = IF u = t THEN "Pending" ELSE row[u].phase
      BY <2>2 DEF FlowInv, RowsInv
    <2>6. RowsEased(t) /\ ClaimsEased(t)
      BY <1>2, <1>3, <2>3, <2>4, <2>5 DEF RowsEased, ClaimsEased, Is
    <2>7. Followed(t)
      <3> SUFFICES ASSUME NEW u \in Task, WaitsForNothing(u)', u # t
                   PROVE  WaitsForNothing(u)
        BY <1>4, <2>3, <2>4 DEF Followed, Carries
      <3>1. \A d \in call[u].deps : d \in Task
        BY DEF FlowInv, FlowTypeOK
      <3> QED BY <1>3, <2>5, <3>1 DEF WaitsForNothing, Is
    <2> QED BY <1>1, <1>2, <1>3, <1>5, <2>2, <2>3, <2>6, <2>7, HandlerMoves
  <1> QED BY <1>6, <1>7

LEMMA AnswerKeepsOthers ==
    ASSUME FlowInv, KeyInv, NEW t \in Task, NEW is, NEW id, Answer(t, is, id)
    PROVE  \A u \in Task : u # t => answer'[u] = answer[u]
  BY DEF Answer, KeyInv, AnswersInv

LEMMA LookupTry ==
    ASSUME FlowInv, KeyInv, TryInv, NEW t \in Task, Lookup(t)
    PROVE  TryInv'
  <1>1. t \in Handler /\ t # Loop /\ t # Sweep
    BY DEF Handler, Task, Loop, Sweep
  <1>2. at[t].pc = "lookup" /\ t \in Made /\ at'[t] = Idle /\ Idle.pc = "idle"
    BY <1>1 DEF Lookup, FlowInv, FlowTypeOK, HandlersInv, Knows, At, PC, Become, Idle
  <1>3. UNCHANGED <<config, call, row, executed, tried, faulty>> /\ executed \subseteq Task
    BY DEF Lookup, store, bounds, attempts, FlowInv, Made
  <1>4. RowsEased(t) /\ ClaimsEased(t) /\ Followed(t)
    BY <1>1, <1>2, <1>3 DEF RowsEased, ClaimsEased, Followed, WaitsForNothing, Carries, Is
  <1>5. AnswersEased(t)
    <2>1. PICK is, id : Answer(t, is, id)
      BY DEF Lookup
    <2>3. \A u \in Task : u # t => answer'[u] = answer[u]
      BY <2>1, AnswerKeepsOthers
    <2>2. ~Is(t, "Pending")'
      BY <1>2, <1>3 DEF TryInv, FreshInv, Before, Is
    <2> QED BY <1>2, <2>3, <2>2 DEF AnswersEased
  <1> QED BY <1>1, <1>2, <1>3, <1>4, <1>5, IdlePlaced, HandlerMoves DEF Lookup

LEMMA LookUpDependencyTry ==
    ASSUME FlowInv, TryInv, NEW h \in Handler, LookUpDependency(h)
    PROVE  TryInv'
  <1>1. PICK d \in at[h].left :
            IF Satisfied(d)
            THEN Become(h, Looking([at[h] EXCEPT !.left = @ \ {d}])) /\ UNCHANGED answer
            ELSE Over(h, "ok")
    BY DEF LookUpDependency
  <1>2. /\ at[h].pc = "deps" /\ at[h] \in HandlerState /\ at[h].on \in Task
        /\ at[h].left \subseteq call[at[h].on].deps /\ Place(h, at[h])
    BY DEF LookUpDependency, At, TryInv, Place, FlowInv, HandlersInv, Knows, PC, Made
  <1>3. /\ UNCHANGED <<config, call, row, executed, tried, faulty>>
        /\ executed \subseteq Task
    BY DEF LookUpDependency, store, bounds, attempts, FlowInv, Made
  <1>4. Loop \notin Task /\ Sweep \notin Task /\ Loop # Sweep
    BY DEF Loop, Sweep, Task
  <1>5. CASE Satisfied(d)
    <2> DEFINE looks == [at[h] EXCEPT !.left = @ \ {d}]
               state == Looking(looks)
    <2>1. /\ looks \in HandlerState /\ looks.on = at[h].on
          /\ looks.left \subseteq call[at[h].on].deps
          /\ looks.todo = at[h].todo /\ looks.due = at[h].due
      BY <1>2 DEF HandlerState
    <2>2. Become(h, state) /\ UNCHANGED answer
      BY <1>1, <1>5
    <2> HIDE DEF looks
    <2>3. /\ Place(h, state) /\ state.pc \in {"deps", "attempt", "deadletter"}
          /\ h # Sweep => state.pc \in {"deps", "attempt"}
          /\ state.on = at[h].on /\ state.todo = at[h].todo
      <3>1. looks.left \subseteq call[looks.on].deps /\ (h # Sweep => looks.due = {})
            /\ (h \in Task => looks.todo = {} /\ looks.on = h)
        BY <1>2, <2>1 DEF Place
      <3> QED BY <2>1, <3>1, LookingPlaced
    <2> HIDE DEF state
    <2>4. at'[h] = state
      BY <2>2 DEF Become, FlowInv, FlowTypeOK
    <2>5. RowsEased(h) /\ ClaimsEased(h) /\ AnswersEased(h)
      BY <1>3, <2>2, <2>3, <2>4 DEF RowsEased, ClaimsEased, AnswersEased, Is
    <2>6. Followed(h)
      BY <1>2, <1>3, <1>4, <2>3, <2>4 DEF Followed, Carries, WaitsForNothing, Is
    <2> QED BY <1>3, <2>2, <2>3, <2>5, <2>6, HandlerMoves
  <1>6. CASE ~Satisfied(d)
    <2>1. Over(h, "ok")
      BY <1>1, <1>6
    <2>2. RowsSettle /\ ClaimsEased(h)
      BY <1>3, <2>1, OverClaimsNothing DEF RowsSettle
    <2>3. PICK on : on = at[h].on
      OBVIOUS
    <2>4. ~WaitsForNothing(on)'
      BY <1>2, <1>3, <1>6, <2>3 DEF WaitsForNothing, Satisfied, Is
    <2> QED BY <1>2, <1>3, <2>1, <2>2, <2>3, <2>4, OverTry
  <1> QED BY <1>5, <1>6

(* What a handler holds while it works.                                    *)
LEMMA WorkPlaced ==
    ASSUME FlowInv, TryInv, NEW h \in Handler, at[h].pc \in {"attempt", "send", "deadletter"}
    PROVE  /\ at[h] \in HandlerState /\ at[h].on \in Task /\ Place(h, at[h])
           /\ h \in Task => at[h].on = h
           /\ executed \subseteq Task
  BY DEF TryInv, Place, FlowInv, HandlersInv, Knows, PC, Made

LEMMA RefusedTry ==
    ASSUME FlowInv, TryInv, NEW h \in Handler, NEW why, Refused(h, why)
    PROVE  TryInv'
  <1>1. at[h].pc = "attempt"
    BY DEF Refused, At
  <1>2. PICK t \in Task : t = at[h].on /\ (h \in Task => t = h)
    BY <1>1, WorkPlaced
  <1>3. /\ UNCHANGED <<config, call, executed, faulty>> /\ tried \subseteq tried'
        /\ h = Sweep \/ t \in tried'
    BY <1>2 DEF Refused, bounds, Tries
  <1>4. CASE Marks(h) /\ Over(h, "refused") /\ Cas(t, {"Pending"}, "Failed")
    <2>1. RowsSettle /\ ClaimsEased(h)
      BY <1>3, <1>4, CasSettles, OverClaimsNothing DEF Phase
    <2>2. ~Is(t, "Pending")'
      BY <1>4, CasSettles DEF Phase, Is
    <2> QED BY <1>1, <1>2, <1>3, <1>4, <2>1, <2>2, OverTry
  <1>5. CASE /\ Counted(h, why) /\ Over(h, "ok")
             /\ row' = IF t \in Present THEN [row EXCEPT ![t].retries = @ + 1] ELSE row
    <2>1. RowsSettle
      BY <1>2, <1>5 DEF RowsSettle, FlowInv, RowsInv
    <2> QED BY <1>1, <1>2, <1>3, <1>5, <2>1, OverClaimsNothing, OverTry
  <1>6. CASE ~Marks(h) /\ Over(h, "refused") /\ UNCHANGED row
    <2>1. RowsSettle
      BY <1>6 DEF RowsSettle
    <2>2. ~(h \in Task /\ Retries = 0)
      BY <1>6 DEF Marks, Submits
    <2> QED BY <1>1, <1>2, <1>3, <1>6, <2>1, <2>2, OverClaimsNothing, OverTry
  <1> QED BY <1>2, <1>4, <1>5, <1>6 DEF Refused

LEMMA ClaimTry ==
    ASSUME FlowInv, TryInv, NEW h \in Handler, Claim(h)
    PROVE  TryInv'
  <1>1. at[h].pc = "attempt"
    BY DEF Claim, At
  <1>2. PICK t \in Task : t = at[h].on /\ (h \in Task => t = h)
    BY <1>1, WorkPlaced
  <1>3. /\ UNCHANGED <<config, call, faulty>> /\ tried \subseteq tried'
        /\ h = Sweep \/ t \in tried'
        /\ Cas(t, {"Pending"}, "Dispatched")
    BY <1>2 DEF Claim, bounds, Tries
  <1>4. RowsSettle /\ (Is(t, "Pending") => Is(t, "Dispatched")')
    BY <1>3, CasSettles DEF Phase, Is
  <1>5. CASE Is(t, "Pending")
    <2> DEFINE state == [at[h] EXCEPT !.pc = "send"]
    <2>1. /\ Become(h, state) /\ UNCHANGED answer /\ executed' = executed \cup {t}
      BY <1>2, <1>5 DEF Claim
    <2>2. /\ Place(h, state) /\ state.pc = "send" /\ state.on = t
          /\ state.todo = at[h].todo
      BY <1>1, <1>2, WorkPlaced DEF Place, HandlerState
    <2> HIDE DEF state
    <2>3. at'[h] = state
      BY <2>1 DEF Become, FlowInv, FlowTypeOK
    <2>4. RowsEased(h) /\ AnswersEased(h)
      BY <1>4, <2>1, SettledEases DEF AnswersEased
    <2>5. ClaimsEased(h)
      BY <1>1, <1>4, <1>5, <2>1, <2>2, <2>3, WorkPlaced DEF ClaimsEased, Is
    <2>6. Followed(h)
      <3> SUFFICES ASSUME NEW u \in Task, WaitsForNothing(u)', u \notin tried',
                          Carries(h, at[h], u)
                   PROVE  Carries(h, state, u)
        BY <1>3, <1>4, <2>3, SettledWaits DEF Followed
      <3>1. Loop # Sweep /\ Sweep \notin Task
        BY DEF Loop, Sweep, Task
      <3> QED BY <1>1, <1>2, <1>3, <2>2, <3>1 DEF Carries
    <2> QED BY <1>3, <2>1, <2>2, <2>4, <2>5, <2>6, HandlerMoves
  <1>6. CASE ~Is(t, "Pending")
    <2>1. Over(h, "refused") /\ UNCHANGED executed
      BY <1>2, <1>6 DEF Claim
    <2>2. ~Is(t, "Pending")'
      BY <1>3, <1>6, CasSettles DEF Phase, Is
    <2> QED BY <1>1, <1>2, <1>3, <1>4, <2>1, <2>2, OverClaimsNothing, OverTry
  <1> QED BY <1>5, <1>6

LEMMA SendTry ==
    ASSUME FlowInv, TryInv, NEW h \in Handler, Send(h)
    PROVE  TryInv'
  <1>1. at[h].pc = "send"
    BY DEF Send, At
  <1>2. PICK t \in Task : t = at[h].on /\ (h \in Task => t = h)
    BY <1>1, WorkPlaced
  <1>3. UNCHANGED <<config, call, executed, tried, faulty>>
    BY DEF Send, bounds, attempts
  <1>4. RowsSettle
    BY <1>2, CasSettles DEF Send, RowsSettle, Phase
  <1>5. ~Is(t, "Pending")'
    <2>1. ~Is(t, "Pending")
      BY <1>1, <1>2 DEF TryInv, ClaimedInv
    <2> QED BY <1>4, <2>1 DEF RowsSettle, Is
  <1> QED BY <1>1, <1>2, <1>3, <1>4, <1>5, OverClaimsNothing, OverTry DEF Send

LEMMA AttemptTry ==
    ASSUME FlowInv, TryInv, NEW h \in Handler, Attempt(h)
    PROVE  TryInv'
  BY LookUpDependencyTry, ClaimTry, SendTry, RefusedTry DEF Attempt

-------------------------------------------------------------------------------
(* The loops, what happens around the handlers, and faults.                *)

LEMMA LoopsApart ==
    /\ Loop \notin Task /\ Sweep \notin Task /\ Loop # Sweep
    /\ Loop \in Handler /\ Sweep \in Handler /\ Task \subseteq Handler
  BY DEF Loop, Sweep, Task, Handler

LEMMA CompletedHeardTry ==
    ASSUME FlowInv, TryInv, NEW t \in Task, CompletedHeard(t)
    PROVE  TryInv'
  <1> DEFINE state == [Idle EXCEPT !.pc = "list"]
  <1>1. /\ Become(Loop, state) /\ state.pc = "list" /\ Place(Loop, state)
        /\ UNCHANGED <<config, call, answer, executed, tried, faulty>>
        /\ Cas(t, {"Dispatched"}, "Completed")
    BY LoopsApart, IdlePlaced DEF CompletedHeard, clients, bounds, attempts, Idle
  <1> HIDE DEF state
  <1>2. at'[Loop] = state
    BY <1>1, LoopsApart DEF Become, FlowInv, FlowTypeOK
  <1>3. \A u \in Task : row'[u].phase = IF u = t /\ Is(t, "Dispatched") THEN "Completed"
                                                                      ELSE row[u].phase
    BY <1>1 DEF Cas, Is, FlowInv, RowsInv
  <1>4. RowsEased(Loop) /\ ClaimsEased(Loop) /\ AnswersEased(Loop)
    BY <1>1, <1>2, <1>3 DEF RowsEased, ClaimsEased, AnswersEased, Is, FlowInv, Made
  <1>5. Followed(Loop)
    BY <1>1, <1>2 DEF Followed, Carries
  <1> QED BY <1>1, <1>4, <1>5, LoopsApart, HandlerMoves

(* What waits for nothing is in the list, unless Limit newer rows hide it. *)
LEMMA ReadyListedTry ==
    ASSUME FlowInv, TryInv, ReadyListed
    PROVE  TryInv'
  <1> DEFINE state == GoOn(PendingTasks, {})
  <1>1. /\ Become(Loop, state) /\ at[Loop].pc = "list"
        /\ UNCHANGED <<config, call, answer, row, executed, tried, faulty>>
    BY DEF ReadyListed, At, clients, store, bounds, attempts
  <1>2. PendingTasks \in SUBSET Made
    BY DEF PendingTasks, Scanned, Present, FlowInv, RowsInv
  <1>3. /\ Place(Loop, state) /\ state.pc \in {"idle", "deps", "attempt", "deadletter"}
        /\ \A t \in PendingTasks : Carries(Loop, state, t)
    BY <1>2, GoOnPlaced DEF FlowInv
  <1> HIDE DEF state
  <1>4. at'[Loop] = state
    BY <1>1, LoopsApart DEF Become, FlowInv, FlowTypeOK
  <1>5. RowsEased(Loop) /\ ClaimsEased(Loop) /\ AnswersEased(Loop)
    BY <1>1, <1>3, <1>4 DEF RowsEased, ClaimsEased, AnswersEased, Is, FlowInv, Made
  <1>6. ASSUME NEW t \in Task, WaitsForNothing(t), FewNewer(t) PROVE t \in PendingTasks
    <2>1. Is(t, "Pending") /\ t \in Present
      BY <1>6 DEF WaitsForNothing, Present, Is
    <2> DEFINE S == {u \in Task : call[u].made /\ u > t}
               T == {u \in Present : u > t}
    <2>2. T \in SUBSET S /\ S \in SUBSET Task
      BY DEF Present, FlowInv, RowsInv, Made
    <2>3. Cardinality(S) < Limit
      BY <1>6 DEF FewNewer
    <2> HIDE DEF S, T
    <2>4. Cardinality(T) < Limit
      BY <2>2, <2>3, FewerIds, LimitType
    <2> QED BY <2>1, <2>4 DEF T, PendingTasks, Scanned
  <1>7. Followed(Loop)
    BY <1>1, <1>3, <1>4, <1>6 DEF Followed, WaitsForNothing, Is
  <1> QED BY <1>1, <1>3, <1>5, <1>7, LoopsApart, HandlerMoves

LEMMA SweepListsTry ==
    ASSUME FlowInv, TryInv, SweepLists
    PROVE  TryInv'
  <1> DEFINE late == {t \in PendingTasks : Retries > 0 /\ row[t].retries >= Retries}
             state == GoOn(PendingTasks, late)
  <1>1. /\ Become(Sweep, state)
        /\ UNCHANGED <<config, call, answer, row, executed, tried, faulty>>
    BY DEF SweepLists, clients, store, bounds, attempts
  <1>2. PendingTasks \in SUBSET Made /\ late \in SUBSET Task
    BY DEF PendingTasks, Scanned, Present, FlowInv, RowsInv
  <1> HIDE DEF late
  <1>3. Place(Sweep, state) /\ state.pc \in {"idle", "deps", "attempt", "deadletter"}
    BY <1>2, LoopsApart, GoOnPlaced DEF FlowInv
  <1> HIDE DEF state
  <1>4. at'[Sweep] = state
    BY <1>1, LoopsApart DEF Become, FlowInv, FlowTypeOK
  <1>5. RowsEased(Sweep) /\ ClaimsEased(Sweep) /\ AnswersEased(Sweep)
    BY <1>1, <1>3, <1>4 DEF RowsEased, ClaimsEased, AnswersEased, Is, FlowInv, Made
  <1>6. Followed(Sweep)
    BY <1>1, LoopsApart DEF Followed, WaitsForNothing, Is, Carries
  <1> QED BY <1>1, <1>3, <1>5, <1>6, LoopsApart, HandlerMoves

LEMMA DeadLetterTry ==
    ASSUME FlowInv, TryInv, DeadLetter
    PROVE  TryInv'
  <1>1. at[Sweep].pc = "deadletter" /\ Over(Sweep, "ok")
        /\ UNCHANGED <<config, call, executed, tried, faulty>>
    BY DEF DeadLetter, At, bounds, attempts
  <1>2. PICK t \in Task : t = at[Sweep].on
    BY <1>1, LoopsApart, WorkPlaced
  <1>3. RowsSettle
    BY <1>2, CasSettles DEF DeadLetter, Phase
  <1> QED BY <1>1, <1>2, <1>3, LoopsApart, OverClaimsNothing, OverTry

(* Steps that no handler takes part in.                                    *)
LEMMA OutsideTry ==
    ASSUME FlowInv, TryInv, RowsSettle,
           UNCHANGED <<config, call, answer, at, executed, tried, faulty>>
    PROVE  TryInv'
  <1> DEFINE state == at[Sweep]
  <1>1. Become(Sweep, state) /\ at'[Sweep] = state
    BY LoopsApart DEF Become, FlowInv, FlowTypeOK
  <1>2. Place(Sweep, state) /\ state.pc \notin {"insert", "lookup"}
    BY LoopsApart DEF TryInv, FlowInv, HandlersInv, Knows
  <1>3. ClaimsEased(Sweep)
    BY <1>1, LoopsApart DEF ClaimsEased, TryInv, ClaimedInv, FlowInv, Made
  <1>4. RowsEased(Sweep) /\ AnswersEased(Sweep)
    BY LoopsApart, SettledEases DEF AnswersEased
  <1>5. Followed(Sweep)
    BY LoopsApart, SettledWaits DEF Followed, Carries
  <1> HIDE DEF state
  <1> QED BY <1>1, <1>2, <1>3, <1>4, <1>5, LoopsApart, HandlerMoves

LEMMA EndingTry ==
    ASSUME FlowInv, TryInv, NEW t \in Task,
           \/ FailedHeard(t) \/ ExecutionEnds(t) \/ LostExecutionReaped(t)
           \/ Cancel(t) \/ DeleteAsked(t) \/ DeleteRow(t)
    PROVE  TryInv'
  <1>1. UNCHANGED <<config, call, answer, at, executed, tried, faulty>>
    BY DEF FailedHeard, ExecutionEnds, LostExecutionReaped, Cancel, DeleteAsked,
           DeleteRow, clients, store, bounds, attempts
  <1>2. CASE \/ UNCHANGED row \/ Cas(t, {"Dispatched"}, "Failed")
             \/ Cas(t, {"Pending", "Dispatched"}, "Cancelled")
    <2>1. RowsSettle
      BY <1>2, CasSettles DEF Phase, RowsSettle
    <2> QED BY <1>1, <2>1, OutsideTry
  <1>3. CASE row[t].phase \in Terminal /\ row' = [row EXCEPT ![t] = Absent]
    <2>1. RowsSettle
      BY <1>3 DEF RowsSettle, Terminal, Absent, Is, FlowInv, RowsInv
    <2> QED BY <1>1, <2>1, OutsideTry
  <1> QED BY <1>2, <1>3 DEF FailedHeard, ExecutionEnds, LostExecutionReaped, Cancel,
                            DeleteAsked, DeleteRow, store

(* The row was inserted all the same; the call answers an error.           *)
LEMMA InsertFailsTry ==
    ASSUME FlowInv, TryInv, NEW t \in Task, at[t].pc = "insert", Over(t, "refused"),
           row' = [row EXCEPT ![t].phase = "Pending"], faulty',
           UNCHANGED <<config, call, executed, tried>>
    PROVE  TryInv'
  <1>1. Become(t, Idle) /\ Answer(t, "refused", 0) /\ Idle.pc = "idle" /\ t \in Handler
    BY LoopsApart DEF Over, Submits, Idle
  <1>2. at'[t] = Idle /\ t \in Made
    BY <1>1 DEF Become, FlowInv, FlowTypeOK, HandlersInv, Knows, PC
  <1>3. \A u \in Task : u # t => row'[u] = row[u]
    BY DEF FlowInv, RowsInv
  <1>4. RowsEased(t) /\ ClaimsEased(t) /\ Followed(t)
    BY <1>1, <1>2, <1>3 DEF RowsEased, ClaimsEased, Followed, Is, FlowInv, Made
  <1>5. AnswersEased(t)
    BY <1>1, <1>2 DEF AnswersEased, Answer
  <1> QED BY <1>1, <1>4, <1>5, IdlePlaced, HandlerMoves

LEMMA StoreFailsTry ==
    ASSUME FlowInv, TryInv, NEW h \in Handler, StoreFails(h)
    PROVE  TryInv'
  <1>1. faulty' /\ UNCHANGED <<config, call, tried>> /\ at[h].pc # "idle"
    BY DEF StoreFails, attempts, At
  <1>2. PICK on : on = at[h].on
    OBVIOUS
  <1>3. CASE UNCHANGED <<row, executed>> /\ ~At(h, "list")
    <2>1. PICK is : Over(h, is)
      BY <1>3 DEF StoreFails
    <2>2. RowsSettle
      BY <1>3 DEF RowsSettle
    <2> QED BY <1>1, <1>2, <1>3, <2>1, <2>2, OverClaimsNothing, OverTry
  <1>4. CASE /\ At(h, "insert") /\ Over(h, "refused") /\ UNCHANGED executed
             /\ row' = [row EXCEPT ![h].phase = "Pending"]
    <2>1. h \in Task
      BY <1>4 DEF FlowInv, HandlersInv, Knows, At
    <2> QED BY <1>1, <1>4, <2>1, InsertFailsTry DEF At
  <1>5. CASE /\ At(h, "attempt") /\ Over(h, "refused") /\ Is(on, "Pending")
             /\ Cas(on, {"Pending"}, "Dispatched") /\ executed' = executed \cup {on}
    <2>1. at[h].pc = "attempt" /\ on \in Task /\ executed \subseteq Task
      BY <1>2, <1>5, WorkPlaced DEF At
    <2>2. RowsSettle /\ Is(on, "Dispatched")'
      BY <1>5, <2>1, CasSettles DEF Phase, Is
    <2>3. at'[h].pc # "send"
      <3>1. \A todo, due : GoOn(todo, due).pc # "send"
        BY DEF GoOn, Looking, Idle
      <3> QED BY <1>5, <3>1 DEF Over, Become, Idle, FlowInv, FlowTypeOK
    <2>4. ClaimsEased(h)
      BY <1>5, <2>1, <2>2, <2>3 DEF ClaimsEased, Is
    <2> QED BY <1>1, <1>2, <1>5, <2>1, <2>2, <2>4, OverTry
  <1>6. CASE At(h, "list") /\ Become(h, Idle) /\ UNCHANGED <<row, executed, answer>>
    <2>1. at'[h].pc = "idle"
      BY <1>6 DEF Become, Idle, FlowInv, FlowTypeOK
    <2>2. RowsEased(h) /\ ClaimsEased(h) /\ AnswersEased(h) /\ Followed(h)
      BY <1>1, <1>6, <2>1 DEF RowsEased, ClaimsEased, AnswersEased, Followed, Is, FlowInv, Made
    <2> QED BY <1>1, <1>6, <2>2, IdlePlaced, HandlerMoves DEF Idle
  <1> QED BY <1>2, <1>3, <1>4, <1>5, <1>6 DEF StoreFails, At

LEMMA OutcomeNotWrittenTry ==
    ASSUME FlowInv, TryInv, NEW t \in Task, OutcomeNotWritten(t)
    PROVE  TryInv'
  <1>1. PICK well \in BOOLEAN :
            Become(Loop, [Idle EXCEPT !.pc = IF well THEN "list" ELSE "idle"])
    BY DEF OutcomeNotWritten
  <1>2. faulty' /\ UNCHANGED <<config, call, answer, row, executed, tried>>
    BY DEF OutcomeNotWritten, clients, store, attempts
  <1> DEFINE state == [Idle EXCEPT !.pc = IF well THEN "list" ELSE "idle"]
  <1>3. Place(Loop, state) /\ state.pc \in {"list", "idle"}
    BY LoopsApart DEF Place, Idle
  <1> HIDE DEF state
  <1>4. Become(Loop, state) /\ at'[Loop] = state
    BY <1>1, LoopsApart DEF state, Become, FlowInv, FlowTypeOK
  <1>5. RowsEased(Loop) /\ ClaimsEased(Loop) /\ AnswersEased(Loop) /\ Followed(Loop)
    BY <1>2, <1>3, <1>4 DEF RowsEased, ClaimsEased, AnswersEased, Followed, Is, FlowInv, Made
  <1> QED BY <1>2, <1>3, <1>4, <1>5, LoopsApart, HandlerMoves

LEMMA CrashTry ==
    ASSUME FlowInv, TryInv, Crash
    PROVE  TryInv'
  <1>1. /\ \A h \in Handler : at'[h] = Idle /\ Place(h, Idle)
        /\ Idle.pc = "idle" /\ faulty'
        /\ UNCHANGED <<config, call, answer, row, executed>>
    BY IdlePlaced DEF Crash, clients, store, Idle
  <1>2. \A h \in Handler : Place(h, at[h])'
    BY <1>1 DEF Place
  <1>3. FreshInv'
    BY <1>1, LoopsApart DEF TryInv, FreshInv, Before, Is
  <1>4. ClaimedInv' /\ RefusedIsSettled' /\ TriedInv'
    BY <1>1 DEF TryInv, ClaimedInv, RefusedIsSettled, TriedInv, Is
  <1> QED BY <1>1, <1>2, <1>3, <1>4 DEF TryInv

LEMMA NextTry == FlowInv /\ KeyInv /\ TryInv /\ [Next]_vars => TryInv'
  <1> SUFFICES ASSUME FlowInv, KeyInv, TryInv, [Next]_vars PROVE TryInv'
    OBVIOUS
  <1>1. ASSUME NEW t \in Task, Submit(t) \/ SubmitGoesOn(t) PROVE TryInv'
    BY <1>1, LoopsApart, SubmitTry, InsertTry, LookupTry, AttemptTry DEF SubmitGoesOn
  <1>2. ASSUME NEW t \in Task,
               \/ FailedHeard(t) \/ ExecutionEnds(t) \/ LostExecutionReaped(t)
               \/ Cancel(t) \/ DeleteAsked(t) \/ DeleteRow(t)
        PROVE  TryInv'
    BY <1>2, EndingTry
  <1>3. ASSUME NEW t \in Task, OutcomeNotWritten(t) \/ CompletedHeard(t) PROVE TryInv'
    BY <1>3, OutcomeNotWrittenTry, CompletedHeardTry
  <1>4. CASE ReadyListed \/ SweepLists \/ DeadLetter \/ Crash
    BY <1>4, ReadyListedTry, SweepListsTry, DeadLetterTry, CrashTry
  <1>5. ASSUME NEW h \in Handler, Attempt(h) \/ StoreFails(h) PROVE TryInv'
    BY <1>5, AttemptTry, StoreFailsTry
  <1>6. CASE UNCHANGED vars
    BY <1>6, OutsideTry DEF vars, clients, store, bounds, attempts, RowsSettle
  <1>7. EventLoop \/ Reconciler => TryInv'
    BY <1>2, <1>3, <1>4, <1>5, LoopsApart DEF EventLoop, Reconciler
  <1> QED BY <1>1, <1>2, <1>3, <1>4, <1>5, <1>6, <1>7 DEF Next

LEMMA FlowInvariant == Spec => [](FlowInv /\ KeyInv /\ TryInv)
  <1>1. Init => FlowInv /\ KeyInv /\ TryInv
    BY InitFlow, InitKey, InitTry
  <1>2. FlowInv /\ KeyInv /\ TryInv /\ [Next]_vars => (FlowInv /\ KeyInv /\ TryInv)'
    BY NextFlow, NextKey, NextTry
  <1> QED BY <1>1, <1>2, PTL DEF Spec

(* Between a submission that reads its predecessors and a completion that  *)
(* looks for successors no task falls through: when the calls and the      *)
(* event loop are idle, one of them tried every task that waits for nothing*)
(* (dispatch_existing, dispatch_ready_tasks).                              *)
THEOREM NoReadyTaskFallsThrough == Spec => []ReadyIsTried
  <1>1. FlowInv /\ KeyInv /\ TryInv => ReadyIsTried
    <2> SUFFICES ASSUME FlowInv, TryInv, ~faulty,
                        \A h \in Task \cup {Loop} : At(h, "idle"),
                        NEW t \in Task, WaitsForNothing(t), FewNewer(t)
                 PROVE  t \in tried
      BY DEF ReadyIsTried, FewNewer
    <2>1. ASSUME NEW h \in {t, Loop} PROVE ~Carries(h, at[h], t)
      <3>1. at[h].pc = "idle" /\ at[h].todo = {}
        BY LoopsApart DEF At, TryInv, Place
      <3> QED BY <3>1 DEF Carries
    <2> QED BY <2>1 DEF TryInv, TriedInv
  <1> QED BY <1>1, FlowInvariant, PTL

(* Without retries no Pending task is left behind by a submission that was *)
(* answered with an error (mark_unavailable_as_failed).                    *)
THEOREM ErrorsAreSettled == Spec => []RefusedIsSettled
  <1>1. FlowInv /\ KeyInv /\ TryInv => RefusedIsSettled
    BY DEF TryInv
  <1> QED BY <1>1, FlowInvariant, PTL

-------------------------------------------------------------------------------
(***************************************************************************)
(* Retries.  The sweep carries the tasks of its list that were not at      *)
(* their maximum when it listed them.  Either it or the submit call of a   *)
(* task may count the last retry, and then the other one more.             *)
(***************************************************************************)
Carried(state, t) ==
    state.pc # "idle" /\ t \in (state.todo \cup {state.on}) \ state.due

(* The sweep attempts a task once, and only below its maximum.             *)
Tidy(state) ==
    /\ state.pc # "idle" => state.on \notin state.todo
    /\ state.pc = "attempt" => state.on \notin state.due

Count(max, retries, carried, submitted) ==
    /\ max = 0 => retries = 0
    /\ retries <= max + 1
    /\ max > 0 /\ (carried \/ submitted) => retries <= max
    /\ max > 0 /\ carried /\ submitted => retries < max

CountInv ==
    /\ Tidy(at[Sweep])
    /\ \A t \in Task :
          /\ Is(t, "Absent") => row[t] = Absent
          /\ Count(Retries, row[t].retries, Carried(at[Sweep], t), at[t].pc # "idle")

LEMMA InitCount == Init => CountInv
  <1> SUFFICES ASSUME Init PROVE CountInv
    OBVIOUS
  <1>1. at[Sweep] = Idle /\ (\A t \in Task : at[t] = Idle /\ row[t] = Absent) /\ Retries \in Nat
    BY LoopsApart DEF Init, Retries
  <1> QED BY <1>1 DEF CountInv, Tidy, Count, Carried, Idle, Absent

(* Nothing is carried, and no call is under way, that was not before.      *)
Eased ==
    /\ Tidy(at'[Sweep])
    /\ \A t \in Task : /\ Carried(at'[Sweep], t) => Carried(at[Sweep], t)
                       /\ at'[t].pc # "idle" => at[t].pc # "idle"

(* No retry is counted; a count goes with its row.                         *)
RowsKeep ==
    \A t \in Task : \/ row'[t] = Absent
                    \/ /\ row'[t].retries = row[t].retries
                       /\ Is(t, "Absent")' => row'[t] = row[t]

LEMMA CountStays ==
    ASSUME FlowInv, TryInv, CountInv, Eased, RowsKeep, UNCHANGED config
    PROVE  CountInv'
  <1>1. Retries \in Nat /\ Retries' = Retries
    BY DEF TryInv, Retries
  <1>2. Tidy(at[Sweep])'
    BY DEF Eased, Tidy
  <1> SUFFICES ASSUME NEW t \in Task
               PROVE  /\ Is(t, "Absent")' => row'[t] = Absent
                      /\ Count(Retries, row'[t].retries, Carried(at'[Sweep], t), at'[t].pc # "idle")
    BY <1>1, <1>2 DEF CountInv, Count, Carried
  <1>3. /\ Is(t, "Absent") => row[t] = Absent
        /\ Count(Retries, row[t].retries, Carried(at[Sweep], t), at[t].pc # "idle")
    BY DEF CountInv
  <1>4. /\ Carried(at'[Sweep], t) => Carried(at[Sweep], t)
        /\ at'[t].pc # "idle" => at[t].pc # "idle"
    BY DEF Eased
  <1>5. CASE row'[t] = Absent
    BY <1>1, <1>5 DEF Count, Absent
  <1>6. CASE row'[t].retries = row[t].retries /\ (Is(t, "Absent")' => row'[t] = row[t])
    <2>1. row[t].retries \in Nat
      BY DEF FlowInv, RowsInv
    <2> QED BY <1>1, <1>3, <1>4, <1>6, <2>1 DEF Count, Is
  <1> QED BY <1>5, <1>6 DEF RowsKeep

LEMMA CasKeeps ==
    ASSUME FlowInv, NEW t \in Task, NEW expected, "Absent" \notin expected,
           NEW to \in Phase \ {"Absent"}, Cas(t, expected, to)
    PROVE  RowsKeep
  <1>1. \A u \in Task : row'[u] = IF u = t /\ row[t].phase \in expected
                                  THEN [row[u] EXCEPT !.phase = to] ELSE row[u]
    BY DEF Cas, FlowInv, RowsInv
  <1>2. \A u \in Task : /\ row'[u].retries = row[u].retries
                        /\ row'[u] = row[u] \/ row'[u].phase = to
    BY <1>1 DEF FlowInv, RowsInv
  <1> QED BY <1>2 DEF RowsKeep, Is

-------------------------------------------------------------------------------
LEMMA LookingTidy ==
    ASSUME NEW state \in HandlerState, state.on \notin state.todo
    PROVE  /\ Tidy(Looking(state)) /\ Looking(state).pc # "idle"
           /\ Looking(state).on = state.on /\ Looking(state).todo = state.todo
           /\ Looking(state).due = state.due
  <1> DEFINE pc == IF state.left # {} THEN "deps"
                   ELSE IF state.on \in state.due THEN "deadletter" ELSE "attempt"
  <1>1. Looking(state) = [state EXCEPT !.pc = pc]
    BY DEF Looking
  <1>2. pc # "idle" /\ (pc = "attempt" => state.on \notin state.due)
    OBVIOUS
  <1> HIDE DEF pc
  <1>3. /\ Looking(state).pc = pc /\ Looking(state).on = state.on
        /\ Looking(state).todo = state.todo /\ Looking(state).due = state.due
    BY <1>1 DEF HandlerState
  <1> QED BY <1>2, <1>3 DEF Tidy

LEMMA GoOnTidy ==
    ASSUME FlowTypeOK, NEW todo \in SUBSET Made, NEW due \in SUBSET Task,
           NEW next, next = GoOn(todo, due)
    PROVE  Tidy(next) /\ \A t \in Task : Carried(next, t) => t \in todo /\ t \notin due
  <1>1. CASE todo = {}
    BY <1>1 DEF GoOn, Idle, Tidy, Carried
  <1>2. CASE todo # {}
    <2> DEFINE t == Max(todo)
               state == [pc |-> "deps", on |-> t, left |-> call[t].deps,
                         todo |-> todo \ {t}, due |-> due]
    <2>1. t \in todo /\ todo \subseteq Task
      BY <1>2, MaxInList DEF Made
    <2> HIDE DEF t
    <2>2. state \in HandlerState
      BY <2>1 DEF HandlerState, PC, FlowTypeOK, Task
    <2>3. state.on = t /\ state.todo = todo \ {t} /\ state.due = due
      OBVIOUS
    <2>4. GoOn(todo, due) = Looking(state)
      BY <1>2 DEF GoOn, t
    <2> HIDE DEF state
    <2>5. /\ Tidy(Looking(state)) /\ Looking(state).on = t
          /\ Looking(state).todo = todo \ {t} /\ Looking(state).due = due
      BY <2>2, <2>3, LookingTidy
    <2> QED BY <2>1, <2>4, <2>5 DEF Carried
  <1> QED BY <1>1, <1>2

LEMMA BecomeEases ==
    ASSUME FlowInv, CountInv, NEW h \in Handler, NEW state, Become(h, state),
           h \in Task => at[h].pc # "idle" \/ state.pc = "idle",
           h = Sweep => Tidy(state) /\ \A t \in Task : Carried(state, t) => Carried(at[Sweep], t)
    PROVE  Eased
  <1>1. \A g \in Handler : at'[g] = IF g = h THEN state ELSE at[g]
    BY DEF Become, FlowInv, FlowTypeOK
  <1>2. at'[Sweep] = IF h = Sweep THEN state ELSE at[Sweep]
    BY <1>1, LoopsApart
  <1>3. \A t \in Task : at'[t] = IF t = h THEN state ELSE at[t]
    BY <1>1, LoopsApart
  <1> QED BY <1>2, <1>3 DEF Eased, CountInv

LEMMA OverEases ==
    ASSUME FlowInv, CountInv, NEW h \in Handler, NEW is, Over(h, is), at[h].pc # "idle"
    PROVE  /\ Eased
           /\ h = Sweep /\ at[h].on \in Task => ~Carried(at'[h], at[h].on)
           /\ h \in Task => at'[h].pc = "idle"
  <1>1. at \in [Handler -> HandlerState] /\ at[h].todo \in SUBSET Made /\ at[h].due \in SUBSET Task
    BY DEF FlowInv, FlowTypeOK, HandlersInv, Knows, HandlerState
  <1>2. CASE h \in Task
    <2>1. Become(h, Idle) /\ Idle.pc = "idle" /\ h # Sweep
      BY <1>2, LoopsApart DEF Over, Submits, Idle
    <2>2. at'[h] = Idle
      BY <1>1, <2>1 DEF Become
    <2> QED BY <1>2, <2>1, <2>2, BecomeEases
  <1>3. CASE h \notin Task
    <2> DEFINE todo == at[h].todo
               due == at[h].due
               state == GoOn(todo, due)
    <2>1. Become(h, state)
      BY <1>3 DEF Over, Submits
    <2>2. Tidy(state) /\ \A t \in Task : Carried(state, t) => t \in todo /\ t \notin due
      <3>1. FlowTypeOK /\ todo \in SUBSET Made /\ due \in SUBSET Task
        BY <1>1 DEF FlowInv
      <3> HIDE DEF todo, due
      <3>2. state = GoOn(todo, due)
        OBVIOUS
      <3> HIDE DEF state
      <3> QED BY <3>1, <3>2, GoOnTidy
    <2> HIDE DEF state
    <2>3. h = Sweep => \A t \in Task : Carried(state, t) => Carried(at[Sweep], t)
      BY <2>2 DEF Carried
    <2>4. at'[h] = state
      BY <1>1, <2>1 DEF Become
    <2>5. h = Sweep /\ at[h].on \in Task => ~Carried(at'[h], at[h].on)
      <3> SUFFICES ASSUME h = Sweep, at[h].on \in Task, Carried(state, at[h].on) PROVE FALSE
        BY <2>4
      <3>1. at[h].on \notin at[h].todo
        BY DEF CountInv, Tidy
      <3> QED BY <2>2, <3>1
    <2> QED BY <1>3, <2>1, <2>2, <2>3, <2>5, BecomeEases
  <1> QED BY <1>2, <1>3

-------------------------------------------------------------------------------
(* The counts, action by action.                                           *)

(* Before its row is inserted a task has no count.                         *)
LEMMA SubmitCount ==
    ASSUME FlowInv, TryInv, CountInv, NEW t \in Task, Submit(t)
    PROVE  CountInv'
  <1> DEFINE state == [pc |-> "insert", on |-> t, left |-> {}, todo |-> {}, due |-> {}]
  <1>1. ~call[t].made /\ Become(t, state) /\ UNCHANGED <<row, config>>
    BY DEF Submit, store
  <1> HIDE DEF state
  <1>2. row[t] = Absent /\ Retries \in Nat
    BY <1>1 DEF TryInv, FreshInv, Before, CountInv, Retries
  <1>3. \A g \in Handler : at'[g] = IF g = t THEN state ELSE at[g]
    BY <1>1 DEF Become, FlowInv, FlowTypeOK
  <1>4. at'[Sweep] = at[Sweep] /\ \A u \in Task : u # t => at'[u] = at[u]
    BY <1>3, LoopsApart
  <1>5. Retries' = Retries /\ row' = row
    BY <1>1 DEF Retries
  <1>6. ASSUME NEW c, NEW w PROVE Count(Retries, row[t].retries, c, w)
    BY <1>2 DEF Count, Absent
  <1>7. Tidy(at'[Sweep])
    BY <1>4 DEF CountInv
  <1>8. ASSUME NEW u \in Task
        PROVE  /\ Is(u, "Absent")' => row'[u] = Absent
               /\ Count(Retries, row'[u].retries, Carried(at'[Sweep], u), at'[u].pc # "idle")
    BY <1>4, <1>5, <1>6 DEF CountInv, Is
  <1> QED BY <1>5, <1>7, <1>8 DEF CountInv, Tidy, Carried, Count

LEMMA InsertCount ==
    ASSUME FlowInv, TryInv, CountInv, NEW t \in Task, Insert(t)
    PROVE  CountInv'
  <1>1. /\ at[t].pc = "insert" /\ UNCHANGED config
        /\ UNCHANGED row \/ row' = [row EXCEPT ![t].phase = "Pending"]
        /\ \E state : Become(t, state)
    BY DEF Insert, At, clients
  <1>2. Eased
    BY <1>1, LoopsApart, BecomeEases
  <1>3. RowsKeep
    BY <1>1 DEF RowsKeep, Is, FlowInv, RowsInv
  <1> QED BY <1>1, <1>2, <1>3, CountStays

LEMMA LookupCount ==
    ASSUME FlowInv, TryInv, CountInv, NEW t \in Task, Lookup(t)
    PROVE  CountInv'
  <1>1. /\ at[t].pc = "lookup" /\ UNCHANGED <<config, row>> /\ Become(t, Idle)
    BY DEF Lookup, At, store
  <1>2. Eased
    BY <1>1, LoopsApart, BecomeEases
  <1> QED BY <1>1, <1>2, CountStays DEF RowsKeep

LEMMA LookUpDependencyCount ==
    ASSUME FlowInv, TryInv, CountInv, NEW h \in Handler, LookUpDependency(h)
    PROVE  CountInv'
  <1>1. at[h].pc = "deps" /\ UNCHANGED <<row, config>>
    BY DEF LookUpDependency, At, store
  <1>2. PICK d \in at[h].left : \/ Become(h, Looking([at[h] EXCEPT !.left = @ \ {d}]))
                                \/ Over(h, "ok")
    BY DEF LookUpDependency
  <1>3. CASE Over(h, "ok")
    <2>1. Eased
      BY <1>1, <1>3, OverEases
    <2> QED BY <1>1, <2>1, CountStays DEF RowsKeep
  <1>4. CASE Become(h, Looking([at[h] EXCEPT !.left = @ \ {d}]))
    <2> DEFINE state == [at[h] EXCEPT !.left = @ \ {d}]
               new == Looking(state)
    <2>1. at[h] \in HandlerState
      BY DEF FlowInv, FlowTypeOK
    <2>2. /\ state \in HandlerState /\ state.on = at[h].on /\ state.todo = at[h].todo
          /\ state.due = at[h].due
      BY <2>1 DEF HandlerState
    <2> HIDE DEF state
    <2>3. h = Sweep => state.on \notin state.todo
      BY <1>1, <2>2 DEF CountInv, Tidy
    <2>4. h = Sweep => /\ Tidy(new) /\ new.pc # "idle" /\ new.on = at[Sweep].on
                       /\ new.todo = at[Sweep].todo /\ new.due = at[Sweep].due
      BY <2>2, <2>3, LookingTidy
    <2>5. Become(h, new)
      BY <1>4 DEF state
    <2> HIDE DEF new
    <2>6. h = Sweep => \A t \in Task : Carried(new, t) => Carried(at[Sweep], t)
      BY <1>1, <2>4 DEF Carried
    <2>7. Eased
      BY <1>1, <2>4, <2>5, <2>6, BecomeEases
    <2> QED BY <1>1, <2>7, CountStays DEF RowsKeep
  <1> QED BY <1>2, <1>3, <1>4

(* The one place where a retry is counted.                                 *)
LEMMA RefusedCount ==
    ASSUME FlowInv, TryInv, CountInv, NEW h \in Handler, NEW why, Refused(h, why)
    PROVE  CountInv'
  <1>1. at[h].pc = "attempt" /\ UNCHANGED config
    BY DEF Refused, At
  <1>2. PICK t \in Task : t = at[h].on /\ (h \in Task => t = h)
    BY <1>1, WorkPlaced
  <1>3. PICK is : Over(h, is)
    BY DEF Refused
  <1>4. /\ Eased
        /\ h = Sweep => ~Carried(at'[Sweep], t)
        /\ h \in Task => at'[h].pc = "idle"
    BY <1>1, <1>2, <1>3, OverEases
  <1>5. CASE UNCHANGED row \/ Cas(t, {"Pending"}, "Failed")
    <2>1. RowsKeep
      BY <1>5, CasKeeps DEF RowsKeep, Phase
    <2> QED BY <1>1, <1>4, <2>1, CountStays
  <1>6. CASE /\ Retries > 0 /\ h # Loop /\ t \in Present
             /\ row' = [row EXCEPT ![t].retries = @ + 1]
    <2>1. /\ row[t].retries \in Nat /\ row'[t].retries = row[t].retries + 1
          /\ row'[t].phase = row[t].phase /\ ~Is(t, "Absent")
          /\ \A u \in Task : u # t => row'[u] = row[u]
      BY <1>6 DEF FlowInv, RowsInv, Present
    <2>2. Retries \in Nat /\ Retries' = Retries
      BY <1>1 DEF TryInv, Retries
    <2>3. h \in Task \/ h = Sweep
      BY <1>6 DEF Handler, Loop, Sweep, Task
    <2>4. Count(Retries, row[t].retries, Carried(at[Sweep], t), at[t].pc # "idle")
      BY DEF CountInv
    <2>5. /\ Carried(at'[Sweep], t) => Carried(at[Sweep], t)
          /\ at'[t].pc # "idle" => at[t].pc # "idle"
      BY <1>4 DEF Eased
    <2>6. Count(Retries, row'[t].retries, Carried(at'[Sweep], t), at'[t].pc # "idle")
      <3>1. CASE h \in Task
        <4>1. at[t].pc # "idle" /\ at'[t].pc = "idle"
          BY <1>1, <1>2, <1>4, <3>1
        <4> QED BY <1>6, <2>1, <2>2, <2>4, <2>5, <4>1 DEF Count
      <3>2. CASE h = Sweep
        <4>1. Carried(at[Sweep], t) /\ ~Carried(at'[Sweep], t)
          BY <1>1, <1>2, <1>4, <3>2 DEF CountInv, Tidy, Carried
        <4> QED BY <1>6, <2>1, <2>2, <2>4, <2>5, <4>1 DEF Count
      <3> QED BY <2>3, <3>1, <3>2
    <2>7. ASSUME NEW u \in Task, u # t
          PROVE  Count(Retries, row'[u].retries, Carried(at'[Sweep], u), at'[u].pc # "idle")
      <3>1. Count(Retries, row[u].retries, Carried(at[Sweep], u), at[u].pc # "idle")
        BY DEF CountInv
      <3> QED BY <1>4, <2>1, <2>7, <3>1 DEF Count, Eased
    <2>8. \A u \in Task : Is(u, "Absent")' => row'[u] = Absent
      BY <2>1 DEF CountInv, Is
    <2>9. Tidy(at'[Sweep])
      BY <1>4 DEF Eased
    <2> QED BY <2>2, <2>6, <2>7, <2>8, <2>9 DEF CountInv, Tidy, Carried, Count
  <1> QED BY <1>2, <1>5, <1>6 DEF Refused, Counted

LEMMA ClaimCount ==
    ASSUME FlowInv, TryInv, CountInv, NEW h \in Handler, Claim(h)
    PROVE  CountInv'
  <1>1. at[h].pc = "attempt" /\ UNCHANGED config
    BY DEF Claim, At
  <1>2. PICK t \in Task : t = at[h].on
    BY <1>1, WorkPlaced
  <1>3. RowsKeep
    BY <1>2, CasKeeps DEF Claim, Phase
  <1>4. CASE Over(h, "refused")
    <2>1. Eased
      BY <1>1, <1>4, OverEases
    <2> QED BY <1>1, <1>3, <2>1, CountStays
  <1>5. CASE Become(h, [at[h] EXCEPT !.pc = "send"])
    <2> DEFINE state == [at[h] EXCEPT !.pc = "send"]
    <2>1. at[h] \in HandlerState
      BY DEF FlowInv, FlowTypeOK
    <2>2. /\ state.pc = "send" /\ state.on = at[h].on /\ state.todo = at[h].todo
          /\ state.due = at[h].due
      BY <2>1 DEF HandlerState
    <2>3. Become(h, state)
      BY <1>5
    <2> HIDE DEF state
    <2>4. h = Sweep => Tidy(state) /\ \A u \in Task : Carried(state, u) => Carried(at[Sweep], u)
      BY <1>1, <2>2 DEF CountInv, Tidy, Carried
    <2>5. Eased
      BY <1>1, <2>3, <2>4, BecomeEases
    <2> QED BY <1>1, <1>3, <2>5, CountStays
  <1> QED BY <1>4, <1>5 DEF Claim

LEMMA SendCount ==
    ASSUME FlowInv, TryInv, CountInv, NEW h \in Handler, Send(h)
    PROVE  CountInv'
  <1>1. at[h].pc = "send" /\ UNCHANGED config /\ \E is : Over(h, is)
    BY DEF Send, At
  <1>2. PICK t \in Task : t = at[h].on
    BY <1>1, WorkPlaced
  <1>3. RowsKeep
    BY <1>2, CasKeeps DEF Send, Phase, RowsKeep
  <1>4. Eased
    BY <1>1, OverEases
  <1> QED BY <1>1, <1>3, <1>4, CountStays

LEMMA AttemptCount ==
    ASSUME FlowInv, TryInv, CountInv, NEW h \in Handler, Attempt(h)
    PROVE  CountInv'
  BY LookUpDependencyCount, RefusedCount, ClaimCount, SendCount DEF Attempt

(* What the event loop and the outside do counts nothing.                  *)
LEMMA LoopCount ==
    ASSUME FlowInv, TryInv, CountInv,
           \/ \E t \in Task : CompletedHeard(t) \/ OutcomeNotWritten(t)
           \/ ReadyListed
    PROVE  CountInv'
  <1>1. (\E state : Become(Loop, state)) /\ UNCHANGED config
    BY DEF CompletedHeard, OutcomeNotWritten, ReadyListed, clients
  <1>2. Eased
    BY <1>1, LoopsApart, BecomeEases
  <1>3. RowsKeep
    <2>1. CASE UNCHANGED row
      BY <2>1 DEF RowsKeep
    <2>2. CASE \E t \in Task : Cas(t, {"Dispatched"}, "Completed")
      BY <2>2, CasKeeps DEF Phase
    <2> QED BY <2>1, <2>2 DEF CompletedHeard, OutcomeNotWritten, ReadyListed, store
  <1> QED BY <1>1, <1>2, <1>3, CountStays

LEMMA OutsideCount ==
    ASSUME FlowInv, TryInv, CountInv,
           \/ \E t \in Task : \/ FailedHeard(t) \/ ExecutionEnds(t) \/ LostExecutionReaped(t)
                              \/ Cancel(t) \/ DeleteAsked(t) \/ DeleteRow(t)
           \/ UNCHANGED vars
    PROVE  CountInv'
  <1>1. UNCHANGED <<config, at>>
    BY DEF FailedHeard, ExecutionEnds, LostExecutionReaped, Cancel, DeleteAsked, DeleteRow,
           vars, clients
  <1>2. Eased
    BY <1>1 DEF Eased, CountInv
  <1>3. RowsKeep
    <2>1. CASE UNCHANGED row
      BY <2>1 DEF RowsKeep
    <2>2. CASE \E t \in Task : \/ Cas(t, {"Dispatched"}, "Failed")
                               \/ Cas(t, {"Pending", "Dispatched"}, "Cancelled")
      BY <2>2, CasKeeps DEF Phase
    <2>3. CASE \E t \in Task : row' = [row EXCEPT ![t] = Absent]
      BY <2>3 DEF RowsKeep, Is, FlowInv, RowsInv
    <2> QED BY <2>1, <2>2, <2>3 DEF FailedHeard, ExecutionEnds, LostExecutionReaped, Cancel,
                                    DeleteAsked, DeleteRow, vars, store
  <1> QED BY <1>1, <1>2, <1>3, CountStays

(* The sweep begins with the tasks that are below their maximum.           *)
LEMMA SweepListsCount ==
    ASSUME FlowInv, TryInv, CountInv, SweepLists
    PROVE  CountInv'
  <1> DEFINE late == {t \in PendingTasks : Retries > 0 /\ row[t].retries >= Retries}
             todo == PendingTasks
             state == GoOn(todo, late)
  <1>1. Become(Sweep, state) /\ UNCHANGED <<config, row>>
    BY DEF SweepLists, clients, store
  <1>2. todo \in SUBSET Made /\ late \in SUBSET Task
    BY DEF PendingTasks, Scanned, Present, FlowInv, RowsInv
  <1>3. Retries \in Nat /\ Retries' = Retries /\ row' = row
    BY <1>1 DEF TryInv, Retries
  <1>4. \A t \in Task : t \in todo /\ t \notin late /\ Retries > 0 => row[t].retries < Retries
    <2> SUFFICES ASSUME NEW t \in todo, t \in Task, t \notin late, Retries > 0
                 PROVE  row[t].retries < Retries
      OBVIOUS
    <2>1. row[t].retries \in Nat /\ ~(row[t].retries >= Retries)
      BY DEF FlowInv, RowsInv
    <2> QED BY <1>3, <2>1
  <1> HIDE DEF late, todo
  <1>5. Tidy(state) /\ \A t \in Task : Carried(state, t) => t \in todo /\ t \notin late
    <2>1. FlowTypeOK /\ todo \in SUBSET Made /\ late \in SUBSET Task
      BY <1>2 DEF FlowInv
    <2>2. ASSUME NEW next, next = GoOn(todo, late)
          PROVE  Tidy(next) /\ \A t \in Task : Carried(next, t) => t \in todo /\ t \notin late
      BY <2>1, <2>2, GoOnTidy
    <2>3. state = GoOn(todo, late)
      OBVIOUS
    <2> HIDE DEF state
    <2> QED BY <2>2, <2>3
  <1> HIDE DEF state
  <1>6. at'[Sweep] = state /\ \A t \in Task : at'[t] = at[t]
    BY <1>1, LoopsApart DEF Become, FlowInv, FlowTypeOK
  <1>7. ASSUME NEW t \in Task
        PROVE  /\ Is(t, "Absent")' => row'[t] = Absent
               /\ Count(Retries, row'[t].retries, Carried(at'[Sweep], t), at'[t].pc # "idle")
    <2>1. /\ Is(t, "Absent") => row[t] = Absent
          /\ Count(Retries, row[t].retries, Carried(at[Sweep], t), at[t].pc # "idle")
      BY DEF CountInv
    <2>2. Carried(at'[Sweep], t) /\ Retries > 0 => row[t].retries < Retries
      BY <1>4, <1>5, <1>6
    <2>3. row[t].retries \in Nat /\ at'[t] = at[t] /\ row'[t] = row[t]
      BY <1>3, <1>6 DEF FlowInv, RowsInv
    <2> QED BY <1>3, <2>1, <2>2, <2>3 DEF Count, Is
  <1>8. Tidy(at'[Sweep])
    BY <1>5, <1>6
  <1> QED BY <1>3, <1>7, <1>8 DEF CountInv, Tidy, Carried, Count

LEMMA DeadLetterCount ==
    ASSUME FlowInv, TryInv, CountInv, DeadLetter
    PROVE  CountInv'
  <1>1. at[Sweep].pc = "deadletter" /\ Over(Sweep, "ok") /\ UNCHANGED config
    BY DEF DeadLetter, At
  <1>2. PICK t \in Task : t = at[Sweep].on
    BY <1>1, LoopsApart, WorkPlaced
  <1>3. RowsKeep
    BY <1>2, CasKeeps DEF DeadLetter, Phase
  <1>4. Eased
    BY <1>1, LoopsApart, OverEases
  <1> QED BY <1>1, <1>3, <1>4, CountStays

LEMMA StoreFailsCount ==
    ASSUME FlowInv, TryInv, CountInv, NEW h \in Handler, StoreFails(h)
    PROVE  CountInv'
  <1>1. UNCHANGED config /\ at[h].pc # "idle"
    BY DEF StoreFails, At
  <1>2. Eased
    <2>1. CASE \E is : Over(h, is)
      BY <1>1, <2>1, OverEases
    <2>2. CASE At(h, "list") /\ Become(h, Idle)
      <3>1. h = Loop
        BY <2>2 DEF TryInv, Place, At
      <3> QED BY <2>2, <3>1, LoopsApart, BecomeEases
    <2> QED BY <2>1, <2>2 DEF StoreFails
  <1>3. RowsKeep
    <2>1. CASE UNCHANGED row
      BY <2>1 DEF RowsKeep
    <2>2. CASE At(h, "insert") /\ row' = [row EXCEPT ![h].phase = "Pending"]
      <3>1. h \in Task
        BY <2>2 DEF FlowInv, HandlersInv, Knows, At
      <3> QED BY <2>2, <3>1 DEF RowsKeep, Is, FlowInv, RowsInv
    <2>3. CASE At(h, "attempt") /\ Cas(at[h].on, {"Pending"}, "Dispatched")
      <3>1. PICK t \in Task : t = at[h].on
        BY <2>3, WorkPlaced DEF At
      <3> QED BY <2>3, <3>1, CasKeeps DEF Phase
    <2> QED BY <2>1, <2>2, <2>3 DEF StoreFails
  <1> QED BY <1>1, <1>2, <1>3, CountStays

LEMMA CrashCount ==
    ASSUME FlowInv, TryInv, CountInv, Crash
    PROVE  CountInv'
  <1>1. UNCHANGED <<config, row>> /\ at' = [h \in Handler |-> Idle]
    BY DEF Crash, clients, store
  <1>2. Eased
    BY <1>1, LoopsApart DEF Eased, Idle, Tidy, Carried
  <1> QED BY <1>1, <1>2, CountStays DEF RowsKeep

LEMMA NextCount == FlowInv /\ TryInv /\ CountInv /\ [Next]_vars => CountInv'
  <1> SUFFICES ASSUME FlowInv, TryInv, CountInv, [Next]_vars PROVE CountInv'
    OBVIOUS
  <1>1. ASSUME NEW t \in Task, Submit(t) \/ SubmitGoesOn(t) PROVE CountInv'
    BY <1>1, LoopsApart, SubmitCount, InsertCount, LookupCount, AttemptCount DEF SubmitGoesOn
  <1>2. ASSUME NEW h \in Handler, Attempt(h) \/ StoreFails(h) PROVE CountInv'
    BY <1>2, AttemptCount, StoreFailsCount
  <1>3. EventLoop => CountInv'
    BY <1>2, LoopsApart, LoopCount, OutsideCount DEF EventLoop
  <1>4. Reconciler => CountInv'
    BY <1>2, LoopsApart, SweepListsCount, DeadLetterCount DEF Reconciler
  <1> QED BY <1>1, <1>2, <1>3, <1>4, LoopCount, OutsideCount, CrashCount DEF Next

(***************************************************************************)
(* The types of the rest: answers, executions, outcomes, histories.        *)
(***************************************************************************)
AnswerTypes ==
    answer \in [Task -> [is : {"none", "ok", "conflict", "refused"}, id : 0..MaxTasks]]

SetTypes ==
    /\ running \subseteq Task /\ deleting \subseteq Task /\ completed \subseteq Task
    /\ executed \subseteq Task /\ deleted \subseteq Task
    /\ tried \subseteq Task /\ excused \subseteq Task
    /\ events \subseteq Task \X BOOLEAN

BoundTypes == upsets \in 0..MaxUpsets /\ faulty \in BOOLEAN

RestTypes == AnswerTypes /\ SetTypes /\ BoundTypes

LEMMA InitRest == Init => RestTypes
  <1> SUFFICES ASSUME Init PROVE RestTypes
    OBVIOUS
  <1>1. AnswerTypes
    BY DEF Init, AnswerTypes
  <1>2. SetTypes
    BY DEF Init, SetTypes
  <1>3. BoundTypes
    <2>1. upsets = 0 /\ faulty = FALSE
      BY DEF Init
    <2>2. faulty \in BOOLEAN
      BY <2>1
    <2> QED BY <2>1, <2>2 DEF BoundTypes
  <1> QED BY <1>1, <1>2, <1>3 DEF RestTypes

LEMMA AnswerTyped ==
    ASSUME AnswerTypes, NEW t \in Task, NEW is \in {"none", "ok", "conflict", "refused"},
           NEW id \in 0..MaxTasks, Answer(t, is, id)
    PROVE  AnswerTypes'
  BY DEF AnswerTypes, Answer

LEMMA OverTyped ==
    ASSUME AnswerTypes, NEW h, NEW is \in {"ok", "refused"}, Over(h, is)
    PROVE  AnswerTypes'
  <1>1. CASE h \in Task
    <2>1. (IF is = "ok" THEN h ELSE 0) \in 0..MaxTasks
      BY <1>1 DEF Task
    <2> QED BY <1>1, <2>1, AnswerTyped DEF Over, Submits
  <1>2. CASE h \notin Task
    BY <1>2 DEF Over, Submits, AnswerTypes
  <1> QED BY <1>1, <1>2

LEMMA UpsetTyped ==
    ASSUME BoundTypes, Upset, faulty' = TRUE \/ faulty' = faulty
    PROVE  BoundTypes'
  <1>1. upsets' \in 0..MaxUpsets
    BY DEF BoundTypes, Upset
  <1>2. faulty' \in BOOLEAN
    BY DEF BoundTypes
  <1> QED BY <1>1, <1>2 DEF BoundTypes

LEMMA SubmitRest ==
    ASSUME RestTypes, NEW t \in Task, Submit(t) \/ Insert(t) \/ Lookup(t)
    PROVE  RestTypes'
  <1>1. SetTypes' /\ BoundTypes'
    BY DEF Submit, Insert, Lookup, RestTypes, SetTypes, BoundTypes,
           clients, store, workers, bounds, attempts
  <1>2. CASE Submit(t) \/ Insert(t)
    <2>1. UNCHANGED answer
      BY <1>2 DEF Submit, Insert, clients
    <2> QED BY <1>1, <2>1 DEF RestTypes, AnswerTypes
  <1>3. CASE Lookup(t)
    <2>1. ASSUME NEW u \in Task, Answer(t, "ok", u) PROVE AnswerTypes'
      BY <2>1, AnswerTyped DEF RestTypes, Task
    <2>2. Answer(t, "refused", 0) \/ Answer(t, "conflict", 0) => AnswerTypes'
      BY AnswerTyped DEF RestTypes
    <2>3. \/ Answer(t, "refused", 0) \/ Answer(t, "conflict", 0)
          \/ \E u \in Task : Answer(t, "ok", u)
      BY <1>3 DEF Lookup, Present
    <2> QED BY <1>1, <2>1, <2>2, <2>3 DEF RestTypes
  <1> QED BY <1>1, <1>2, <1>3 DEF RestTypes

LEMMA AttemptRest ==
    ASSUME FlowInv, TryInv, RestTypes, NEW h \in Handler, Attempt(h)
    PROVE  RestTypes'
  <1>1. CASE LookUpDependency(h)
    <2>1. SetTypes' /\ BoundTypes'
      BY <1>1 DEF LookUpDependency, RestTypes, SetTypes, BoundTypes, store, workers, bounds, attempts
    <2>2. UNCHANGED answer \/ Over(h, "ok")
      BY <1>1 DEF LookUpDependency
    <2> QED BY <2>1, <2>2, OverTyped DEF RestTypes, AnswerTypes
  <1>2. CASE Claim(h)
    <2>1. at[h].on \in Task
      BY <1>2, WorkPlaced DEF Claim, At
    <2>2. SetTypes' /\ BoundTypes'
      BY <1>2, <2>1 DEF Claim, Tries, RestTypes, SetTypes, BoundTypes, workers, bounds
    <2>3. UNCHANGED answer \/ Over(h, "refused")
      BY <1>2 DEF Claim
    <2> QED BY <2>2, <2>3, OverTyped DEF RestTypes, AnswerTypes
  <1>3. CASE Send(h)
    <2>1. at[h].on \in Task
      BY <1>3, WorkPlaced DEF Send, At
    <2>2. SetTypes' /\ BoundTypes'
      BY <1>3, <2>1 DEF Send, RestTypes, SetTypes, BoundTypes, bounds, attempts
    <2>3. Over(h, "ok") \/ Over(h, "refused")
      BY <1>3 DEF Send
    <2> QED BY <2>2, <2>3, OverTyped DEF RestTypes
  <1>4. ASSUME NEW why, Refused(h, why) PROVE RestTypes'
    <2>1. at[h].on \in Task
      BY <1>4, WorkPlaced DEF Refused, At
    <2>2. Tries(h) /\ Excuse(h, why)
      BY <1>4 DEF Refused
    <2>3. tried' \subseteq Task /\ excused' \subseteq Task
      BY <2>1, <2>2 DEF Tries, Excuse, RestTypes, SetTypes
    <2>4. SetTypes' /\ BoundTypes'
      BY <1>4, <2>3 DEF Refused, RestTypes, SetTypes, BoundTypes, workers, bounds
    <2>5. Over(h, "ok") \/ Over(h, "refused")
      BY <1>4 DEF Refused
    <2> QED BY <2>4, <2>5, OverTyped DEF RestTypes
  <1> QED BY <1>1, <1>2, <1>3, <1>4 DEF Attempt

LEMMA LoopRest ==
    ASSUME RestTypes,
           \/ \E t \in Task : CompletedHeard(t) \/ FailedHeard(t)
           \/ ReadyListed \/ SweepLists
    PROVE  RestTypes'
  <1>1. UNCHANGED <<answer, upsets, faulty, running, deleting, executed, deleted, tried, excused>>
    BY DEF CompletedHeard, FailedHeard, ReadyListed, SweepLists,
           clients, store, workers, bounds, attempts
  <1>2. completed' \subseteq Task /\ events' \subseteq events
    BY DEF CompletedHeard, FailedHeard, ReadyListed, SweepLists,
           store, workers, RestTypes, SetTypes
  <1> QED BY <1>1, <1>2 DEF RestTypes, AnswerTypes, SetTypes, BoundTypes

LEMMA OutsideRest ==
    ASSUME RestTypes, NEW t \in Task,
           \/ ExecutionEnds(t) \/ LostExecutionReaped(t) \/ Cancel(t)
           \/ DeleteAsked(t) \/ DeleteRow(t) \/ OutcomeNotWritten(t)
    PROVE  RestTypes'
  <1>1. UNCHANGED <<answer, completed, executed, tried, excused>>
    BY DEF ExecutionEnds, LostExecutionReaped, Cancel, DeleteAsked, DeleteRow,
           OutcomeNotWritten, clients, store, attempts
  <1>2. /\ running' \subseteq running /\ deleted' \subseteq deleted \cup {t}
        /\ deleting' \subseteq deleting \cup {t}
    BY DEF ExecutionEnds, LostExecutionReaped, Cancel, DeleteAsked, DeleteRow,
           OutcomeNotWritten, store, workers
  <1>3. events' \subseteq Task \X BOOLEAN
    <2>1. ASSUME NEW well \in BOOLEAN, events' = events \cup {<<t, well>>}
          PROVE  events' \subseteq Task \X BOOLEAN
      BY <2>1 DEF RestTypes, SetTypes
    <2>2. events' \subseteq events \/ \E well \in BOOLEAN : events' = events \cup {<<t, well>>}
      BY DEF ExecutionEnds, LostExecutionReaped, Cancel, DeleteAsked, DeleteRow,
             OutcomeNotWritten, workers
    <2> QED BY <2>1, <2>2 DEF RestTypes, SetTypes
  <1>4. \/ UNCHANGED bounds
        \/ Upset /\ (faulty' = TRUE \/ faulty' = faulty)
    BY DEF ExecutionEnds, LostExecutionReaped, Cancel, DeleteAsked, DeleteRow,
           OutcomeNotWritten
  <1>5. BoundTypes'
    BY <1>4, UpsetTyped DEF RestTypes, BoundTypes, bounds
  <1> QED BY <1>1, <1>2, <1>3, <1>5 DEF RestTypes, AnswerTypes, SetTypes

LEMMA FaultRest ==
    ASSUME FlowInv, TryInv, RestTypes, NEW h \in Handler, StoreFails(h) \/ Crash
    PROVE  RestTypes'
  <1>1. BoundTypes'
    BY UpsetTyped DEF StoreFails, Crash, RestTypes
  <1>2. CASE StoreFails(h)
    <2>1. executed' \subseteq Task
      <3>1. CASE UNCHANGED executed
        BY <3>1 DEF RestTypes, SetTypes
      <3>2. CASE At(h, "attempt") /\ executed' = executed \cup {at[h].on}
        BY <3>2, WorkPlaced DEF At
      <3> QED BY <1>2, <3>1, <3>2 DEF StoreFails
    <2>2. SetTypes'
      BY <1>2, <2>1 DEF StoreFails, RestTypes, SetTypes, workers, attempts
    <2>3. UNCHANGED answer \/ Over(h, "ok") \/ Over(h, "refused")
      BY <1>2 DEF StoreFails
    <2> QED BY <1>1, <2>2, <2>3, OverTyped DEF RestTypes, AnswerTypes
  <1>3. CASE Crash
    BY <1>1, <1>3 DEF Crash, RestTypes, AnswerTypes, SetTypes, clients, store, attempts
  <1> QED BY <1>2, <1>3

LEMMA NextRest == FlowInv /\ TryInv /\ RestTypes /\ [Next]_vars => RestTypes'
  <1> SUFFICES ASSUME FlowInv, TryInv, RestTypes, [Next]_vars PROVE RestTypes'
    OBVIOUS
  <1>1. ASSUME NEW t \in Task, Submit(t) \/ SubmitGoesOn(t) PROVE RestTypes'
    BY <1>1, LoopsApart, SubmitRest, AttemptRest DEF SubmitGoesOn
  <1>2. EventLoop => RestTypes'
    BY LoopsApart, LoopRest, AttemptRest DEF EventLoop
  <1>3. CASE DeadLetter
    <2>1. AnswerTypes'
      BY <1>3, OverTyped DEF DeadLetter, RestTypes
    <2> QED BY <1>3, <2>1 DEF DeadLetter, RestTypes, SetTypes, BoundTypes, workers, bounds, attempts
  <1>4. Reconciler => RestTypes'
    BY <1>3, LoopsApart, LoopRest, AttemptRest DEF Reconciler
  <1>5. CASE UNCHANGED vars
    BY <1>5 DEF vars, clients, store, workers, bounds, attempts,
                RestTypes, AnswerTypes, SetTypes, BoundTypes
  <1> QED BY <1>1, <1>2, <1>4, <1>5, LoopsApart, OutsideRest, FaultRest DEF Next

(* A retry is counted once more than max_dispatch_retries at most, however *)
(* the sweep, the submit calls, cancels, deletions and crashes interleave; *)
(* and every row, handler, answer and history has its type                 *)
(* (increment_task_retry_count, reconcile_once).                           *)
THEOREM RetriesAreBounded == Spec => []TypeOK
  <1>1. Init => CountInv /\ RestTypes
    BY InitCount, InitRest
  <1>2. FlowInv /\ TryInv /\ CountInv /\ RestTypes /\ [Next]_vars => (CountInv /\ RestTypes)'
    BY NextCount, NextRest
  <1>3. FlowInv /\ TryInv /\ CountInv /\ RestTypes => TypeOK
    <2> SUFFICES ASSUME FlowInv, TryInv, CountInv, RestTypes PROVE TypeOK
      OBVIOUS
    <2>1. ASSUME NEW t \in Task
          PROVE  row[t] \in [phase : Phase, retries : 0..(config.retries + 1)]
      <3>1. row[t] \in [phase : Phase, retries : Nat]
        BY DEF FlowInv, RowsInv
      <3>2. row[t].retries <= config.retries + 1 /\ config.retries \in Nat
        BY DEF CountInv, Count, TryInv, Retries
      <3>3. row[t].retries \in 0..(config.retries + 1)
        BY <3>1, <3>2
      <3> QED BY <3>1, <3>3
    <2>2. row \in [Task -> [phase : Phase, retries : 0..(config.retries + 1)]]
      BY <2>1 DEF FlowInv, RowsInv
    <2>3. /\ call \in [Task -> [made : BOOLEAN, key : Key \cup {NoKey}, deps : SUBSET Task]]
          /\ at \in [Handler -> [pc : PC, on : 0..MaxTasks, left : SUBSET Task,
                                 todo : SUBSET Task, due : SUBSET Task]]
      BY DEF FlowInv, FlowTypeOK, HandlerState
    <2> QED BY <2>2, <2>3 DEF TypeOK, TryInv, RestTypes, AnswerTypes, SetTypes, BoundTypes
  <1> QED BY <1>1, <1>2, <1>3, FlowInvariant, PTL DEF Spec
=============================================================================
