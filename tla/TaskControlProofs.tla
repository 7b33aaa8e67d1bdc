--------------------------- MODULE TaskControlProofs ---------------------------
(***************************************************************************)
(* Theorems about module TaskControl, for every set of instances, tasks    *)
(* and request places, every epoch bound and every choice of faults: type  *)
(* correctness, what compare_and_set_task_status owes its callers, and     *)
(* that rows, handlers and executions fit together (Fits).                 *)
(***************************************************************************)
EXTENDS TaskControl, FiniteSetTheorems, TLAPS

USE TaskAssumption, NoneAssumption, SlotAssumption, FaultsAssumption, MaxEpochAssumption

(***************************************************************************)
(* No instance believes in an epoch, and no handler carries a fence, that  *)
(* is beyond the last grant of its instance; and no grant is beyond the    *)
(* row.  A fence the row accepts is then the last grant of its carrier.    *)
(***************************************************************************)
FencesAreGranted ==
    /\ \A i \in Instance : belief[i] =< mine[i] /\ mine[i] =< epoch
    /\ \A i \in Instance, p \in Place : job[i][p].fence =< mine[i]

Inv == TypeOK /\ FencesAreGranted

(* A handler of instance i that is well typed and whose fence was granted. *)
GoodJob(i, j) == j \in Job /\ j.fence =< mine[i]

-----------------------------------------------------------------------------
(* The steps of statements and the places of requests are what they seem.  *)
LEMMA Steps ==
    /\ DOMAIN Transition =
         {"claiming", "givingUp", "deadLettering", "sendFailing", "recoverFailing",
          "vanishFailing", "lostFailing", "cancelling", "signalledCancelling",
          "completing", "failing"}
    /\ Slot \subseteq Place
    /\ "loop" \in Place /\ "sweep" \in Place
  BY DEF Transition, Move, Decision, Outcome, Place

(* Every transition leads to a phase, and none leaves an ended one.        *)
LEMMA Transitions ==
    ASSUME NEW step \in DOMAIN Transition
    PROVE  /\ Transition[step].to \in Phase
           /\ Transition[step].from \subseteq {"Pending", "Dispatched"}
           /\ Transition[step].origin \in Origin
  BY Steps DEF Transition, Move, Decision, Outcome, Phase, Origin

(* An applied transition writes a row.                                     *)
LEMMA MovedRow ==
    ASSUME NEW row \in TaskRow, NEW to \in Phase, NEW fence \in Nat
    PROVE  Moved(row, to, fence) \in TaskRow /\ Moved(row, to, fence).phase = to
  BY DEF Moved, TaskRow, NoFence

(* A transition is applied only from an expected phase, under a fence that *)
(* is the row's epoch, if there is a fence.                                *)
LEMMA Applied ==
    ASSUME NEW row, NEW epoch_, NEW expected, NEW fence, NEW origin,
           CasOutcome(row, epoch_, expected, fence, origin) = "Applied"
    PROVE  row.phase \in expected /\ FenceHolds(fence, epoch_)
  BY DEF CasOutcome

-----------------------------------------------------------------------------
(* Handler j with another step, list, row and fence.                       *)
Edited(j, step, listed, on, fence) ==
    [j EXCEPT !.step = step, !.listed = listed, !.on = on, !.fence = fence]

(* A handler that changes its step, its list and its row is well typed.    *)
LEMMA EditedJob ==
    ASSUME NEW j \in Job, NEW step \in Step, NEW listed \in SUBSET Task,
           NEW on \in Task \cup {None}, NEW fence \in Nat
    PROVE  /\ Edited(j, step, listed, on, fence) \in Job
           /\ Edited(j, step, listed, on, fence).fence = fence
  <1> DEFINE k1 == [j EXCEPT !.step = step]
             k2 == [k1 EXCEPT !.listed = listed]
             k3 == [k2 EXCEPT !.on = on]
             k4 == [k3 EXCEPT !.fence = fence]
  <1>1. k1 \in Job
    BY DEF Job
  <1>2. k2 \in Job
    <2> HIDE DEF k1
    <2> QED BY <1>1 DEF Job
  <1>3. k3 \in Job
    <2> HIDE DEF k2
    <2> QED BY <1>2 DEF Job
  <1>4. k4 \in Job /\ k4.fence = fence
    <2> HIDE DEF k3
    <2> QED BY <1>3 DEF Job
  <1>5. k4 = Edited(j, step, listed, on, fence)
    BY DEF Edited
  <1> HIDE DEF k4
  <1> QED BY <1>4, <1>5

(* The handlers there are, are good.                                       *)
LEMMA JobGood ==
    ASSUME Inv, NEW i \in Instance, NEW p \in Place
    PROVE  GoodJob(i, job[i][p])
  BY DEF GoodJob, Inv, TypeOK, FencesAreGranted

(* An idle place is a good handler of anybody.                             *)
LEMMA IdleGood ==
    ASSUME Inv, NEW i \in Instance
    PROVE  GoodJob(i, Idle)
  BY DEF GoodJob, Inv, TypeOK, AuthorityTypeOK, Idle, Job, Step, NoFence

(* A handler that only moves on stays good.                                *)
LEMMA GotoGood ==
    ASSUME Inv, NEW i \in Instance, NEW p \in Place, NEW step \in Step
    PROVE  GoodJob(i, [job[i][p] EXCEPT !.step = step])
  BY JobGood DEF GoodJob, Job

(* A handler that begins for a task is good.                               *)
LEMMA BeginsGood ==
    ASSUME Inv, NEW i \in Instance, NEW step \in Step, NEW t \in Task
    PROVE  GoodJob(i, [Idle EXCEPT !.step = step, !.task = t])
  BY IdleGood DEF GoodJob, Idle, Job

(* A handler that reads its fence and writes stays good.                   *)
LEMMA WriteGood ==
    ASSUME Inv, NEW i \in Instance, NEW p \in Place, NEW step \in Step,
           NEW t \in Task \cup {None}
    PROVE  GoodJob(i, [job[i][p] EXCEPT !.step = step, !.on = t, !.fence = ControlFence(i)])
  <1>1. GoodJob(i, job[i][p])
    BY JobGood
  <1>2. belief[i] \in Nat /\ belief[i] =< mine[i]
    BY DEF Inv, TypeOK, AuthorityTypeOK, FencesAreGranted
  <1> QED BY <1>1, <1>2 DEF GoodJob, Job, ControlFence

(* A handler whose statement is answered stays good.                       *)
LEMMA AnsweredGood ==
    ASSUME Inv, NEW i \in Instance, NEW j, GoodJob(i, j), NEW applied
    PROVE  GoodJob(i, Answered(j, applied))
  <1>0. mine[i] \in Nat /\ {"judge", "send", "reap", "sweep"} \subseteq Step
    BY DEF Inv, TypeOK, AuthorityTypeOK, Step
  <1>1. GoodJob(i, Judged(j, j.on))
    <2>1. j.listed \ {j.on} \in SUBSET Task /\ None \in Task \cup {None}
      BY DEF GoodJob, Job
    <2>2. j \in Job /\ "judge" \in Step /\ NoFence \in Nat
      BY <1>0 DEF GoodJob, NoFence
    <2> DEFINE k == Edited(j, "judge", j.listed \ {j.on}, None, NoFence)
    <2>3. k \in Job /\ k.fence = NoFence
      BY <2>1, <2>2, EditedJob
    <2>4. GoodJob(i, k)
      <3> HIDE DEF k
      <3> QED BY <1>0, <2>3 DEF GoodJob, NoFence
    <2>5. Judged(j, j.on) = IF j.listed = {j.on} THEN Idle ELSE k
      BY DEF Judged, Edited
    <2> HIDE DEF k
    <2> QED BY <2>4, <2>5, IdleGood
  <1>2. GoodJob(i, [j EXCEPT !.step = "send", !.on = None])
    BY <1>0 DEF GoodJob, Job
  <1>3. GoodJob(i, [j EXCEPT !.step = "reap", !.listed = @ \ {j.on}, !.on = None,
                             !.fence = NoFence])
    <2>1. j.listed \ {j.on} \in SUBSET Task /\ None \in Task \cup {None}
      BY DEF GoodJob, Job
    <2>2. j \in Job /\ "reap" \in Step /\ NoFence \in Nat
      BY <1>0 DEF GoodJob, NoFence
    <2> DEFINE k == Edited(j, "reap", j.listed \ {j.on}, None, NoFence)
    <2>3. k \in Job /\ k.fence = NoFence
      BY <2>1, <2>2, EditedJob
    <2> HIDE DEF k
    <2>4. GoodJob(i, k)
      BY <1>0, <2>3 DEF GoodJob, NoFence
    <2> QED BY <2>4 DEF k, Edited
  <1>4. GoodJob(i, [Idle EXCEPT !.step = "sweep"])
    BY <1>0, IdleGood DEF GoodJob, Job, Idle
  <1> QED BY <1>1, <1>2, <1>3, <1>4, IdleGood DEF Answered

(* One good handler more, and everything else as before: the jobs stay     *)
(* well typed and their fences granted.                                    *)
LEMMA BecomeGood ==
    ASSUME Inv, NEW i \in Instance, NEW p \in Place, NEW j, GoodJob(i, j),
           Become(i, p, j), UNCHANGED authorityVars
    PROVE  job' \in [Instance -> [Place -> Job]] /\ FencesAreGranted'
  BY DEF Inv, TypeOK, GoodJob, Become, FencesAreGranted, authorityVars

(* A step of one handler that touches nothing else keeps the invariant.    *)
LEMMA HandlerInv ==
    ASSUME Inv, NEW i \in Instance, NEW p \in Place, NEW j, GoodJob(i, j),
           Become(i, p, j), UNCHANGED allButJob
    PROVE  Inv'
  <1>1. job' \in [Instance -> [Place -> Job]] /\ FencesAreGranted'
    BY BecomeGood DEF allButJob
  <1> QED BY <1>1 DEF Inv, TypeOK, AuthorityTypeOK, allButJob, authorityVars, workerVars

(* The usual ends of such a step: a place left, a step taken, a statement. *)
LEMMA IdleInv ==
    ASSUME Inv, NEW i \in Instance, NEW p \in Place,
           Become(i, p, Idle), UNCHANGED allButJob
    PROVE  Inv'
  BY IdleGood, HandlerInv

LEMMA GotoInv ==
    ASSUME Inv, NEW i \in Instance, NEW p \in Place, NEW step \in Step,
           Goto(i, p, step), UNCHANGED allButJob
    PROVE  Inv'
  <1> DEFINE j == [job[i][p] EXCEPT !.step = step]
  <1>1. GoodJob(i, j) /\ Become(i, p, j)
    BY GotoGood DEF Goto
  <1> HIDE DEF j
  <1> QED BY <1>1, HandlerInv

LEMMA WriteInv ==
    ASSUME Inv, NEW i \in Instance, NEW p \in Place, NEW step \in Step,
           NEW t \in Task \cup {None}, Write(i, p, step, t), UNCHANGED allButJob
    PROVE  Inv'
  <1> DEFINE j == [job[i][p] EXCEPT !.step = step, !.on = t, !.fence = ControlFence(i)]
  <1>1. GoodJob(i, j) /\ Become(i, p, j)
    BY WriteGood DEF Write
  <1> HIDE DEF j
  <1> QED BY <1>1, HandlerInv

(* The names of the steps, and the task a handler was called for.          *)
LEMMA StepNames ==
    /\ InFlight \subseteq Step
    /\ {"claiming", "givingUp", "deadLettering", "sendFailing", "recoverFailing",
        "vanishFailing", "lostFailing", "cancelling", "signalledCancelling",
        "completing", "failing", "recording"} \subseteq Step
    /\ {"idle", "recover", "ask", "list", "reap", "claim", "send", "cancelRead",
        "cancelSignal", "completed", "failed", "sweep", "judge"} \subseteq Step
  BY Steps DEF Step, InFlight

LEMMA JobFields ==
    ASSUME Inv, NEW i \in Instance, NEW p \in Place
    PROVE  /\ job[i][p].task \in Task \cup {None}
           /\ job[i][p].on \in Task \cup {None}
           /\ job[i][p].listed \subseteq Task
           /\ job[i][p].sessions \subseteq Task
           /\ job[i][p].fence \in Nat
           /\ job[i][p].step \in Step
           /\ job[i][p] \in Job
  BY DEF Inv, TypeOK, Job

-----------------------------------------------------------------------------
(* The steps of a request that change nothing but their handler.           *)
LEMMA DispatchBeginsInv ==
    ASSUME Inv, NEW i \in Instance, NEW s \in Slot, NEW t \in Task,
           DispatchBegins(i, s, t) \/ CancelBegins(i, s, t)
    PROVE  Inv'
  <1>1. PICK step \in {"recover", "cancelRead"} :
           Become(i, s, [Idle EXCEPT !.step = step, !.task = t]) /\ UNCHANGED allButJob
    BY DEF DispatchBegins, CancelBegins
  <1> DEFINE j == [Idle EXCEPT !.step = step, !.task = t]
  <1>2. GoodJob(i, j) /\ s \in Place
    BY BeginsGood, StepNames, Steps
  <1> HIDE DEF j
  <1> QED BY <1>1, <1>2, HandlerInv DEF j

LEMMA RefusedInv ==
    ASSUME Inv, NEW i \in Instance, NEW s \in Slot, DispatchRefused(i, s)
    PROVE  Inv'
  <1>1. s \in Place /\ "givingUp" \in Step /\ job[i][s].task \in Task \cup {None}
    BY Steps, StepNames, JobFields
  <1> QED BY <1>1, WriteInv, IdleInv DEF DispatchRefused

LEMMA AskInventoryInv ==
    ASSUME Inv, NEW i \in Instance, NEW s \in Slot, AskInventory(i, s)
    PROVE  Inv'
  <1> DEFINE j == [job[i][s] EXCEPT !.step = "list", !.sessions = Held]
  <1>1. s \in Place /\ "reap" \in Step /\ "list" \in Step
    BY Steps, StepNames
  <1>2. GoodJob(i, j)
    BY <1>1, JobGood DEF GoodJob, Job, Held
  <1> HIDE DEF j
  <1> QED BY <1>1, <1>2, GotoInv, HandlerInv DEF AskInventory, j

LEMMA ListForRecoveryInv ==
    ASSUME Inv, NEW i \in Instance, NEW s \in Slot, ListForRecovery(i, s)
    PROVE  Inv'
  <1> DEFINE gone == {t \in Task : task[t].phase = "Dispatched" /\ task[t].session}
                          \ job[i][s].sessions
             j == [job[i][s] EXCEPT !.step = "reap", !.listed = gone, !.sessions = {}]
             k == [job[i][s] EXCEPT !.step = "reap", !.sessions = {}]
  <1>1. s \in Place /\ "reap" \in Step
    BY Steps, StepNames
  <1>2. GoodJob(i, j)
    <2>1. gone \subseteq Task
      OBVIOUS
    <2> HIDE DEF gone
    <2> QED BY <1>1, <2>1, JobGood DEF GoodJob, Job
  <1>3. GoodJob(i, k)
    BY <1>1, JobGood DEF GoodJob, Job
  <1>4. (Become(i, s, j) \/ Become(i, s, k)) /\ UNCHANGED allButJob
    BY DEF ListForRecovery
  <1> HIDE DEF j, k
  <1> QED BY <1>1, <1>2, <1>3, <1>4, HandlerInv

LEMMA RequestWritesInv ==
    ASSUME Inv, NEW i \in Instance, NEW s \in Slot,
           ReapVanished(i, s) \/ Claim(i, s) \/ SendFails(i, s) \/ CancelSignals(i, s)
    PROVE  Inv'
  <1>1. s \in Place /\ job[i][s].task \in Task \cup {None} /\ job[i][s].listed \subseteq Task
    BY Steps, JobFields
  <1>2. {"recoverFailing", "claiming", "sendFailing", "signalledCancelling"} \subseteq Step
    BY StepNames
  <1>3. PICK step \in Step, t \in Task \cup {None} : Write(i, s, step, t)
    BY <1>1, <1>2 DEF ReapVanished, Claim, SendFails, CancelSignals
  <1>4. UNCHANGED allButJob
    BY DEF ReapVanished, Claim, SendFails, CancelSignals
  <1> QED BY <1>1, <1>3, <1>4, WriteInv

LEMMA CancelReadsInv ==
    ASSUME Inv, NEW i \in Instance, NEW s \in Slot, CancelReads(i, s)
    PROVE  Inv'
  <1>1. s \in Place /\ job[i][s].task \in Task \cup {None}
    BY Steps, JobFields
  <1>2. "cancelSignal" \in Step /\ "cancelling" \in Step /\ UNCHANGED allButJob
    BY StepNames DEF CancelReads
  <1>3. CASE Become(i, s, Idle)
    BY <1>1, <1>2, <1>3, IdleInv
  <1>4. CASE Goto(i, s, "cancelSignal")
    BY <1>1, <1>2, <1>4, GotoInv
  <1>5. CASE Write(i, s, "cancelling", job[i][s].task)
    BY <1>1, <1>2, <1>5, WriteInv
  <1> QED BY <1>3, <1>4, <1>5 DEF CancelReads

(* ... and those that change the ledger or the worker.                     *)
LEMMA RecoverWorkerInv ==
    ASSUME Inv, NEW i \in Instance, NEW s \in Slot, RecoverWorker(i, s)
    PROVE  Inv'
  <1> DEFINE current == IF ledger[i].generation = ControlFence(i)
                        THEN ledger[i]
                        ELSE [NewLedger EXCEPT !.generation = ControlFence(i)]
             step == IF current.asked THEN "claim" ELSE "ask"
             j == [job[i][s] EXCEPT !.step = step]
  <1>1. s \in Place /\ step \in Step
    BY Steps, StepNames
  <1>2. GoodJob(i, j)
    <2> HIDE DEF step
    <2> QED BY <1>1, GotoGood
  <1>3. current \in [generation : Nat, asked : BOOLEAN]
    BY DEF Inv, TypeOK, AuthorityTypeOK, NewLedger, NoFence, ControlFence
  <1>4. /\ ledger' = [ledger EXCEPT ![i] = current]
        /\ Become(i, s, j)
        /\ UNCHANGED <<authorityVars, task, inbox, up, workerVars>>
    BY DEF RecoverWorker, Goto
  <1> HIDE DEF current, j
  <1>5. job' \in [Instance -> [Place -> Job]] /\ FencesAreGranted'
    BY <1>1, <1>2, <1>4, BecomeGood
  <1> QED BY <1>3, <1>4, <1>5 DEF Inv, TypeOK, AuthorityTypeOK, authorityVars, workerVars

LEMMA MarkAskedInv ==
    ASSUME Inv, NEW i \in Instance, NEW s \in Slot, MarkAsked(i, s)
    PROVE  Inv'
  <1> DEFINE j == [job[i][s] EXCEPT !.step = "claim"]
  <1>1. s \in Place /\ "claim" \in Step
    BY Steps, StepNames
  <1>2. GoodJob(i, j)
    BY <1>1, GotoGood
  <1>3. /\ ledger' = [ledger EXCEPT ![i].asked = TRUE]
        /\ Become(i, s, j)
        /\ UNCHANGED <<authorityVars, task, inbox, up, workerVars>>
    BY DEF MarkAsked, Goto
  <1> HIDE DEF j
  <1>4. job' \in [Instance -> [Place -> Job]] /\ FencesAreGranted'
    BY <1>1, <1>2, <1>3, BecomeGood
  <1>5. ledger' \in [Instance -> [generation : Nat, asked : BOOLEAN]]
    <2>1. ASSUME NEW l \in [generation : Nat, asked : BOOLEAN]
          PROVE  [l EXCEPT !.asked = TRUE] \in [generation : Nat, asked : BOOLEAN]
      OBVIOUS
    <2>2. ledger' = [ledger EXCEPT ![i] = [ledger[i] EXCEPT !.asked = TRUE]]
      BY <1>3
    <2> QED BY <2>1, <2>2 DEF Inv, TypeOK
  <1> QED BY <1>3, <1>4, <1>5 DEF Inv, TypeOK, AuthorityTypeOK, authorityVars, workerVars

LEMMA SendInv ==
    ASSUME Inv, NEW i \in Instance, NEW s \in Slot, Send(i, s)
    PROVE  Inv'
  <1>1. s \in Place /\ job[i][s].fence \in Nat
    BY Steps, JobFields
  <1>2. /\ exec' = [exec EXCEPT ![job[i][s].task] =
                      [by |-> i, generation |-> job[i][s].fence, state |-> "opening"]]
        /\ Become(i, s, Idle)
        /\ UNCHANGED <<authorityVars, task, ledger, inbox, up, routed, worker, outlived>>
    BY DEF Send
  <1>3. job' \in [Instance -> [Place -> Job]] /\ FencesAreGranted'
    BY <1>1, <1>2, IdleGood, BecomeGood
  <1> QED BY <1>1, <1>2, <1>3 DEF Inv, TypeOK, AuthorityTypeOK, authorityVars

LEMMA RequestInv ==
    ASSUME Inv, NEW i \in Instance, NEW s \in Slot, Request(i, s)
    PROVE  Inv'
  BY DispatchBeginsInv, RefusedInv, AskInventoryInv, ListForRecoveryInv, RequestWritesInv,
     CancelReadsInv, RecoverWorkerInv, MarkAskedInv, SendInv DEF Request

-----------------------------------------------------------------------------
(* The event loop.                                                         *)
LEMMA EventLoopInv ==
    ASSUME Inv, NEW i \in Instance, EventLoop(i)
    PROVE  Inv'
  <1>0. /\ "loop" \in Place
        /\ {"recording", "completing", "failing", "completed", "failed"} \subseteq Step
    BY Steps, StepNames
  <1>1. CASE RecordOutcome(i)
    BY <1>0, <1>1, JobFields, WriteInv DEF RecordOutcome
  <1>2. CASE TakeEvent(i)
    <2> DEFINE event == Head(inbox[i])
               j == [job[i]["loop"] EXCEPT !.step = "recording", !.on = event.task,
                                           !.fence = ControlFence(i)]
               k == [Idle EXCEPT !.step = event.kind, !.task = event.task]
    <2>1. /\ inbox[i] \in Seq(Event) /\ inbox[i] # <<>>
          /\ inbox' = [inbox EXCEPT ![i] = Tail(@)]
          /\ UNCHANGED <<authorityVars, task, ledger, up, workerVars>>
      BY <1>2 DEF TakeEvent, Inv, TypeOK
    <2>2. event \in Event /\ inbox' \in [Instance -> Seq(Event)]
      BY <2>1 DEF Inv, TypeOK
    <2>3. event.task \in Task \cup {None} /\ event.task \in Task
          /\ event.kind \in {"opened", "completed", "failed"}
      <3> HIDE DEF event
      <3> QED BY <2>2 DEF Event
    <2>4. \/ Become(i, "loop", j)
          \/ event.kind \in Step /\ Become(i, "loop", k)
          \/ UNCHANGED job
      BY <1>0, <1>2, <2>3 DEF TakeEvent, Write
    <2>5. job' \in [Instance -> [Place -> Job]] /\ FencesAreGranted'
      <3>1. GoodJob(i, j)
        <4> HIDE DEF event
        <4> QED BY <1>0, <2>3, WriteGood
      <3>2. event.kind \in Step => GoodJob(i, k)
        <4> HIDE DEF event
        <4> QED BY <2>3, BeginsGood
      <3>3. UNCHANGED authorityVars
        BY <2>1
      <3>4. UNCHANGED job => job' \in [Instance -> [Place -> Job]] /\ FencesAreGranted'
        BY <3>3 DEF Inv, TypeOK, FencesAreGranted, authorityVars
      <3> HIDE DEF j, k, event
      <3> QED BY <1>0, <2>4, <3>1, <3>2, <3>3, <3>4, BecomeGood
    <2> HIDE DEF event
    <2> QED BY <2>1, <2>2, <2>5 DEF Inv, TypeOK, AuthorityTypeOK, authorityVars, workerVars
  <1> QED BY <1>1, <1>2 DEF EventLoop

-----------------------------------------------------------------------------
(* The reconciler.                                                         *)
LEMMA JudgedGood ==
    ASSUME Inv, NEW i \in Instance, NEW j, GoodJob(i, j), NEW t \in Task
    PROVE  GoodJob(i, Judged(j, t))
  <1> DEFINE k == Edited(j, "judge", j.listed \ {t}, None, NoFence)
  <1>1. j.listed \ {t} \in SUBSET Task /\ None \in Task \cup {None} /\ j \in Job
    BY DEF GoodJob, Job
  <1>2. "judge" \in Step /\ NoFence \in Nat /\ mine[i] \in Nat
    BY StepNames DEF NoFence, Inv, TypeOK, AuthorityTypeOK
  <1>3. k \in Job /\ k.fence = NoFence
    BY <1>1, <1>2, EditedJob
  <1>4. Judged(j, t) = IF j.listed = {t} THEN Idle ELSE k
    BY DEF Judged, Edited
  <1> HIDE DEF k
  <1> QED BY <1>2, <1>3, <1>4, IdleGood DEF GoodJob, NoFence

LEMMA SweepWritesInv ==
    ASSUME Inv, NEW i \in Instance,
           JudgeLost(i) \/ JudgeVanished(i) \/ \E t \in Task : DeadLetter(i, t)
    PROVE  Inv'
  <1>1. "sweep" \in Place /\ job[i]["sweep"].listed \subseteq Task
    BY Steps, JobFields
  <1>2. {"lostFailing", "vanishFailing", "deadLettering"} \subseteq Step
    BY StepNames
  <1>3. PICK step \in Step, t \in Task \cup {None} : Write(i, "sweep", step, t)
    BY <1>1, <1>2 DEF JudgeLost, JudgeVanished, DeadLetter
  <1>4. UNCHANGED allButJob
    BY DEF JudgeLost, JudgeVanished, DeadLetter
  <1> QED BY <1>1, <1>3, <1>4, WriteInv

LEMMA SweepListsInv ==
    ASSUME Inv, NEW i \in Instance, SweepLists(i)
    PROVE  Inv'
  <1> DEFINE dispatched == {t \in Task : task[t].phase = "Dispatched"}
             named == {t \in dispatched : task[t].session}
             j == [job[i]["sweep"] EXCEPT !.step = "judge", !.listed = dispatched,
                                          !.sessions = named]
  <1>1. "sweep" \in Place /\ "judge" \in Step
    BY Steps, StepNames
  <1>2. GoodJob(i, j)
    <2>1. dispatched \subseteq Task /\ named \subseteq Task
      OBVIOUS
    <2> HIDE DEF dispatched, named
    <2> QED BY <1>1, <2>1, JobGood DEF GoodJob, Job
  <1>3. (Become(i, "sweep", Idle) \/ Become(i, "sweep", j)) /\ UNCHANGED allButJob
    BY DEF SweepLists
  <1> HIDE DEF j
  <1> QED BY <1>1, <1>2, <1>3, IdleInv, HandlerInv

LEMMA SweepAsksInv ==
    ASSUME Inv, NEW i \in Instance, SweepAsks(i)
    PROVE  Inv'
  <1>1. PICK absent \in {job[i]["sweep"].sessions \ Held, {}} :
           Become(i, "sweep", [job[i]["sweep"] EXCEPT !.asked = TRUE, !.sessions = absent])
    BY DEF SweepAsks
  <1> DEFINE j == [job[i]["sweep"] EXCEPT !.asked = TRUE, !.sessions = absent]
  <1>2. "sweep" \in Place /\ absent \subseteq Task
    BY Steps, JobFields
  <1>3. GoodJob(i, j)
    BY <1>2, JobGood DEF GoodJob, Job
  <1>4. Become(i, "sweep", j) /\ UNCHANGED allButJob
    BY <1>1 DEF SweepAsks
  <1> HIDE DEF j
  <1> QED BY <1>2, <1>3, <1>4, HandlerInv

LEMMA JudgeSparedInv ==
    ASSUME Inv, NEW i \in Instance, JudgeSpared(i)
    PROVE  Inv'
  <1>1. PICK t \in job[i]["sweep"].listed :
           Become(i, "sweep", Judged(job[i]["sweep"], t))
    BY DEF JudgeSpared
  <1>2. "sweep" \in Place /\ t \in Task
    BY Steps, JobFields
  <1>3. GoodJob(i, Judged(job[i]["sweep"], t))
    BY <1>2, JobGood, JudgedGood
  <1> QED BY <1>1, <1>2, <1>3, HandlerInv DEF JudgeSpared

LEMMA SweepInv ==
    ASSUME Inv, NEW i \in Instance, Sweep(i)
    PROVE  Inv'
  <1>1. "sweep" \in Place /\ "sweep" \in Step
    BY Steps, StepNames
  <1>2. SweepBegins(i) => Inv'
    BY <1>1, GotoInv DEF SweepBegins
  <1> QED BY <1>2, SweepWritesInv, SweepListsInv, SweepAsksInv, JudgeSparedInv
          DEF Sweep, Judge

-----------------------------------------------------------------------------
(* The statements: the row stays a row, the handler goes on.               *)
LEMMA HearGood ==
    ASSUME Inv, NEW i \in Instance, NEW p \in Place, NEW applied,
           Hear(i, p, applied), UNCHANGED authorityVars
    PROVE  job' \in [Instance -> [Place -> Job]] /\ FencesAreGranted'
  <1> DEFINE j == IF i \in up THEN Answered(job[i][p], applied) ELSE Idle
  <1>1. GoodJob(i, j)
    BY JobGood, AnsweredGood, IdleGood
  <1>2. Become(i, p, j)
    BY DEF Hear
  <1> HIDE DEF j
  <1> QED BY <1>1, <1>2, BecomeGood

LEMMA StatementInv ==
    ASSUME Inv, NEW i \in Instance, NEW p \in Place, Statement(i, p)
    PROVE  Inv'
  <1> DEFINE j == job[i][p]
  <1>1. j.fence \in Nat /\ task \in [Task -> TaskRow]
    BY JobFields DEF Inv, TypeOK
  <1>2. /\ task' \in [Task -> TaskRow]
        /\ job' \in [Instance -> [Place -> Job]] /\ FencesAreGranted'
    <2>1. CASE StatusStatement(i, p)
      <3> DEFINE move == Transition[j.step]
                 applied == CasOutcome(task[j.on], epoch, move.from, j.fence, move.origin)
                                = "Applied"
      <3>1. /\ j.step \in DOMAIN Transition
            /\ task' = IF applied
                       THEN [task EXCEPT ![j.on] = Moved(@, move.to, j.fence)]
                       ELSE task
            /\ Hear(i, p, applied) \/ Hear(i, p, FALSE)
            /\ UNCHANGED authorityVars
        BY <2>1 DEF StatusStatement
      <3>2. applied \in BOOLEAN /\ move.to \in Phase
        BY <3>1, Transitions
      <3> HIDE DEF applied, move
      <3>3. j.on \in Task => Moved(task[j.on], move.to, j.fence) \in TaskRow
        BY <1>1, <3>2, MovedRow
      <3>4. task' \in [Task -> TaskRow]
        BY <1>1, <3>1, <3>3
      <3>5. CASE Hear(i, p, applied)
        BY <3>1, <3>4, <3>5, HearGood
      <3>6. CASE Hear(i, p, FALSE)
        BY <3>1, <3>4, <3>6, HearGood
      <3> QED BY <3>1, <3>5, <3>6
    <2>2. CASE SessionStatement(i, p)
      <3>1. j.on \in Task => [task[j.on] EXCEPT !.session = TRUE] \in TaskRow
        BY <1>1 DEF TaskRow
      <3>2. /\ \/ task' = [task EXCEPT ![j.on] = [task[j.on] EXCEPT !.session = TRUE]]
               \/ task' = task
            /\ Become(i, p, Idle) /\ UNCHANGED authorityVars
        BY <2>2 DEF SessionStatement
      <3>3. task' \in [Task -> TaskRow]
        <4> HIDE DEF j
        <4> QED BY <1>1, <3>1, <3>2
      <3> QED BY <3>2, <3>3, IdleGood, BecomeGood
    <2>3. CASE StatementFails(i, p)
      BY <1>1, <2>3, HearGood DEF StatementFails
    <2> QED BY <2>1, <2>2, <2>3 DEF Statement
  <1>3. UNCHANGED <<authorityVars, ledger, inbox, up, workerVars>>
    BY DEF Statement, StatusStatement, SessionStatement, StatementFails
  <1> QED BY <1>2, <1>3 DEF Inv, TypeOK, AuthorityTypeOK, authorityVars, workerVars

-----------------------------------------------------------------------------
(* The reports of sessions are sequences of events.                        *)
LEMMA ReportsType ==
    ASSUME NEW kind \in {"opened", "completed", "failed"}, NEW about \in SUBSET Task,
           NEW report \in Reports(kind, about)
    PROVE  report \in Seq(Event)
  <1>1. PICK order \in SetToSeqs(about) :
           report = [n \in 1 .. Len(order) |-> [kind |-> kind, task |-> order[n]]]
    BY DEF Reports
  <1>2. Cardinality(about) \in Nat
    BY FS_Subset, FS_CardinalityType
  <1>3. order \in [1 .. Cardinality(about) -> about]
    BY DEF SetToSeqs
  <1>4. Len(order) = Cardinality(about)
    BY <1>2, <1>3
  <1>5. report \in [1 .. Cardinality(about) -> Event]
    BY <1>1, <1>3, <1>4 DEF Event
  <1> QED BY <1>2, <1>5

(* An invariant of the handlers survives whatever leaves them, and the     *)
(* lease, alone.                                                           *)
LEMMA FencesKept ==
    ASSUME Inv, UNCHANGED <<authorityVars, job>>
    PROVE  FencesAreGranted' /\ AuthorityTypeOK' /\ job' \in [Instance -> [Place -> Job]]
  BY DEF Inv, TypeOK, AuthorityTypeOK, FencesAreGranted, authorityVars

Executions == [by : Instance \cup {None}, generation : Nat,
               state : {"none", "opening", "open", "ended"}]

LEMMA TellType ==
    ASSUME Inv, NEW t \in Task, NEW kind \in {"opened", "completed", "failed"}, Tell(t, kind)
    PROVE  inbox' \in [Instance -> Seq(Event)]
  <1>1. [kind |-> kind, task |-> t] \in Event
    BY DEF Event
  <1>2. up \subseteq Instance /\ inbox \in [Instance -> Seq(Event)]
    BY DEF Inv, TypeOK
  <1>3. CASE exec[t].by \in up
    BY <1>1, <1>2, <1>3 DEF Tell
  <1>4. CASE exec[t].by \notin up
    BY <1>2, <1>4 DEF Tell
  <1> QED BY <1>3, <1>4

(* One execution is answered, or no longer waited for.                     *)
LEMMA ExecutionInv ==
    ASSUME Inv, NEW t \in Task,
           SessionOpens(t) \/ SessionRefused(t) \/ ExecutionEnds(t) \/ PromptTimesOut(t)
    PROVE  Inv'
  <1>1. inbox' \in [Instance -> Seq(Event)]
    <2>1. inbox' = inbox \/ \E kind \in {"opened", "completed", "failed"} : Tell(t, kind)
      BY DEF SessionOpens, SessionRefused, ExecutionEnds, PromptTimesOut
    <2> QED BY <2>1, TellType DEF Inv, TypeOK
  <1>2. exec' \in [Task -> Executions]
    <2>1. exec \in [Task -> Executions]
      BY DEF Inv, TypeOK, Executions
    <2>2. \A state \in {"open", "ended"} : [exec[t] EXCEPT !.state = state] \in Executions
      <3>1. ASSUME NEW e \in Executions, NEW state \in {"open", "ended"}
            PROVE  [e EXCEPT !.state = state] \in Executions
        BY DEF Executions
      <3> QED BY <2>1, <3>1
    <2>3. exec' = exec \/ \E state \in {"open", "ended"} :
                             exec' = [exec EXCEPT ![t] = [exec[t] EXCEPT !.state = state]]
      BY DEF SessionOpens, SessionRefused, ExecutionEnds, PromptTimesOut
    <2> QED BY <2>1, <2>2, <2>3
  <1>3. routed' \subseteq Task
    BY DEF Inv, TypeOK, SessionOpens, SessionRefused, ExecutionEnds, PromptTimesOut
  <1>4. UNCHANGED allButTransport
    BY DEF SessionOpens, SessionRefused, ExecutionEnds, PromptTimesOut
  <1> QED BY <1>1, <1>2, <1>3, <1>4, FencesKept DEF Inv, TypeOK, allButTransport, Executions

(* Executions that end without an answer keep their type.                  *)
LEMMA EndedType ==
    ASSUME Inv, NEW ended,
           exec' = [t \in Task |-> IF t \in ended THEN [exec[t] EXCEPT !.state = "ended"]
                                                 ELSE exec[t]]
    PROVE  exec' \in [Task -> Executions]
  <1>1. \A t \in Task : exec[t] \in Executions
    BY DEF Inv, TypeOK, Executions
  <1>2. ASSUME NEW e \in Executions
        PROVE  [e EXCEPT !.state = "ended"] \in Executions
    BY DEF Executions
  <1> QED BY <1>1, <1>2

LEMMA ConnectionLostInv ==
    ASSUME Inv, NEW i \in Instance, ConnectionLost(i)
    PROVE  Inv'
  <1>1. PICK answered \in SUBSET Lost(i) :
          /\ \E lost \in Reports("failed", Lost(i)), late \in Reports("completed", answered) :
               inbox' = [inbox EXCEPT ![i] = @ \o lost \o late]
          /\ exec' = [t \in Task |-> IF t \in answered
                                    THEN [exec[t] EXCEPT !.state = "ended"] ELSE exec[t]]
    BY DEF ConnectionLost
  <1>2. routed' \subseteq Task /\ Lost(i) \in SUBSET Task /\ answered \in SUBSET Task
    BY DEF ConnectionLost, Lost, Inv, TypeOK
  <1>3. inbox' \in [Instance -> Seq(Event)]
    <2>1. PICK lost \in Reports("failed", Lost(i)), late \in Reports("completed", answered) :
             inbox' = [inbox EXCEPT ![i] = @ \o lost \o late]
      BY <1>1
    <2>2. lost \in Seq(Event) /\ late \in Seq(Event)
      BY <1>2, ReportsType
    <2> QED BY <2>1, <2>2 DEF Inv, TypeOK
  <1>4. exec' \in [Task -> Executions]
    BY <1>1, EndedType
  <1> QED BY <1>2, <1>3, <1>4, FencesKept
          DEF ConnectionLost, allButTransport, Inv, TypeOK, Executions

LEMMA AllConnectionsLostType ==
    ASSUME Inv, AllConnectionsLost
    PROVE  inbox' \in [Instance -> Seq(Event)] /\ routed' \subseteq Task
  <1>1. PICK lost \in [Instance -> UNION {Reports("failed", Lost(i)) : i \in Instance}] :
          /\ \A i \in Instance : lost[i] \in Reports("failed", Lost(i))
          /\ inbox' = [i \in Instance |-> inbox[i] \o lost[i]]
    BY DEF AllConnectionsLost
  <1>2. ASSUME NEW i \in Instance
        PROVE  inbox[i] \o lost[i] \in Seq(Event)
    <2>1. Lost(i) \in SUBSET Task
      BY DEF Lost, Inv, TypeOK
    <2>2. lost[i] \in Seq(Event)
      BY <1>1, <2>1, ReportsType
    <2>3. inbox[i] \in Seq(Event)
      BY DEF Inv, TypeOK
    <2> QED BY <2>2, <2>3
  <1> QED BY <1>1, <1>2 DEF AllConnectionsLost

LEMMA WorkerInv ==
    ASSUME Inv, Worker
    PROVE  Inv'
  <1>1. CASE \E t \in Task : SessionOpens(t) \/ SessionRefused(t)
                               \/ ExecutionEnds(t) \/ PromptTimesOut(t)
    BY <1>1, ExecutionInv
  <1>2. CASE WorkerOffline
    BY <1>2, AllConnectionsLostType, FencesKept
       DEF WorkerOffline, AllConnectionsLost, Inv, TypeOK
  <1>3. CASE WorkerOnline
    BY <1>3, FencesKept DEF WorkerOnline, Inv, TypeOK
  <1>4. CASE WorkerRestarts
    <2> DEFINE ended == {t \in Task : exec[t].state \in {"opening", "open"}}
    <2>1. exec' = [t \in Task |-> IF t \in ended THEN [exec[t] EXCEPT !.state = "ended"]
                                                 ELSE exec[t]]
      BY <1>4 DEF WorkerRestarts
    <2>2. exec' \in [Task -> Executions]
      <3> HIDE DEF ended
      <3> QED BY <2>1, EndedType
    <2> QED BY <1>4, <2>2, AllConnectionsLostType, FencesKept
            DEF WorkerRestarts, AllConnectionsLost, Inv, TypeOK, Executions
  <1> QED BY <1>1, <1>2, <1>3, <1>4 DEF Worker

LEMMA EventLaggedInv ==
    ASSUME Inv, NEW i \in Instance, EventLagged(i)
    PROVE  Inv'
  <1>1. inbox' \in [Instance -> Seq(Event)]
    BY DEF EventLagged, Inv, TypeOK
  <1> QED BY <1>1, FencesKept DEF EventLagged, Inv, TypeOK, workerVars

-----------------------------------------------------------------------------
(* The lease under the handlers' feet: grants only grow.                   *)
LEMMA AuthorityInv ==
    ASSUME Inv, AuthorityMoves
    PROVE  Inv'
  <1>1. AuthorityTypeOK' /\ FencesAreGranted'
    <2>1. AuthorityTypeOK /\ FencesAreGranted /\ job' = job
      BY DEF Inv, TypeOK, AuthorityMoves, controlVars
    <2>2. \A i \in Instance, p \in Place : job[i][p].fence \in Nat
      BY JobFields
    <2>3. CASE Lapse
      BY <2>1, <2>3 DEF Lapse, AuthorityTypeOK, FencesAreGranted
    <2>4. ASSUME NEW i \in Instance, Grant(i)
          PROVE  AuthorityTypeOK' /\ FencesAreGranted'
      <3>1. mine' = [mine EXCEPT ![i] = epoch + 1] /\ epoch' = epoch + 1
            /\ belief' = belief /\ valid' = TRUE
        BY <2>4 DEF Grant
      <3>2. \A k \in Instance : mine[k] =< mine'[k] /\ mine'[k] =< epoch'
        BY <2>1, <3>1 DEF AuthorityTypeOK, FencesAreGranted
      <3>3. AuthorityTypeOK'
        BY <2>1, <3>1 DEF AuthorityTypeOK
      <3> QED BY <2>1, <2>2, <3>1, <3>2, <3>3 DEF AuthorityTypeOK, FencesAreGranted
    <2>5. ASSUME NEW i \in Instance, Learn(i) \/ Forget(i)
          PROVE  AuthorityTypeOK' /\ FencesAreGranted'
      BY <2>1, <2>5 DEF Learn, Forget, AuthorityTypeOK, FencesAreGranted
    <2> QED BY <2>3, <2>4, <2>5 DEF AuthorityMoves, Inv, TypeOK
  <1> QED BY <1>1 DEF AuthorityMoves, Inv, TypeOK, controlVars, workerVars

LEMMA CrashInv ==
    ASSUME Inv, NEW i \in Instance, Crash(i)
    PROVE  Inv'
  <1> DEFINE rest == [p \in Place |-> IF job[i][p].step \in InFlight THEN job[i][p] ELSE Idle]
  <1>1. \A p \in Place : rest[p] \in Job /\ rest[p].fence =< mine[i]
    BY JobGood, IdleGood DEF GoodJob
  <1>2. job' = [job EXCEPT ![i] = rest] /\ UNCHANGED <<epoch, valid, mine>>
        /\ belief' = [belief EXCEPT ![i] = 0]
    BY DEF Crash, Forget
  <1>3. rest \in [Place -> Job]
    BY <1>1
  <1> HIDE DEF rest
  <1>4. job' \in [Instance -> [Place -> Job]] /\ AuthorityTypeOK' /\ FencesAreGranted'
    <2>1. job' \in [Instance -> [Place -> Job]] /\ AuthorityTypeOK'
      BY <1>2, <1>3 DEF Inv, TypeOK, AuthorityTypeOK
    <2>2. \A k \in Instance : belief'[k] =< mine[k] /\ mine[k] =< epoch
      BY <1>2 DEF Inv, TypeOK, AuthorityTypeOK, FencesAreGranted
    <2>3. \A k \in Instance, p \in Place : job'[k][p].fence =< mine[k]
      BY <1>1, <1>2 DEF Inv, TypeOK, FencesAreGranted
    <2> QED BY <1>2, <2>1, <2>2, <2>3 DEF FencesAreGranted
  <1>5. /\ ledger' \in [Instance -> [generation : Nat, asked : BOOLEAN]]
        /\ inbox' \in [Instance -> Seq(Event)]
    BY DEF Crash, Inv, TypeOK, NewLedger, NoFence
  <1> QED BY <1>4, <1>5 DEF Crash, Inv, TypeOK

LEMMA OperatorInv ==
    ASSUME Inv, NEW t \in Task, OperatorCancels(t)
    PROVE  Inv'
  <1>1. Moved(task[t], "Cancelled", NoFence) \in TaskRow
    BY MovedRow DEF Inv, TypeOK, Phase, NoFence
  <1>2. task' \in [Task -> TaskRow]
    BY <1>1 DEF OperatorCancels, Inv, TypeOK
  <1> QED BY <1>2, FencesKept DEF OperatorCancels, Inv, TypeOK, workerVars

-----------------------------------------------------------------------------
LEMMA InitInv == Init => Inv
  <1> SUFFICES ASSUME Init PROVE Inv
    OBVIOUS
  <1>1. Idle \in Job
    BY StepNames DEF Idle, Job, NoFence
  <1>2. task \in [Task -> TaskRow]
    BY DEF Init, NewRow, TaskRow, Phase, NoFence
  <1>3. job \in [Instance -> [Place -> Job]]
    BY <1>1 DEF Init
  <1>4. \A i \in Instance, p \in Place : job[i][p] = Idle
    BY DEF Init
  <1>5. Idle.fence = 0
    BY DEF Idle, NoFence
  <1>6. FencesAreGranted
    BY <1>4, <1>5 DEF Init, AuthorityInit, FencesAreGranted
  <1>7. exec \in [Task -> Executions]
    BY DEF Init, Executions, NoFence
  <1>8. ledger \in [Instance -> [generation : Nat, asked : BOOLEAN]]
    BY DEF Init, NewLedger, NoFence
  <1>9. AuthorityTypeOK
    BY DEF Init, AuthorityInit, AuthorityTypeOK
  <1>10. inbox \in [Instance -> Seq(Event)]
    <2>1. <<>> \in Seq(Event)
      OBVIOUS
    <2> QED BY <2>1 DEF Init
  <1> QED BY <1>2, <1>3, <1>6, <1>7, <1>8, <1>9, <1>10
          DEF Inv, TypeOK, Init, Executions

LEMMA NextInv == Inv /\ [Next]_vars => Inv'
  <1> SUFFICES ASSUME Inv, [Next]_vars PROVE Inv'
    OBVIOUS
  <1>1. CASE Next
    BY <1>1, StatementInv, RequestInv, EventLoopInv, SweepInv, ConnectionLostInv,
       EventLaggedInv, CrashInv, OperatorInv, WorkerInv, AuthorityInv DEF Next
  <1>2. CASE UNCHANGED vars
    BY <1>2, FencesKept DEF Inv, TypeOK, vars, controlVars, workerVars
  <1> QED BY <1>1, <1>2

LEMMA InvHolds == Spec => []Inv
  BY InitInv, NextInv, PTL DEF Spec

(***************************************************************************)
(* Every reachable state is well typed, and in particular no handler ever  *)
(* carries a fence that is not a number the row can be compared with       *)
(* (all of dispatcher.rs, reconcile.rs and acp_transport.rs).              *)
(***************************************************************************)
THEOREM TypeCorrect == Spec => []TypeOK
  <1>1. Inv => TypeOK
    BY DEF Inv
  <1> QED BY <1>1, InvHolds, PTL

-----------------------------------------------------------------------------
(* Only a statement in flight, and an operator, change a row.              *)
LEMMA WhoWrites ==
    ASSUME [Next]_vars, task' # task
    PROVE  \/ \E i \in Instance, p \in Place : Statement(i, p)
           \/ \E t \in Task : OperatorCancels(t)
  <1>1. ASSUME NEW i \in Instance, NEW s \in Slot, Request(i, s) PROVE task' = task
    BY <1>1 DEF Request, DispatchBegins, CancelBegins, DispatchRefused, RecoverWorker,
         AskInventory, ListForRecovery, ReapVanished, MarkAsked, Claim, Send, SendFails,
         CancelReads, CancelSignals, allButJob
  <1>2. ASSUME NEW i \in Instance, EventLoop(i) \/ Sweep(i) PROVE task' = task
    BY <1>2 DEF EventLoop, TakeEvent, RecordOutcome, Sweep, SweepBegins, SweepLists, Judge,
         JudgeLost, SweepAsks, JudgeVanished, JudgeSpared, DeadLetter, allButJob
  <1>3. ASSUME NEW i \in Instance, ConnectionLost(i) \/ EventLagged(i) \/ Crash(i)
        PROVE  task' = task
    BY <1>3 DEF ConnectionLost, EventLagged, Crash, allButTransport
  <1>4. Worker => task' = task
    BY DEF Worker, SessionOpens, SessionRefused, ExecutionEnds, PromptTimesOut,
         WorkerOffline, WorkerOnline, WorkerRestarts, AllConnectionsLost, allButTransport
  <1>5. AuthorityMoves \/ UNCHANGED vars => task' = task
    BY DEF AuthorityMoves, vars, controlVars
  <1> QED BY <1>1, <1>2, <1>3, <1>4, <1>5 DEF Next

(* What a status statement does to a row: nothing, or an applied move.     *)
LEMMA StatusStatementMoves ==
    ASSUME Inv, NEW i \in Instance, NEW p \in Place, StatusStatement(i, p),
           NEW t \in Task, task'[t] # task[t]
    PROVE  /\ job[i][p].step \in DOMAIN Transition
           /\ t = job[i][p].on
           /\ task[t].phase \in Transition[job[i][p].step].from
           /\ FenceHolds(job[i][p].fence, epoch)
  <1> DEFINE j == job[i][p]
             move == Transition[j.step]
             applied == CasOutcome(task[j.on], epoch, move.from, j.fence, move.origin)
                            = "Applied"
  <1>1. /\ j.step \in DOMAIN Transition
        /\ task' = IF applied
                   THEN [task EXCEPT ![j.on] = Moved(@, move.to, j.fence)]
                   ELSE task
    BY DEF StatusStatement
  <1>2. applied => task[j.on].phase \in move.from /\ FenceHolds(j.fence, epoch)
    BY Applied
  <1>3. task \in [Task -> TaskRow]
    BY DEF Inv, TypeOK
  <1> HIDE DEF applied, move, j
  <1>4. applied /\ t = j.on
    BY <1>1, <1>3
  <1> QED BY <1>1, <1>2, <1>4 DEF move, j

(***************************************************************************)
(* Whatever dispatches, completions, failures, sweeps and cancels compete  *)
(* for a task, in however many processes, alive or dead: the first of them *)
(* that ends it is the last that moves it (compare_and_set_task_status).   *)
(***************************************************************************)
THEOREM EndedStaysEnded == Spec => TerminalIsFinal
  <1> DEFINE Final == \A t \in Task :
                        task[t].phase \in Terminal => task'[t].phase = task[t].phase
  <1>1. Inv /\ [Next]_vars => Final
    <2> SUFFICES ASSUME Inv, [Next]_vars, NEW t \in Task,
                        task[t].phase \in Terminal, task'[t] # task[t]
                 PROVE  task'[t].phase = task[t].phase
      OBVIOUS
    <2>1. ASSUME NEW i \in Instance, NEW p \in Place, StatusStatement(i, p) PROVE FALSE
      BY <2>1, StatusStatementMoves, Transitions DEF Terminal
    <2>2. ASSUME NEW i \in Instance, NEW p \in Place, SessionStatement(i, p)
          PROVE  task'[t].phase = task[t].phase
      BY <2>2 DEF SessionStatement, Inv, TypeOK, TaskRow
    <2>3. ASSUME NEW i \in Instance, NEW p \in Place, StatementFails(i, p) PROVE FALSE
      BY <2>3 DEF StatementFails
    <2>4. ASSUME NEW u \in Task, OperatorCancels(u) PROVE FALSE
      <3>1. task[u].phase \in {"Pending", "Dispatched"}
        BY <2>4, Applied DEF OperatorCancels
      <3>2. u # t
        BY <3>1 DEF Terminal
      <3> QED BY <2>4, <3>2 DEF OperatorCancels, Inv, TypeOK
    <2> QED BY <2>1, <2>2, <2>3, <2>4, WhoWrites DEF Statement
  <1> QED BY <1>1, InvHolds, PTL DEF Spec, TerminalIsFinal

(***************************************************************************)
(* A fenced statement that changes a row is the current holder's.  Fences  *)
(* are read before the statement is sent and checked when it takes effect; *)
(* between the two any number of fail-overs may happen, and the sender may *)
(* have died.  It rests on FencesAreGranted: a fence never exceeds its     *)
(* carrier's last grant, so a fence that equals the row's epoch is that    *)
(* grant.                                                                  *)
(***************************************************************************)
THEOREM FencedWritesAreCurrent == Spec => FencedWritesAreTheHolders
  <1> DEFINE Current(i, p, t) ==
               /\ job[i][p].step \in InFlight /\ job[i][p].on = t
               /\ job'[i][p] # job[i][p]
               /\ task'[t] # task[t]
               /\ job[i][p].fence # NoFence
               => mine[i] = epoch
  <1>1. Inv /\ [Next]_vars => \A i \in Instance, p \in Place, t \in Task : Current(i, p, t)
    <2> SUFFICES ASSUME Inv, [Next]_vars, NEW i \in Instance, NEW p \in Place, NEW t \in Task,
                        job[i][p].step \in InFlight, job[i][p].on = t,
                        job'[i][p] # job[i][p], task'[t] # task[t],
                        job[i][p].fence # NoFence
                 PROVE  mine[i] = epoch
      OBVIOUS
    <2>1. ~ \E u \in Task : OperatorCancels(u)
      BY DEF OperatorCancels
    <2>2. PICK k \in Instance, q \in Place : Statement(k, q)
      BY <2>1, WhoWrites
    <2>3. \E j : Become(k, q, j)
      BY <2>2 DEF Statement, StatusStatement, SessionStatement, StatementFails, Hear
    <2>4. k = i /\ q = p
      BY <2>3 DEF Become, Inv, TypeOK
    <2>5. FenceHolds(job[i][p].fence, epoch)
      <3>1. CASE StatusStatement(i, p)
        BY <3>1, StatusStatementMoves
      <3>2. CASE SessionStatement(i, p)
        BY <3>2 DEF SessionStatement, SessionRecordable
      <3>3. ~StatementFails(i, p)
        BY DEF StatementFails
      <3> QED BY <2>2, <2>4, <3>1, <3>2, <3>3 DEF Statement
    <2>6. job[i][p].fence =< mine[i] /\ mine[i] =< epoch /\ mine[i] \in Nat /\ epoch \in Nat
      BY DEF Inv, TypeOK, AuthorityTypeOK, FencesAreGranted
    <2> QED BY <2>5, <2>6 DEF FenceHolds
  <1> QED BY <1>1, InvHolds, PTL DEF Spec, FencedWritesAreTheHolders

-----------------------------------------------------------------------------
(***************************************************************************)
(* What ties the rows to the executions.  A Pending row was never sent; an *)
(* execution carries the generation its row was claimed under; a handler   *)
(* about to send is the only one that may, for a row it claimed; and       *)
(* whatever speaks of a session (a row, a statement in flight, an event, a *)
(* route, the list of a sweep) speaks of an execution that opened one.     *)
(***************************************************************************)
(* The session was opened at the worker.                                   *)
Reached == {"open", "ended"}

(* What the event loop may be doing.                                       *)
LoopSteps == {"idle", "recording", "completed", "failed", "completing", "failing"}

(* A row and its execution agree.                                          *)
RowFits(row, e) ==
    /\ row.phase = "Pending" => e.state = "none" /\ row.generation = NoFence
    /\ e.generation = IF e.state = "none" THEN NoFence ELSE row.generation
    /\ row.session => e.state \in Reached

(* A handler that is about to send claimed its row, and nobody sent it.    *)
ClaimFits(rows, execs, j) ==
    /\ j.task \in Task
    /\ rows[j.task].phase # "Pending"
    /\ rows[j.task].generation = j.fence
    /\ execs[j.task].state = "none"

(* The sessions a sweep judges by exist; once it has asked, they ended.    *)
SweepFits(execs, j) ==
    /\ j.step \in {"idle", "sweep"} => ~j.asked
    /\ j.step = "vanishFailing" => j.asked /\ j.on \in j.sessions
    /\ \A t \in j.sessions :
          execs[t].state \in Reached /\ (j.asked => execs[t].state = "ended")

(* A handler at place p knows what its step relies on.                     *)
JobFits(rows, execs, p, j) ==
    /\ p \in Slot /\ j.step \notin {"idle", "sweep"} => j.task \in Task
    /\ j.step = "claiming" => j.on = j.task /\ p \in Slot
    /\ j.step = "send" => ClaimFits(rows, execs, j)
    /\ j.step = "recording" => j.on \in Task /\ execs[j.on].state \in Reached
    /\ p = "loop" => j.step \in LoopSteps
    /\ p = "sweep" => SweepFits(execs, j)

(* What an inbox says of opened sessions is true.                          *)
InboxFits(execs, events) ==
    \A n \in 1 .. Len(events) :
        events[n].kind = "opened" => execs[events[n].task].state \in Reached

(* At most one handler is about to send a task.                            *)
SoleSender(jobs) ==
    \A i, k \in Instance : \A p, q \in Place :
        (/\ jobs[i][p].step = "send" /\ jobs[k][q].step = "send"
         /\ jobs[i][p].task = jobs[k][q].task) => i = k /\ p = q

(* The inductive invariant beside Inv.                                     *)
Fits ==
    /\ \A t \in Task : RowFits(task[t], exec[t])
    /\ \A i \in Instance, p \in Place : JobFits(task, exec, p, job[i][p])
    /\ \A i \in Instance : InboxFits(exec, inbox[i])
    /\ \A t \in routed : exec[t].state \in Reached
    /\ SoleSender(job)

(* How rows and executions may move under the handlers' feet.              *)
Keeps(t) ==
    /\ task'[t].phase = "Pending" => task[t].phase = "Pending"
    /\ task[t].phase # "Pending" => task'[t].generation = task[t].generation
    /\ exec[t].state \in Reached => exec'[t].state \in Reached
    /\ exec[t].state = "ended" => exec'[t].state = "ended"

LEMMA JobKept ==
    ASSUME \A t \in Task : Keeps(t), NEW p, NEW j \in Job,
           JobFits(task, exec, p, j),
           j.step = "send" => exec'[j.task].state = "none"
    PROVE  JobFits(task', exec', p, j)
  <1>1. \A t \in j.sessions : Keeps(t)
    BY DEF Job
  <1>2. j.step = "recording" => Keeps(j.on)
    BY DEF JobFits
  <1>3. p = "sweep" => SweepFits(exec', j)
    BY <1>1 DEF JobFits, SweepFits, Keeps
  <1>4. j.step = "send" => ClaimFits(task', exec', j)
    BY DEF JobFits, ClaimFits, Keeps
  <1> QED BY <1>2, <1>3, <1>4 DEF JobFits, Keeps

LEMMA InboxKept ==
    ASSUME \A t \in Task : Keeps(t), NEW events \in Seq(Event), InboxFits(exec, events)
    PROVE  InboxFits(exec', events)
  <1>1. ASSUME NEW n \in 1 .. Len(events)
        PROVE  events[n].task \in Task
    <2>1. events[n] \in Event
      OBVIOUS
    <2> QED BY <2>1 DEF Event
  <1> QED BY <1>1 DEF InboxFits, Keeps

(* A handler becomes j, which is not about to send; the rest stays.        *)
LEMMA HandlerFits ==
    ASSUME Inv, Fits, NEW i \in Instance, NEW p \in Place, NEW j,
           Become(i, p, j), UNCHANGED <<task, exec, inbox, routed>>,
           JobFits(task, exec, p, j), j.step # "send"
    PROVE  Fits'
  <1>1. \A k \in Instance, q \in Place :
           job'[k][q] = IF k = i /\ q = p THEN j ELSE job[k][q]
    BY DEF Become, Inv, TypeOK
  <1>2. SoleSender(job')
    BY <1>1 DEF Fits, SoleSender
  <1>3. \A k \in Instance, q \in Place : JobFits(task, exec, q, job'[k][q])
    BY <1>1 DEF Fits
  <1> QED BY <1>2, <1>3 DEF Fits

-----------------------------------------------------------------------------
(* Requests: the handler moves on, and nothing else.                       *)
(* Where Write, Goto and a beginning leave the handler.                    *)
LEMMA WriteMoves ==
    ASSUME Inv, NEW i \in Instance, NEW p \in Place, NEW step, NEW t, Write(i, p, step, t)
    PROVE  \E j : /\ Become(i, p, j)
                  /\ j.step = step /\ j.on = t /\ j.task = job[i][p].task
                  /\ j.sessions = job[i][p].sessions /\ j.asked = job[i][p].asked
  <1> DEFINE j == [job[i][p] EXCEPT !.step = step, !.on = t, !.fence = ControlFence(i)]
  <1>1. Become(i, p, j)
    BY DEF Write
  <1>2. /\ j.step = step /\ j.on = t /\ j.task = job[i][p].task
        /\ j.sessions = job[i][p].sessions /\ j.asked = job[i][p].asked
    BY JobFields DEF Job
  <1> HIDE DEF j
  <1> QED BY <1>1, <1>2

LEMMA GotoMoves ==
    ASSUME Inv, NEW i \in Instance, NEW p \in Place, NEW step, Goto(i, p, step)
    PROVE  \E j : /\ Become(i, p, j)
                  /\ j.step = step /\ j.task = job[i][p].task
                  /\ j.sessions = job[i][p].sessions /\ j.asked = job[i][p].asked
  <1> DEFINE j == [job[i][p] EXCEPT !.step = step]
  <1>1. Become(i, p, j)
    BY DEF Goto
  <1>2. /\ j.step = step /\ j.task = job[i][p].task
        /\ j.sessions = job[i][p].sessions /\ j.asked = job[i][p].asked
    BY JobFields DEF Job
  <1> HIDE DEF j
  <1> QED BY <1>1, <1>2

(* A request, unless it sends, moves on to a step that fits.               *)
MovesOn(i, s) ==
    \E j : /\ Become(i, s, j)
           /\ j.step \notin {"send", "recording"}
           /\ j.step # "idle" => j.task \in Task
           /\ j.step = "claiming" => j.on = j.task

LEMMA RequestMovesOn ==
    ASSUME Inv, Fits, NEW i \in Instance, NEW s \in Slot, Request(i, s), ~Send(i, s)
    PROVE  MovesOn(i, s)
  <1>1. /\ s \in Place /\ job[i][s] \in Job
        /\ job[i][s].step \notin {"idle", "sweep"} => job[i][s].task \in Task
    BY Steps, JobFields DEF Fits, JobFits
  <1>2. ASSUME NEW step, NEW t, Write(i, s, step, t), job[i][s].step \notin {"idle", "sweep"}, step \notin {"send", "recording"},
               step = "claiming" => t = job[i][s].task
        PROVE  MovesOn(i, s)
    BY <1>1, <1>2, WriteMoves DEF MovesOn
  <1>3. ASSUME NEW step, Goto(i, s, step), job[i][s].step \notin {"idle", "sweep"}, step \notin {"send", "recording", "claiming"}
        PROVE  MovesOn(i, s)
    BY <1>1, <1>3, GotoMoves DEF MovesOn
  <1>4. Become(i, s, Idle) => MovesOn(i, s)
    <2>1. Idle.step = "idle"
      BY DEF Idle
    <2> QED BY <2>1 DEF MovesOn
  <1>5. ASSUME NEW t \in Task, DispatchBegins(i, s, t) \/ CancelBegins(i, s, t)
        PROVE  MovesOn(i, s)
    <2>1. PICK step \in {"recover", "cancelRead"} :
             Become(i, s, [Idle EXCEPT !.step = step, !.task = t])
      BY <1>5 DEF DispatchBegins, CancelBegins
    <2> DEFINE j == [Idle EXCEPT !.step = step, !.task = t]
    <2>2. j.step = step /\ j.task = t
      BY DEF Idle
    <2> HIDE DEF j
    <2>3. Become(i, s, j)
      BY <2>1 DEF j
    <2> QED BY <2>2, <2>3 DEF MovesOn
  <1>6. CASE AskInventory(i, s)
    <2> DEFINE j == [job[i][s] EXCEPT !.step = "list", !.sessions = Held]
    <2>1. j.step = "list" /\ j.task \in Task
      BY <1>1, <1>6 DEF Job, AskInventory, At
    <2>2. /\ Become(i, s, j) \/ Goto(i, s, "reap")
          /\ job[i][s].step = "ask"
      BY <1>6 DEF AskInventory, At
    <2> HIDE DEF j
    <2> QED BY <1>3, <2>1, <2>2 DEF MovesOn
  <1>7. CASE ListForRecovery(i, s)
    <2> DEFINE gone == {t \in Task : task[t].phase = "Dispatched" /\ task[t].session}
                            \ job[i][s].sessions
               j == [job[i][s] EXCEPT !.step = "reap", !.listed = gone, !.sessions = {}]
               k == [job[i][s] EXCEPT !.step = "reap", !.sessions = {}]
    <2>1. j.step = "reap" /\ k.step = "reap" /\ j.task \in Task /\ k.task \in Task
      BY <1>1, <1>7 DEF Job, ListForRecovery, At
    <2>2. Become(i, s, j) \/ Become(i, s, k)
      BY <1>7 DEF ListForRecovery
    <2> HIDE DEF j, k
    <2> QED BY <2>1, <2>2 DEF MovesOn
  <1>8. CASE RecoverWorker(i, s)
    BY <1>3, <1>8 DEF RecoverWorker, At
  <1>9. CASE DispatchRefused(i, s)
    BY <1>2, <1>4, <1>9 DEF DispatchRefused, At
  <1>10. CASE ReapVanished(i, s) \/ MarkAsked(i, s)
    BY <1>2, <1>3, <1>10 DEF ReapVanished, MarkAsked, At
  <1>11. CASE Claim(i, s) \/ SendFails(i, s) \/ CancelSignals(i, s)
    BY <1>2, <1>11 DEF Claim, SendFails, CancelSignals, At
  <1>12. CASE CancelReads(i, s)
    BY <1>2, <1>3, <1>4, <1>12 DEF CancelReads, At
  <1> QED BY <1>5, <1>6, <1>7, <1>8, <1>9, <1>10, <1>11, <1>12 DEF Request

LEMMA RequestLeavesAlone ==
    ASSUME NEW i \in Instance, NEW s \in Slot, Request(i, s), ~Send(i, s)
    PROVE  UNCHANGED <<task, exec, inbox, routed>>
  BY DEF Request, DispatchBegins, CancelBegins, DispatchRefused, RecoverWorker,
     AskInventory, ListForRecovery, ReapVanished, MarkAsked, Claim, SendFails,
     CancelReads, CancelSignals, allButJob, workerVars

(* Send: the claim is spent, and no other handler was about to send.       *)
LEMMA SendFits ==
    ASSUME Inv, Fits, NEW i \in Instance, NEW s \in Slot, Send(i, s)
    PROVE  Fits'
  <1> DEFINE t == job[i][s].task
  <1>1. s \in Place /\ job[i][s].fence \in Nat /\ job[i][s].step = "send"
    BY Steps, JobFields DEF Send, At
  <1>2. ClaimFits(task, exec, job[i][s])
    BY <1>1 DEF Fits, JobFits
  <1>3. /\ t \in Task /\ exec[t].state = "none" /\ task[t].phase # "Pending"
        /\ task[t].generation = job[i][s].fence
    BY <1>2 DEF ClaimFits
  <1>4. /\ exec' = [exec EXCEPT ![t] =
                      [by |-> i, generation |-> job[i][s].fence, state |-> "opening"]]
        /\ Become(i, s, Idle)
        /\ UNCHANGED <<task, inbox, routed>>
    BY DEF Send
  <1>5. /\ exec'[t].state = "opening" /\ exec'[t].generation = task[t].generation
        /\ \A u \in Task : u # t => exec'[u] = exec[u]
    BY <1>3, <1>4 DEF Inv, TypeOK
  <1> HIDE DEF t
  <1>6. \A u \in Task : Keeps(u)
    BY <1>3, <1>4, <1>5 DEF Keeps, Reached
  <1>7. \A k \in Instance, q \in Place :
           job'[k][q] = IF k = i /\ q = s THEN Idle ELSE job[k][q]
    BY <1>1, <1>4 DEF Become, Inv, TypeOK
  <1>8. ASSUME NEW u \in Task
        PROVE  RowFits(task[u], exec'[u])
    <2>1. RowFits(task[u], exec[u])
      BY DEF Fits
    <2>2. CASE u = t
      BY <1>3, <1>5, <2>1, <2>2 DEF RowFits, Reached
    <2> QED BY <1>5, <2>1, <2>2
  <1>9. ASSUME NEW k \in Instance, NEW q \in Place
        PROVE  JobFits(task', exec', q, job'[k][q])
    <2>1. CASE k = i /\ q = s
      <3>1. s # "loop" /\ s # "sweep" /\ job'[k][q].step = "idle"
        BY <1>7, <2>1 DEF Idle
      <3> QED BY <2>1, <3>1 DEF JobFits
    <2>2. CASE ~(k = i /\ q = s)
      <3>1. job'[k][q] = job[k][q] /\ JobFits(task, exec, q, job[k][q]) /\ job[k][q] \in Job
        BY <1>7, <2>2, JobFields DEF Fits
      <3>2. job[k][q].step = "send" => job[k][q].task \in Task /\ job[k][q].task # t
                                       /\ exec[job[k][q].task].state = "none"
        BY <1>1, <2>2, <3>1 DEF Fits, SoleSender, JobFits, ClaimFits, t
      <3>3. job[k][q].step = "send" => exec'[job[k][q].task].state = "none"
        BY <1>5, <3>2
      <3> QED BY <1>6, <3>1, <3>3, JobKept
    <2> QED BY <2>1, <2>2
  <1>10. \A k \in Instance : InboxFits(exec', inbox'[k])
    BY <1>4, <1>6, InboxKept DEF Fits, Inv, TypeOK
  <1>11. SoleSender(job')
    BY <1>7 DEF Fits, SoleSender, Idle
  <1>12. \A u \in routed' : exec'[u].state \in Reached
    BY <1>4, <1>6 DEF Fits, Keeps, Inv, TypeOK
  <1> QED BY <1>4, <1>8, <1>9, <1>10, <1>11, <1>12 DEF Fits

LEMMA RequestFits ==
    ASSUME Inv, Fits, NEW i \in Instance, NEW s \in Slot, Request(i, s)
    PROVE  Fits'
  <1>1. CASE Send(i, s)
    BY <1>1, SendFits
  <1>2. CASE ~Send(i, s)
    <2>1. PICK j : /\ Become(i, s, j)
                   /\ j.step \notin {"send", "recording"}
                   /\ j.step # "idle" => j.task \in Task
                   /\ j.step = "claiming" => j.on = j.task
      BY <1>2, RequestMovesOn DEF MovesOn
    <2>2. JobFits(task, exec, s, j)
      BY <2>1 DEF JobFits
    <2>3. UNCHANGED <<task, exec, inbox, routed>> /\ s \in Place
      BY <1>2, RequestLeavesAlone, Steps
    <2> QED BY <2>1, <2>2, <2>3, HandlerFits
  <1> QED BY <1>1, <1>2

-----------------------------------------------------------------------------
(* The event loop believes what its inbox says of opened sessions.         *)
LEMMA TailFits ==
    ASSUME NEW events \in Seq(Event), events # <<>>, InboxFits(exec, events)
    PROVE  /\ Head(events) \in Event
           /\ InboxFits(exec, Tail(events))
           /\ Head(events).kind = "opened" => exec[Head(events).task].state \in Reached
  <1>1. /\ Len(events) \in Nat /\ Len(events) # 0 /\ Head(events) = events[1]
        /\ Len(Tail(events)) = Len(events) - 1
        /\ \A n \in 1 .. Len(Tail(events)) : Tail(events)[n] = events[n + 1]
    OBVIOUS
  <1>2. Head(events) \in Event
    OBVIOUS
  <1> QED BY <1>1, <1>2 DEF InboxFits

LEMMA EventLoopFits ==
    ASSUME Inv, Fits, NEW i \in Instance, EventLoop(i)
    PROVE  Fits'
  <1>0. "loop" \in Place
    BY Steps
  <1>1. CASE RecordOutcome(i)
    <2>1. PICK step \in {"completing", "failing"} :
             Write(i, "loop", step, job[i]["loop"].task)
      BY <1>1 DEF RecordOutcome
    <2>2. PICK j : Become(i, "loop", j) /\ j.step = step
      BY <1>0, <2>1, WriteMoves
    <2>3. JobFits(task, exec, "loop", j) /\ j.step # "send"
      BY <2>2 DEF JobFits, LoopSteps
    <2>4. UNCHANGED <<task, exec, inbox, routed>>
      BY <1>1 DEF RecordOutcome, allButJob, workerVars
    <2> QED BY <1>0, <2>2, <2>3, <2>4, HandlerFits
  <1>2. CASE TakeEvent(i)
    <2> DEFINE event == Head(inbox[i])
    <2>1. /\ inbox[i] \in Seq(Event) /\ inbox[i] # <<>> /\ InboxFits(exec, inbox[i])
          /\ inbox' = [inbox EXCEPT ![i] = Tail(@)]
          /\ UNCHANGED <<task, exec, routed>>
      BY <1>2 DEF TakeEvent, Inv, TypeOK, Fits, workerVars
    <2>2. /\ event \in Event
          /\ event.kind = "opened" => exec[event.task].state \in Reached
          /\ InboxFits(exec, Tail(inbox[i]))
      BY <2>1, TailFits
    <2>3. event.kind \in {"opened", "completed", "failed"} /\ event.task \in Task
      BY <2>2 DEF Event
    <2>4. \/ event.kind = "opened" /\ Write(i, "loop", "recording", event.task)
          \/ /\ event.kind \in {"completed", "failed"}
             /\ Become(i, "loop", [Idle EXCEPT !.step = event.kind, !.task = event.task])
          \/ UNCHANGED job
      BY <1>2, <2>3 DEF TakeEvent
    <2> HIDE DEF event
    <2>5. UNCHANGED job \/ \E j : /\ Become(i, "loop", j) /\ j.step # "send"
                                  /\ JobFits(task, exec, "loop", j)
      <3>1. CASE event.kind = "opened" /\ Write(i, "loop", "recording", event.task)
        <4>1. PICK j : Become(i, "loop", j) /\ j.step = "recording" /\ j.on = event.task
          BY <1>0, <3>1, WriteMoves
        <4> QED BY <2>2, <2>3, <3>1, <4>1 DEF JobFits, LoopSteps
      <3>2. CASE /\ event.kind \in {"completed", "failed"}
                 /\ Become(i, "loop", [Idle EXCEPT !.step = event.kind, !.task = event.task])
        <4> DEFINE j == [Idle EXCEPT !.step = event.kind, !.task = event.task]
        <4>1. j.step = event.kind
          BY DEF Idle
        <4>2. Become(i, "loop", j)
          BY <3>2
        <4> HIDE DEF j
        <4> QED BY <3>2, <4>1, <4>2 DEF JobFits, LoopSteps
      <3> QED BY <2>4, <3>1, <3>2
    <2>6. /\ \A k \in Instance, q \in Place : JobFits(task, exec, q, job'[k][q])
          /\ SoleSender(job')
      <3>1. CASE UNCHANGED job
        BY <3>1 DEF Fits
      <3>2. ASSUME NEW j, Become(i, "loop", j), j.step # "send",
                   JobFits(task, exec, "loop", j)
            PROVE  /\ \A k \in Instance, q \in Place : JobFits(task, exec, q, job'[k][q])
                   /\ SoleSender(job')
        <4>1. \A k \in Instance, q \in Place :
                 job'[k][q] = IF k = i /\ q = "loop" THEN j ELSE job[k][q]
          BY <3>2 DEF Become, Inv, TypeOK
        <4> QED BY <3>2, <4>1 DEF Fits, SoleSender
      <3> QED BY <2>5, <3>1, <3>2
    <2>7. \A k \in Instance : InboxFits(exec, inbox'[k])
      BY <2>1, <2>2 DEF Fits, Inv, TypeOK
    <2> QED BY <2>1, <2>6, <2>7 DEF Fits
  <1> QED BY <1>1, <1>2 DEF EventLoop

-----------------------------------------------------------------------------
(* The sweep: what it lists has executions, what it misses afterwards has  *)
(* ended, and it judges by nothing else.                                   *)
LEMMA JudgedFits ==
    ASSUME NEW j \in Job, SweepFits(exec, j), NEW t
    PROVE  SweepFits(exec, Judged(j, t)) /\ Judged(j, t).step \in {"idle", "judge"}
  <1>1. SweepFits(exec, Idle) /\ Idle.step = "idle"
    BY DEF SweepFits, Idle
  <1> DEFINE k == [j EXCEPT !.step = "judge", !.listed = @ \ {t}, !.on = None,
                            !.fence = NoFence]
  <1>2. k.step = "judge" /\ k.sessions = j.sessions /\ k.asked = j.asked
    BY DEF Job
  <1> HIDE DEF k
  <1>3. SweepFits(exec, k)
    BY <1>2 DEF SweepFits
  <1>4. Judged(j, t) = IF j.listed = {t} THEN Idle ELSE k
    BY DEF Judged, k
  <1> QED BY <1>1, <1>2, <1>3, <1>4

LEMMA SweepHandlerFits ==
    ASSUME Inv, Fits, NEW i \in Instance, NEW j, Become(i, "sweep", j),
           UNCHANGED allButJob, SweepFits(exec, j),
           j.step \notin {"claiming", "send", "recording"}
    PROVE  Fits'
  <1>1. "sweep" \in Place /\ JobFits(task, exec, "sweep", j)
    BY Steps DEF JobFits
  <1>2. UNCHANGED <<task, exec, inbox, routed>>
    BY DEF allButJob, workerVars
  <1> QED BY <1>1, <1>2, HandlerFits

LEMMA SweepFitsKept ==
    ASSUME Inv, Fits, NEW i \in Instance, Sweep(i)
    PROVE  Fits'
  <1> DEFINE j == job[i]["sweep"]
  <1>0. /\ "sweep" \in Place /\ j \in Job /\ SweepFits(exec, j)
        /\ UNCHANGED allButJob
    BY Steps, JobFields DEF Fits, JobFits, Sweep, SweepBegins, SweepLists, DeadLetter, Judge,
       JudgeLost, SweepAsks, JudgeVanished, JudgeSpared
  <1>1. ASSUME NEW step, NEW t, Write(i, "sweep", step, t), step \in {"lostFailing", "deadLettering"}
        PROVE  Fits'
    <2>1. PICK k : /\ Become(i, "sweep", k)
                   /\ k.step = step /\ k.sessions = j.sessions /\ k.asked = j.asked
      BY <1>0, <1>1, WriteMoves
    <2>2. SweepFits(exec, k)
      BY <1>0, <1>1, <2>1 DEF SweepFits
    <2> HIDE DEF j
    <2> QED BY <1>0, <1>1, <2>1, <2>2, SweepHandlerFits
  <1>2. CASE SweepBegins(i)
    <2>1. PICK k : /\ Become(i, "sweep", k) /\ k.step = "sweep"
                   /\ k.sessions = j.sessions /\ k.asked = j.asked
      BY <1>0, <1>2, GotoMoves DEF SweepBegins
    <2>2. SweepFits(exec, k)
      BY <1>0, <1>2, <2>1 DEF SweepFits, SweepBegins, At
    <2> QED BY <1>0, <2>1, <2>2, SweepHandlerFits
  <1>3. CASE SweepLists(i)
    <2> DEFINE dispatched == {t \in Task : task[t].phase = "Dispatched"}
               named == {t \in dispatched : task[t].session}
               k == [j EXCEPT !.step = "judge", !.listed = dispatched, !.sessions = named]
    <2>1. k.step = "judge" /\ k.sessions = named /\ k.asked = j.asked
      BY <1>0 DEF Job
    <2>2. \A t \in named : exec[t].state \in Reached
      BY DEF Fits, RowFits
    <2>3. ~j.asked
      BY <1>0, <1>3 DEF SweepLists, At, SweepFits
    <2>4. Become(i, "sweep", Idle) \/ Become(i, "sweep", k)
      BY <1>3 DEF SweepLists
    <2> HIDE DEF k, named
    <2>5. SweepFits(exec, k)
      BY <2>1, <2>2, <2>3 DEF SweepFits
    <2>6. SweepFits(exec, Idle) /\ Idle.step = "idle"
      BY DEF SweepFits, Idle
    <2> QED BY <1>0, <2>1, <2>4, <2>5, <2>6, SweepHandlerFits
  <1>4. CASE SweepAsks(i)
    <2>1. PICK absent \in {j.sessions \ Held, {}} :
             Become(i, "sweep", [j EXCEPT !.asked = TRUE, !.sessions = absent])
      BY <1>4 DEF SweepAsks
    <2> DEFINE k == [j EXCEPT !.asked = TRUE, !.sessions = absent]
    <2>2. k.step = "judge" /\ k.sessions = absent /\ k.asked
      BY <1>0, <1>4 DEF Job, SweepAsks, At
    <2>3. \A t \in absent : exec[t].state = "ended"
      <3>1. j.sessions \subseteq Task
        BY <1>0 DEF Job
      <3> QED BY <1>0, <3>1 DEF SweepFits, Held, Reached
    <2>4. Become(i, "sweep", k)
      BY <2>1
    <2> HIDE DEF k, j
    <2>5. SweepFits(exec, k)
      BY <2>2, <2>3 DEF SweepFits, Reached
    <2> QED BY <1>0, <2>2, <2>4, <2>5, SweepHandlerFits
  <1>5. CASE JudgeVanished(i)
    <2>1. PICK t \in j.listed \cap j.sessions : Write(i, "sweep", "vanishFailing", t)
      BY <1>5 DEF JudgeVanished
    <2>2. PICK k : /\ Become(i, "sweep", k) /\ k.step = "vanishFailing" /\ k.on = t
                   /\ k.sessions = j.sessions /\ k.asked = j.asked
      BY <1>0, <2>1, WriteMoves
    <2>3. SweepFits(exec, k)
      BY <1>0, <1>5, <2>1, <2>2 DEF SweepFits, JudgeVanished
    <2> QED BY <1>0, <2>2, <2>3, SweepHandlerFits
  <1>6. CASE JudgeSpared(i)
    <2>1. PICK t : Become(i, "sweep", Judged(j, t))
      BY <1>6 DEF JudgeSpared
    <2>2. SweepFits(exec, Judged(j, t)) /\ Judged(j, t).step \in {"idle", "judge"}
      BY <1>0, JudgedFits
    <2> QED BY <1>0, <2>1, <2>2, SweepHandlerFits
  <1> QED BY <1>1, <1>2, <1>3, <1>4, <1>5, <1>6 DEF Sweep, Judge, JudgeLost, DeadLetter

-----------------------------------------------------------------------------
(* Where an answer leaves the handler.                                     *)
LEMMA AnsweredFits ==
    ASSUME NEW p \in Place, NEW j \in Job, JobFits(task, exec, p, j),
           j.step \in InFlight, NEW applied
    PROVE  LET k == Answered(j, applied)
           IN  /\ k.step \in {"send", "reap", "judge", "sweep", "idle"}
               /\ k.step = "send" => /\ j.step = "claiming" /\ applied
                                     /\ k.task = j.task /\ k.fence = j.fence
               /\ k.step \notin {"idle", "sweep"} => k.task = j.task
               /\ p = "loop" => k.step = "idle"
               /\ p = "sweep" => SweepFits(exec, k)
  <1> DEFINE sending == [j EXCEPT !.step = "send", !.on = None]
             reaping == [j EXCEPT !.step = "reap", !.listed = @ \ {j.on}, !.on = None,
                                  !.fence = NoFence]
             sweeping == [Idle EXCEPT !.step = "sweep"]
             judging == [j EXCEPT !.step = "judge", !.listed = @ \ {j.on}, !.on = None,
                                  !.fence = NoFence]
  <1>1. sending.step = "send" /\ sending.task = j.task /\ sending.fence = j.fence
    BY DEF Job
  <1>2. /\ reaping.step = "reap" /\ reaping.task = j.task
        /\ reaping.sessions = j.sessions /\ reaping.asked = j.asked
    BY DEF Job
  <1>3. sweeping.step = "sweep" /\ sweeping.sessions = {} /\ ~sweeping.asked
    BY DEF Idle
  <1>4. /\ judging.step = "judge" /\ judging.task = j.task
        /\ judging.sessions = j.sessions /\ judging.asked = j.asked
    BY DEF Job
  <1>5. Idle.step = "idle" /\ Idle.sessions = {} /\ ~Idle.asked
    BY DEF Idle
  <1>6. CASE j.step = "claiming"
    <2>1. Answered(j, applied) = IF applied THEN sending ELSE Idle
      BY <1>6 DEF Answered, MaySend
    <2>2. p \in Slot
      BY <1>6 DEF JobFits
    <2> HIDE DEF sending
    <2> QED BY <1>1, <1>5, <1>6, <2>1, <2>2
  <1>7. CASE j.step = "recoverFailing"
    <2>1. Answered(j, applied) = reaping
      BY <1>7 DEF Answered, MaySend
    <2> HIDE DEF reaping
    <2>2. p = "sweep" => SweepFits(exec, reaping)
      BY <1>2 DEF JobFits, SweepFits
    <2>3. p # "loop"
      BY <1>7 DEF JobFits, LoopSteps
    <2> QED BY <1>2, <2>1, <2>2, <2>3
  <1>8. CASE j.step \in {"vanishFailing", "lostFailing"}
    <2>1. Answered(j, applied) = Judged(j, j.on)
      BY <1>8 DEF Answered, MaySend
    <2>2. Answered(j, applied) = IF j.listed = {j.on} THEN Idle ELSE judging
      BY <2>1 DEF Judged
    <2> HIDE DEF judging
    <2>3. p = "sweep" => SweepFits(exec, judging) /\ SweepFits(exec, Idle)
      BY <1>4, <1>5 DEF JobFits, SweepFits
    <2>4. p # "loop"
      BY <1>8 DEF JobFits, LoopSteps
    <2> QED BY <1>4, <1>5, <2>2, <2>3, <2>4
  <1>9. CASE j.step = "deadLettering"
    <2>1. Answered(j, applied) = sweeping
      BY <1>9 DEF Answered, MaySend
    <2> HIDE DEF sweeping
    <2>2. p # "loop" /\ SweepFits(exec, sweeping)
      BY <1>3, <1>9 DEF JobFits, LoopSteps, SweepFits
    <2> QED BY <1>3, <2>1, <2>2
  <1>10. CASE j.step \notin {"claiming", "recoverFailing", "vanishFailing", "lostFailing",
                             "deadLettering"}
    <2>1. Answered(j, applied) = Idle
      BY <1>10 DEF Answered, MaySend
    <2>2. SweepFits(exec, Idle)
      BY <1>5 DEF SweepFits
    <2> QED BY <1>5, <2>1, <2>2
  <1> QED BY <1>6, <1>7, <1>8, <1>9, <1>10

(* A statement is answered: the rows moved as they may, and if the handler *)
(* is told that its claim was applied, it was.                             *)
LEMMA HearFits ==
    ASSUME Inv, Fits, NEW i \in Instance, NEW p \in Place, job[i][p].step \in InFlight,
           NEW applied, Hear(i, p, applied),
           UNCHANGED <<exec, inbox, routed>>,
           \A t \in Task : Keeps(t) /\ RowFits(task'[t], exec[t]),
           (applied /\ job[i][p].step = "claiming") =>
               LET t == job[i][p].on
               IN  /\ task[t].phase = "Pending" /\ task'[t].phase # "Pending"
                   /\ task'[t].generation = job[i][p].fence
    PROVE  Fits'
  <1> DEFINE j == job[i][p]
             k == IF i \in up THEN Answered(j, applied) ELSE Idle
  <1>1. j \in Job /\ JobFits(task, exec, p, j)
    BY JobFields DEF Fits
  <1>2. Idle.step = "idle" /\ SweepFits(exec, Idle)
    BY DEF Idle, SweepFits
  <1>3. /\ k.step \in {"send", "reap", "judge", "sweep", "idle"}
        /\ k.step = "send" => /\ j.step = "claiming" /\ applied
                              /\ k.task = j.task /\ k.fence = j.fence
        /\ k.step \notin {"idle", "sweep"} => k.task = j.task
        /\ p = "loop" => k.step = "idle"
        /\ p = "sweep" => SweepFits(exec, k)
    BY <1>1, <1>2, AnsweredFits
  <1>4. \A l \in Instance, q \in Place :
           job'[l][q] = IF l = i /\ q = p THEN k ELSE job[l][q]
    BY DEF Hear, Become, Inv, TypeOK
  <1>5. k.step = "send" => /\ j.on \in Task /\ j.task = j.on /\ task[j.on].phase = "Pending"
                           /\ ClaimFits(task', exec, k)
    <2> HIDE DEF k
    <2> SUFFICES ASSUME k.step = "send"
                 PROVE  /\ j.on \in Task /\ j.task = j.on /\ task[j.on].phase = "Pending"
                        /\ ClaimFits(task', exec, k)
      OBVIOUS
    <2>1. j.step = "claiming" /\ applied /\ j.on = j.task /\ j.task \in Task
      BY <1>1, <1>3 DEF JobFits
    <2>2. exec[j.on].state = "none"
      BY <2>1 DEF Fits, RowFits
    <2> QED BY <1>3, <2>1, <2>2 DEF ClaimFits
  <1> HIDE DEF k
  <1>6. JobFits(task', exec, p, k)
    <2>1. p \in Slot /\ k.step \notin {"idle", "sweep"} => k.task \in Task
      <3>1. j.step \notin {"idle", "sweep"}
        BY Steps DEF InFlight
      <3> QED BY <1>1, <1>3, <3>1 DEF JobFits
    <2> QED BY <1>3, <1>5, <2>1 DEF JobFits, LoopSteps
  <1>7. ASSUME NEW l \in Instance, NEW q \in Place
        PROVE  JobFits(task', exec', q, job'[l][q])
    <2>1. CASE l = i /\ q = p
      BY <1>4, <1>6, <2>1
    <2>2. CASE ~(l = i /\ q = p)
      <3>1. /\ job'[l][q] = job[l][q] /\ job[l][q] \in Job
            /\ JobFits(task, exec, q, job[l][q])
        BY <1>4, <2>2, JobFields DEF Fits
      <3>2. job[l][q].step = "send" => exec'[job[l][q].task].state = "none"
        BY <3>1 DEF JobFits, ClaimFits
      <3> QED BY <3>1, <3>2, JobKept
    <2> QED BY <2>1, <2>2
  <1>8. SoleSender(job')
    <2>1. ASSUME NEW l \in Instance, NEW q \in Place, ~(l = i /\ q = p),
                 k.step = "send", job[l][q].step = "send"
          PROVE  job[l][q].task # k.task
      <3>1. ClaimFits(task, exec, job[l][q])
        BY <2>1 DEF Fits, JobFits
      <3> QED BY <1>3, <1>5, <2>1, <3>1 DEF ClaimFits
    <2> QED BY <1>4, <2>1 DEF Fits, SoleSender
  <1> QED BY <1>7, <1>8 DEF Fits

LEMMA StatementFits ==
    ASSUME Inv, Fits, NEW i \in Instance, NEW p \in Place, Statement(i, p)
    PROVE  Fits'
  <1> DEFINE j == job[i][p]
  <1>0. /\ task \in [Task -> TaskRow] /\ \A t \in Task : RowFits(task[t], exec[t])
        /\ JobFits(task, exec, p, j) /\ j.fence \in Nat
        /\ UNCHANGED <<exec, inbox, routed>>
    BY JobFields DEF Fits, Inv, TypeOK, Statement, StatusStatement, SessionStatement,
       StatementFails, workerVars
  <1>1. CASE StatusStatement(i, p)
    <2> DEFINE move == Transition[j.step]
               applied == CasOutcome(task[j.on], epoch, move.from, j.fence, move.origin)
                              = "Applied"
    <2>1. /\ j.step \in DOMAIN Transition
          /\ task' = IF applied
                     THEN [task EXCEPT ![j.on] = Moved(@, move.to, j.fence)]
                     ELSE task
          /\ Hear(i, p, applied) \/ Hear(i, p, FALSE)
      BY <1>1 DEF StatusStatement
    <2>2. /\ applied => task[j.on].phase \in move.from
          /\ move.to # "Pending"
          /\ move.to = "Dispatched" => move.from = {"Pending"}
          /\ j.step = "claiming" => move.to = "Dispatched"
      BY <2>1, Applied, Steps DEF Transition, Move, Decision, Outcome
    <2> HIDE DEF applied, move, j
    <2>3. ASSUME NEW t \in Task
          PROVE  Keeps(t) /\ RowFits(task'[t], exec[t])
      <3>1. CASE task'[t] = task[t]
        BY <1>0, <3>1 DEF Keeps
      <3>2. CASE task'[t] # task[t]
        <4>1. applied /\ t = j.on /\ task'[t] = Moved(task[t], move.to, j.fence)
          BY <1>0, <2>1, <3>2
        <4>2. task[t] \in TaskRow /\ RowFits(task[t], exec[t])
          BY <1>0
        <4>3. /\ task'[t].phase = move.to /\ task'[t].session = task[t].session
              /\ task'[t].generation # task[t].generation => task[t].phase = "Pending"
          BY <2>2, <4>1, <4>2 DEF Moved, TaskRow
        <4> QED BY <1>0, <2>2, <4>2, <4>3 DEF Keeps, RowFits
      <3> QED BY <3>1, <3>2
    <2>4. (applied /\ j.step = "claiming") =>
             /\ task[j.on].phase = "Pending" /\ task'[j.on].phase # "Pending"
             /\ task'[j.on].generation = j.fence
      <3> SUFFICES ASSUME applied, j.step = "claiming"
                   PROVE  /\ task[j.on].phase = "Pending" /\ task'[j.on].phase # "Pending"
                          /\ task'[j.on].generation = j.fence
        OBVIOUS
      <3>1. j.on \in Task /\ move.to = "Dispatched" /\ task[j.on].phase = "Pending"
        BY <1>0, <2>2 DEF JobFits
      <3>2. /\ task'[j.on] = Moved(task[j.on], "Dispatched", j.fence)
            /\ task[j.on] \in TaskRow /\ task[j.on].generation = NoFence
        BY <1>0, <2>1, <3>1 DEF RowFits
      <3> QED BY <3>1, <3>2 DEF Moved, TaskRow
    <2>5. job[i][p].step \in InFlight
      BY <2>1 DEF InFlight, j
    <2>6. CASE Hear(i, p, applied)
      BY <1>0, <2>3, <2>4, <2>5, <2>6, HearFits DEF j
    <2>7. CASE Hear(i, p, FALSE)
      BY <1>0, <2>3, <2>5, <2>7, HearFits
    <2> QED BY <2>1, <2>6, <2>7
  <1>2. CASE SessionStatement(i, p)
    <2>1. /\ j.step = "recording" /\ Become(i, p, Idle)
          /\ \/ task' = [task EXCEPT ![j.on].session = TRUE]
             \/ task' = task
      BY <1>2 DEF SessionStatement
    <2>2. j.on \in Task /\ exec[j.on].state \in Reached
      BY <1>0, <2>1 DEF JobFits
    <2> HIDE DEF j
    <2>3. ASSUME NEW t \in Task
          PROVE  Keeps(t) /\ RowFits(task'[t], exec[t])
      <3>1. CASE task'[t] = task[t]
        BY <1>0, <3>1 DEF Keeps
      <3>2. CASE task'[t] # task[t]
        <4>1. t = j.on /\ task'[t] = [task[t] EXCEPT !.session = TRUE]
          BY <1>0, <2>1, <3>2
        <4>2. task'[t].phase = task[t].phase /\ task'[t].generation = task[t].generation
          BY <1>0, <4>1 DEF TaskRow
        <4> QED BY <1>0, <2>2, <4>1, <4>2 DEF Keeps, RowFits
      <3> QED BY <3>1, <3>2
    <2>4. job[i][p].step = "recording"
      BY <2>1 DEF j
    <2>5. Hear(i, p, FALSE)
      BY <2>1, <2>4 DEF Hear, Answered, MaySend
    <2>6. job[i][p].step \in InFlight
      BY <2>4 DEF InFlight
    <2> QED BY <1>0, <2>3, <2>5, <2>6, HearFits
  <1>3. CASE StatementFails(i, p)
    <2>1. Hear(i, p, FALSE) /\ job[i][p].step \in InFlight /\ task' = task
      BY <1>3 DEF StatementFails
    <2>2. \A t \in Task : Keeps(t) /\ RowFits(task'[t], exec[t])
      BY <1>0, <2>1 DEF Keeps
    <2> QED BY <1>0, <2>1, <2>2, HearFits
  <1> QED BY <1>1, <1>2, <1>3 DEF Statement

-----------------------------------------------------------------------------
(* The executions move under the handlers' feet, as far as they may.       *)
Ages(t) ==
    /\ exec'[t].by = exec[t].by /\ exec'[t].generation = exec[t].generation
    /\ exec'[t].state = "none" <=> exec[t].state = "none"
    /\ exec'[t].state = "opening" => exec[t].state = "opening"
    /\ exec[t].state \in Reached => exec'[t].state \in Reached
    /\ exec[t].state = "ended" => exec'[t].state = "ended"

LEMMA AgingFits ==
    ASSUME Inv, Fits, \A t \in Task : Ages(t), UNCHANGED task,
           \A i \in Instance : InboxFits(exec', inbox'[i]),
           \A t \in routed' : t \in routed \/ exec'[t].state \in Reached,
           \A i \in Instance, p \in Place : job'[i][p] = job[i][p] \/ job'[i][p] = Idle
    PROVE  Fits'
  <1>1. \A t \in Task : Keeps(t)
    BY DEF Ages, Keeps
  <1>2. \A t \in Task : RowFits(task[t], exec'[t])
    BY DEF Fits, RowFits, Ages
  <1>3. ASSUME NEW i \in Instance, NEW p \in Place
        PROVE  JobFits(task', exec', p, job'[i][p])
    <2>1. CASE job'[i][p] = Idle
      BY <2>1 DEF JobFits, SweepFits, LoopSteps, Idle
    <2>2. CASE job'[i][p] = job[i][p]
      <3>1. job[i][p] \in Job /\ JobFits(task, exec, p, job[i][p])
        BY JobFields DEF Fits
      <3>2. job[i][p].step = "send" => exec'[job[i][p].task].state = "none"
        BY <3>1 DEF JobFits, ClaimFits, Ages
      <3> QED BY <1>1, <2>2, <3>1, <3>2, JobKept
    <2> QED BY <2>1, <2>2
  <1>4. SoleSender(job')
    <2>1. Idle.step = "idle"
      BY DEF Idle
    <2> QED BY <2>1 DEF Fits, SoleSender
  <1>5. \A t \in routed' : exec'[t].state \in Reached
    BY DEF Fits, Ages, Inv, TypeOK
  <1> QED BY <1>2, <1>3, <1>4, <1>5 DEF Fits

(* An inbox grows by one event, or by reports.                             *)
LEMMA AppendFits ==
    ASSUME NEW execs, NEW events \in Seq(Event), InboxFits(execs, events),
           NEW e \in Event, e.kind = "opened" => execs[e.task].state \in Reached
    PROVE  InboxFits(execs, Append(events, e))
  <1>1. /\ Len(Append(events, e)) = Len(events) + 1 /\ Len(events) \in Nat
        /\ \A n \in 1 .. Len(events) + 1 :
              Append(events, e)[n] = IF n = Len(events) + 1 THEN e ELSE events[n]
    OBVIOUS
  <1> QED BY <1>1 DEF InboxFits

LEMMA ConcatFits ==
    ASSUME NEW execs, NEW events \in Seq(Event), NEW more \in Seq(Event),
           InboxFits(execs, events), InboxFits(execs, more)
    PROVE  InboxFits(execs, events \o more)
  <1>1. /\ Len(events \o more) = Len(events) + Len(more)
        /\ Len(events) \in Nat /\ Len(more) \in Nat
        /\ \A n \in 1 .. Len(events) + Len(more) :
              (events \o more)[n] = IF n =< Len(events) THEN events[n]
                                    ELSE more[n - Len(events)]
    OBVIOUS
  <1> QED BY <1>1 DEF InboxFits

LEMMA ReportFits ==
    ASSUME NEW execs, NEW kind \in {"completed", "failed"}, NEW about \in SUBSET Task,
           NEW report \in Reports(kind, about)
    PROVE  report \in Seq(Event) /\ InboxFits(execs, report)
  <1>1. PICK order \in SetToSeqs(about) :
           report = [n \in 1 .. Len(order) |-> [kind |-> kind, task |-> order[n]]]
    BY DEF Reports
  <1>2. report \in Seq(Event)
    BY ReportsType
  <1>3. \A n \in 1 .. Len(order) : report[n].kind = kind
    BY <1>1
  <1>4. Len(report) = Len(order)
    <2>1. Cardinality(about) \in Nat
      BY FS_Subset, FS_CardinalityType
    <2>2. order \in [1 .. Cardinality(about) -> about]
      BY DEF SetToSeqs
    <2>3. Len(order) = Cardinality(about)
      BY <2>1, <2>2
    <2>4. DOMAIN report = 1 .. Len(order)
      BY <1>1
    <2> QED BY <2>1, <2>3, <2>4
  <1> QED BY <1>2, <1>3, <1>4 DEF InboxFits

LEMMA TellFits ==
    ASSUME Inv, Fits, \A u \in Task : Keeps(u), NEW t \in Task,
           NEW kind \in {"opened", "completed", "failed"}, Tell(t, kind),
           kind = "opened" => exec'[t].state \in Reached
    PROVE  \A i \in Instance : InboxFits(exec', inbox'[i])
  <1> DEFINE e == [kind |-> kind, task |-> t]
  <1>1. /\ e \in Event
        /\ e.kind = "opened" => exec'[e.task].state \in Reached
    BY DEF Event
  <1>2. inbox \in [Instance -> Seq(Event)]
    BY DEF Inv, TypeOK
  <1>3. \A i \in Instance : InboxFits(exec', inbox[i])
    BY <1>2, InboxKept DEF Fits
  <1>4. \A i \in Instance : inbox'[i] = inbox[i] \/ inbox'[i] = Append(inbox[i], e)
    BY <1>2 DEF Tell
  <1> HIDE DEF e
  <1>5. ASSUME NEW i \in Instance
        PROVE  InboxFits(exec', inbox'[i])
    <2>1. inbox[i] \in Seq(Event) /\ InboxFits(exec', inbox[i])
      BY <1>2, <1>3
    <2>2. InboxFits(exec', Append(inbox[i], e))
      BY <1>1, <2>1, AppendFits
    <2> QED BY <1>4, <2>1, <2>2
  <1> QED BY <1>5

LEMMA ExecutionFits ==
    ASSUME Inv, Fits, NEW t \in Task,
           SessionOpens(t) \/ SessionRefused(t) \/ ExecutionEnds(t) \/ PromptTimesOut(t)
    PROVE  Fits' /\ \A u \in Task : Ages(u)
  <1>1. \A u \in Task : Ages(u)
    <2>1. exec \in [Task -> Executions]
      BY DEF Inv, TypeOK, Executions
    <2>2. \/ exec' = [exec EXCEPT ![t].state = "open"] /\ exec[t].state = "opening"
          \/ exec' = [exec EXCEPT ![t].state = "ended"] /\ exec[t].state \in {"opening", "open"}
          \/ exec' = exec
      BY DEF SessionOpens, SessionRefused, ExecutionEnds, PromptTimesOut
    <2>3. \A u \in Task : u # t => exec'[u] = exec[u]
      BY <2>1, <2>2
    <2>4. \/ /\ exec'[t].state = "open" /\ exec[t].state = "opening"
             /\ exec'[t].by = exec[t].by /\ exec'[t].generation = exec[t].generation
          \/ /\ exec'[t].state = "ended" /\ exec[t].state \in {"opening", "open"}
             /\ exec'[t].by = exec[t].by /\ exec'[t].generation = exec[t].generation
          \/ exec'[t] = exec[t]
      BY <2>1, <2>2 DEF Executions
    <2> QED BY <2>3, <2>4 DEF Ages, Reached
  <1>2. \A u \in Task : Keeps(u)
    BY <1>1 DEF Ages, Keeps, SessionOpens, SessionRefused, ExecutionEnds, PromptTimesOut,
       allButTransport
  <1>3. \A i \in Instance : InboxFits(exec', inbox'[i])
    <2>1. CASE SessionOpens(t)
      <3>1. Tell(t, "opened") /\ exec'[t].state = "open"
        BY <2>1 DEF SessionOpens, Inv, TypeOK
      <3> QED BY <1>2, <3>1, TellFits DEF Reached
    <2>2. CASE UNCHANGED inbox
      <3>1. ASSUME NEW i \in Instance
            PROVE  InboxFits(exec', inbox[i])
        <4>1. inbox[i] \in Seq(Event) /\ InboxFits(exec, inbox[i])
          BY DEF Fits, Inv, TypeOK
        <4> QED BY <1>2, <4>1, InboxKept
      <3> QED BY <2>2, <3>1
    <2>3. ASSUME NEW kind \in {"completed", "failed"}, Tell(t, kind)
          PROVE  \A i \in Instance : InboxFits(exec', inbox'[i])
      BY <1>2, <2>3, TellFits
    <2> QED BY <2>1, <2>2, <2>3 DEF SessionRefused, ExecutionEnds, PromptTimesOut
  <1>4. UNCHANGED <<task, job>>
    BY DEF SessionOpens, SessionRefused, ExecutionEnds, PromptTimesOut, allButTransport
  <1>5. \A u \in routed' : u \in routed \/ exec'[u].state \in Reached
    <2>1. CASE SessionOpens(t)
      <3>1. exec'[t].state = "open" /\ routed' \subseteq routed \cup {t}
        BY <2>1 DEF SessionOpens, Inv, TypeOK
      <3> QED BY <3>1 DEF Reached
    <2>2. CASE SessionRefused(t) \/ ExecutionEnds(t) \/ PromptTimesOut(t)
      BY <2>2 DEF SessionRefused, ExecutionEnds, PromptTimesOut
    <2> QED BY <2>1, <2>2
  <1> QED BY <1>1, <1>3, <1>4, <1>5, AgingFits

(* Executions that reached the worker, or were on their way, end.          *)
LEMMA EndingAges ==
    ASSUME Inv, NEW ended, \A t \in ended \cap Task : exec[t].state # "none",
           exec' = [t \in Task |-> IF t \in ended THEN [exec[t] EXCEPT !.state = "ended"]
                                                 ELSE exec[t]]
    PROVE  \A t \in Task : Ages(t)
  <1>1. ASSUME NEW t \in Task
        PROVE  Ages(t)
    <2>1. exec[t] \in Executions
      BY DEF Inv, TypeOK, Executions
    <2>2. \/ exec'[t] = exec[t]
          \/ exec[t].state # "none" /\ exec'[t] = [exec[t] EXCEPT !.state = "ended"]
      OBVIOUS
    <2>3. \/ exec'[t] = exec[t]
          \/ /\ exec[t].state # "none" /\ exec'[t].state = "ended"
             /\ exec'[t].by = exec[t].by /\ exec'[t].generation = exec[t].generation
      BY <2>1, <2>2 DEF Executions
    <2> QED BY <2>3 DEF Ages, Reached
  <1> QED BY <1>1

LEMMA ConnectionLostFits ==
    ASSUME Inv, Fits, NEW i \in Instance, ConnectionLost(i)
    PROVE  Fits' /\ \A u \in Task : Ages(u)
  <1>1. PICK answered \in SUBSET Lost(i) :
          /\ \E lost \in Reports("failed", Lost(i)), late \in Reports("completed", answered) :
               inbox' = [inbox EXCEPT ![i] = @ \o lost \o late]
          /\ exec' = [t \in Task |-> IF t \in answered
                                    THEN [exec[t] EXCEPT !.state = "ended"] ELSE exec[t]]
    BY DEF ConnectionLost
  <1>2. PICK lost \in Reports("failed", Lost(i)), late \in Reports("completed", answered) :
          inbox' = [inbox EXCEPT ![i] = @ \o lost \o late]
    BY <1>1
  <1>3. \A t \in Task : Ages(t)
    <2>1. \A t \in answered \cap Task : exec[t].state # "none"
      BY DEF Lost, Fits, Reached
    <2> QED BY <1>1, <2>1, EndingAges
  <1>4. UNCHANGED <<task, job>> /\ routed' \subseteq routed
    BY DEF ConnectionLost, allButTransport
  <1>5. \A t \in Task : Keeps(t)
    BY <1>3, <1>4 DEF Ages, Keeps
  <1>6. ASSUME NEW k \in Instance
        PROVE  InboxFits(exec', inbox'[k])
    <2>1. inbox[k] \in Seq(Event) /\ InboxFits(exec', inbox[k])
      BY <1>5, InboxKept DEF Fits, Inv, TypeOK
    <2>2. Lost(i) \in SUBSET Task /\ answered \in SUBSET Task
      BY DEF Lost, Inv, TypeOK
    <2>3. /\ lost \in Seq(Event) /\ InboxFits(exec', lost)
          /\ late \in Seq(Event) /\ InboxFits(exec', late)
      BY <2>2, ReportFits
    <2>4. inbox[k] \o lost \in Seq(Event) /\ InboxFits(exec', inbox[k] \o lost)
      BY <2>1, <2>3, ConcatFits
    <2>5. InboxFits(exec', inbox[k] \o lost \o late)
      BY <2>3, <2>4, ConcatFits
    <2>6. inbox'[k] = inbox[k] \/ inbox'[k] = inbox[k] \o lost \o late
      BY <1>2 DEF Inv, TypeOK
    <2> QED BY <2>1, <2>5, <2>6
  <1> QED BY <1>3, <1>4, <1>6, AgingFits

LEMMA AllConnectionsLostFits ==
    ASSUME Inv, Fits, AllConnectionsLost, \A t \in Task : Ages(t)
    PROVE  Fits'
  <1>1. PICK lost \in [Instance -> UNION {Reports("failed", Lost(i)) : i \in Instance}] :
          /\ \A i \in Instance : lost[i] \in Reports("failed", Lost(i))
          /\ inbox' = [i \in Instance |-> inbox[i] \o lost[i]]
    BY DEF AllConnectionsLost
  <1>2. UNCHANGED <<task, job>> /\ routed' = {}
    BY DEF AllConnectionsLost
  <1>3. \A t \in Task : Keeps(t)
    BY <1>2 DEF Ages, Keeps
  <1>4. ASSUME NEW k \in Instance
        PROVE  InboxFits(exec', inbox'[k])
    <2>1. inbox[k] \in Seq(Event) /\ InboxFits(exec', inbox[k])
      BY <1>3, InboxKept DEF Fits, Inv, TypeOK
    <2>2. Lost(k) \in SUBSET Task
      BY DEF Lost, Inv, TypeOK
    <2>3. lost[k] \in Seq(Event) /\ InboxFits(exec', lost[k])
      BY <1>1, <2>2, ReportFits
    <2>4. InboxFits(exec', inbox[k] \o lost[k])
      BY <2>1, <2>3, ConcatFits
    <2> QED BY <1>1, <2>4
  <1> QED BY <1>2, <1>4, AgingFits

LEMMA WorkerFits ==
    ASSUME Inv, Fits, Worker
    PROVE  Fits' /\ \A t \in Task : Ages(t)
  <1>0. exec' = exec => \A t \in Task : Ages(t)
    BY DEF Ages
  <1>1. CASE \E t \in Task : SessionOpens(t) \/ SessionRefused(t)
                               \/ ExecutionEnds(t) \/ PromptTimesOut(t)
    BY <1>1, ExecutionFits
  <1>2. CASE WorkerOffline
    BY <1>0, <1>2, AllConnectionsLostFits DEF WorkerOffline
  <1>3. CASE WorkerOnline
    BY <1>0, <1>3, AgingFits DEF WorkerOnline, Fits
  <1>4. CASE WorkerRestarts
    <2> DEFINE ended == {t \in Task : exec[t].state \in {"opening", "open"}}
    <2>1. exec' = [t \in Task |-> IF t \in ended THEN [exec[t] EXCEPT !.state = "ended"]
                                                 ELSE exec[t]]
      BY <1>4 DEF WorkerRestarts
    <2>2. \A t \in ended \cap Task : exec[t].state # "none"
      OBVIOUS
    <2> HIDE DEF ended
    <2>3. \A t \in Task : Ages(t)
      BY <2>1, <2>2, EndingAges
    <2> QED BY <1>4, <2>3, AllConnectionsLostFits DEF WorkerRestarts
  <1> QED BY <1>1, <1>2, <1>3, <1>4 DEF Worker

(* What only takes away: a lagging inbox, a crash, a lease that moves.     *)
LEMMA FaultsFit ==
    ASSUME Inv, Fits,
           AuthorityMoves \/ \E i \in Instance : EventLagged(i) \/ Crash(i)
    PROVE  Fits' /\ \A t \in Task : Ages(t)
  <1>1. UNCHANGED <<task, exec>> /\ routed' \subseteq routed
    BY DEF EventLagged, Crash, AuthorityMoves, controlVars, workerVars
  <1>2. \A t \in Task : Ages(t)
    BY <1>1 DEF Ages
  <1>3. ASSUME NEW k \in Instance
        PROVE  InboxFits(exec', inbox'[k])
    <2>1. inbox[k] \in Seq(Event) /\ InboxFits(exec, inbox[k])
      BY DEF Fits, Inv, TypeOK
    <2>2. ASSUME NEW i \in Instance, EventLagged(i)
          PROVE  InboxFits(exec', inbox'[k])
      <3>1. inbox'[k] = inbox[k] \/ (inbox[k] # <<>> /\ inbox'[k] = Tail(inbox[k]))
        BY <2>2 DEF EventLagged, Inv, TypeOK
      <3> QED BY <1>1, <2>1, <3>1, TailFits
    <2>3. ASSUME NEW i \in Instance, Crash(i)
          PROVE  InboxFits(exec', inbox'[k])
      <3>1. inbox'[k] = inbox[k] \/ inbox'[k] = <<>>
        BY <2>3 DEF Crash, Inv, TypeOK
      <3>2. InboxFits(exec, <<>>)
        BY DEF InboxFits
      <3> QED BY <1>1, <2>1, <3>1, <3>2
    <2>4. CASE AuthorityMoves
      BY <1>1, <2>1, <2>4 DEF AuthorityMoves, controlVars
    <2> QED BY <2>2, <2>3, <2>4
  <1>4. \A k \in Instance, p \in Place : job'[k][p] = job[k][p] \/ job'[k][p] = Idle
    <2>1. ASSUME NEW i \in Instance, Crash(i), NEW k \in Instance, NEW p \in Place
          PROVE  job'[k][p] = job[k][p] \/ job'[k][p] = Idle
      BY <2>1 DEF Crash, Inv, TypeOK
    <2>2. (AuthorityMoves \/ \E i \in Instance : EventLagged(i)) => job' = job
      BY DEF EventLagged, AuthorityMoves, controlVars
    <2> QED BY <2>1, <2>2
  <1> QED BY <1>1, <1>2, <1>3, <1>4, AgingFits

(* An operator moves a row out of Pending, or ends a dispatched one.       *)
LEMMA OperatorFits ==
    ASSUME Inv, Fits, NEW t \in Task, OperatorCancels(t)
    PROVE  Fits'
  <1>1. /\ task' = [task EXCEPT ![t] = Moved(@, "Cancelled", NoFence)]
        /\ UNCHANGED <<job, exec, inbox, routed>>
    BY DEF OperatorCancels, workerVars
  <1>2. /\ task \in [Task -> TaskRow] /\ \A u \in Task : u # t => task'[u] = task[u]
    BY <1>1 DEF Inv, TypeOK
  <1>3. /\ task'[t].phase = "Cancelled" /\ task'[t].generation = task[t].generation
        /\ task'[t].session = task[t].session
    BY <1>1, <1>2 DEF Moved, TaskRow
  <1>4. \A u \in Task : Keeps(u) /\ RowFits(task'[u], exec[u])
    BY <1>1, <1>2, <1>3 DEF Fits, Keeps, RowFits
  <1>5. ASSUME NEW i \in Instance, NEW p \in Place
        PROVE  JobFits(task', exec', p, job[i][p])
    <2>1. job[i][p] \in Job /\ JobFits(task, exec, p, job[i][p])
      BY JobFields DEF Fits
    <2>2. job[i][p].step = "send" => exec'[job[i][p].task].state = "none"
      BY <1>1, <2>1 DEF JobFits, ClaimFits
    <2> QED BY <1>4, <2>1, <2>2, JobKept
  <1> QED BY <1>1, <1>4, <1>5 DEF Fits

LEMMA InitFits == Init => Fits
  <1> SUFFICES ASSUME Init PROVE Fits
    OBVIOUS
  <1>1. \A i \in Instance, p \in Place : job[i][p] = Idle
    BY DEF Init
  <1>2. \A i \in Instance : InboxFits(exec, inbox[i])
    BY DEF Init, InboxFits
  <1>3. \A p \in Place : JobFits(task, exec, p, Idle)
    BY DEF JobFits, SweepFits, LoopSteps, Idle
  <1>4. SoleSender(job)
    BY <1>1 DEF SoleSender, Idle
  <1>5. \A t \in Task : RowFits(task[t], exec[t])
    BY DEF Init, RowFits, NewRow
  <1> QED BY <1>1, <1>2, <1>3, <1>4, <1>5 DEF Fits, Init

LEMMA NextFits == Inv /\ Fits /\ [Next]_vars => Fits'
  <1> SUFFICES ASSUME Inv, Fits, [Next]_vars PROVE Fits'
    OBVIOUS
  <1>1. CASE Next
    BY <1>1, StatementFits, RequestFits, EventLoopFits, SweepFitsKept, ConnectionLostFits,
       FaultsFit, OperatorFits, WorkerFits DEF Next
  <1>2. CASE UNCHANGED vars
    BY <1>2 DEF Fits, vars, controlVars, workerVars
  <1> QED BY <1>1, <1>2

LEMMA FitsHolds == Spec => []Fits
  BY InitFits, NextFits, InvHolds, PTL DEF Spec

-----------------------------------------------------------------------------
(***************************************************************************)
(* A task reaches a worker at most once: between the claim and the sending *)
(* any number of handlers, processes and fail-overs may compete, and none  *)
(* of them can claim a row that is no longer Pending.                      *)
(***************************************************************************)
THEOREM TasksExecuteOnce == Spec => ExecutedOnce
  <1> DEFINE Once == \A t \in Task :
               exec[t].state # "none" =>
                  /\ exec'[t].by = exec[t].by
                  /\ exec'[t].state = "opening" => exec[t].state = "opening"
  <1>1. Inv /\ Fits /\ [Next]_vars => Once
    <2> SUFFICES ASSUME Inv, Fits, [Next]_vars, NEW t \in Task, exec[t].state # "none"
                 PROVE  /\ exec'[t].by = exec[t].by
                        /\ exec'[t].state = "opening" => exec[t].state = "opening"
      OBVIOUS
    <2>1. CASE exec' = exec
      BY <2>1
    <2>2. ASSUME NEW i \in Instance, NEW s \in Slot, Send(i, s)
          PROVE  exec'[t] = exec[t]
      <3>1. ClaimFits(task, exec, job[i][s])
        BY <2>2, Steps DEF Fits, JobFits, Send, At
      <3>2. job[i][s].task # t
        BY <3>1 DEF ClaimFits
      <3> QED BY <2>2, <3>2 DEF Send, Inv, TypeOK
    <2>3. ASSUME NEW i \in Instance, NEW s \in Slot, Request(i, s), ~Send(i, s)
          PROVE  exec' = exec
      BY <2>3, RequestLeavesAlone
    <2>4. ASSUME NEW i \in Instance, EventLoop(i) \/ Sweep(i)
          PROVE  exec' = exec
      BY <2>4 DEF EventLoop, TakeEvent, RecordOutcome, Sweep, SweepBegins, SweepLists, Judge,
         JudgeLost, SweepAsks, JudgeVanished, JudgeSpared, DeadLetter, allButJob, workerVars
    <2>5. ASSUME NEW i \in Instance, NEW p \in Place, Statement(i, p)
          PROVE  exec' = exec
      BY <2>5 DEF Statement, StatusStatement, SessionStatement, StatementFails, workerVars
    <2>6. (\E u \in Task : OperatorCancels(u)) \/ UNCHANGED vars => exec' = exec
      BY DEF OperatorCancels, vars, workerVars
    <2>7. CASE Worker \/ AuthorityMoves
                 \/ \E i \in Instance : ConnectionLost(i) \/ EventLagged(i) \/ Crash(i)
      <3>1. \A u \in Task : Ages(u)
        BY <2>7, WorkerFits, FaultsFit, ConnectionLostFits
      <3> QED BY <3>1 DEF Ages
    <2> QED BY <2>1, <2>2, <2>3, <2>4, <2>5, <2>6, <2>7 DEF Next
  <1> QED BY <1>1, InvHolds, FitsHolds, PTL DEF Spec, ExecutedOnce

(***************************************************************************)
(* An outcome is booked by a generation of its own: the event loop's fence *)
(* is the generation of the row, and that is the one the execution was     *)
(* started under (Fits), however often control went away and came back.    *)
(***************************************************************************)
THEOREM OutcomesKeepTheirGeneration == Spec => OutcomeFromOwnGeneration
  <1> DEFINE Own(i, t) ==
               /\ Writes(i, "loop", t)
               /\ task'[t].phase \in Terminal
               /\ job[i]["loop"].fence # NoFence
               => exec[t].generation \in {NoFence, job[i]["loop"].fence}
  <1>1. Inv /\ Fits /\ [Next]_vars => \A i \in Instance, t \in Task : Own(i, t)
    <2> SUFFICES ASSUME Inv, Fits, [Next]_vars, NEW i \in Instance, NEW t \in Task,
                        Writes(i, "loop", t), job[i]["loop"].fence # NoFence
                 PROVE  exec[t].generation \in {NoFence, job[i]["loop"].fence}
      OBVIOUS
    <2> DEFINE j == job[i]["loop"]
    <2>1. /\ "loop" \in Place /\ j.step \in DOMAIN Transition /\ j.on = t
          /\ job'[i]["loop"] # j /\ task'[t] # task[t]
          /\ j.step \in LoopSteps
      BY Steps DEF Writes, Fits, JobFits
    <2>2. j.step \in {"completing", "failing"}
      BY <2>1, Steps DEF LoopSteps
    <2>3. ~ \E u \in Task : OperatorCancels(u)
      BY <2>1 DEF OperatorCancels
    <2>4. PICK k \in Instance, q \in Place : Statement(k, q)
      BY <2>1, <2>3, WhoWrites
    <2>5. \E l : Become(k, q, l)
      BY <2>4 DEF Statement, StatusStatement, SessionStatement, StatementFails, Hear
    <2>6. k = i /\ q = "loop"
      BY <2>1, <2>5 DEF Become, Inv, TypeOK
    <2>7. StatusStatement(i, "loop")
      BY <2>1, <2>2, <2>4, <2>6 DEF Statement, SessionStatement, StatementFails
    <2>8. GenerationHolds(task[t], j.fence, "WorkerOutcome")
      <3>1. Transition[j.step].origin = "WorkerOutcome"
        BY <2>2 DEF Transition, Outcome, Move
      <3>2. CasOutcome(task[t], epoch, Transition[j.step].from, j.fence,
                       Transition[j.step].origin) = "Applied"
        BY <2>1, <2>7 DEF StatusStatement
      <3> QED BY <3>1, <3>2 DEF CasOutcome
    <2>9. task[t].generation \in {NoFence, j.fence}
      BY <2>8 DEF GenerationHolds
    <2> QED BY <2>9 DEF Fits, RowFits
  <1> QED BY <1>1, InvHolds, FitsHolds, PTL DEF Spec, OutcomeFromOwnGeneration

(***************************************************************************)
(* The sweep fails no living session: the rows it lists name sessions that *)
(* exist by then, so a session the worker does not hold afterwards ended,  *)
(* and an execution that ended does not come back.                         *)
(***************************************************************************)
THEOREM SweepIsSafe == Spec => []SweepSparesTheLiving
  <1>1. Inv /\ Fits => SweepSparesTheLiving
    <2> SUFFICES ASSUME Inv, Fits, NEW i \in Instance,
                        job[i]["sweep"].step = "vanishFailing"
                 PROVE  exec[job[i]["sweep"].on].state = "ended"
      BY DEF SweepSparesTheLiving
    <2>1. SweepFits(exec, job[i]["sweep"])
      BY Steps DEF Fits, JobFits
    <2> QED BY <2>1 DEF SweepFits
  <1> QED BY <1>1, InvHolds, FitsHolds, PTL
=============================================================================
