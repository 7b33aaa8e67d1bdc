------------------------------ MODULE AgentsProofs ------------------------------
(***************************************************************************)
(* Theorems about module Agents, for any sets of agents and workers, any   *)
(* capacity and deadline, any number of handlers, commands and faults.     *)
(***************************************************************************)
EXTENDS Agents, TLAPS

USE AgentsAssumption

(* A list names an agent once.                                             *)
OneEach(commands) ==
    \A c, d \in commands : c.agent = d.agent => c = d

(* A command is no newer than the row, and says what the row says unless   *)
(* the row has moved on: a generation has one desired status for good.     *)
Current(c) ==
    /\ c.generation <= rows[c.agent].generation
    /\ c.generation = rows[c.agent].generation => c.desired = rows[c.agent].desired

(* A row that was never created is untouched, and nothing is pending for   *)
(* one.                                                                    *)
RowsInv ==
    /\ \A a \in Agent : /\ rows[a].acked <= rows[a].generation
                        /\ rows[a].status = "absent" => rows[a] = NoRow
    /\ \A h \in pending : rows[h.agent].status # "absent"

AtRest(w) == todo[w] = {} /\ doomed[w] = {} /\ birth[w] = {}

(* Where a worker's processes are, by what its loop is doing: in the table *)
(* and on record or known not to be, about to be terminated (and no longer *)
(* on record), or just born; of a worker that is gone, on record alone.    *)
LoopInv(w) ==
    /\ table[w] \subseteq record[w] \cup unwritten[w] /\ table[w] \subseteq space[w]
    /\ doomed[w] \cap record[w] = {}
    /\ OneEach(todo[w])
    /\ loop[w] \in {"dead", "joining"} =>
          /\ table[w] = {} /\ AtRest(w)
          /\ child[w] \subseteq record[w]
    /\ loop[w] \in {"idle", "waiting"} => AtRest(w) /\ child[w] \subseteq table[w]
    /\ loop[w] = "killing" =>
          /\ birth[w] = {} /\ seen[w] \in Report
          /\ child[w] \subseteq table[w] \cup doomed[w]
          /\ table[w] \subseteq AgentsOf(todo[w], "running")
    /\ loop[w] \in {"starting", "recording"} =>
          /\ doomed[w] = {} /\ seen[w] \in Report
          /\ AgentsOf(todo[w], "stopped") = {}
          /\ child[w] \subseteq table[w] \cup birth[w]
          /\ birth[w] \subseteq space[w]
    /\ loop[w] = "starting" => birth[w] = {}
    /\ loop[w] \in {"fencing", "leaving"} =>
          /\ table[w] = {} /\ todo[w] = {} /\ birth[w] = {}
          /\ child[w] \subseteq doomed[w]

(* A worker waits for one heartbeat at a time, so that the list it gets is *)
(* no older than what it has heard.                                        *)
BeatsInv ==
    /\ \A b \in beats :
          /\ b.live => loop[b.worker] = "waiting"
          /\ b.stage \in {"list", "answer"} => b.live
          /\ b.commands # None =>
                /\ b.stage = "answer" /\ b.live
                /\ OneEach(b.commands)
                /\ \A c \in b.commands :
                      Current(c) /\ heard[b.worker][c.agent] <= c.generation
    /\ \A b, c \in beats : b.live /\ c.live /\ b.worker = c.worker => b = c

(* A worker has heard no generation that was not given, works on the one   *)
(* it heard last, and acknowledges what it heard.                          *)
HearingInv ==
    /\ \A w \in Worker, a \in Agent : heard[w][a] <= rows[a].generation
    /\ \A w \in Worker : \A c \in todo[w] :
          Current(c) /\ c.generation = heard[w][c.agent]
    /\ \A w \in Worker : \A k \in acks[w] : k.generation <= heard[w][k.agent]
    /\ \A b \in beats : \A k \in b.acks : k.generation <= heard[b.worker][k.agent]

ToldToStop(a, w) ==
    /\ rows[a].desired = "stopped" /\ rows[a].generation > 0
    /\ heard[w][a] = rows[a].generation

AckOnItsWay(a, w) ==
    \E b \in beats : /\ b.worker = w
                     /\ [agent |-> a, generation |-> rows[a].generation] \in b.acks

AckHasArrived(a, w) == rows[a].worker = w /\ rows[a].acked = rows[a].generation

(* From the moment a worker hears the stop that is in force, it starts the *)
(* agent no more; the process may only be left while the worker is         *)
(* terminating it, and then no acknowledgement is under way.               *)
StopInv ==
    \A a \in Agent, w \in Worker : ToldToStop(a, w) =>
        /\ a \notin table[w] \cup birth[w]
        /\ loop[w] # "killing" \/ AckOnItsWay(a, w) \/ AckHasArrived(a, w)
              => a \notin child[w]

(* TypeOK, part by part.                                                   *)
ControlTypes ==
    /\ rows \in [Agent -> AgentRow(Worker)]
    /\ \A a \in Agent : rows[a].worker \in known \cup {Unplaced}
    /\ known \subseteq Worker
    /\ pending \subseteq Handler

BeatTypes == beats \subseteq Beat

WorkerTypes ==
    /\ loop \in [Worker -> Loop]
    /\ table \in [Worker -> SUBSET Agent] /\ doomed \in [Worker -> SUBSET Agent]
    /\ birth \in [Worker -> SUBSET Agent] /\ child \in [Worker -> SUBSET Agent]
    /\ record \in [Worker -> SUBSET Agent] /\ space \in [Worker -> SUBSET Agent]
    /\ stray \in [Worker -> SUBSET Agent] /\ unwritten \in [Worker -> SUBSET Agent]
    /\ todo \in [Worker -> SUBSET Command]
    /\ acks \in [Worker -> SUBSET Ack]
    /\ seen \in [Worker -> Report \cup {None}]
    /\ silent \in [Worker -> 0..FenceAfter]
    /\ heard \in [Worker -> [Agent -> Nat]]

Types == ControlTypes /\ BeatTypes /\ WorkerTypes /\ faults \in 0..MaxFaults

(* The inductive invariant.                                                *)
AgentsInv ==
    /\ Types /\ RowsInv
    /\ \A w \in Worker : LoopInv(w)
    /\ BeatsInv /\ HearingInv /\ StopInv /\ DeliveredMeansHeard

-------------------------------------------------------------------------------
LEMMA InitAgents == Init => AgentsInv
  <1> SUFFICES ASSUME Init PROVE AgentsInv
    OBVIOUS
  <1>1. NoRow \in AgentRow(Worker)
    BY DEF NoRow, AgentRow, Desired, Observed
  <1>2. Types
    BY <1>1 DEF Init, Types, ControlTypes, BeatTypes, WorkerTypes, Loop, NoRow
  <1>3. RowsInv
    BY DEF Init, RowsInv, NoRow
  <1>4. ASSUME NEW w \in Worker PROVE LoopInv(w)
    BY DEF Init, LoopInv, AtRest, OneEach
  <1>5. BeatsInv /\ HearingInv
    BY DEF Init, BeatsInv, HearingInv, NoRow
  <1>6. StopInv /\ DeliveredMeansHeard
    BY DEF Init, StopInv, ToldToStop, DeliveredMeansHeard, NoRow
  <1> QED BY <1>2, <1>3, <1>4, <1>5, <1>6 DEF AgentsInv

-------------------------------------------------------------------------------
(* What the statements of the store do to a row.                           *)

(* What any statement but an acknowledgement does: a new generation is not *)
(* acknowledged; within one, the desired status and the acknowledgement    *)
(* stay, and the placement is only ever taken away.                        *)
Moved(old, new) ==
    /\ new \in AgentRow(Worker)
    /\ new.generation >= old.generation
    /\ new.acked = old.acked
    /\ new.generation = old.generation =>
          /\ new.desired = old.desired
          /\ new.generation > 0 => new.worker \in {old.worker, Unplaced}
    /\ new.status = "absent" => old.status = "absent" /\ new = NoRow

GoodRow(row) ==
    /\ row \in AgentRow(Worker)
    /\ row.acked <= row.generation
    /\ row.status = "absent" => row = NoRow

LEMMA StaysMoved ==
    ASSUME NEW row, GoodRow(row)
    PROVE  Moved(row, row)
  BY DEF GoodRow, Moved, AgentRow

LEMMA PlacedRow ==
    ASSUME NEW row \in AgentRow(Worker), NEW w \in Worker \cup {Unplaced}
    PROVE  /\ PlacedAt(row, w) \in AgentRow(Worker)
           /\ PlacedAt(row, w).worker = w
           /\ PlacedAt(row, w).status = row.status
           /\ PlacedAt(row, w).desired = row.desired
           /\ PlacedAt(row, w).generation = row.generation
           /\ PlacedAt(row, w).acked = row.acked
  <1> DEFINE seenThere == IF w = row.worker THEN row.observed ELSE "none"
  <1>1. seenThere \in Observed
    BY DEF AgentRow, Observed
  <1>2. PlacedAt(row, w) = [row EXCEPT !.worker = w, !.observed = seenThere]
    BY DEF PlacedAt
  <1> HIDE DEF seenThere
  <1> QED BY <1>1, <1>2 DEF AgentRow

LEMMA CreatedMoved ==
    ASSUME NEW a \in Agent, NEW w \in Worker \cup {Unplaced}
    PROVE  Moved(NoRow, Created(rows, a, w, known, Cap))
  <1> DEFINE place == IF w \in known /\ LoadWithout(rows, a, w) < Cap THEN w ELSE Unplaced
  <1>1. place \in Worker \cup {Unplaced}
    OBVIOUS
  <1>2. Created(rows, a, w, known, Cap) = [NoRow EXCEPT !.status = "ready", !.worker = place]
    BY DEF Created
  <1>3. Created(rows, a, w, known, Cap) =
            [status |-> "ready", worker |-> place, desired |-> "stopped",
             generation |-> 0, acked |-> 0, observed |-> "none"]
    BY <1>2 DEF NoRow
  <1> HIDE DEF place
  <1>4. Created(rows, a, w, known, Cap) \in AgentRow(Worker)
    BY <1>1, <1>3 DEF AgentRow, Desired, Observed
  <1> QED BY <1>3, <1>4 DEF Moved, NoRow

LEMMA AssignedMoved ==
    ASSUME NEW a \in Agent, NEW w \in Worker \cup {Unplaced}, NEW held \in BOOLEAN,
           rows \in [Agent -> AgentRow(Worker)],
           \A b \in Agent : GoodRow(rows[b])
    PROVE  /\ Assigned(rows, a, w, known, Cap, held) \in [Agent -> AgentRow(Worker)]
           /\ \A b \in Agent :
                 Moved(rows[b], Assigned(rows, a, w, known, Cap, held)[b])
           /\ \A b \in Agent :
                 Assigned(rows, a, w, known, Cap, held)[b].worker \in {rows[b].worker} \cup known
  <1> DEFINE moved == Assigned(rows, a, w, known, Cap, held)
             row == Reassigned(rows[a], w)
  <1>1. CASE moved = rows
    BY <1>1, StaysMoved
  <1>2. CASE /\ moved = [rows EXCEPT ![a] = row]
             /\ rows[a].status # "absent" /\ w \in known
    <2>1. rows[a] \in AgentRow(Worker) /\ PlacedAt(rows[a], w) \in AgentRow(Worker)
      BY PlacedRow
    <2>2. /\ row \in AgentRow(Worker) /\ row.worker = w /\ row.status = rows[a].status
          /\ row.generation = rows[a].generation + 1 /\ row.acked = rows[a].acked
      BY <2>1, PlacedRow DEF AgentRow, Reassigned
    <2>3. Moved(rows[a], row)
      BY <1>2, <2>1, <2>2 DEF Moved, AgentRow
    <2> HIDE DEF row
    <2> QED BY <1>2, <2>2, <2>3, StaysMoved
  <1>3. moved = [rows EXCEPT ![a] = row] \/ moved = rows
    BY DEF Assigned
  <1>4. CASE ~(held /\ rows[a].status # "absent" /\ w \in known)
    BY <1>1, <1>4 DEF Assigned
  <1> HIDE DEF moved, row
  <1> QED BY <1>1, <1>2, <1>3, <1>4

LEMMA DesiredMoved ==
    ASSUME NEW row, GoodRow(row), row.status # "absent", NEW held \in BOOLEAN
    PROVE  /\ Moved(row, WithDesired(row, "running", held))
           /\ WithDesired(row, "running", held).worker = row.worker
  <1>1. CASE WithDesired(row, "running", held) = row
    BY <1>1, StaysMoved
  <1>2. CASE WithDesired(row, "running", held) =
                [row EXCEPT !.desired = "running", !.generation = row.generation + 1]
    <2> DEFINE next == row.generation + 1
    <2>1. row.generation \in Nat /\ next \in Nat /\ next > row.generation /\ "running" \in Desired
      BY DEF GoodRow, AgentRow, Desired
    <2>3. WithDesired(row, "running", held) =
             [row EXCEPT !.desired = "running", !.generation = next]
      BY <1>2
    <2> HIDE DEF next
    <2>2. /\ WithDesired(row, "running", held) \in AgentRow(Worker)
          /\ WithDesired(row, "running", held).generation = next
          /\ WithDesired(row, "running", held).acked = row.acked
          /\ WithDesired(row, "running", held).status = row.status
          /\ WithDesired(row, "running", held).worker = row.worker
      BY <2>1, <2>3 DEF GoodRow, AgentRow
    <2> QED BY <2>1, <2>2 DEF Moved
  <1> QED BY <1>1, <1>2 DEF WithDesired

LEMMA RetiredMoved ==
    ASSUME NEW row, GoodRow(row), row.status # "absent"
    PROVE  Moved(row, Retired(row)) /\ Retired(row).worker = row.worker
  <1> DEFINE next == IF row.desired = "stopped" THEN row.generation ELSE row.generation + 1
  <1>1. /\ next \in Nat /\ next >= row.generation
        /\ next = row.generation => row.desired = "stopped"
    BY DEF GoodRow, AgentRow
  <1>2. Retired(row) = [row EXCEPT !.status = "stopped", !.desired = "stopped",
                                   !.generation = next]
    BY DEF Retired
  <1>3. "stopped" \in Desired
    BY DEF Desired
  <1> HIDE DEF next
  <1> QED BY <1>1, <1>2, <1>3 DEF GoodRow, Moved, AgentRow

LEMMA WorkerGoneMoved ==
    ASSUME NEW row, GoodRow(row), NEW w \in Worker
    PROVE  /\ Moved(row, WorkerGone(row, w))
           /\ WorkerGone(row, w).worker \in {row.worker, Unplaced} \ {w}
  <1>1. CASE row.worker = w
    <2>1. row.status # "absent"
      BY <1>1 DEF GoodRow, NoRow
    <2> QED BY <1>1, <2>1, PlacedRow DEF WorkerGone, Moved, GoodRow, AgentRow
  <1>2. CASE row.worker # w
    BY <1>2, StaysMoved DEF WorkerGone
  <1> QED BY <1>1, <1>2

LEMMA ObservedMoved ==
    ASSUME NEW w \in Worker, NEW report \in Report, NEW a \in Agent,
           rows \in [Agent -> AgentRow(Worker)], GoodRow(rows[a])
    PROVE  /\ Moved(rows[a], ObservedBy(rows, w, report)[a])
           /\ ObservedBy(rows, w, report)[a].worker = rows[a].worker
  <1>1. CASE rows[a].worker = w
    <2>1. rows[a].status # "absent"
      BY <1>1 DEF GoodRow, NoRow
    <2>2. ObservedBy(rows, w, report)[a] = [rows[a] EXCEPT !.observed = report[a]]
      BY <1>1 DEF ObservedBy
    <2>3. report[a] \in Observed
      BY DEF Report
    <2> QED BY <2>1, <2>2, <2>3 DEF GoodRow, Moved, AgentRow
  <1>2. CASE rows[a].worker # w
    <2>1. ObservedBy(rows, w, report)[a] = rows[a]
      BY <1>2 DEF ObservedBy
    <2> QED BY <2>1, StaysMoved
  <1> QED BY <1>1, <1>2


-------------------------------------------------------------------------------
(* Steps of the control plane.                                             *)

LEMMA GoodRows ==
    ASSUME AgentsInv
    PROVE  \A a \in Agent : GoodRow(rows[a])
  BY DEF AgentsInv, Types, ControlTypes, RowsInv, GoodRow

(* Heartbeats go on, lose their list or are gone; none is new.             *)
BeatsKept ==
    /\ \A b \in beats' : \E c \in beats :
          /\ b.worker = c.worker /\ b.acks = c.acks
          /\ b.live => c.live
          /\ b.commands # None => b = c
    /\ \A b \in beats' : b.stage \in {"list", "answer"} => b.live
    /\ \A b, c \in beats' : b.live /\ c.live /\ b.worker = c.worker => b = c

LEMMA SameBeats ==
    ASSUME AgentsInv, UNCHANGED beats
    PROVE  BeatsKept
  BY DEF AgentsInv, BeatsInv, BeatsKept

(* A statement that moves rows leaves the workers' part of the invariant.  *)
LEMMA RowsStep ==
    ASSUME AgentsInv, ControlTypes', BeatTypes', faults' \in 0..MaxFaults,
           \A a \in Agent : Moved(rows[a], rows'[a]),
           \A h \in pending' : rows[h.agent].status # "absent",
           UNCHANGED <<memory, disk, heard>>, BeatsKept
    PROVE  AgentsInv'
  <1> USE DEF memory, disk
  <1>1. Types'
    BY DEF AgentsInv, Types, WorkerTypes
  <1>2. /\ rows \in [Agent -> AgentRow(Worker)] /\ rows' \in [Agent -> AgentRow(Worker)]
        /\ heard \in [Worker -> [Agent -> Nat]] /\ todo \in [Worker -> SUBSET Command]
        /\ beats \subseteq Beat /\ beats' \subseteq Beat /\ pending' \subseteq Handler
    BY DEF AgentsInv, Types, ControlTypes, BeatTypes, WorkerTypes
  <1>3. \A a \in Agent :
           /\ rows[a].generation \in Nat /\ rows'[a].generation \in Nat
           /\ rows[a].acked \in Nat /\ rows'[a].acked = rows[a].acked
           /\ rows[a].acked <= rows[a].generation
           /\ rows'[a].generation >= rows[a].generation
           /\ rows'[a].generation = rows[a].generation =>
                 /\ rows'[a].desired = rows[a].desired
                 /\ rows'[a].generation > 0 => rows'[a].worker \in {rows[a].worker, Unplaced}
    BY <1>2, GoodRows DEF Moved, GoodRow, AgentRow
  <1>4. RowsInv'
    <2>1. \A a \in Agent : rows'[a].acked <= rows'[a].generation
      BY <1>3
    <2>2. \A a \in Agent : rows'[a].status = "absent" => rows'[a] = NoRow
      BY DEF Moved
    <2>3. \A h \in pending' : rows'[h.agent].status # "absent"
      BY <1>2 DEF Moved, Handler
    <2> QED BY <2>1, <2>2, <2>3 DEF RowsInv
  <1>5. \A w \in Worker : LoopInv(w)'
    BY DEF AgentsInv, LoopInv, AtRest
  <1>6. ASSUME NEW c \in Command, Current(c)
        PROVE  Current(c)'
    BY <1>3, <1>6 DEF Current, Command
  <1>7. BeatsInv'
    <2>1. ASSUME NEW b \in beats'
          PROVE  /\ b.live => loop[b.worker] = "waiting"
                 /\ b.stage \in {"list", "answer"} => b.live
                 /\ b.commands # None =>
                       /\ b.stage = "answer" /\ b.live
                       /\ OneEach(b.commands)
                       /\ \A c \in b.commands :
                             Current(c)' /\ heard[b.worker][c.agent] <= c.generation
      <3>1. PICK d \in beats : /\ b.worker = d.worker
                               /\ b.live => d.live
                               /\ b.commands # None => b = d
        BY DEF BeatsKept
      <3>2. b.live => loop[b.worker] = "waiting"
        BY <3>1 DEF AgentsInv, BeatsInv
      <3>4. b.stage \in {"list", "answer"} => b.live
        BY DEF BeatsKept
      <3>3. CASE b.commands # None
        <4>1. /\ b.stage = "answer" /\ b.live /\ OneEach(b.commands)
              /\ \A c \in b.commands : Current(c) /\ heard[b.worker][c.agent] <= c.generation
          BY <3>1, <3>3 DEF AgentsInv, BeatsInv
        <4>2. b.commands \subseteq Command
          <5>1. b \in Beat
            BY <1>2
          <5>2. b.commands \in (SUBSET Command) \cup {None}
            BY <5>1 DEF Beat
          <5> QED BY <3>3, <5>2
        <4> QED BY <1>6, <3>2, <3>4, <4>1, <4>2
      <3> QED BY <3>2, <3>3, <3>4
    <2> QED BY <2>1 DEF BeatsInv, BeatsKept, OneEach
  <1>8. HearingInv'
    <2>1. \A w \in Worker, a \in Agent : heard[w][a] <= rows'[a].generation
      BY <1>2, <1>3 DEF AgentsInv, HearingInv
    <2>2. \A w \in Worker : \A c \in todo[w] : Current(c)' /\ c.generation = heard[w][c.agent]
      BY <1>2, <1>6 DEF AgentsInv, HearingInv
    <2>3. \A w \in Worker : \A k \in acks[w] : k.generation <= heard[w][k.agent]
      BY DEF AgentsInv, HearingInv
    <2>4. \A b \in beats' : \A k \in b.acks : k.generation <= heard[b.worker][k.agent]
      BY DEF AgentsInv, HearingInv, BeatsKept
    <2> QED BY <2>1, <2>2, <2>3, <2>4 DEF HearingInv
  <1>9. StopInv'
    <2> SUFFICES ASSUME NEW a \in Agent, NEW w \in Worker, ToldToStop(a, w)'
                 PROVE  (/\ a \notin table[w] \cup birth[w]
                         /\ loop[w] # "killing" \/ AckOnItsWay(a, w) \/ AckHasArrived(a, w)
                               => a \notin child[w])'
      BY DEF StopInv
    <2>1. rows'[a].generation = rows[a].generation
      <3>1. heard[w][a] = rows'[a].generation
        BY DEF ToldToStop
      <3> QED BY <3>1, <1>3 DEF AgentsInv, HearingInv
    <2>2. ToldToStop(a, w)
      BY <1>3, <2>1 DEF ToldToStop
    <2>3. AckOnItsWay(a, w)' => AckOnItsWay(a, w)
      BY <2>1 DEF AckOnItsWay, BeatsKept
    <2>4. AckHasArrived(a, w)' => AckHasArrived(a, w)
      BY <1>3, <2>1 DEF AckHasArrived, ToldToStop
    <2> QED BY <2>2, <2>3, <2>4 DEF AgentsInv, StopInv
  <1>10. DeliveredMeansHeard'
    <2> SUFFICES ASSUME NEW a \in Agent, NEW w \in Worker, rows'[a].worker = w,
                        rows'[a].generation > 0, rows'[a].acked = rows'[a].generation
                 PROVE  heard[w][a] = rows'[a].generation
      BY DEF DeliveredMeansHeard
    <2>1. rows'[a].generation = rows[a].generation
      BY <1>3
    <2>2. rows[a].worker = w
      BY <1>3, <2>1
    <2> QED BY <1>3, <2>1, <2>2 DEF AgentsInv, DeliveredMeansHeard
  <1> QED BY <1>1, <1>4, <1>5, <1>7, <1>8, <1>9, <1>10 DEF AgentsInv

LEMMA CreateAgents ==
    ASSUME AgentsInv, NEW a \in Agent, Create(a)
    PROVE  AgentsInv'
  <1>1. PICK w \in Worker \cup {Unplaced} :
           rows' = [rows EXCEPT ![a] = Created(rows, a, w, known, Cap)]
    BY DEF Create
  <1> DEFINE row == Created(rows, a, w, known, Cap)
  <1>2. Moved(rows[a], row)
    BY CreatedMoved DEF Create, AgentsInv, RowsInv
  <1>3. row.worker \in known \cup {Unplaced}
    BY DEF Created, NoRow
  <1> HIDE DEF row
  <1>4. ControlTypes' /\ \A b \in Agent : Moved(rows[b], rows'[b])
    BY <1>1, <1>2, <1>3, GoodRows, StaysMoved
       DEF row, Create, AgentsInv, Types, ControlTypes, Moved
  <1>5. UNCHANGED <<pending, beats, memory, disk, heard, faults>>
    BY DEF Create
  <1> QED BY <1>4, <1>5, SameBeats, RowsStep
          DEF AgentsInv, Types, BeatTypes, RowsInv

LEMMA AskAgentsInv ==
    ASSUME AgentsInv, NEW op \in {"start", "stop", "place"}, NEW a \in Agent,
           NEW w \in Worker \cup {Unplaced}, rows[a].status # "absent", Ask(op, a, w)
    PROVE  AgentsInv'
  <1>1. /\ pending' = pending \cup {[op |-> op, agent |-> a, worker |-> w]}
        /\ UNCHANGED <<rows, known, beats, memory, disk, heard, faults>>
    BY DEF Ask
  <1>2. [op |-> op, agent |-> a, worker |-> w] \in Handler
    BY DEF Handler
  <1>3. ControlTypes'
    BY <1>1, <1>2 DEF AgentsInv, Types, ControlTypes
  <1>4. \A b \in Agent : Moved(rows[b], rows'[b])
    BY <1>1, GoodRows, StaysMoved
  <1>5. \A h \in pending' : rows[h.agent].status # "absent"
    BY <1>1 DEF AgentsInv, RowsInv
  <1> QED BY <1>1, <1>3, <1>4, <1>5, SameBeats, RowsStep DEF AgentsInv, Types, BeatTypes

LEMMA IssueAgents ==
    ASSUME AgentsInv, NEW h \in pending, Issue(h)
    PROVE  AgentsInv'
  <1>1. /\ pending' = pending \ {h}
        /\ UNCHANGED <<known, beats, memory, disk, heard, faults>>
    BY DEF Issue
  <1>2. h.agent \in Agent /\ h.worker \in Worker \cup {Unplaced} /\ rows[h.agent].status # "absent"
    BY DEF AgentsInv, Types, ControlTypes, Handler, RowsInv
  <1>3. ControlTypes' /\ \A b \in Agent : Moved(rows[b], rows'[b])
    <2>1. PICK held \in BOOLEAN : rows' = Statement(h, held)
      BY DEF Issue
    <2>2. CASE h.op = "place"
      <3>1. rows' = Assigned(rows, h.agent, h.worker, known, Cap, held)
        BY <2>1, <2>2 DEF Statement
      <3>2. rows \in [Agent -> AgentRow(Worker)]
        BY DEF AgentsInv, Types, ControlTypes
      <3>3. /\ rows' \in [Agent -> AgentRow(Worker)]
            /\ \A b \in Agent : Moved(rows[b], rows'[b])
            /\ \A b \in Agent : rows'[b].worker \in {rows[b].worker} \cup known
        BY <1>2, <3>1, <3>2, GoodRows, AssignedMoved
      <3> QED BY <1>1, <3>3 DEF AgentsInv, Types, ControlTypes
    <2>3. CASE h.op # "place"
      <3> DEFINE row == IF h.op = "start" THEN WithDesired(rows[h.agent], "running", held)
                        ELSE Retired(rows[h.agent])
      <3>1. rows' = [rows EXCEPT ![h.agent] = row]
        <4>1. h.op \in {"start", "stop"}
          BY <2>3 DEF AgentsInv, Types, ControlTypes, Handler
        <4> QED BY <2>1, <4>1 DEF Statement
      <3>2. Moved(rows[h.agent], row) /\ row.worker = rows[h.agent].worker
        BY <1>2, GoodRows, DesiredMoved, RetiredMoved
      <3> HIDE DEF row
      <3> QED BY <1>1, <1>2, <3>1, <3>2, GoodRows, StaysMoved
              DEF AgentsInv, Types, ControlTypes, Moved
    <2> QED BY <2>2, <2>3
  <1> QED BY <1>1, <1>3, SameBeats, RowsStep DEF AgentsInv, Types, BeatTypes, RowsInv

LEMMA DeleteWorkerAgents ==
    ASSUME AgentsInv, NEW w \in Worker, DeleteWorker(w)
    PROVE  AgentsInv'
  <1>1. /\ known' = known \ {w} /\ rows' = [a \in Agent |-> WorkerGone(rows[a], w)]
        /\ faults < MaxFaults /\ faults' = faults + 1
        /\ UNCHANGED <<pending, beats, memory, disk, heard>>
    BY DEF DeleteWorker, Fault, May
  <1>2. \A a \in Agent : /\ Moved(rows[a], rows'[a])
                         /\ rows'[a].worker \in {rows[a].worker, Unplaced} \ {w}
    BY <1>1, GoodRows, WorkerGoneMoved
  <1>3. ControlTypes'
    BY <1>1, <1>2 DEF AgentsInv, Types, ControlTypes, Moved
  <1>4. faults' \in 0..MaxFaults
    BY <1>1 DEF AgentsInv, Types
  <1> QED BY <1>1, <1>2, <1>3, <1>4, SameBeats, RowsStep
          DEF AgentsInv, Types, BeatTypes, RowsInv

-------------------------------------------------------------------------------
(* The heartbeat handler.                                                  *)

LEMMA BeatFields ==
    ASSUME NEW b \in Beat
    PROVE  /\ b.worker \in Worker /\ b.acks \in SUBSET Ack /\ b.seen \in Report \cup {None}
           /\ b.stage \in {"acks", "observations", "list", "answer"} /\ b.live \in BOOLEAN
           /\ b.commands \in (SUBSET Command) \cup {None}
  BY DEF Beat

LEMMA HandledBeat ==
    ASSUME NEW b \in Beat, NEW stage \in {"acks", "observations", "list", "answer"},
           NEW commands \in (SUBSET Command) \cup {None}
    PROVE  /\ [b EXCEPT !.stage = stage, !.commands = commands] \in Beat
           /\ [b EXCEPT !.stage = stage, !.commands = commands].worker = b.worker
           /\ [b EXCEPT !.stage = stage, !.commands = commands].acks = b.acks
           /\ [b EXCEPT !.stage = stage, !.commands = commands].live = b.live
           /\ [b EXCEPT !.stage = stage, !.commands = commands].stage = stage
           /\ [b EXCEPT !.stage = stage, !.commands = commands].commands = commands
  BY DEF Beat

(* A request that goes on without a list, or is gone.                      *)
LEMMA HandledKept ==
    ASSUME AgentsInv, NEW b \in beats,
           NEW stage \in {"acks", "observations", "list", "answer"},
           stage \in {"list", "answer"} => b.live,
           Handled(b, stage, None) \/ beats' = beats \ {b}
    PROVE  BeatTypes' /\ BeatsKept
  <1> DEFINE d == [b EXCEPT !.stage = stage, !.commands = None]
  <1>1. beats \subseteq Beat
    BY DEF AgentsInv, Types, BeatTypes
  <1>2. /\ d \in Beat /\ d.worker = b.worker /\ d.acks = b.acks /\ d.live = b.live
        /\ d.commands = None /\ d.stage = stage
    <2>1. b \in Beat /\ None \in (SUBSET Command) \cup {None}
      BY <1>1
    <2> QED BY <2>1 DEF Beat
  <1>3. beats' = (beats \ {b}) \cup {d} \/ beats' = beats \ {b}
    BY DEF Handled
  <1> HIDE DEF d
  <1>4. /\ \A c, e \in beats : c.live /\ e.live /\ c.worker = e.worker => c = e
        /\ \A c \in beats : c.stage \in {"list", "answer"} => c.live
    BY DEF AgentsInv, BeatsInv
  <1> QED BY <1>1, <1>2, <1>3, <1>4 DEF BeatTypes, BeatsKept

LEMMA HandleObservationsAgents ==
    ASSUME AgentsInv, NEW b \in beats, HandleObservations(b)
    PROVE  AgentsInv'
  <1>1. UNCHANGED <<known, pending, memory, disk, heard>>
    BY DEF HandleObservations
  <1>2. BeatTypes' /\ BeatsKept
    BY HandledKept DEF HandleObservations
  <1>3. faults' \in 0..MaxFaults
    BY DEF HandleObservations, Fault, May, AgentsInv, Types
  <1>4. b.worker \in Worker /\ b.seen \in Report \cup {None}
    BY BeatFields DEF AgentsInv, Types, BeatTypes
  <1>5. \/ rows' = rows
        \/ b.seen \in Report /\ rows' = ObservedBy(rows, b.worker, b.seen)
    BY <1>4 DEF HandleObservations
  <1>6. /\ \A a \in Agent : Moved(rows[a], rows'[a]) /\ rows'[a].worker = rows[a].worker
        /\ DOMAIN rows' = Agent /\ rows' = [a \in Agent |-> rows'[a]]
    <2>1. rows \in [Agent -> AgentRow(Worker)]
      BY DEF AgentsInv, Types, ControlTypes
    <2>2. CASE rows' = rows
      BY <2>1, <2>2, GoodRows, StaysMoved
    <2>3. CASE b.seen \in Report /\ rows' = ObservedBy(rows, b.worker, b.seen)
      <3>1. \A a \in Agent : Moved(rows[a], rows'[a]) /\ rows'[a].worker = rows[a].worker
        BY <1>4, <2>1, <2>3, GoodRows, ObservedMoved
      <3>2. DOMAIN rows' = Agent /\ rows' = [a \in Agent |-> rows'[a]]
        BY <2>1, <2>3 DEF ObservedBy
      <3> QED BY <3>1, <3>2
    <2> QED BY <1>5, <2>2, <2>3
  <1>7. ControlTypes'
    BY <1>1, <1>6 DEF AgentsInv, Types, ControlTypes, Moved
  <1> QED BY <1>1, <1>2, <1>3, <1>6, <1>7, RowsStep DEF AgentsInv, RowsInv

(* An acknowledgement counts for the generation the row carries.           *)
LEMMA AckedRow ==
    ASSUME NEW w \in Worker, NEW given \in SUBSET Ack, NEW a \in Agent,
           rows \in [Agent -> AgentRow(Worker)], GoodRow(rows[a]),
           NEW row, row = Acked(rows, w, given)[a]
    PROVE  /\ GoodRow(row)
           /\ row.worker = rows[a].worker /\ row.status = rows[a].status
           /\ row.desired = rows[a].desired /\ row.generation = rows[a].generation
           /\ \/ row.acked = rows[a].acked
              \/ /\ rows[a].worker = w /\ row.acked = rows[a].generation
                 /\ [agent |-> a, generation |-> rows[a].generation] \in given
  <1>1. CASE /\ rows[a].worker = w
             /\ \E k \in given : k.agent = a /\ k.generation = rows[a].generation
    <2>1. rows[a].status # "absent"
      BY <1>1 DEF GoodRow, NoRow
    <2>2. row = [rows[a] EXCEPT !.acked = rows[a].generation]
      BY <1>1 DEF Acked
    <2>3. [agent |-> a, generation |-> rows[a].generation] \in given
      <3>1. PICK k \in given : k.agent = a /\ k.generation = rows[a].generation
        BY <1>1
      <3>2. k = [agent |-> k.agent, generation |-> k.generation]
        BY DEF Ack
      <3> QED BY <3>1, <3>2
    <2> QED BY <1>1, <2>1, <2>2, <2>3 DEF GoodRow, AgentRow
  <1>2. CASE ~(/\ rows[a].worker = w
               /\ \E k \in given : k.agent = a /\ k.generation = rows[a].generation)
    <2>1. row = rows[a]
      BY <1>2 DEF Acked
    <2> QED BY <2>1
  <1> QED BY <1>1, <1>2

LEMMA HandleAcksAgents ==
    ASSUME AgentsInv, NEW b \in beats, HandleAcks(b)
    PROVE  AgentsInv'
  <1> USE DEF memory, disk
  <1>1. UNCHANGED <<known, pending, memory, disk, heard>>
    BY DEF HandleAcks
  <1>2. BeatTypes' /\ BeatsKept
    BY HandledKept DEF HandleAcks
  <1>3. faults' \in 0..MaxFaults
    BY DEF HandleAcks, Fault, May, AgentsInv, Types
  <1>4. CASE rows' = rows
    BY <1>1, <1>2, <1>3, <1>4, GoodRows, StaysMoved, RowsStep
       DEF AgentsInv, Types, ControlTypes, RowsInv
  <1>5. CASE rows' = Acked(rows, b.worker, b.acks)
    <2>1. /\ rows \in [Agent -> AgentRow(Worker)] /\ b \in Beat
          /\ b.worker \in Worker /\ b.acks \in SUBSET Ack
          /\ heard \in [Worker -> [Agent -> Nat]] /\ todo \in [Worker -> SUBSET Command]
          /\ beats \subseteq Beat /\ beats' \subseteq Beat
      BY <1>2, BeatFields DEF AgentsInv, Types, ControlTypes, BeatTypes, WorkerTypes
    <2>2. ASSUME NEW a \in Agent
          PROVE  /\ GoodRow(rows'[a])
                 /\ rows'[a].worker = rows[a].worker /\ rows'[a].status = rows[a].status
                 /\ rows'[a].desired = rows[a].desired
                 /\ rows'[a].generation = rows[a].generation
                 /\ \/ rows'[a].acked = rows[a].acked
                    \/ /\ rows[a].worker = b.worker /\ rows'[a].acked = rows[a].generation
                       /\ [agent |-> a, generation |-> rows[a].generation] \in b.acks
      BY <1>5, <2>1, GoodRows, AckedRow
    <2>3. ControlTypes'
      <3>1. rows' = [a \in Agent |-> rows'[a]]
        BY <1>5, <2>1 DEF Acked
      <3> QED BY <1>1, <2>2, <3>1 DEF AgentsInv, Types, ControlTypes, GoodRow
    <2>4. Types'
      BY <1>1, <1>2, <1>3, <2>3 DEF AgentsInv, Types, WorkerTypes
    <2>5. RowsInv'
      BY <1>1, <2>2 DEF AgentsInv, Types, ControlTypes, RowsInv, GoodRow, Handler
    <2>6. \A w \in Worker : LoopInv(w)'
      BY <1>1 DEF AgentsInv, LoopInv, AtRest
    <2>7. \A c \in Command : Current(c) => Current(c)'
      BY <2>2 DEF Current, Command
    <2>8. BeatsInv'
      <3>1. ASSUME NEW d \in beats'
            PROVE  /\ d.live => loop[d.worker] = "waiting"
                   /\ d.stage \in {"list", "answer"} => d.live
                   /\ d.commands # None =>
                         /\ d.stage = "answer" /\ d.live
                         /\ OneEach(d.commands)
                         /\ \A c \in d.commands :
                               Current(c)' /\ heard[d.worker][c.agent] <= c.generation
        <4>1. PICK e \in beats : /\ d.worker = e.worker
                                 /\ d.live => e.live
                                 /\ d.commands # None => d = e
          BY <1>2 DEF BeatsKept
        <4>2. d.commands \in (SUBSET Command) \cup {None}
          BY <2>1, BeatFields
        <4>3. d.stage \in {"list", "answer"} => d.live
          BY <1>2 DEF BeatsKept
        <4>4. d.live => loop[d.worker] = "waiting"
          BY <4>1 DEF AgentsInv, BeatsInv
        <4>5. CASE d.commands # None
          BY <2>7, <4>1, <4>2, <4>3, <4>4, <4>5 DEF AgentsInv, BeatsInv
        <4> QED BY <4>3, <4>4, <4>5
      <3> QED BY <1>1, <1>2, <3>1 DEF BeatsInv, BeatsKept, OneEach
    <2>9. HearingInv'
      <3>1. \A d \in beats' : \A k \in d.acks : k.generation <= heard[d.worker][k.agent]
        BY <1>2 DEF AgentsInv, HearingInv, BeatsKept
      <3>2. \A w \in Worker : \A c \in todo[w] : Current(c)' /\ c.generation = heard[w][c.agent]
        BY <2>1, <2>7 DEF AgentsInv, HearingInv
      <3> QED BY <1>1, <2>2, <3>1, <3>2 DEF AgentsInv, HearingInv
    <2>10. StopInv'
      <3> SUFFICES ASSUME NEW a \in Agent, NEW w \in Worker, ToldToStop(a, w)'
                   PROVE  (/\ a \notin table[w] \cup birth[w]
                           /\ loop[w] # "killing" \/ AckOnItsWay(a, w) \/ AckHasArrived(a, w)
                                 => a \notin child[w])'
        BY DEF StopInv
      <3>1. ToldToStop(a, w)
        BY <1>1, <2>2 DEF ToldToStop
      <3>2. AckOnItsWay(a, w)' => AckOnItsWay(a, w)
        BY <1>2, <2>2 DEF AckOnItsWay, BeatsKept
      <3>3. AckHasArrived(a, w)' => AckHasArrived(a, w) \/ AckOnItsWay(a, w)
        BY <2>2 DEF AckHasArrived, AckOnItsWay
      <3> QED BY <1>1, <3>1, <3>2, <3>3 DEF AgentsInv, StopInv
    <2>11. DeliveredMeansHeard'
      <3> SUFFICES ASSUME NEW a \in Agent, NEW w \in Worker, rows'[a].worker = w,
                          rows'[a].generation > 0, rows'[a].acked = rows'[a].generation
                   PROVE  heard[w][a] = rows[a].generation
        BY <1>1, <2>2 DEF DeliveredMeansHeard
      <3>1. CASE rows'[a].acked = rows[a].acked
        BY <2>2, <3>1 DEF AgentsInv, DeliveredMeansHeard
      <3>2. CASE /\ rows[a].worker = b.worker
                 /\ [agent |-> a, generation |-> rows[a].generation] \in b.acks
        <4>1. rows[a].generation <= heard[w][a] /\ heard[w][a] <= rows[a].generation
          BY <2>2, <3>2 DEF AgentsInv, HearingInv
        <4>2. rows[a].generation \in Nat /\ heard[w][a] \in Nat
          BY <2>1 DEF AgentRow
        <4> QED BY <4>1, <4>2
      <3> QED BY <2>2, <3>1, <3>2
    <2> QED BY <2>4, <2>5, <2>6, <2>8, <2>9, <2>10, <2>11 DEF AgentsInv
  <1> QED BY <1>4, <1>5 DEF HandleAcks

LEMMA AbandonAgents ==
    ASSUME AgentsInv, NEW b \in beats, Abandon(b)
    PROVE  AgentsInv'
  <1>1. beats' = beats \ {b} /\ UNCHANGED <<control, memory, disk, heard, faults>>
    BY DEF Abandon
  <1>2. BeatTypes' /\ BeatsKept
    BY <1>1, HandledKept
  <1>3. ControlTypes' /\ \A a \in Agent : Moved(rows[a], rows'[a])
    BY <1>1, GoodRows, StaysMoved DEF AgentsInv, Types, ControlTypes, control
  <1> QED BY <1>1, <1>2, <1>3, RowsStep DEF AgentsInv, Types, RowsInv, control

(* A list names every agent once, as its row is.                           *)
LEMMA CommandsList ==
    ASSUME NEW w \in Worker, rows \in [Agent -> AgentRow(Worker)]
    PROVE  /\ Commands(rows, w) \in SUBSET Command
           /\ OneEach(Commands(rows, w))
           /\ \A c \in Commands(rows, w) :
                 /\ c.generation = rows[c.agent].generation
                 /\ c.desired = rows[c.agent].desired
  <1>1. \A c \in Commands(rows, w) : \E a \in Agent :
           c = [agent |-> a, desired |-> rows[a].desired, generation |-> rows[a].generation]
    BY DEF Commands
  <1>2. \A a \in Agent : rows[a].desired \in Desired /\ rows[a].generation \in Nat
    BY DEF AgentRow
  <1>3. \A c \in Commands(rows, w) : c \in Command
    BY <1>1, <1>2 DEF Command
  <1> QED BY <1>1, <1>3 DEF OneEach

LEMMA HandleListAgents ==
    ASSUME AgentsInv, NEW b \in beats, HandleList(b)
    PROVE  AgentsInv'
  <1> USE DEF memory, disk, control
  <1>1. UNCHANGED <<control, memory, disk, heard>> /\ b.stage = "list"
    BY DEF HandleList
  <1>2. faults' \in 0..MaxFaults
    BY DEF HandleList, Fault, May, AgentsInv, Types
  <1>3. CASE Handled(b, "answer", None)
    <2>1. BeatTypes' /\ BeatsKept
      BY <1>1, <1>3, HandledKept DEF AgentsInv, BeatsInv
    <2>2. ControlTypes' /\ \A a \in Agent : Moved(rows[a], rows'[a])
      BY <1>1, GoodRows, StaysMoved DEF AgentsInv, Types, ControlTypes
    <2> QED BY <1>1, <1>2, <2>1, <2>2, RowsStep DEF AgentsInv, Types, RowsInv
  <1>4. CASE Handled(b, "answer", Commands(rows, b.worker)) /\ b.live
    <2> DEFINE list == Commands(rows, b.worker)
               d == [b EXCEPT !.stage = "answer", !.commands = list]
    <2>1. /\ rows \in [Agent -> AgentRow(Worker)] /\ beats \subseteq Beat /\ b \in Beat
          /\ b.worker \in Worker /\ heard \in [Worker -> [Agent -> Nat]]
      BY BeatFields DEF AgentsInv, Types, ControlTypes, BeatTypes, WorkerTypes
    <2>2. /\ list \in SUBSET Command /\ OneEach(list)
          /\ \A c \in list : /\ c.generation = rows[c.agent].generation
                             /\ c.desired = rows[c.agent].desired
      BY <2>1, CommandsList
    <2>3. beats' = (beats \ {b}) \cup {d}
      BY <1>4 DEF Handled
    <2> HIDE DEF list
    <2>4. /\ d \in Beat /\ d.worker = b.worker /\ d.acks = b.acks /\ d.live = b.live
          /\ d.stage = "answer" /\ d.commands = list
      BY <2>1, <2>2 DEF Beat
    <2> HIDE DEF d
    <2>5. Types' /\ RowsInv' /\ \A w \in Worker : LoopInv(w)'
      BY <1>1, <1>2, <2>1, <2>3, <2>4
         DEF AgentsInv, Types, ControlTypes, BeatTypes, WorkerTypes, RowsInv, LoopInv, AtRest
    <2>6. \A c \in list : Current(c) /\ heard[b.worker][c.agent] <= c.generation
      <3>1. ASSUME NEW c \in list
            PROVE  /\ c.agent \in Agent /\ c.generation = rows[c.agent].generation
                   /\ c.desired = rows[c.agent].desired
                   /\ rows[c.agent].generation \in Nat
        BY <2>1, <2>2 DEF Command, AgentRow
      <3> QED BY <2>1, <3>1 DEF Current, AgentsInv, HearingInv
    <2>7. BeatsInv'
      <3>1. \A c : Current(c)' <=> Current(c)
        BY <1>1 DEF Current
      <3>2. ASSUME NEW e \in beats'
            PROVE  /\ e.live => loop[e.worker] = "waiting"
                   /\ e.stage \in {"list", "answer"} => e.live
                   /\ e.commands # None =>
                         /\ e.stage = "answer" /\ e.live
                         /\ OneEach(e.commands)
                         /\ \A c \in e.commands :
                               Current(c)' /\ heard[e.worker][c.agent] <= c.generation
        <4>1. CASE e = d
          BY <1>4, <2>2, <2>4, <2>6, <3>1, <4>1 DEF AgentsInv, BeatsInv
        <4>2. CASE e \in beats
          BY <3>1, <4>2 DEF AgentsInv, BeatsInv
        <4> QED BY <2>3, <4>1, <4>2
      <3>3. \A e, f \in beats' : e.live /\ f.live /\ e.worker = f.worker => e = f
        BY <2>3, <2>4 DEF AgentsInv, BeatsInv
      <3> QED BY <1>1, <3>2, <3>3 DEF BeatsInv, OneEach
    <2>8. HearingInv'
      BY <1>1, <2>3, <2>4 DEF AgentsInv, HearingInv, Current
    <2>9. StopInv'
      BY <1>1, <2>3, <2>4 DEF AgentsInv, StopInv, ToldToStop, AckOnItsWay, AckHasArrived
    <2>10. DeliveredMeansHeard'
      BY <1>1 DEF AgentsInv, DeliveredMeansHeard
    <2> QED BY <2>5, <2>7, <2>8, <2>9, <2>10 DEF AgentsInv
  <1>5. b.live
    BY <1>1 DEF AgentsInv, BeatsInv
  <1> QED BY <1>3, <1>4, <1>5 DEF HandleList

-------------------------------------------------------------------------------
(* Steps of a worker by itself.                                            *)

(* Nothing moves outside worker w, and w is told nothing.                  *)
Within(w) ==
    /\ UNCHANGED <<control, heard>>
    /\ \A v \in Worker \ {w} :
          /\ loop'[v] = loop[v] /\ table'[v] = table[v] /\ todo'[v] = todo[v]
          /\ doomed'[v] = doomed[v] /\ birth'[v] = birth[v] /\ acks'[v] = acks[v]
          /\ seen'[v] = seen[v] /\ child'[v] = child[v] /\ record'[v] = record[v]
          /\ space'[v] = space[v] /\ unwritten'[v] = unwritten[v]

(* What w still has to do and to acknowledge only shrinks, a process it    *)
(* gains is one its list asks for, and it is done terminating only when    *)
(* what it has left is in its table.                                       *)
Onwards(w) ==
    /\ todo'[w] \subseteq todo[w] /\ acks'[w] \subseteq acks[w]
    /\ table'[w] \cup birth'[w]
          \subseteq table[w] \cup birth[w] \cup AgentsOf(todo[w], "running")
    /\ child'[w] \subseteq child[w] \cup AgentsOf(todo[w], "running")
    /\ loop[w] = "killing" => \/ loop'[w] = "killing" /\ child'[w] \subseteq child[w]
                              \/ child'[w] \subseteq table[w]

(* Heartbeats are kept, but for one that w may send, and w waits for the   *)
(* ones it still hears.                                                    *)
SentBy(w, b) ==
    /\ b.worker = w /\ b.acks \subseteq acks[w] /\ b.commands = None
    /\ loop[w] # "killing"

BeatsWithin(w) ==
    /\ \A b \in beats' :
          \/ SentBy(w, b)
          \/ \E c \in beats : /\ b.worker = c.worker /\ b.acks = c.acks
                              /\ b.live => c.live
                              /\ b.commands # None => b = c
    /\ \A b \in beats' : b.stage \in {"list", "answer"} => b.live
    /\ \A b \in beats' : b.worker = w /\ b.live => loop'[w] = "waiting"
    /\ \A b, c \in beats' : b.live /\ c.live /\ b.worker = c.worker => b = c

LEMMA LocalStep ==
    ASSUME AgentsInv, NEW w \in Worker, Types', Within(w), LoopInv(w)',
           Onwards(w), BeatsWithin(w)
    PROVE  AgentsInv'
  <1> USE DEF control
  <1>1. /\ rows \in [Agent -> AgentRow(Worker)] /\ UNCHANGED <<rows, known, pending, heard>>
        /\ heard \in [Worker -> [Agent -> Nat]] /\ todo \in [Worker -> SUBSET Command]
        /\ beats \subseteq Beat /\ beats' \subseteq Beat
    BY DEF AgentsInv, Types, ControlTypes, BeatTypes, WorkerTypes, Within
  <1>2. RowsInv'
    BY <1>1 DEF AgentsInv, RowsInv
  <1>3. ASSUME NEW v \in Worker PROVE LoopInv(v)'
    <2>1. CASE v # w
      <3>1. LoopInv(v)
        BY DEF AgentsInv
      <3>2. /\ loop'[v] = loop[v] /\ table'[v] = table[v] /\ todo'[v] = todo[v]
            /\ doomed'[v] = doomed[v] /\ birth'[v] = birth[v] /\ seen'[v] = seen[v]
            /\ child'[v] = child[v] /\ record'[v] = record[v] /\ space'[v] = space[v]
            /\ unwritten'[v] = unwritten[v]
        BY <2>1 DEF Within
      <3> QED BY <3>1, <3>2 DEF LoopInv, AtRest
    <2> QED BY <2>1
  <1>4. \A c : Current(c)' <=> Current(c)
    BY <1>1 DEF Current
  <1>5. BeatsInv'
    <2>1. ASSUME NEW b \in beats'
          PROVE  /\ b.live => loop'[b.worker] = "waiting"
                 /\ b.stage \in {"list", "answer"} => b.live
                 /\ b.commands # None =>
                       /\ b.stage = "answer" /\ b.live
                       /\ OneEach(b.commands)
                       /\ \A c \in b.commands :
                             Current(c) /\ heard[b.worker][c.agent] <= c.generation
      <3>1. b.worker \in Worker
        BY <1>1, BeatFields
      <3>2. b.live => loop'[b.worker] = "waiting"
        <4>1. CASE b.worker = w
          BY <4>1 DEF BeatsWithin
        <4>2. CASE b.worker # w
          <5>1. PICK c \in beats : b.worker = c.worker /\ (b.live => c.live)
            BY <4>2 DEF BeatsWithin, SentBy
          <5> QED BY <3>1, <4>2, <5>1 DEF AgentsInv, BeatsInv, Within
        <4> QED BY <4>1, <4>2
      <3>3. b.stage \in {"list", "answer"} => b.live
        BY DEF BeatsWithin
      <3>4. CASE b.commands # None
        <4>1. b \in beats
          BY <3>4 DEF BeatsWithin, SentBy
        <4> QED BY <3>2, <3>3, <3>4, <4>1 DEF AgentsInv, BeatsInv
      <3> QED BY <3>2, <3>3, <3>4
    <2> QED BY <1>1, <1>4, <2>1 DEF BeatsInv, BeatsWithin, OneEach
  <1>6. HearingInv'
    <2>1. \A v \in Worker : todo'[v] \subseteq todo[v] /\ acks'[v] \subseteq acks[v]
      BY DEF Within, Onwards
    <2>2. \A v \in Worker : \A c \in todo'[v] : Current(c) /\ c.generation = heard[v][c.agent]
      BY <2>1 DEF AgentsInv, HearingInv
    <2>3. \A v \in Worker : \A k \in acks'[v] : k.generation <= heard[v][k.agent]
      BY <2>1 DEF AgentsInv, HearingInv
    <2>4. \A b \in beats' : \A k \in b.acks : k.generation <= heard[b.worker][k.agent]
      BY DEF AgentsInv, HearingInv, BeatsWithin, SentBy
    <2> QED BY <1>1, <1>4, <2>2, <2>3, <2>4 DEF AgentsInv, HearingInv
  <1>7. StopInv'
    <2> SUFFICES ASSUME NEW a \in Agent, NEW v \in Worker, ToldToStop(a, v)'
                 PROVE  (/\ a \notin table[v] \cup birth[v]
                         /\ loop[v] # "killing" \/ AckOnItsWay(a, v) \/ AckHasArrived(a, v)
                               => a \notin child[v])'
      BY DEF StopInv
    <2>1. ToldToStop(a, v)
      BY <1>1 DEF ToldToStop
    <2>2. AckHasArrived(a, v)' => AckHasArrived(a, v)
      BY <1>1 DEF AckHasArrived
    <2>3. a \notin table[v] \cup birth[v]
      BY <2>1 DEF AgentsInv, StopInv
    <2>4. CASE v # w
      <3>1. AckOnItsWay(a, v)' => AckOnItsWay(a, v)
        BY <1>1, <2>4 DEF AckOnItsWay, BeatsWithin, SentBy
      <3> QED BY <2>1, <2>2, <2>3, <2>4, <3>1 DEF AgentsInv, StopInv, Within
    <2>5. CASE v = w
      <3>1. a \notin AgentsOf(todo[w], "running")
        <4> SUFFICES ASSUME NEW c \in todo[w], c.desired = "running", c.agent = a
                     PROVE  FALSE
          BY DEF AgentsOf
        <4>1. Current(c) /\ c.generation = heard[w][a]
          BY DEF AgentsInv, HearingInv
        <4> QED BY <2>1, <2>5, <4>1 DEF Current, ToldToStop
      <3>2. a \notin table'[w] \cup birth'[w]
        BY <2>3, <2>5, <3>1 DEF Onwards
      <3>3. CASE loop[w] # "killing"
        <4>1. a \notin child[w]
          BY <2>1, <2>5, <3>3 DEF AgentsInv, StopInv
        <4> QED BY <2>5, <3>1, <3>2, <4>1 DEF Onwards
      <3>4. CASE loop[w] = "killing" /\ loop'[w] = "killing" /\ child'[w] \subseteq child[w]
        <4>1. AckOnItsWay(a, v)' => AckOnItsWay(a, v)
          BY <1>1, <3>4 DEF AckOnItsWay, BeatsWithin, SentBy
        <4> QED BY <2>1, <2>2, <2>5, <3>2, <3>4, <4>1 DEF AgentsInv, StopInv
      <3>5. CASE child'[w] \subseteq table[w]
        BY <2>3, <2>5, <3>2, <3>5
      <3> QED BY <3>3, <3>4, <3>5 DEF Onwards
    <2> QED BY <2>4, <2>5
  <1>8. DeliveredMeansHeard'
    BY <1>1 DEF AgentsInv, DeliveredMeansHeard
  <1> QED BY <1>2, <1>3, <1>5, <1>6, <1>7, <1>8 DEF AgentsInv

(* Heartbeats that stay as they are, while w does not begin or end to wait *)
(* for one.                                                                *)
LEMMA BeatsUntouched ==
    ASSUME AgentsInv, NEW w \in Worker, UNCHANGED beats,
           loop[w] # "waiting" \/ loop'[w] = loop[w]
    PROVE  BeatsWithin(w)
  BY DEF AgentsInv, BeatsInv, BeatsWithin

(* A worker that waits no more hears none of its heartbeats.               *)
LEMMA HangUpBeats ==
    ASSUME AgentsInv, NEW w \in Worker, HangUp(w)
    PROVE  BeatTypes' /\ BeatsWithin(w)
  <1>1. beats \subseteq Beat
    BY DEF AgentsInv, Types, BeatTypes
  <1>2. ASSUME NEW c \in beats, c.stage \in {"acks", "observations"}
        PROVE  /\ [c EXCEPT !.live = FALSE] \in Beat
               /\ [c EXCEPT !.live = FALSE].worker = c.worker
               /\ [c EXCEPT !.live = FALSE].acks = c.acks
               /\ [c EXCEPT !.live = FALSE].stage = c.stage
               /\ [c EXCEPT !.live = FALSE].live = FALSE
               /\ [c EXCEPT !.live = FALSE].commands = c.commands
               /\ c.commands = None
    <2>1. c \in Beat
      BY <1>1
    <2>2. c.commands = None
      BY <1>2 DEF AgentsInv, BeatsInv
    <2> QED BY <2>1, <2>2 DEF Beat
  <1>3. ASSUME NEW b \in beats'
        PROVE  \/ b \in beats /\ b.worker # w
               \/ \E c \in beats : /\ b \in Beat /\ b.worker = c.worker /\ c.worker = w
                                   /\ b.acks = c.acks /\ b.live = FALSE
                                   /\ b.stage = c.stage /\ b.commands = None
                                   /\ c.stage \in {"acks", "observations"}
    <2>1. CASE b \in beats \ BeatsOf(w)
      BY <2>1 DEF BeatsOf
    <2>2. CASE \E c \in BeatsOf(w) : /\ c.stage \in {"acks", "observations"}
                                     /\ b = [c EXCEPT !.live = FALSE]
      BY <1>2, <2>2 DEF BeatsOf
    <2> QED BY <2>1, <2>2 DEF HangUp
  <1>4. BeatTypes'
    BY <1>1, <1>3 DEF BeatTypes
  <1>5. \A b \in beats' : \E c \in beats : /\ b.worker = c.worker /\ b.acks = c.acks
                                           /\ b.live => c.live
                                           /\ b.commands # None => b = c
    BY <1>3
  <1>6. /\ \A b \in beats' : b.stage \in {"list", "answer"} => b.live
        /\ \A b \in beats' : b.live => b \in beats /\ b.worker # w
    BY <1>3 DEF AgentsInv, BeatsInv
  <1>7. \A b, c \in beats' : b.live /\ c.live /\ b.worker = c.worker => b = c
    BY <1>6 DEF AgentsInv, BeatsInv
  <1> QED BY <1>4, <1>5, <1>6, <1>7 DEF BeatsWithin

-------------------------------------------------------------------------------
(* The worker's actions, one by one.                                       *)

LEMMA SendBeatAgents ==
    ASSUME AgentsInv, NEW w \in Worker, SendBeat(w)
    PROVE  AgentsInv'
  <1> DEFINE b == [worker |-> w, acks |-> acks[w], seen |-> seen[w],
                   stage |-> "acks", live |-> TRUE, commands |-> None]
  <1>1. /\ loop[w] = "idle" /\ loop' = [loop EXCEPT ![w] = "waiting"]
        /\ beats' = beats \cup {b}
        /\ acks' = [acks EXCEPT ![w] = {}] /\ seen' = [seen EXCEPT ![w] = None]
        /\ UNCHANGED <<control, table, todo, doomed, birth, silent, disk, heard, faults>>
    BY DEF SendBeat
  <1>2. b \in Beat
    BY DEF Beat, AgentsInv, Types, WorkerTypes
  <1>3. /\ b.worker = w /\ b.acks = acks[w] /\ b.commands = None
        /\ b.stage = "acks" /\ b.live
    OBVIOUS
  <1> HIDE DEF b
  <1>4. Types'
    BY <1>1, <1>2 DEF AgentsInv, Types, ControlTypes, BeatTypes, WorkerTypes, Loop, control, disk
  <1>5. Within(w)
    BY <1>1 DEF Within, control, disk, AgentsInv, Types, WorkerTypes
  <1>6. LoopInv(w)'
    BY <1>1 DEF AgentsInv, Types, WorkerTypes, LoopInv, AtRest, disk
  <1>7. Onwards(w)
    BY <1>1 DEF Onwards, AgentsInv, Types, WorkerTypes, disk
  <1>8. BeatsWithin(w)
    <2>1. \A c \in beats : c.worker = w => ~c.live
      BY <1>1 DEF AgentsInv, BeatsInv
    <2>2. loop'[w] = "waiting"
      BY <1>1 DEF AgentsInv, Types, WorkerTypes
    <2>3. SentBy(w, b)
      BY <1>1, <1>3 DEF SentBy
    <2> QED BY <1>1, <1>3, <2>1, <2>2, <2>3 DEF BeatsWithin, AgentsInv, BeatsInv
  <1> QED BY <1>4, <1>5, <1>6, <1>7, <1>8, LocalStep

LEMMA KillAgents ==
    ASSUME AgentsInv, NEW w \in Worker, Kill(w)
    PROVE  AgentsInv'
  <1> DEFINE left == AgentsOf(todo[w], "running")
  <1>1. /\ loop[w] = "killing" /\ loop' = [loop EXCEPT ![w] = Onward(left)]
        /\ child' = [child EXCEPT ![w] = @ \ doomed[w]]
        /\ doomed' = [doomed EXCEPT ![w] = {}]
        /\ space' = [space EXCEPT ![w] = @ \ AgentsOf(todo[w], "stopped")]
        /\ todo' = [todo EXCEPT ![w] = {c \in @ : c.desired = "running"}]
        /\ UNCHANGED <<control, beats, table, birth, acks, seen, silent, stray, record,
                       unwritten, heard, faults>>
    BY DEF Kill
  <1>2. /\ table \in [Worker -> SUBSET Agent] /\ doomed \in [Worker -> SUBSET Agent]
        /\ birth \in [Worker -> SUBSET Agent] /\ child \in [Worker -> SUBSET Agent]
        /\ space \in [Worker -> SUBSET Agent] /\ todo \in [Worker -> SUBSET Command]
        /\ loop \in [Worker -> Loop]
    BY DEF AgentsInv, Types, WorkerTypes
  <1>3. /\ loop'[w] = Onward(left) /\ child'[w] = child[w] \ doomed[w] /\ doomed'[w] = {}
        /\ space'[w] = space[w] \ AgentsOf(todo[w], "stopped")
        /\ todo'[w] = {c \in todo[w] : c.desired = "running"}
        /\ table'[w] = table[w] /\ birth'[w] = birth[w] /\ seen'[w] = seen[w]
        /\ record'[w] = record[w] /\ acks'[w] = acks[w] /\ unwritten'[w] = unwritten[w]
    BY <1>1, <1>2
  <1>4. Onward(left) \in Loop /\ Onward(left) \in {"idle", "starting"}
    BY DEF Onward, Loop
  <1>5. todo' \in [Worker -> SUBSET Command]
    <2> DEFINE rest == {c \in todo[w] : c.desired = "running"}
    <2>1. rest \in SUBSET Command /\ todo' = [todo EXCEPT ![w] = rest]
      BY <1>1, <1>2
    <2> HIDE DEF rest
    <2> QED BY <1>2, <2>1
  <1>6. Types'
    <2> DEFINE next == Onward(left)
    <2> HIDE DEF next
    <2>1. loop' \in [Worker -> Loop]
      BY <1>1, <1>2, <1>4 DEF next
    <2> QED BY <1>1, <1>2, <1>5, <2>1
            DEF AgentsInv, Types, ControlTypes, BeatTypes, WorkerTypes, control
  <1>7. Within(w)
    BY <1>1, <1>2 DEF Within, control
  <1>8. LoopInv(w)
    BY DEF AgentsInv
  <1>9. LoopInv(w)'
    <2>1. /\ table[w] \subseteq record[w] \cup unwritten[w] /\ table[w] \subseteq space[w]
          /\ OneEach(todo[w]) /\ birth[w] = {} /\ seen[w] \in Report
          /\ child[w] \subseteq table[w] \cup doomed[w] /\ table[w] \subseteq left
      BY <1>1, <1>8 DEF LoopInv
    <2>2. left \cap AgentsOf(todo[w], "stopped") = {}
      BY <2>1 DEF OneEach, AgentsOf
    <2>3. table'[w] \subseteq space'[w]
      BY <1>3, <2>1, <2>2
    <2>4. OneEach(todo'[w])
      BY <1>3, <2>1 DEF OneEach
    <2>5. AgentsOf(todo'[w], "stopped") = {}
      BY <1>3 DEF AgentsOf
    <2>6. Onward(left) = "idle" => todo'[w] = {}
      <3>1. \A c \in todo'[w] : c.agent \in left
        BY <1>3 DEF AgentsOf
      <3> QED BY <3>1 DEF Onward
    <2>7. child'[w] \subseteq table'[w] /\ doomed'[w] = {} /\ birth'[w] = {}
      BY <1>3, <2>1
    <2> QED BY <1>3, <1>4, <2>1, <2>3, <2>4, <2>5, <2>6, <2>7 DEF LoopInv, AtRest
  <1>10. Onwards(w)
    BY <1>1, <1>3, <1>8 DEF Onwards, LoopInv
  <1>11. BeatsWithin(w)
    BY <1>1, BeatsUntouched
  <1> QED BY <1>6, <1>7, <1>9, <1>10, <1>11, LocalStep

LEMMA StartAgents ==
    ASSUME AgentsInv, NEW w \in Worker, Start(w)
    PROVE  AgentsInv'
  <1>1. PICK c \in todo[w] :
          LET a == c.agent
              room == a \notin table[w] /\ Cardinality(table[w]) < Cap
          IN  /\ todo' = [todo EXCEPT ![w] = @ \ {c}]
              /\ \/ /\ ~room
                    /\ seen' = [seen EXCEPT ![w][a] =
                                   IF a \in table[w] THEN "running" ELSE "failed"]
                    /\ loop' = [loop EXCEPT ![w] = Onward(todo'[w])]
                    /\ UNCHANGED <<birth, child, space, faults>>
                 \/ /\ room /\ Fault("spawn")
                    /\ seen' = [seen EXCEPT ![w][a] = "failed"]
                    /\ loop' = [loop EXCEPT ![w] = Onward(todo'[w])]
                    /\ UNCHANGED <<birth, child, space>>
                 \/ /\ room
                    /\ loop' = [loop EXCEPT ![w] = "recording"]
                    /\ birth' = [birth EXCEPT ![w] = {a}]
                    /\ child' = [child EXCEPT ![w] = @ \cup {a}]
                    /\ space' = [space EXCEPT ![w] = @ \cup {a}]
                    /\ UNCHANGED <<seen, faults>>
    BY DEF Start
  <1> DEFINE a == c.agent
             result == IF seen' = seen THEN seen[w][a] ELSE seen'[w][a]
  <1>2. /\ loop[w] = "starting"
        /\ UNCHANGED <<control, beats, table, doomed, acks, silent, stray, record,
                       unwritten, heard>>
    BY DEF Start
  <1>3. /\ table \in [Worker -> SUBSET Agent] /\ doomed \in [Worker -> SUBSET Agent]
        /\ birth \in [Worker -> SUBSET Agent] /\ child \in [Worker -> SUBSET Agent]
        /\ space \in [Worker -> SUBSET Agent] /\ todo \in [Worker -> SUBSET Command]
        /\ loop \in [Worker -> Loop] /\ seen \in [Worker -> Report \cup {None}]
    BY DEF AgentsInv, Types, WorkerTypes
  <1>4. a \in Agent /\ c.desired \in Desired
    BY <1>3 DEF Command
  <1>5. /\ doomed[w] = {} /\ birth[w] = {} /\ seen[w] \in Report /\ OneEach(todo[w])
        /\ AgentsOf(todo[w], "stopped") = {} /\ child[w] \subseteq table[w]
        /\ table[w] \subseteq record[w] \cup unwritten[w] /\ table[w] \subseteq space[w]
    BY <1>2 DEF AgentsInv, LoopInv
  <1>6. a \in AgentsOf(todo[w], "running")
    BY <1>4, <1>5 DEF AgentsOf, Desired
  <1>7. /\ todo' = [todo EXCEPT ![w] = @ \ {c}] /\ todo'[w] = todo[w] \ {c}
        /\ OneEach(todo'[w]) /\ AgentsOf(todo'[w], "stopped") = {}
    <2>1. todo' = [todo EXCEPT ![w] = @ \ {c}] /\ todo'[w] = todo[w] \ {c}
      BY <1>1, <1>3
    <2> QED BY <1>5, <2>1 DEF OneEach, AgentsOf
  <1>8. Onward(todo'[w]) \in {"idle", "starting"} /\ (Onward(todo'[w]) = "idle" => todo'[w] = {})
    BY DEF Onward
  <1>9. CASE /\ \E said \in {"running", "failed"} : seen' = [seen EXCEPT ![w][a] = said]
             /\ loop' = [loop EXCEPT ![w] = Onward(todo'[w])]
             /\ UNCHANGED <<birth, child, space>> /\ faults' \in 0..MaxFaults
    <2>1. seen' \in [Worker -> Report \cup {None}] /\ seen'[w] \in Report
      <3>1. PICK said \in {"running", "failed"} : seen' = [seen EXCEPT ![w][a] = said]
        BY <1>9
      <3> DEFINE report == [seen[w] EXCEPT ![a] = said]
      <3>2. report \in Report
        BY <1>4, <1>5 DEF Report, Observed
      <3>3. seen' = [seen EXCEPT ![w] = report]
        BY <3>1
      <3> HIDE DEF report
      <3> QED BY <1>3, <3>2, <3>3
    <2> DEFINE next == Onward(todo'[w])
    <2>2. next \in {"idle", "starting"} /\ (next = "idle" => todo'[w] = {})
      BY <1>8
    <2>3. loop' = [loop EXCEPT ![w] = next]
      BY <1>9
    <2> HIDE DEF next
    <2>4. loop' \in [Worker -> Loop] /\ loop'[w] = next
      BY <1>3, <2>2, <2>3 DEF Loop
    <2>5. todo' \in [Worker -> SUBSET Command]
      BY <1>3, <1>7
    <2>6. Types'
      BY <1>2, <1>9, <2>1, <2>4, <2>5
         DEF AgentsInv, Types, ControlTypes, BeatTypes, WorkerTypes, control
    <2>7. Within(w)
      BY <1>2, <1>3, <1>7, <1>9, <2>3 DEF Within, control
    <2>8. LoopInv(w)'
      BY <1>2, <1>5, <1>7, <1>9, <2>1, <2>2, <2>4 DEF LoopInv, AtRest
    <2>9. Onwards(w)
      BY <1>2, <1>7, <1>9 DEF Onwards
    <2> QED BY <1>2, <2>6, <2>7, <2>8, <2>9, BeatsUntouched, LocalStep
  <1>10. CASE /\ loop' = [loop EXCEPT ![w] = "recording"]
              /\ birth' = [birth EXCEPT ![w] = {a}]
              /\ child' = [child EXCEPT ![w] = @ \cup {a}]
              /\ space' = [space EXCEPT ![w] = @ \cup {a}]
              /\ UNCHANGED <<seen, faults>>
    <2>1. /\ loop'[w] = "recording" /\ birth'[w] = {a} /\ child'[w] = child[w] \cup {a}
          /\ space'[w] = space[w] \cup {a}
          /\ loop' \in [Worker -> Loop] /\ birth' \in [Worker -> SUBSET Agent]
          /\ child' \in [Worker -> SUBSET Agent] /\ space' \in [Worker -> SUBSET Agent]
          /\ todo' \in [Worker -> SUBSET Command]
      BY <1>3, <1>4, <1>7, <1>10 DEF Loop
    <2>2. Types'
      BY <1>2, <1>10, <2>1 DEF AgentsInv, Types, ControlTypes, BeatTypes, WorkerTypes, control
    <2>3. Within(w)
      BY <1>2, <1>3, <1>7, <1>10 DEF Within, control
    <2>4. LoopInv(w)'
      BY <1>2, <1>5, <1>7, <1>10, <2>1 DEF LoopInv, AtRest
    <2>5. Onwards(w)
      BY <1>2, <1>6, <1>7, <2>1 DEF Onwards
    <2> QED BY <1>2, <2>2, <2>3, <2>4, <2>5, BeatsUntouched, LocalStep
  <1>11. faults \in 0..MaxFaults
    BY DEF AgentsInv, Types
  <1> QED BY <1>1, <1>9, <1>10, <1>11 DEF Fault, May

LEMMA RecordAgents ==
    ASSUME AgentsInv, NEW w \in Worker, Record(w)
    PROVE  AgentsInv'
  <1> DEFINE next == Onward(todo[w])
             report == [a \in Agent |-> IF a \in birth[w] THEN "running" ELSE seen[w][a]]
  <1>1. /\ loop[w] = "recording" /\ loop' = [loop EXCEPT ![w] = next]
        /\ \/ /\ record' = [record EXCEPT ![w] = @ \cup birth[w]]
              /\ unwritten' = [unwritten EXCEPT ![w] = @ \ birth[w]]
           \/ /\ unwritten' = [unwritten EXCEPT ![w] = @ \cup birth[w]]
              /\ UNCHANGED record
        /\ table' = [table EXCEPT ![w] = @ \cup birth[w]]
        /\ birth' = [birth EXCEPT ![w] = {}]
        /\ seen' = [seen EXCEPT ![w] = report]
        /\ UNCHANGED <<control, beats, todo, doomed, acks, silent, child, stray, space,
                       heard, faults>>
    BY DEF Record
  <1>2. /\ table \in [Worker -> SUBSET Agent] /\ record \in [Worker -> SUBSET Agent]
        /\ birth \in [Worker -> SUBSET Agent] /\ loop \in [Worker -> Loop]
        /\ seen \in [Worker -> Report \cup {None}] /\ unwritten \in [Worker -> SUBSET Agent]
    BY DEF AgentsInv, Types, WorkerTypes
  <1>3. LoopInv(w) /\ seen[w] \in Report
    BY <1>1 DEF AgentsInv, LoopInv
  <1>4. report \in Report
    BY <1>3 DEF Report, Observed
  <1>5. next \in {"idle", "starting"} /\ (next = "idle" => todo[w] = {})
    BY DEF Onward
  <1> HIDE DEF next, report
  <1>6. /\ loop'[w] = next /\ record[w] \subseteq record'[w]
        /\ record'[w] \subseteq record[w] \cup birth[w]
        /\ record[w] \cup unwritten[w] \cup birth[w] \subseteq record'[w] \cup unwritten'[w]
        /\ unwritten' \in [Worker -> SUBSET Agent]
        /\ table'[w] = table[w] \cup birth[w] /\ birth'[w] = {} /\ seen'[w] = report
        /\ loop' \in [Worker -> Loop] /\ table' \in [Worker -> SUBSET Agent]
        /\ record' \in [Worker -> SUBSET Agent] /\ birth' \in [Worker -> SUBSET Agent]
        /\ seen' \in [Worker -> Report \cup {None}]
    BY <1>1, <1>2, <1>4, <1>5 DEF Loop
  <1>7. Types'
    BY <1>1, <1>6 DEF AgentsInv, Types, ControlTypes, BeatTypes, WorkerTypes, control
  <1>8. Within(w)
    BY <1>1, <1>2 DEF Within, control
  <1>9. LoopInv(w)'
    BY <1>1, <1>3, <1>4, <1>5, <1>6 DEF LoopInv, AtRest
  <1>10. Onwards(w)
    BY <1>1, <1>6 DEF Onwards
  <1> QED BY <1>1, <1>7, <1>8, <1>9, <1>10, BeatsUntouched, LocalStep

LEMMA BeatFailsAgents ==
    ASSUME AgentsInv, NEW w \in Worker, BeatFails(w)
    PROVE  AgentsInv'
  <1>1. /\ loop[w] = "waiting" /\ HangUp(w)
        /\ silent' = [silent EXCEPT ![w] = IF @ < FenceAfter THEN @ + 1 ELSE @]
        /\ UNCHANGED <<control, todo, birth, acks, seen, child, stray, space, unwritten,
                       heard>>
    BY DEF BeatFails
  <1>2. \/ loop' = [loop EXCEPT ![w] = "fencing"] /\ Drain(w)
        \/ loop' = [loop EXCEPT ![w] = "idle"] /\ UNCHANGED <<table, record, doomed>>
    BY DEF BeatFails
  <1>3. /\ table \in [Worker -> SUBSET Agent] /\ record \in [Worker -> SUBSET Agent]
        /\ doomed \in [Worker -> SUBSET Agent] /\ child \in [Worker -> SUBSET Agent]
        /\ loop \in [Worker -> Loop] /\ silent \in [Worker -> 0..FenceAfter]
    BY DEF AgentsInv, Types, WorkerTypes
  <1>4. silent' \in [Worker -> 0..FenceAfter]
    <2> DEFINE n == IF silent[w] < FenceAfter THEN silent[w] + 1 ELSE silent[w]
    <2>1. n \in 0..FenceAfter /\ silent' = [silent EXCEPT ![w] = n]
      BY <1>1, <1>3
    <2> HIDE DEF n
    <2> QED BY <1>3, <2>1
  <1>5. faults' \in 0..MaxFaults
    BY DEF BeatFails, Fault, May, AgentsInv, Types
  <1>6. BeatTypes' /\ BeatsWithin(w)
    BY <1>1, HangUpBeats
  <1>7. LoopInv(w)
    BY DEF AgentsInv
  <1>8. CASE loop' = [loop EXCEPT ![w] = "fencing"] /\ Drain(w)
    <2>1. /\ loop' \in [Worker -> Loop] /\ table' \in [Worker -> SUBSET Agent]
          /\ record' \in [Worker -> SUBSET Agent] /\ doomed' \in [Worker -> SUBSET Agent]
          /\ loop'[w] = "fencing" /\ table'[w] = {} /\ doomed'[w] = table[w]
          /\ record'[w] = record[w] \ table[w]
      BY <1>3, <1>8 DEF Drain, Loop
    <2>2. Types'
      BY <1>1, <1>4, <1>5, <1>6, <2>1 DEF AgentsInv, Types, ControlTypes, WorkerTypes, control
    <2>3. Within(w)
      BY <1>1, <1>3, <1>8 DEF Within, control, Drain
    <2>4. LoopInv(w)'
      BY <1>1, <1>7, <2>1 DEF LoopInv, AtRest
    <2>5. Onwards(w)
      BY <1>1, <2>1 DEF Onwards
    <2> QED BY <1>6, <2>2, <2>3, <2>4, <2>5, LocalStep
  <1>9. CASE loop' = [loop EXCEPT ![w] = "idle"] /\ UNCHANGED <<table, record, doomed>>
    <2>1. loop' \in [Worker -> Loop] /\ loop'[w] = "idle"
      BY <1>3, <1>9 DEF Loop
    <2>2. Types'
      BY <1>1, <1>4, <1>5, <1>6, <1>9, <2>1 DEF AgentsInv, Types, ControlTypes, WorkerTypes, control
    <2>3. Within(w)
      BY <1>1, <1>3, <1>9 DEF Within, control
    <2>4. LoopInv(w)'
      BY <1>1, <1>7, <1>9, <2>1 DEF LoopInv, AtRest
    <2>5. Onwards(w)
      BY <1>1, <1>9 DEF Onwards
    <2> QED BY <1>6, <2>2, <2>3, <2>4, <2>5, LocalStep
  <1> QED BY <1>2, <1>8, <1>9

LEMMA TerminateAgents ==
    ASSUME AgentsInv, NEW w \in Worker, Terminate(w)
    PROVE  AgentsInv'
  <1> DEFINE next == IF loop[w] = "fencing" THEN "idle" ELSE "dead"
  <1>1. /\ loop[w] \in {"fencing", "leaving"} /\ loop' = [loop EXCEPT ![w] = next]
        /\ child' = [child EXCEPT ![w] = @ \ doomed[w]]
        /\ doomed' = [doomed EXCEPT ![w] = {}]
        /\ UNCHANGED <<control, beats, table, todo, birth, acks, seen, silent,
                       stray, record, space, unwritten, heard, faults>>
    BY DEF Terminate
  <1>2. next \in {"idle", "dead"}
    OBVIOUS
  <1> HIDE DEF next
  <1>3. /\ loop \in [Worker -> Loop] /\ child \in [Worker -> SUBSET Agent]
        /\ doomed \in [Worker -> SUBSET Agent]
    BY DEF AgentsInv, Types, WorkerTypes
  <1>4. /\ loop' \in [Worker -> Loop] /\ child' \in [Worker -> SUBSET Agent]
        /\ doomed' \in [Worker -> SUBSET Agent]
        /\ loop'[w] = next /\ child'[w] = child[w] \ doomed[w] /\ doomed'[w] = {}
    BY <1>1, <1>2, <1>3 DEF Loop
  <1>5. Types'
    BY <1>1, <1>4 DEF AgentsInv, Types, ControlTypes, BeatTypes, WorkerTypes, control
  <1>6. Within(w)
    BY <1>1, <1>3 DEF Within, control
  <1>7. LoopInv(w)'
    BY <1>1, <1>2, <1>4 DEF AgentsInv, LoopInv, AtRest
  <1>8. Onwards(w)
    BY <1>1, <1>4 DEF Onwards
  <1> QED BY <1>1, <1>5, <1>6, <1>7, <1>8, BeatsUntouched, LocalStep

(* What a worker that forgets leaves: its records, and some of its         *)
(* processes among them.                                                   *)
LEMMA ForgottenAgents ==
    ASSUME AgentsInv, NEW w \in Worker, Forgotten(w),
           child' = [child EXCEPT ![w] = child'[w]],
           child'[w] \subseteq child[w] \cap record[w],
           UNCHANGED <<control, record, space, heard>>, faults' \in 0..MaxFaults
    PROVE  AgentsInv'
  <1>1. /\ loop' = [loop EXCEPT ![w] = "dead"]
        /\ table' = [table EXCEPT ![w] = {}] /\ todo' = [todo EXCEPT ![w] = {}]
        /\ doomed' = [doomed EXCEPT ![w] = {}] /\ birth' = [birth EXCEPT ![w] = {}]
        /\ acks' = [acks EXCEPT ![w] = {}] /\ seen' = [seen EXCEPT ![w] = None]
        /\ silent' = [silent EXCEPT ![w] = 0] /\ HangUp(w)
        /\ stray' = [stray EXCEPT ![w] = @ \cup (child[w] \ record[w])]
        /\ unwritten' = [unwritten EXCEPT ![w] = {}]
    BY DEF Forgotten
  <1>2. /\ table \in [Worker -> SUBSET Agent] /\ doomed \in [Worker -> SUBSET Agent]
        /\ birth \in [Worker -> SUBSET Agent] /\ child \in [Worker -> SUBSET Agent]
        /\ todo \in [Worker -> SUBSET Command] /\ acks \in [Worker -> SUBSET Ack]
        /\ loop \in [Worker -> Loop] /\ seen \in [Worker -> Report \cup {None}]
        /\ silent \in [Worker -> 0..FenceAfter] /\ stray \in [Worker -> SUBSET Agent]
        /\ unwritten \in [Worker -> SUBSET Agent]
    BY DEF AgentsInv, Types, WorkerTypes
  <1>3. /\ loop'[w] = "dead" /\ table'[w] = {} /\ todo'[w] = {} /\ doomed'[w] = {}
        /\ birth'[w] = {} /\ acks'[w] = {}
    BY <1>1, <1>2
  <1>4. /\ table' \in [Worker -> SUBSET Agent] /\ doomed' \in [Worker -> SUBSET Agent]
        /\ birth' \in [Worker -> SUBSET Agent] /\ child' \in [Worker -> SUBSET Agent]
        /\ todo' \in [Worker -> SUBSET Command] /\ acks' \in [Worker -> SUBSET Ack]
        /\ stray' \in [Worker -> SUBSET Agent] /\ unwritten' \in [Worker -> SUBSET Agent]
    BY <1>1, <1>2
  <1>5. /\ loop' \in [Worker -> Loop] /\ seen' \in [Worker -> Report \cup {None}]
        /\ silent' \in [Worker -> 0..FenceAfter]
    BY <1>1, <1>2 DEF Loop
  <1>6. BeatTypes' /\ BeatsWithin(w)
    BY <1>1, HangUpBeats
  <1>7. Types'
    BY <1>4, <1>5, <1>6 DEF AgentsInv, Types, ControlTypes, WorkerTypes, control
  <1>8. Within(w)
    <2>1. \A v \in Worker \ {w} : child'[v] = child[v]
      BY <1>2
    <2> QED BY <1>1, <1>2, <2>1 DEF Within, control
  <1>9. LoopInv(w)
    BY DEF AgentsInv
  <1>10. LoopInv(w)'
    BY <1>3, <1>9 DEF LoopInv, AtRest, OneEach
  <1>11. Onwards(w)
    <2>1. loop[w] = "killing" => child'[w] \subseteq table[w]
      BY <1>9 DEF LoopInv
    <2> QED BY <1>3, <2>1 DEF Onwards
  <1> QED BY <1>6, <1>7, <1>8, <1>10, <1>11, LocalStep

LEMMA CrashAgents ==
    ASSUME AgentsInv, NEW w \in Worker, Crash(w)
    PROVE  AgentsInv'
  <1>1. /\ Forgotten(w) /\ child' = [child EXCEPT ![w] = @ \cap record[w]]
        /\ UNCHANGED <<control, record, space, heard>>
        /\ faults < MaxFaults /\ faults' = faults + 1
    BY DEF Crash, Fault, May
  <1>2. child \in [Worker -> SUBSET Agent] /\ faults \in 0..MaxFaults
    BY DEF AgentsInv, Types, WorkerTypes
  <1>3. /\ child'[w] = child[w] \cap record[w]
        /\ child' = [child EXCEPT ![w] = child'[w]]
    BY <1>1, <1>2
  <1>4. faults' \in 0..MaxFaults /\ child'[w] \subseteq child[w] \cap record[w]
    BY <1>1, <1>2, <1>3
  <1> QED BY <1>1, <1>3, <1>4, ForgottenAgents

LEMMA WatchdogAgents ==
    ASSUME AgentsInv, NEW w \in Worker, Watchdog(w)
    PROVE  AgentsInv'
  <1>1. /\ Forgotten(w) /\ UNCHANGED <<control, record, space, heard>>
        /\ faults < MaxFaults /\ faults' = faults + 1
    BY DEF Watchdog, Fault, May
  <1>2. PICK spared \in SUBSET (child[w] \cap record[w]) :
           child' = [child EXCEPT ![w] = spared]
    BY DEF Watchdog, Spared
  <1>3. child \in [Worker -> SUBSET Agent] /\ faults \in 0..MaxFaults
    BY DEF AgentsInv, Types, WorkerTypes
  <1>4. child'[w] = spared /\ child' = [child EXCEPT ![w] = child'[w]]
    BY <1>2, <1>3
  <1>5. faults' \in 0..MaxFaults /\ child'[w] \subseteq child[w] \cap record[w]
    BY <1>1, <1>3, <1>4
  <1> QED BY <1>1, <1>4, <1>5, ForgottenAgents

LEMMA ShutdownAgents ==
    ASSUME AgentsInv, NEW w \in Worker, Shutdown(w)
    PROVE  AgentsInv'
  <1>1. /\ loop[w] \in {"idle", "waiting"} /\ faults < MaxFaults /\ faults' = faults + 1
        /\ loop' = [loop EXCEPT ![w] = "leaving"] /\ HangUp(w)
        /\ table' = [table EXCEPT ![w] = {}]
        /\ record' = [record EXCEPT ![w] = @ \ table[w]]
        /\ doomed' = [doomed EXCEPT ![w] = table[w]]
        /\ acks' = [acks EXCEPT ![w] = {}] /\ seen' = [seen EXCEPT ![w] = None]
        /\ silent' = [silent EXCEPT ![w] = 0]
        /\ UNCHANGED <<control, todo, birth, child, stray, space, unwritten, heard>>
    BY DEF Shutdown, Fault, May, Drain
  <1>2. /\ table \in [Worker -> SUBSET Agent] /\ doomed \in [Worker -> SUBSET Agent]
        /\ record \in [Worker -> SUBSET Agent] /\ acks \in [Worker -> SUBSET Ack]
        /\ loop \in [Worker -> Loop] /\ seen \in [Worker -> Report \cup {None}]
        /\ silent \in [Worker -> 0..FenceAfter] /\ faults \in 0..MaxFaults
    BY DEF AgentsInv, Types, WorkerTypes
  <1>3. /\ loop'[w] = "leaving" /\ table'[w] = {} /\ doomed'[w] = table[w]
        /\ record'[w] = record[w] \ table[w] /\ acks'[w] = {}
    BY <1>1, <1>2
  <1>4. /\ table' \in [Worker -> SUBSET Agent] /\ doomed' \in [Worker -> SUBSET Agent]
        /\ record' \in [Worker -> SUBSET Agent] /\ acks' \in [Worker -> SUBSET Ack]
        /\ loop' \in [Worker -> Loop] /\ seen' \in [Worker -> Report \cup {None}]
        /\ silent' \in [Worker -> 0..FenceAfter] /\ faults' \in 0..MaxFaults
    BY <1>1, <1>2 DEF Loop
  <1>5. BeatTypes' /\ BeatsWithin(w)
    BY <1>1, HangUpBeats
  <1>6. Types'
    BY <1>1, <1>4, <1>5 DEF AgentsInv, Types, ControlTypes, WorkerTypes, control
  <1>7. Within(w)
    BY <1>1, <1>2 DEF Within, control
  <1>8. LoopInv(w)'
    BY <1>1, <1>3 DEF AgentsInv, LoopInv, AtRest
  <1>9. Onwards(w)
    BY <1>1, <1>3 DEF Onwards
  <1> QED BY <1>5, <1>6, <1>7, <1>8, <1>9, LocalStep

LEMMA RestartAgents ==
    ASSUME AgentsInv, NEW w \in Worker, Restart(w)
    PROVE  AgentsInv'
  <1>1. /\ loop[w] = "dead" /\ loop' = [loop EXCEPT ![w] = "joining"]
        /\ UNCHANGED <<control, beats, table, todo, doomed, birth, acks, seen, silent,
                       disk, heard, faults>>
    BY DEF Restart
  <1>2. loop \in [Worker -> Loop]
    BY DEF AgentsInv, Types, WorkerTypes
  <1>3. loop' \in [Worker -> Loop] /\ loop'[w] = "joining"
    BY <1>1, <1>2 DEF Loop
  <1>4. Types'
    BY <1>1, <1>3 DEF AgentsInv, Types, ControlTypes, BeatTypes, WorkerTypes, control, disk
  <1>5. Within(w)
    BY <1>1, <1>2 DEF Within, control, disk
  <1>6. LoopInv(w)'
    BY <1>1, <1>3 DEF AgentsInv, LoopInv, AtRest, disk
  <1>7. Onwards(w)
    BY <1>1 DEF Onwards, disk
  <1> QED BY <1>1, <1>4, <1>5, <1>6, <1>7, BeatsUntouched, LocalStep

LEMMA RegisterAgents ==
    ASSUME AgentsInv, NEW w \in Worker, Register(w)
    PROVE  AgentsInv'
  <1>1. /\ loop[w] = "joining" /\ loop' = [loop EXCEPT ![w] = "idle"]
        /\ child' = [child EXCEPT ![w] = @ \ record[w]]
        /\ record' = [record EXCEPT ![w] = {}]
        /\ UNCHANGED <<control, beats, table, todo, doomed, birth, acks, seen, silent,
                       space, unwritten, heard, faults>>
    BY DEF Register, Sweep
  <1>2. /\ loop \in [Worker -> Loop] /\ child \in [Worker -> SUBSET Agent]
        /\ record \in [Worker -> SUBSET Agent] /\ stray \in [Worker -> SUBSET Agent]
    BY DEF AgentsInv, Types, WorkerTypes
  <1>8. stray' \in [Worker -> SUBSET Agent]
    <2>1. PICK spared \in SUBSET (child[w] \cap record[w]) :
             stray' = [stray EXCEPT ![w] = @ \cup spared]
      BY DEF Register, Sweep, Spared
    <2> QED BY <1>2, <2>1
  <1>3. /\ loop' \in [Worker -> Loop] /\ child' \in [Worker -> SUBSET Agent]
        /\ record' \in [Worker -> SUBSET Agent]
        /\ loop'[w] = "idle" /\ child'[w] = child[w] \ record[w] /\ record'[w] = {}
    BY <1>1, <1>2 DEF Loop
  <1>4. Types'
    BY <1>1, <1>3, <1>8 DEF AgentsInv, Types, ControlTypes, BeatTypes, WorkerTypes, control
  <1>5. Within(w)
    BY <1>1, <1>2 DEF Within, control
  <1>6. LoopInv(w)'
    BY <1>1, <1>3 DEF AgentsInv, LoopInv, AtRest
  <1>7. Onwards(w)
    BY <1>1, <1>3 DEF Onwards
  <1> QED BY <1>1, <1>4, <1>5, <1>6, <1>7, BeatsUntouched, LocalStep

LEMMA ChildExitsAgents ==
    ASSUME AgentsInv, NEW w \in Worker, NEW a \in Agent, ChildExits(w, a)
    PROVE  AgentsInv'
  <1>1. /\ \/ child' = [child EXCEPT ![w] = @ \ {a}] /\ UNCHANGED stray
           \/ stray' = [stray EXCEPT ![w] = @ \ {a}] /\ UNCHANGED child
        /\ faults < MaxFaults /\ faults' = faults + 1
        /\ UNCHANGED <<control, beats, memory, record, space, unwritten, heard>>
    BY DEF ChildExits, Fault, May
  <1>2. /\ child \in [Worker -> SUBSET Agent] /\ stray \in [Worker -> SUBSET Agent]
        /\ faults \in 0..MaxFaults
    BY DEF AgentsInv, Types, WorkerTypes
  <1>3. /\ child' \in [Worker -> SUBSET Agent] /\ stray' \in [Worker -> SUBSET Agent]
        /\ child'[w] \subseteq child[w]
    BY <1>1, <1>2
  <1>4. Types'
    BY <1>1, <1>2, <1>3 DEF AgentsInv, Types, ControlTypes, BeatTypes, WorkerTypes, control, memory
  <1>5. Within(w)
    BY <1>1, <1>2 DEF Within, control, memory
  <1>6. LoopInv(w)'
    <2>1. LoopInv(w)
      BY DEF AgentsInv
    <2> QED BY <1>1, <1>3, <2>1 DEF LoopInv, AtRest, memory
  <1>7. Onwards(w)
    BY <1>1, <1>3 DEF Onwards, memory
  <1>8. BeatsWithin(w)
    BY <1>1, BeatsUntouched DEF memory
  <1> QED BY <1>4, <1>5, <1>6, <1>7, <1>8, LocalStep

(* The answer arrives: the list is taken for what the worker was told.     *)
LEMMA AnsweredAgents ==
    ASSUME AgentsInv, NEW w \in Worker, Answered(w)
    PROVE  AgentsInv'
  <1>1. PICK b \in BeatsOf(w) :
          /\ b.live /\ b.stage = "answer"
          /\ beats' = beats \ {b}
          /\ IF b.commands = None
             THEN /\ loop' = [loop EXCEPT ![w] = "idle"]
                  /\ UNCHANGED <<table, todo, doomed, acks, seen, record, heard>>
             ELSE /\ loop' = [loop EXCEPT ![w] = "killing"]
                  /\ todo' = [todo EXCEPT ![w] = b.commands]
                  /\ acks' = [acks EXCEPT ![w] =
                        {[agent |-> c.agent, generation |-> c.generation] : c \in b.commands}]
                  /\ seen' = [seen EXCEPT ![w] = [a \in Agent |-> "none"]]
                  /\ heard' = [heard EXCEPT ![w] = [a \in Agent |->
                        IF \E c \in b.commands : c.agent = a /\ c.generation > @[a]
                        THEN (CHOOSE c \in b.commands : c.agent = a).generation ELSE @[a]]]
                  /\ Reap(w, AgentsOf(b.commands, "running"))
    BY DEF Answered
  <1>2. /\ loop[w] = "waiting" /\ silent' = [silent EXCEPT ![w] = 0]
        /\ UNCHANGED <<control, birth, child, stray, space, unwritten, faults>>
    BY DEF Answered
  <1>3. /\ table \in [Worker -> SUBSET Agent] /\ doomed \in [Worker -> SUBSET Agent]
        /\ birth \in [Worker -> SUBSET Agent] /\ child \in [Worker -> SUBSET Agent]
        /\ record \in [Worker -> SUBSET Agent] /\ loop \in [Worker -> Loop]
        /\ todo \in [Worker -> SUBSET Command] /\ acks \in [Worker -> SUBSET Ack]
        /\ seen \in [Worker -> Report \cup {None}] /\ silent \in [Worker -> 0..FenceAfter]
        /\ heard \in [Worker -> [Agent -> Nat]]
        /\ rows \in [Agent -> AgentRow(Worker)] /\ beats \subseteq Beat
    BY DEF AgentsInv, Types, ControlTypes, BeatTypes, WorkerTypes
  <1>4. /\ b \in beats /\ b.worker = w /\ b.commands \in (SUBSET Command) \cup {None}
        /\ \A e \in beats' : e \in beats /\ (e.worker = w => ~e.live)
    <2>1. b \in beats /\ b.worker = w
      BY DEF BeatsOf
    <2> QED BY <1>1, <1>3, <2>1, BeatFields DEF AgentsInv, BeatsInv
  <1>5. silent' \in [Worker -> 0..FenceAfter]
    BY <1>2, <1>3
  <1>6. LoopInv(w)
    BY DEF AgentsInv
  <1>7. CASE b.commands = None
    <2>1. /\ loop' = [loop EXCEPT ![w] = "idle"]
          /\ UNCHANGED <<table, todo, doomed, acks, seen, record, heard>>
      BY <1>1, <1>7
    <2>2. loop' \in [Worker -> Loop] /\ loop'[w] = "idle"
      BY <1>3, <2>1 DEF Loop
    <2>3. Types'
      BY <1>2, <1>4, <1>5, <2>1, <2>2
         DEF AgentsInv, Types, ControlTypes, BeatTypes, WorkerTypes, control
    <2>4. Within(w)
      BY <1>2, <1>3, <2>1 DEF Within, control
    <2>5. LoopInv(w)'
      BY <1>2, <1>6, <2>1, <2>2 DEF LoopInv, AtRest
    <2>6. Onwards(w)
      BY <1>2, <2>1 DEF Onwards
    <2>7. BeatsWithin(w)
      BY <1>4 DEF BeatsWithin, AgentsInv, BeatsInv
    <2> QED BY <2>3, <2>4, <2>5, <2>6, <2>7, LocalStep
  <1>8. CASE b.commands # None
    <2> DEFINE list == b.commands
               told == {[agent |-> c.agent, generation |-> c.generation] : c \in list}
               news == [a \in Agent |->
                          IF \E c \in list : c.agent = a /\ c.generation > heard[w][a]
                          THEN (CHOOSE c \in list : c.agent = a).generation
                          ELSE heard[w][a]]
               keep == AgentsOf(list, "running")
    <2>1. /\ loop' = [loop EXCEPT ![w] = "killing"]
          /\ todo' = [todo EXCEPT ![w] = list]
          /\ acks' = [acks EXCEPT ![w] = told]
          /\ seen' = [seen EXCEPT ![w] = [a \in Agent |-> "none"]]
          /\ heard' = [heard EXCEPT ![w] = news]
          /\ table' = [table EXCEPT ![w] = @ \cap child[w] \cap keep]
          /\ record' = [record EXCEPT ![w] = @ \ (table[w] \ table'[w])]
          /\ doomed' = [doomed EXCEPT ![w] = (table[w] \cap child[w]) \ keep]
      BY <1>1, <1>8 DEF Reap
    <2>2. /\ list \in SUBSET Command /\ OneEach(list)
          /\ \A c \in list : Current(c) /\ heard[w][c.agent] <= c.generation
      BY <1>4, <1>8 DEF AgentsInv, BeatsInv
    <2>3. /\ told \in SUBSET Ack
          /\ \A k \in told : \E c \in list : k.agent = c.agent /\ k.generation = c.generation
      BY <2>2 DEF Command, Ack
    <2>4. /\ news \in [Agent -> Nat]
          /\ \A c \in list : news[c.agent] = c.generation
          /\ \A a \in Agent : \/ news[a] = heard[w][a]
                              \/ \E c \in list : c.agent = a /\ news[a] = c.generation
      <3>1. \A a \in Agent : heard[w][a] \in Nat
        BY <1>3
      <3>2. \A c \in list : c.agent \in Agent /\ c.generation \in Nat
        BY <2>2 DEF Command
      <3>3. ASSUME NEW c \in list
            PROVE  (CHOOSE d \in list : d.agent = c.agent) = c
        BY <2>2 DEF OneEach
      <3>4. \A c \in list : news[c.agent] = c.generation
        BY <2>2, <3>1, <3>2, <3>3
      <3>5. \A a \in Agent : \/ news[a] = heard[w][a]
                             \/ \E c \in list : c.agent = a /\ news[a] = c.generation
        BY <3>3
      <3> QED BY <3>1, <3>2, <3>4, <3>5
    <2> HIDE DEF list, told, news, keep
    <2>5. /\ loop'[w] = "killing" /\ todo'[w] = list /\ acks'[w] = told
          /\ seen'[w] = [a \in Agent |-> "none"] /\ heard'[w] = news
          /\ table'[w] = table[w] \cap child[w] \cap keep
          /\ record'[w] = record[w] \ (table[w] \ table'[w])
          /\ doomed'[w] = (table[w] \cap child[w]) \ keep
      BY <1>3, <2>1
    <2>6. /\ \A a \in Agent : heard[w][a] <= heard'[w][a] /\ heard'[w][a] <= rows[a].generation
          /\ \A c \in list : Current(c) /\ c.generation = heard'[w][c.agent]
      <3>1. \A a \in Agent : heard[w][a] \in Nat /\ heard[w][a] <= rows[a].generation
        BY <1>3 DEF AgentsInv, HearingInv
      <3>2. \A c \in list : /\ c.generation \in Nat /\ heard[w][c.agent] <= c.generation
                            /\ c.generation <= rows[c.agent].generation
        BY <2>2 DEF Command, Current
      <3> QED BY <2>2, <2>4, <2>5, <3>1, <3>2
    <2>7. Types'
      <3>1. [a \in Agent |-> "none"] \in Report
        BY DEF Report, Observed
      <3>2. loop' \in [Worker -> Loop] /\ todo' \in [Worker -> SUBSET Command]
        BY <1>3, <2>1, <2>2 DEF Loop
      <3>3. acks' \in [Worker -> SUBSET Ack] /\ seen' \in [Worker -> Report \cup {None}]
        BY <1>3, <2>1, <2>3, <3>1
      <3>4. heard' \in [Worker -> [Agent -> Nat]]
        BY <1>3, <2>1, <2>4
      <3>5. /\ table' \in [Worker -> SUBSET Agent] /\ record' \in [Worker -> SUBSET Agent]
            /\ doomed' \in [Worker -> SUBSET Agent]
        BY <1>3, <2>1
      <3> QED BY <1>2, <1>4, <1>5, <3>2, <3>3, <3>4, <3>5
              DEF AgentsInv, Types, ControlTypes, BeatTypes, WorkerTypes, control
    <2>8. RowsInv' /\ UNCHANGED <<rows, known, pending, birth, child, space, unwritten>>
      BY <1>2 DEF AgentsInv, RowsInv, control
    <2>9. ASSUME NEW v \in Worker, v # w
          PROVE  /\ loop'[v] = loop[v] /\ table'[v] = table[v] /\ todo'[v] = todo[v]
                 /\ doomed'[v] = doomed[v] /\ acks'[v] = acks[v]
                 /\ seen'[v] = seen[v] /\ record'[v] = record[v] /\ heard'[v] = heard[v]
      BY <1>3, <2>1, <2>9
    <2>10. ASSUME NEW v \in Worker PROVE LoopInv(v)'
      <3>1. CASE v # w
        <4>1. LoopInv(v)
          BY DEF AgentsInv
        <4> QED BY <2>8, <2>9, <3>1, <4>1 DEF LoopInv, AtRest
      <3>2. CASE v = w
        <4>1. /\ table[w] \subseteq record[w] \cup unwritten[w]
              /\ table[w] \subseteq space[w]
              /\ birth[w] = {} /\ child[w] \subseteq table[w]
          BY <1>2, <1>6 DEF LoopInv, AtRest
        <4>2. [a \in Agent |-> "none"] \in Report
          BY DEF Report, Observed
        <4>3. /\ table'[w] \subseteq record'[w] \cup unwritten'[w]
              /\ table'[w] \subseteq space'[w]
              /\ doomed'[w] \cap record'[w] = {}
              /\ child'[w] \subseteq table'[w] \cup doomed'[w]
          BY <2>5, <2>8, <4>1
        <4>4. table'[w] \subseteq AgentsOf(todo'[w], "running")
          BY <2>5 DEF keep
        <4> QED BY <2>2, <2>5, <2>8, <3>2, <4>1, <4>2, <4>3, <4>4 DEF LoopInv
      <3> QED BY <3>1, <3>2
    <2>11. \A c : Current(c)' <=> Current(c)
      BY <2>8 DEF Current
    <2>12. BeatsInv'
      <3>1. ASSUME NEW e \in beats'
            PROVE  /\ e.live => loop'[e.worker] = "waiting"
                   /\ e.stage \in {"list", "answer"} => e.live
                   /\ e.commands # None =>
                         /\ e.stage = "answer" /\ e.live
                         /\ OneEach(e.commands)
                         /\ \A c \in e.commands :
                               Current(c) /\ heard'[e.worker][c.agent] <= c.generation
        <4>1. e \in beats /\ e.worker \in Worker
          BY <1>3, <1>4, BeatFields
        <4>2. CASE ~e.live
          BY <4>1, <4>2 DEF AgentsInv, BeatsInv
        <4>3. CASE e.live
          <5>1. e.worker # w
            BY <1>4, <4>3
          <5> QED BY <2>9, <4>1, <4>3, <5>1 DEF AgentsInv, BeatsInv
        <4> QED BY <4>2, <4>3, <4>1, BeatFields, <1>3
      <3>2. \A d, e \in beats' : d.live /\ e.live /\ d.worker = e.worker => d = e
        BY <1>4 DEF AgentsInv, BeatsInv
      <3> QED BY <2>11, <3>1, <3>2 DEF BeatsInv, OneEach
    <2>13. HearingInv'
      <3>1. \A v \in Worker, a \in Agent : heard'[v][a] <= rows[a].generation
        BY <2>6, <2>9 DEF AgentsInv, HearingInv
      <3>2. ASSUME NEW v \in Worker, NEW c \in todo'[v]
            PROVE  Current(c) /\ c.generation = heard'[v][c.agent]
        BY <2>5, <2>6, <2>9 DEF AgentsInv, HearingInv
      <3>3. ASSUME NEW v \in Worker, NEW k \in acks'[v]
            PROVE  k.generation <= heard'[v][k.agent]
        <4>1. CASE v # w
          BY <2>9, <4>1 DEF AgentsInv, HearingInv
        <4>2. CASE v = w
          <5>1. PICK c \in list : k.agent = c.agent /\ k.generation = c.generation
            BY <2>3, <2>5, <4>2
          <5>2. c.generation \in Nat /\ c.generation = heard'[w][c.agent]
            BY <2>2, <2>6 DEF Command
          <5> QED BY <4>2, <5>1, <5>2
        <4> QED BY <4>1, <4>2
      <3>4. ASSUME NEW e \in beats', NEW k \in e.acks
            PROVE  k.generation <= heard'[e.worker][k.agent]
        <4>1. /\ e \in beats /\ e.worker \in Worker /\ k \in Ack
              /\ k.generation <= heard[e.worker][k.agent]
          BY <1>3, <1>4, BeatFields DEF AgentsInv, HearingInv
        <4>2. CASE e.worker # w
          BY <2>9, <4>1, <4>2
        <4>3. CASE e.worker = w
          <5>1. /\ k.agent \in Agent /\ k.generation \in Nat
                /\ heard[w][k.agent] \in Nat /\ news[k.agent] \in Nat
            BY <1>3, <2>4, <4>1 DEF Ack
          <5> QED BY <2>5, <2>6, <4>1, <4>3, <5>1
        <4> QED BY <4>2, <4>3
      <3> QED BY <2>8, <2>11, <3>1, <3>2, <3>3, <3>4 DEF HearingInv
    <2>14. ASSUME NEW a \in Agent, heard'[w][a] = rows[a].generation, rows[a].generation > 0,
                  AckOnItsWay(a, w)' \/ AckHasArrived(a, w)'
           PROVE  heard[w][a] = rows[a].generation
      <3>1. heard[w][a] \in Nat /\ rows[a].generation \in Nat /\ heard[w][a] <= rows[a].generation
        BY <1>3 DEF AgentsInv, HearingInv, AgentRow
      <3>2. CASE AckOnItsWay(a, w)'
        <4>1. PICK e \in beats : /\ e.worker = w
                                 /\ [agent |-> a, generation |-> rows[a].generation] \in e.acks
          BY <1>4, <2>8, <3>2 DEF AckOnItsWay
        <4>2. rows[a].generation <= heard[w][a]
          BY <4>1 DEF AgentsInv, HearingInv
        <4> QED BY <3>1, <4>2
      <3>3. CASE AckHasArrived(a, w)'
        BY <2>8, <2>14, <3>3 DEF AckHasArrived, AgentsInv, DeliveredMeansHeard
      <3> QED BY <2>14, <3>2, <3>3
    <2>15. StopInv'
      <3> SUFFICES ASSUME NEW a \in Agent, NEW v \in Worker, ToldToStop(a, v)'
                   PROVE  (/\ a \notin table[v] \cup birth[v]
                           /\ loop[v] # "killing" \/ AckOnItsWay(a, v) \/ AckHasArrived(a, v)
                                 => a \notin child[v])'
        BY DEF StopInv
      <3>1. CASE v # w
        <4>1. ToldToStop(a, v)
          BY <2>8, <2>9, <3>1 DEF ToldToStop
        <4>2. AckOnItsWay(a, v)' => AckOnItsWay(a, v)
          BY <1>4, <2>8 DEF AckOnItsWay
        <4>3. AckHasArrived(a, v)' => AckHasArrived(a, v)
          BY <2>8 DEF AckHasArrived
        <4> QED BY <2>8, <2>9, <3>1, <4>1, <4>2, <4>3 DEF AgentsInv, StopInv
      <3>2. CASE v = w
        <4>1. /\ rows[a].desired = "stopped" /\ rows[a].generation > 0
              /\ heard'[w][a] = rows[a].generation
          BY <2>8, <3>2 DEF ToldToStop
        <4>2. a \notin keep
          <5> SUFFICES ASSUME NEW c \in list, c.desired = "running", c.agent = a
                       PROVE  FALSE
            BY DEF keep, AgentsOf
          <5> QED BY <2>6, <4>1 DEF Current
        <4>3. birth[w] = {}
          BY <1>2, <1>6 DEF LoopInv, AtRest
        <4>4. a \notin table'[w] \cup birth'[w]
          BY <2>5, <2>8, <4>2, <4>3
        <4>5. AckOnItsWay(a, w)' \/ AckHasArrived(a, w)' => a \notin child[w]
          <5>1. heard[w][a] = rows[a].generation => a \notin child[w]
            BY <1>2, <4>1 DEF AgentsInv, StopInv, ToldToStop
          <5> QED BY <2>14, <4>1, <5>1
        <4> QED BY <2>5, <2>8, <3>2, <4>4, <4>5
      <3> QED BY <3>1, <3>2
    <2>16. DeliveredMeansHeard'
      <3> SUFFICES ASSUME NEW a \in Agent, NEW v \in Worker, rows[a].worker = v,
                          rows[a].generation > 0, rows[a].acked = rows[a].generation
                   PROVE  heard'[v][a] = rows[a].generation
        BY <2>8 DEF DeliveredMeansHeard
      <3>1. heard[v][a] = rows[a].generation
        BY DEF AgentsInv, DeliveredMeansHeard
      <3>2. CASE v # w
        BY <2>9, <3>1, <3>2
      <3>3. CASE v = w
        <4>1. rows[a].generation \in Nat /\ heard'[w][a] \in Nat
          BY <1>3, <2>4, <2>5 DEF AgentRow
        <4> QED BY <2>6, <3>1, <3>3, <4>1
      <3> QED BY <3>2, <3>3
    <2> QED BY <2>7, <2>8, <2>10, <2>12, <2>13, <2>15, <2>16 DEF AgentsInv
  <1> QED BY <1>7, <1>8

-------------------------------------------------------------------------------
LEMMA OperateAgents ==
    ASSUME AgentsInv, Operate
    PROVE  AgentsInv'
  <1>1. ASSUME NEW a \in Agent, AskStart(a) PROVE AgentsInv'
    BY <1>1, AskAgentsInv DEF AskStart
  <1>2. ASSUME NEW a \in Agent, NEW w \in Worker, AskPlace(a, w) PROVE AgentsInv'
    BY <1>2, AskAgentsInv DEF AskPlace
  <1>3. ASSUME NEW a \in Agent, AskStop(a) PROVE AgentsInv'
    BY <1>3, AskAgentsInv DEF AskStop
  <1> QED BY <1>1, <1>2, <1>3, CreateAgents, DeleteWorkerAgents DEF Operate

LEMMA AgentsStep == AgentsInv /\ [Next]_vars => AgentsInv'
  <1> SUFFICES ASSUME AgentsInv, [Next]_vars PROVE AgentsInv'
    OBVIOUS
  <1>1. CASE Operate
    BY <1>1, OperateAgents
  <1>2. ASSUME NEW h \in pending, Issue(h) PROVE AgentsInv'
    BY <1>2, IssueAgents
  <1>3. ASSUME NEW w \in Worker, Heed(w) PROVE AgentsInv'
    <2>1. PICK b \in beats :
             HandleAcks(b) \/ HandleObservations(b) \/ HandleList(b) \/ Abandon(b)
      BY <1>3 DEF Heed, BeatsOf
    <2> QED BY <2>1, HandleAcksAgents, HandleObservationsAgents, HandleListAgents, AbandonAgents
  <1>4. ASSUME NEW w \in Worker, Run(w) PROVE AgentsInv'
    BY <1>4, SendBeatAgents, AnsweredAgents, BeatFailsAgents, KillAgents, StartAgents,
       RecordAgents, TerminateAgents, RestartAgents, RegisterAgents DEF Run
  <1>5. ASSUME NEW w \in Worker, Break(w) PROVE AgentsInv'
    BY <1>5, CrashAgents, WatchdogAgents, ShutdownAgents, ChildExitsAgents DEF Break
  <1>6. CASE UNCHANGED vars
    <2>1. /\ UNCHANGED <<rows, known, pending, beats, loop, table, todo, doomed, birth>>
          /\ UNCHANGED <<acks, seen, silent, child, stray, record, space, unwritten,
                         heard, faults>>
      BY <1>6 DEF vars, control, memory, disk
    <2>2. Types'
      BY <2>1 DEF AgentsInv, Types, ControlTypes, BeatTypes, WorkerTypes
    <2>3. \A w \in Worker : LoopInv(w)'
      BY <2>1 DEF AgentsInv, LoopInv, AtRest
    <2>4. RowsInv' /\ BeatsInv' /\ HearingInv'
      BY <2>1 DEF AgentsInv, RowsInv, BeatsInv, HearingInv, Current, OneEach
    <2>5. StopInv' /\ DeliveredMeansHeard'
      BY <2>1 DEF AgentsInv, StopInv, DeliveredMeansHeard, ToldToStop, AckOnItsWay, AckHasArrived
    <2> QED BY <2>2, <2>3, <2>4, <2>5 DEF AgentsInv
  <1> QED BY <1>1, <1>2, <1>3, <1>4, <1>5, <1>6 DEF Next

(* The inductive invariant, from which the rest follows: what the rows,    *)
(* the heartbeats and the workers know of one command fits together.       *)
THEOREM AgentsInvariance == Spec => []AgentsInv
  BY InitAgents, AgentsStep, PTL DEF Spec

(* Every variable stays in its type, and an agent's worker has a row (the  *)
(* foreign key holds across every statement and the deregistration).       *)
THEOREM AgentsTypeCorrect == Spec => []TypeOK
  <1>1. AgentsInv => TypeOK
    BY DEF AgentsInv, Types, ControlTypes, BeatTypes, WorkerTypes, TypeOK
  <1> QED BY <1>1, AgentsInvariance, PTL

(* A living process is on record, being started, being terminated, or one  *)
(* whose record could not be written; and a heartbeat loop at rest         *)
(* supervises every process it can reach (reconcile, write_spawn_record,   *)
(* fence_all and the sweep of stale incarnations), whatever crashed and    *)
(* whichever kill or write failed.                                         *)
THEOREM ProcessesAreSupervised == Spec => []SupervisedAndRecorded
  <1>1. AgentsInv => SupervisedAndRecorded
    <2> SUFFICES ASSUME AgentsInv, NEW w \in Worker
                 PROVE  /\ child[w] \ record[w] \subseteq birth[w] \cup doomed[w] \cup unwritten[w]
                        /\ loop[w] \in {"idle", "waiting"}
                            => /\ child[w] \subseteq table[w] \cap space[w]
                               /\ table[w] \ unwritten[w] \subseteq record[w]
      BY DEF SupervisedAndRecorded
    <2>1. LoopInv(w) /\ loop[w] \in Loop
      BY DEF AgentsInv, Types, WorkerTypes
    <2> QED BY <2>1 DEF LoopInv, Loop
  <1> QED BY <1>1, AgentsInvariance, PTL

(* A command counts as delivered only once the agent's own worker has      *)
(* heard it (command_delivered after ack_agent_commands), although agents  *)
(* move, acknowledgements are late and workers restart.                    *)
THEOREM DeliveryIsHeard == Spec => []DeliveredMeansHeard
  <1>1. AgentsInv => DeliveredMeansHeard
    BY DEF AgentsInv
  <1> QED BY <1>1, AgentsInvariance, PTL

(* Once the control plane has taken the acknowledgement of a stop, the     *)
(* agent's worker runs no process of it (heartbeat_once acknowledges a     *)
(* list one beat after reconcile went through it).                         *)
THEOREM StopsAreObeyed == Spec => []AckedStopIsStopped
  <1>1. AgentsInv => AckedStopIsStopped
    <2> SUFFICES ASSUME AgentsInv, NEW a \in Agent, NEW w \in Worker, rows[a].worker = w,
                        rows[a].desired = "stopped", rows[a].acked = rows[a].generation,
                        rows[a].generation > 0
                 PROVE  a \notin child[w]
      BY DEF AckedStopIsStopped
    <2>1. ToldToStop(a, w)
      BY DEF ToldToStop, AgentsInv, DeliveredMeansHeard
    <2>2. AckHasArrived(a, w)
      BY DEF AckHasArrived
    <2> QED BY <2>1, <2>2 DEF AgentsInv, StopInv
  <1> QED BY <1>1, AgentsInvariance, PTL
===============================================================================
