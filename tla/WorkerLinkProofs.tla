------------------------- MODULE WorkerLinkProofs -------------------------
(***************************************************************************)
(* Theorems about what the orchestrator keeps towards one worker: its      *)
(* circuit in one process (module CircuitBreaker), its connection          *)
(* (AcpSessions), and its circuit in all processes (CircuitSync).  The     *)
(* three modules share no variable; each has a part of its own here.       *)
(***************************************************************************)
EXTENDS CircuitBreaker, AcpSessions, CircuitSync, FiniteSetTheorems, SequenceTheorems, TLAPS

-------------------------------------------------------------------------------
(***************************************************************************)
(* The circuit, for every set of dispatches and every configuration.       *)
(***************************************************************************)
USE DispatchAssumption, TimesAssumption, RatesAssumption

(* No more fresh probes than before, or none: the bound is kept.           *)
LEMMA FewerProbes ==
    ASSUME IInv, Fresh' \subseteq Fresh
    PROVE  ProbesBounded'
  <1>1. IsFiniteSet(Fresh)
    BY FS_Subset DEF Fresh
  <1>2. /\ Cardinality(Fresh') <= Cardinality(Fresh)
        /\ Cardinality(Fresh) \in Nat /\ Cardinality(Fresh') \in Nat
    BY <1>1, FS_Subset, FS_CardinalityType
  <1> QED BY <1>2 DEF IInv, ProbesBounded, ProbeLimit

LEMMA InitIInv == Init => IInv
  <1> SUFFICES ASSUME Init PROVE IInv
    OBVIOUS
  <1>1. TypeOK
    BY DEF Init, TypeOK, StaleAfter
  <1>2. Fresh = {}
    BY DEF Init, Fresh
  <1> QED BY <1>1, <1>2, FS_EmptySet DEF Init, IInv, SlotsInv, ProbesBounded, ProbeLimit

(* Calls that let nobody pass and leave the circuit as it is.              *)
LEMMA QuietIInv ==
    ASSUME IInv, TypeOK', Fresh' \subseteq Fresh,
           UNCHANGED <<state, opened, slots, age>>
    PROVE  IInv'
  <1>1. SlotsInv'
    BY DEF IInv, SlotsInv
  <1> QED BY <1>1, FewerProbes DEF IInv

(* Opening and closing forget the slots: only the fresh probes matter.     *)
LEMMA DecidedIInv ==
    ASSUME IInv, TypeOK', Fresh' \subseteq Fresh, Open \/ state' = "Closed"
    PROVE  IInv'
  <1>1. \A d \in Fresh' : age'[d] \in Nat
    BY DEF Fresh, TypeOK, StaleAfter
  <1>2. state' # "HalfOpen" /\ (state' = "Open" => opened' = 0)
    BY DEF Open
  <1>3. SlotsInv'
    BY <1>1, <1>2 DEF SlotsInv
  <1> QED BY <1>3, FewerProbes DEF IInv

(***************************************************************************)
(* A probe that passes gets a slot.  When the circuit was Open, it has     *)
(* cooled down, and no older probe is fresh; when it was HalfOpen, every   *)
(* fresh probe has a live slot, and there is room for one more.            *)
(***************************************************************************)
LEMMA CheckIInv ==
    ASSUME IInv, NEW d \in Dispatch, Check(d)
    PROVE  IInv'
  <1> USE DEF IInv, Check
  <1>1. CASE CheckClosed(d)
    <2>1. TypeOK'
      BY <1>1 DEF CheckClosed, Passes, TypeOK, StaleAfter
    <2>2. Fresh' \subseteq Fresh
      BY <1>1 DEF CheckClosed, Passes, TypeOK, Fresh
    <2> QED BY <1>1, <2>1, <2>2, DecidedIInv DEF CheckClosed
  <1>2. CASE CheckCooled(d)
    <2>1. TypeOK'
      BY <1>2 DEF CheckCooled, Passes, TypeOK, StaleAfter
    <2>2. Fresh = {}
      BY <1>2 DEF CheckCooled, SlotsInv, TypeOK, Fresh
    <2>3. Fresh' \subseteq {d}
      BY <1>2, <2>2 DEF CheckCooled, Passes, TypeOK, Fresh
    <2>4. IsFiniteSet({d}) /\ Cardinality({d}) = 1
      BY FS_Singleton
    <2>5. Cardinality(Fresh') <= 1 /\ Cardinality(Fresh') \in Nat
      BY <2>3, <2>4, FS_Subset, FS_CardinalityType
    <2> QED BY <1>2, <2>1, <2>3, <2>4, <2>5
            DEF CheckCooled, SlotsInv, ProbesBounded, ProbeLimit
  <1>3. CASE CheckProbe(d)
    <2>1. TypeOK'
      BY <1>3 DEF CheckProbe, Passes, TypeOK, StaleAfter, Live
    <2>2. Fresh \subseteq Live
      BY <1>3 DEF CheckProbe, SlotsInv, TypeOK, Fresh, Live, StaleAfter
    <2>3. Fresh' \subseteq slots'
      BY <1>3, <2>2 DEF CheckProbe, Passes, TypeOK, Fresh
    <2>4. IsFiniteSet(Live) /\ Cardinality(Live) \in Nat
      BY FS_Subset, FS_CardinalityType DEF TypeOK, Live
    <2>5. /\ IsFiniteSet(Live \cup {d})
          /\ Cardinality(Live \cup {d}) \in {Cardinality(Live), Cardinality(Live) + 1}
      BY <2>4, FS_AddElement
    <2>6. Cardinality(slots') <= ProbeLimit
      BY <1>3, <2>4, <2>5 DEF CheckProbe, Room, ProbeLimit
    <2>7. IsFiniteSet(slots') /\ Cardinality(slots') \in Nat
      BY <1>3, <2>5, FS_CardinalityType DEF CheckProbe
    <2>8. Cardinality(Fresh') <= Cardinality(slots') /\ Cardinality(Fresh') \in Nat
      BY <2>3, <2>7, FS_Subset, FS_CardinalityType
    <2>9. ProbesBounded'
      BY <2>6, <2>7, <2>8 DEF ProbesBounded, ProbeLimit
    <2> QED BY <1>3, <2>1, <2>3, <2>6, <2>9 DEF CheckProbe, SlotsInv, ProbeLimit
  <1>4. CASE CheckRefuses(d)
    <2>1. TypeOK'
      BY <1>4 DEF CheckRefuses, TypeOK, Live
    <2>2. Fresh' \subseteq Fresh
      BY <1>4 DEF CheckRefuses, TypeOK, Fresh
    <2>3. CASE state = "Open"
      BY <1>4, <2>1, <2>2, <2>3, QuietIInv DEF CheckRefuses
    <2>4. CASE state = "HalfOpen"
      <3>1. Fresh \subseteq Live
        BY <2>4 DEF SlotsInv, TypeOK, Fresh, Live, StaleAfter
      <3>2. IsFiniteSet(slots) /\ Live \subseteq slots
        BY FS_Subset DEF TypeOK, Live
      <3>3. /\ Cardinality(Live) <= Cardinality(slots)
            /\ Cardinality(Live) \in Nat /\ Cardinality(slots) \in Nat
        BY <3>2, FS_Subset, FS_CardinalityType
      <3>4. Cardinality(Live) <= ProbeLimit
        BY <2>4, <3>3 DEF SlotsInv, ProbeLimit
      <3>5. SlotsInv'
        BY <1>4, <2>2, <2>4, <3>1, <3>4 DEF CheckRefuses, SlotsInv, ProbeLimit
      <3> QED BY <2>1, <2>2, <3>5, FewerProbes
    <2> QED BY <1>4, <2>3, <2>4 DEF CheckRefuses
  <1> QED BY <1>1, <1>2, <1>3, <1>4

(* Whatever is recorded keeps the invariant, if the reporter is no probe.  *)
LEMMA RecordIInv ==
    ASSUME IInv, NEW lost \in BOOLEAN, Record(lost),
           pc' \in [Dispatch -> {"idle", "selected", "running", "probing", "ended"}],
           \A d \in Dispatch : pc'[d] = "probing" => pc[d] = "probing"
    PROVE  IInv'
  <1> USE DEF IInv, Record
  <1>1. TypeOK'
    BY DEF TypeOK, StaleAfter, RecordClosed, RecordHalfOpen, RecordOpen,
           Open, Close, breakerVars
  <1>2. Fresh' \subseteq Fresh
    BY DEF Fresh
  <1>3. CASE RecordClosed(lost)
    BY <1>1, <1>2, <1>3, DecidedIInv DEF RecordClosed
  <1>4. CASE RecordHalfOpen(lost)
    BY <1>1, <1>2, <1>4, DecidedIInv DEF RecordHalfOpen, Close
  <1>5. CASE RecordOpen
    BY <1>1, <1>2, <1>5, QuietIInv DEF RecordOpen, breakerVars
  <1> QED BY <1>3, <1>4, <1>5

(* The probes grow old at least as fast as the circuit cools down.         *)
LEMMA TickIInv ==
    ASSUME IInv, Tick
    PROVE  IInv'
  <1> USE DEF IInv, Tick, Older, StaleAfter
  <1>1. TypeOK'
    BY DEF TypeOK
  <1>2. Fresh' \subseteq Fresh
    BY DEF TypeOK, Fresh
  <1>3. state' = "Open" => \A d \in Fresh' : age'[d] >= opened'
    BY <1>2 DEF TypeOK, SlotsInv, Fresh
  <1>4. SlotsInv'
    BY <1>2, <1>3 DEF SlotsInv, ProbeLimit
  <1> QED BY <1>1, <1>2, <1>4, FewerProbes

LEMMA StepIInv == IInv /\ [Next]_vars => IInv'
  <1> SUFFICES ASSUME IInv, [Next]_vars PROVE IInv'
    OBVIOUS
  <1> USE DEF IInv
  <1>1. ASSUME NEW d \in Dispatch, Select(d) PROVE IInv'
    <2>1. TypeOK' /\ Fresh' \subseteq Fresh
      BY <1>1 DEF Select, TypeOK, Fresh, breakerVars
    <2> QED BY <1>1, <2>1, QuietIInv DEF Select, breakerVars
  <1>2. ASSUME NEW d \in Dispatch, Check(d) PROVE IInv'
    BY <1>2, CheckIInv
  <1>3. ASSUME NEW d \in Dispatch, Reported(d) PROVE IInv'
    <2>1. PICK lost \in BOOLEAN : Record(lost)
      BY <1>3 DEF Reported
    <2> QED BY <1>3, <2>1, RecordIInv DEF Reported, TypeOK
  <1>4. ASSUME NEW d \in Dispatch, Unreported(d) PROVE IInv'
    <2>1. TypeOK' /\ Fresh' \subseteq Fresh
      BY <1>4 DEF Unreported, TypeOK, Fresh, breakerVars
    <2> QED BY <1>4, <2>1, QuietIInv DEF Unreported, breakerVars
  <1>5. ASSUME NEW d \in Dispatch, ReportedLate(d) PROVE IInv'
    <2>1. PICK lost \in BOOLEAN : Record(lost)
      BY <1>5 DEF ReportedLate
    <2> QED BY <1>5, <2>1, RecordIInv DEF ReportedLate, TypeOK
  <1>6. ASSUME Reset \/ ForceOpen PROVE IInv'
    <2>1. TypeOK' /\ Fresh' \subseteq Fresh
      BY <1>6 DEF Reset, ForceOpen, Open, Close, TypeOK, StaleAfter, Fresh
    <2> QED BY <1>6, <2>1, DecidedIInv DEF Reset, ForceOpen, Close
  <1>7. CASE Tick
    BY <1>7, TickIInv
  <1>8. CASE UNCHANGED vars
    <2>1. TypeOK' /\ Fresh' \subseteq Fresh
      BY <1>8 DEF vars, breakerVars, TypeOK, Fresh
    <2> QED BY <1>8, <2>1, QuietIInv DEF vars, breakerVars
  <1> QED BY <1>1, <1>2, <1>3, <1>4, <1>5, <1>6, <1>7, <1>8 DEF Next

(***************************************************************************)
(* However dispatches, results, resets, forced openings and lost probes    *)
(* interleave, no more than half_open_max_probes probes are sent within    *)
(* one cool-down (breaker.rs: check, record, reset, force_open).           *)
(***************************************************************************)
THEOREM ProbesAreBounded == Spec => []ProbesBounded
  <1>1. IInv => ProbesBounded
    BY DEF IInv
  <1> QED BY <1>1, InitIInv, StepIInv, PTL DEF Spec

-----------------------------------------------------------------------------
(* Counting one more result makes the sequence longer by one at most.      *)
LEMMA CountingAddsOne ==
    ASSUME CountInv, NEW lost \in BOOLEAN
    PROVE  /\ Counting(lost) \in Seq([failed : BOOLEAN, age : Nat])
           /\ Len(Counting(lost)) <= Len(samples) + 1
  <1> DEFINE one == [failed |-> lost, age |-> 0]
             all == Append(samples, one)
             old == {n \in DOMAIN all : \A m \in 1 .. n : all[m].age > Window}
  <1>1. /\ all \in Seq([failed : BOOLEAN, age : Nat])
        /\ Len(all) = Len(samples) + 1
    BY DEF CountInv
  <1> HIDE DEF all
  <1>2. old \subseteq 1 .. Len(all) /\ Len(all) \in Nat
    BY <1>1
  <1>3. Cardinality(old) \in Nat
    <2>1. IsFiniteSet(1 .. Len(all))
      BY <1>2, FS_Interval
    <2> HIDE DEF old
    <2> QED BY <1>2, <2>1, FS_Subset, FS_CardinalityType
  <1> DEFINE k == Cardinality(old)
  <1>4. Counting(lost) = SubSeq(all, k + 1, Len(all))
    BY DEF Counting, all
  <1> HIDE DEF k
  <1>5. k \in Nat
    BY <1>3 DEF k
  <1>6. /\ SubSeq(all, k + 1, Len(all)) \in Seq([failed : BOOLEAN, age : Nat])
        /\ Len(SubSeq(all, k + 1, Len(all))) <= Len(all)
    <2> DEFINE S == [failed : BOOLEAN, age : Nat]
               L == Len(all)
    <2> HIDE DEF S
    <2>1. \A i \in k + 1 .. L : all[i] \in S
      <3>1. all \in Seq(S)
        BY <1>1 DEF S
      <3>2. \A i \in 1 .. L : all[i] \in S
        BY <3>1, ElementOfSeq
      <3> QED BY <1>2, <1>5, <3>2
    <2>2. k + 1 \in Int /\ L \in Int
      BY <1>2, <1>5
    <2> HIDE DEF L
    <2>3. /\ SubSeq(all, k + 1, L) \in Seq(S)
          /\ Len(SubSeq(all, k + 1, L)) = IF k + 1 <= L THEN L - (k + 1) + 1 ELSE 0
      BY <2>1, <2>2, SubSeqProperties
    <2> QED BY <1>2, <1>5, <2>3 DEF S, L
  <1> QED BY <1>1, <1>4, <1>6

LEMMA InitCountInv == Init => CountInv
  BY DEF Init, CountInv

LEMMA ClosedCountInv == Close => CountInv'
  BY DEF Close, CountInv

LEMMA RecordCountInv ==
    ASSUME CountInv, NEW lost \in BOOLEAN, Record(lost)
    PROVE  CountInv'
  <1>1. CASE RecordClosed(lost)
    <2>1. samples' = Counting(lost)
          /\ counted' = IF counted < MinSamples THEN counted + 1 ELSE counted
      BY <1>1 DEF RecordClosed
    <2> QED BY <2>1, CountingAddsOne DEF CountInv
  <1>2. CASE RecordHalfOpen(lost) \/ RecordOpen
    BY <1>2, ClosedCountInv DEF RecordHalfOpen, RecordOpen, Open, breakerVars, CountInv
  <1> QED BY <1>1, <1>2 DEF Record

LEMMA StepCountInv == CountInv /\ [Next]_vars => CountInv'
  <1> SUFFICES ASSUME CountInv, [Next]_vars PROVE CountInv'
    OBVIOUS
  <1>1. ASSUME NEW d \in Dispatch, Select(d) \/ Check(d) \/ Unreported(d)
        PROVE  CountInv'
    BY <1>1 DEF Select, Check, CheckClosed, CheckCooled, CheckProbe, CheckRefuses,
                Passes, Unreported, breakerVars, CountInv
  <1>2. ASSUME NEW d \in Dispatch, Reported(d) \/ ReportedLate(d) PROVE CountInv'
    BY <1>2, RecordCountInv DEF Reported, ReportedLate
  <1>3. CASE Reset \/ ForceOpen \/ UNCHANGED vars
    BY <1>3, ClosedCountInv DEF Reset, ForceOpen, Open, vars, breakerVars, CountInv
  <1>4. CASE Tick
    <2> DEFINE older(n) == [samples[n] EXCEPT !.age = IF @ <= Window THEN @ + 1 ELSE @]
    <2>1. \A n \in 1 .. Len(samples) : older(n) \in [failed : BOOLEAN, age : Nat]
      <3> TAKE n \in 1 .. Len(samples)
      <3>1. PICK r \in [failed : BOOLEAN, age : Nat] : r = samples[n]
        BY ElementOfSeq DEF CountInv
      <3>2. [r EXCEPT !.age = IF @ <= Window THEN @ + 1 ELSE @]
              \in [failed : BOOLEAN, age : Nat]
        OBVIOUS
      <3> QED BY <3>1, <3>2
    <2>2. samples' = [n \in 1 .. Len(samples) |-> older(n)] /\ counted' = counted
      BY <1>4 DEF Tick, CountInv
    <2> HIDE DEF older
    <2>3. Len(samples) \in Nat
      BY DEF CountInv
    <2>4. samples' \in Seq([failed : BOOLEAN, age : Nat]) /\ Len(samples') = Len(samples)
      BY <2>1, <2>2, <2>3
    <2> QED BY <2>2, <2>4 DEF CountInv
  <1> QED BY <1>1, <1>2, <1>3, <1>4 DEF Next

(* Only a result that is counted trips a closed circuit by itself.         *)
LEMMA TripIsCounted ==
    ASSUME CountInv, [Next]_vars, state = "Closed", state' = "Open", samples' # samples
    PROVE  \E lost \in BOOLEAN : RecordClosed(lost) /\ Trips(Counting(lost))
  <1>1. ASSUME NEW lost \in BOOLEAN, Record(lost)
        PROVE  RecordClosed(lost) /\ Trips(Counting(lost))
    BY <1>1 DEF Record, RecordClosed, RecordHalfOpen, RecordOpen
  <1>2. ASSUME NEW d \in Dispatch PROVE ~(Select(d) \/ Check(d) \/ Unreported(d))
    BY DEF Select, Check, CheckClosed, CheckCooled, CheckProbe, CheckRefuses, Passes,
           Unreported, breakerVars
  <1>3. ~(Reset \/ ForceOpen \/ Tick \/ UNCHANGED vars)
    BY DEF Reset, ForceOpen, Close, Tick, vars, breakerVars
  <1> QED BY <1>1, <1>2, <1>3 DEF Next, Reported, ReportedLate

(***************************************************************************)
(* A circuit that has closed does not trip on what was recorded before: it *)
(* takes min_samples new results, however probes, late results, resets and *)
(* forced openings interleave (breaker.rs: record, samples.clear).         *)
(***************************************************************************)
THEOREM TripsAreNew == Spec => TripNeedsNewResults
  <1>1. ASSUME CountInv, [Next]_vars, state = "Closed", state' = "Open", samples' # samples
        PROVE  counted + 1 >= MinSamples
    <2>1. PICK lost \in BOOLEAN : Trips(Counting(lost))
      BY <1>1, TripIsCounted
    <2>2. Len(Counting(lost)) >= MinSamples
      BY <2>1 DEF Trips
    <2> QED BY <1>1, <2>2, CountingAddsOne DEF CountInv
  <1>2. CountInv /\ [Next]_vars =>
            [state = "Closed" /\ state' = "Open" /\ samples' # samples
                => counted + 1 >= MinSamples]_vars
    BY <1>1
  <1> QED BY <1>2, InitCountInv, StepCountInv, PTL DEF Spec, TripNeedsNewResults

-------------------------------------------------------------------------------
(***************************************************************************)
(* The connection, for any set of dispatches and any capacity, number of   *)
(* connections and number of chunks.                                       *)
(***************************************************************************)
USE AcpSessionsAssumption


Before == {"none", "accepting", "rejected", "opening", "opened"}
Concluding == {"prompting", "answered", "refused", "expired"}

(* A connection that carries is the supervisor's, and nobody holds one of  *)
(* a later epoch: once lost, a connection never carries again.             *)
ConnectionInv ==
    /\ alive => sup = "up"
    /\ handle <= epoch
    /\ \A t \in Task : via[t] <= epoch
    /\ sup # "draining" => drained = {}

(* The agent of a dispatch runs from the prompt on; one that was answered, *)
(* or refused over a connection that carries, has ended.                   *)
AgentInv(t) ==
    /\ st[t] \in Before => agent[t] # "running" /\ sent[t] = 0
    /\ st[t] = "answered" => agent[t] # "running"
    /\ st[t] = "refused" /\ Carries(t) => agent[t] # "running"
    /\ st[t] \in {"prompting", "expired"} /\ Carries(t) => t \in routed

(* An entry that is gone was removed by the dispatch itself, which is over *)
(* then, or by fail_all, which reported it.                                *)
ReportInv(t) ==
    /\ st[t] \in Before => t \notin routed /\ t \notin drained /\ failed[t] = 0
    /\ st[t] \in Concluding =>
           IF t \in routed THEN failed[t] = 0 ELSE failed[t] = 1 /\ t \notin drained
    /\ st[t] = "done" => t \notin routed /\ (t \in drained => failed[t] <= 1)

(* As long as there is an entry, no chunk is lost.                         *)
ChunksInv(t) ==
    /\ queue[t] + output[t] <= sent[t]
    /\ t \in routed => queue[t] + output[t] = sent[t]

(* What is promised of one dispatch.                                       *)
OutcomeInv(t) ==
    /\ st[t] = "done" => completed[t] # "no" \/ failed[t] > 0
    /\ completed[t] = "partial" => failed[t] > 0
    /\ st[t] = "done" /\ agent[t] = "running" /\ Carries(t) => t \in told

DispatchInv(t) == AgentInv(t) /\ ReportInv(t) /\ ChunksInv(t) /\ OutcomeInv(t)

(* The inductive invariant.                                                *)
SessionsInv ==
    AcpTypeOK /\ ConnectionInv /\ \A t \in Task : DispatchInv(t)

-------------------------------------------------------------------------------
LEMMA InitSessions == AcpInit => SessionsInv
  <1> SUFFICES ASSUME AcpInit PROVE SessionsInv
    OBVIOUS
  <1>1. AcpTypeOK
    <2>1. alive \in BOOLEAN /\ connected \in BOOLEAN /\ registered \in BOOLEAN
      BY DEF AcpInit
    <2>2. /\ st \in [Task -> Stage] /\ via \in [Task -> 0..MaxEpoch]
          /\ queue \in [Task -> 0..MaxChunks] /\ output \in [Task -> 0..MaxChunks]
          /\ agent \in [Task -> {"none", "idle", "running", "ended"}]
          /\ sent \in [Task -> 0..MaxChunks]
          /\ completed \in [Task -> {"no", "whole", "partial"}]
          /\ failed \in [Task -> 0..2]
      BY DEF AcpInit, Stage
    <2> QED BY <2>1, <2>2 DEF AcpInit, AcpTypeOK
  <1>2. ConnectionInv
    BY DEF AcpInit, ConnectionInv
  <1>3. ASSUME NEW t \in Task PROVE DispatchInv(t)
    <2>1. /\ st[t] = "none" /\ agent[t] = "none" /\ completed[t] = "no" /\ failed[t] = 0
          /\ sent[t] = 0 /\ queue[t] = 0 /\ output[t] = 0
          /\ t \notin routed /\ t \notin drained
      BY DEF AcpInit
    <2> QED BY <2>1 DEF DispatchInv, AgentInv, ReportInv, ChunksInv, OutcomeInv,
                        Before, Concluding
  <1> QED BY <1>1, <1>2, <1>3 DEF SessionsInv

(* Steps of the supervisor that report nothing.                            *)
LEMMA ConnectSessions ==
    ASSUME SessionsInv, Connect
    PROVE  SessionsInv'
  <1> USE DEF SessionsInv, Connect, sessions, remote, outcome
  <1>1. AcpTypeOK' /\ ConnectionInv'
    BY DEF AcpTypeOK, ConnectionInv
  <1>2. ASSUME NEW t \in Task PROVE DispatchInv(t)'
    <2>1. ~Carries(t)'
      BY DEF Carries, ConnectionInv, AcpTypeOK
    <2>2. DispatchInv(t)
      OBVIOUS
    <2> QED BY <2>1, <2>2 DEF DispatchInv, AgentInv, ReportInv, ChunksInv, OutcomeInv
  <1> QED BY <1>1, <1>2

LEMMA SupervisorSessions ==
    ASSUME SessionsInv,
           ConnectFails \/ Lose \/ Disconnect \/ Retry \/ Unregister
    PROVE  SessionsInv'
  <1> USE DEF SessionsInv, sessions, remote, outcome
  <1>1. /\ UNCHANGED <<sessions, remote, outcome, epoch, drained>>
        /\ alive' => alive
    BY DEF ConnectFails, Lose, Disconnect, Retry, Unregister, AcpTypeOK
  <1>2. AcpTypeOK' /\ ConnectionInv'
    <2> USE DEF AcpTypeOK, ConnectionInv
    <2>1. CASE ConnectFails
      <3>1. connected' \in BOOLEAN
        BY <2>1 DEF ConnectFails
      <3>2. sup' \in {"lost", "backoff", "gone"} /\ sup # "up"
        BY <2>1 DEF ConnectFails, Rest
      <3> QED BY <2>1, <3>1, <3>2 DEF ConnectFails
    <2>2. CASE Lose
      BY <2>2 DEF Lose
    <2>3. CASE Disconnect
      <3>1. connected' \in BOOLEAN
        BY <2>3 DEF Disconnect
      <3>2. /\ sup = "lost" /\ sup' = "unset" /\ handle' = 0
            /\ UNCHANGED <<epoch, alive, registered, drained, sessions, remote,
                           outcome>>
        BY <2>3 DEF Disconnect
      <3> QED BY <3>1, <3>2
    <2>4. CASE Retry
      BY <2>4 DEF Retry
    <2>5. CASE Unregister
      <3>1. registered' \in BOOLEAN
        BY <2>5 DEF Unregister
      <3>2. UNCHANGED <<sup, epoch, alive, handle, connected, drained, sessions,
                        remote, outcome>>
        BY <2>5 DEF Unregister
      <3> QED BY <3>1, <3>2
    <2> QED BY <2>1, <2>2, <2>3, <2>4, <2>5
  <1>3. ASSUME NEW t \in Task PROVE DispatchInv(t)'
    <2>1. Carries(t)' => Carries(t)
      BY <1>1 DEF Carries
    <2>2. DispatchInv(t)
      OBVIOUS
    <2> QED BY <1>1, <2>1, <2>2 DEF DispatchInv, AgentInv, ReportInv, ChunksInv, OutcomeInv
  <1> QED BY <1>2, <1>3

LEMMA FailAllCopySessions ==
    ASSUME SessionsInv, FailAllCopy
    PROVE  SessionsInv'
  <1> USE DEF SessionsInv, FailAllCopy, sessions, remote, outcome
  <1>1. AcpTypeOK' /\ ConnectionInv'
    BY DEF AcpTypeOK, ConnectionInv
  <1>2. ASSUME NEW t \in Task PROVE DispatchInv(t)'
    <2>1. DispatchInv(t) /\ st[t] \in Stage /\ Carries(t)' = Carries(t)
      BY DEF Carries, AcpTypeOK
    <2> QED BY <2>1 DEF DispatchInv, AgentInv, ReportInv, ChunksInv, OutcomeInv,
                        Before, Concluding, Stage
  <1> QED BY <1>1, <1>2

(* Nothing carries while fail_all is at work.                              *)
LEMMA FailAllReportSessions ==
    ASSUME SessionsInv, FailAllReport
    PROVE  SessionsInv'
  <1> USE DEF SessionsInv, FailAllReport, remote
  <1>1. \A t \in Task : /\ failed[t] \in 0..2 /\ (t \in drained => failed[t] <= 1)
                        /\ failed'[t] = IF t \in drained THEN failed[t] + 1 ELSE failed[t]
    BY DEF AcpTypeOK, DispatchInv, ReportInv, Stage, Before, Concluding
  <1>2. failed' \in [Task -> 0..2]
    BY <1>1
  <1>3. AcpTypeOK' /\ ConnectionInv'
    BY <1>2 DEF AcpTypeOK, ConnectionInv, Rest
  <1>4. ASSUME NEW t \in Task PROVE DispatchInv(t)'
    <2>1. DispatchInv(t) /\ st[t] \in Stage /\ ~Carries(t) /\ ~Carries(t)'
      BY DEF Carries, ConnectionInv, AcpTypeOK
    <2> QED BY <1>1, <2>1 DEF DispatchInv, AgentInv, ReportInv, ChunksInv, OutcomeInv,
                              Before, Concluding, Stage
  <1> QED BY <1>3, <1>4

(***************************************************************************)
(* A step of dispatch t leaves what is known of the others alone.          *)
(***************************************************************************)
LEMMA OneDispatch ==
    ASSUME SessionsInv, NEW t \in Task, AcpTypeOK', ConnectionInv',
           UNCHANGED <<epoch, alive, drained>>, DispatchInv(t)',
           \A u \in Task \ {t} :
               /\ UNCHANGED <<st[u], via[u], queue[u], output[u], agent[u], sent[u],
                              completed[u], failed[u]>>
               /\ (u \in routed') = (u \in routed) /\ (u \in told => u \in told')
    PROVE  SessionsInv'
  <1>1. ASSUME NEW u \in Task \ {t} PROVE DispatchInv(u)'
    <2>1. Carries(u)' = Carries(u) /\ DispatchInv(u)
      BY DEF Carries, SessionsInv
    <2> QED BY <2>1 DEF DispatchInv, AgentInv, ReportInv, ChunksInv, OutcomeInv
  <1> QED BY <1>1 DEF SessionsInv

LEMMA DispatchSessions ==
    ASSUME SessionsInv, NEW t \in Task, AcceptDispatch(t)
    PROVE  SessionsInv'
  <1> USE DEF AcceptDispatch, Goes, connection, remote, outcome
  <1>1. st[t] = "none" /\ st' \in [Task -> Stage] /\ st'[t] \in {"accepting", "rejected"}
        /\ \A u \in Task \ {t} : st'[u] = st[u]
    BY DEF SessionsInv, AcpTypeOK, Stage
  <1>2. AcpTypeOK' /\ ConnectionInv'
    BY <1>1 DEF SessionsInv, AcpTypeOK, ConnectionInv
  <1>3. DispatchInv(t)'
    BY <1>1 DEF SessionsInv, DispatchInv, AgentInv, ReportInv, ChunksInv, OutcomeInv,
                Before, Concluding
  <1> QED BY <1>1, <1>2, <1>3, OneDispatch

LEMMA CloneSessions ==
    ASSUME SessionsInv, NEW t \in Task, Clone(t)
    PROVE  SessionsInv'
  <1> USE DEF Clone, Goes, connection, remote, outcome
  <1>1. /\ st[t] = "accepting" /\ st' \in [Task -> Stage]
        /\ st'[t] \in {"opening", "rejected"}
        /\ via' \in [Task -> 0..MaxEpoch] /\ via'[t] \in {via[t], handle}
        /\ \A u \in Task \ {t} : st'[u] = st[u] /\ via'[u] = via[u]
    BY DEF SessionsInv, AcpTypeOK, Stage
  <1>2. AcpTypeOK' /\ ConnectionInv'
    BY <1>1 DEF SessionsInv, AcpTypeOK, ConnectionInv
  <1>3. DispatchInv(t)'
    BY <1>1 DEF SessionsInv, DispatchInv, AgentInv, ReportInv, ChunksInv, OutcomeInv,
                Before, Concluding
  <1> QED BY <1>1, <1>2, <1>3, OneDispatch

LEMMA OpenSessions ==
    ASSUME SessionsInv, NEW t \in Task, OpenSession(t)
    PROVE  SessionsInv'
  <1> USE DEF OpenSession, Goes, connection, outcome
  <1>1. /\ st[t] = "opening" /\ st' \in [Task -> Stage] /\ st'[t] = "opened"
        /\ agent' \in [Task -> {"none", "idle", "running", "ended"}] /\ agent'[t] = "idle"
        /\ \A u \in Task \ {t} : st'[u] = st[u] /\ agent'[u] = agent[u]
    BY DEF SessionsInv, AcpTypeOK, Stage
  <1>2. AcpTypeOK' /\ ConnectionInv'
    BY <1>1 DEF SessionsInv, AcpTypeOK, ConnectionInv
  <1>3. DispatchInv(t)'
    BY <1>1 DEF SessionsInv, DispatchInv, AgentInv, ReportInv, ChunksInv, OutcomeInv,
                Before, Concluding
  <1> QED BY <1>1, <1>2, <1>3, OneDispatch

LEMMA OpenFailsSessions ==
    ASSUME SessionsInv, NEW t \in Task, OpenFails(t)
    PROVE  SessionsInv'
  <1> USE DEF OpenFails, Goes, connection, remote
  <1>1. DispatchInv(t) /\ st[t] = "opening" /\ failed[t] = 0
    BY DEF SessionsInv, DispatchInv, ReportInv, Before
  <1>2. /\ st' \in [Task -> Stage] /\ st'[t] = "done"
        /\ failed' \in [Task -> 0..2] /\ failed'[t] = 1
        /\ \A u \in Task \ {t} : st'[u] = st[u] /\ failed'[u] = failed[u]
    BY <1>1 DEF SessionsInv, AcpTypeOK, Stage
  <1>3. AcpTypeOK' /\ ConnectionInv'
    BY <1>2 DEF SessionsInv, AcpTypeOK, ConnectionInv
  <1>4. DispatchInv(t)'
    BY <1>1, <1>2 DEF DispatchInv, AgentInv, ReportInv, ChunksInv, OutcomeInv,
                      Before, Concluding
  <1> QED BY <1>2, <1>3, <1>4, OneDispatch

(* The entry is made before the first chunk, with an empty queue.          *)
LEMMA PromptSessions ==
    ASSUME SessionsInv, NEW t \in Task, Prompt(t)
    PROVE  SessionsInv'
  <1> USE DEF Prompt, Goes, connection, outcome
  <1>1. DispatchInv(t) /\ st[t] = "opened" /\ agent[t] # "running" /\ sent[t] = 0
    BY DEF SessionsInv, DispatchInv, AgentInv, Before
  <1>2. /\ st' \in [Task -> Stage] /\ st'[t] = "prompting"
        /\ agent' \in [Task -> {"none", "idle", "running", "ended"}]
        /\ \A u \in Task \ {t} : st'[u] = st[u] /\ agent'[u] = agent[u]
    BY DEF SessionsInv, AcpTypeOK, Stage
  <1>3. /\ routed' = routed \cup {t} /\ UNCHANGED <<queue, output, sent>>
        /\ queue[t] \in Nat /\ output[t] \in Nat
    BY DEF SessionsInv, AcpTypeOK
  <1>4. AcpTypeOK' /\ ConnectionInv'
    BY <1>2, <1>3 DEF SessionsInv, AcpTypeOK, ConnectionInv
  <1>5. DispatchInv(t)'
    BY <1>1, <1>2, <1>3 DEF DispatchInv, AgentInv, ReportInv, ChunksInv, OutcomeInv,
                            Before, Concluding
  <1> QED BY <1>2, <1>3, <1>4, <1>5, OneDispatch

LEMMA PromptEndsSessions ==
    ASSUME SessionsInv, NEW t \in Task, PromptReturns(t) \/ PromptExpires(t)
    PROVE  SessionsInv'
  <1> USE DEF PromptReturns, PromptExpires, Goes, connection, outcome,
              remote
  <1>1. DispatchInv(t) /\ st[t] = "prompting" /\ Carries(t)' = Carries(t)
    BY DEF SessionsInv, Carries
  <1>2. /\ st' \in [Task -> Stage] /\ st'[t] \in {"answered", "refused", "expired"}
        /\ agent' \in [Task -> {"none", "idle", "running", "ended"}]
        /\ agent'[t] \in {agent[t], "ended"}
        /\ \A u \in Task \ {t} : st'[u] = st[u] /\ agent'[u] = agent[u]
    BY DEF SessionsInv, AcpTypeOK, Stage
  <1>3. /\ st'[t] = "answered" => agent'[t] = "ended"
        /\ st'[t] = "refused" /\ Carries(t) => agent'[t] = "ended"
    BY DEF SessionsInv, AcpTypeOK
  <1>4. AcpTypeOK' /\ ConnectionInv'
    BY <1>2 DEF SessionsInv, AcpTypeOK, ConnectionInv
  <1>5. DispatchInv(t)'
    BY <1>1, <1>2, <1>3 DEF DispatchInv, AgentInv, ReportInv, ChunksInv, OutcomeInv,
                            Before, Concluding
  <1> QED BY <1>2, <1>4, <1>5, OneDispatch

(***************************************************************************)
(* The end of a dispatch.  With its entry still there, the consumer has    *)
(* come to the barrier, so an answer is whole, and nobody has reported a   *)
(* failure yet; without it, fail_all has.                                  *)
(***************************************************************************)
LEMMA ConcludeSessions ==
    ASSUME SessionsInv, NEW t \in Task, Conclude(t)
    PROVE  SessionsInv'
  <1> USE DEF Conclude, Goes, connection
  <1>1. /\ DispatchInv(t) /\ st[t] \in {"answered", "refused", "expired"}
        /\ Carries(t)' = Carries(t)
    BY DEF SessionsInv, Carries
  <1>2. IF t \in routed THEN failed[t] = 0 ELSE failed[t] = 1 /\ t \notin drained
    BY <1>1 DEF DispatchInv, ReportInv, Concluding
  <1>3. /\ st' \in [Task -> Stage] /\ st'[t] = "done"
        /\ \A u \in Task \ {t} : st'[u] = st[u]
    BY DEF SessionsInv, AcpTypeOK, Stage
  <1>4. /\ completed' \in [Task -> {"no", "whole", "partial"}]
        /\ \A u \in Task \ {t} : completed'[u] = completed[u]
        /\ IF st[t] = "answered"
           THEN completed'[t] = IF output[t] = sent[t] THEN "whole" ELSE "partial"
           ELSE completed'[t] = completed[t]
    BY DEF SessionsInv, AcpTypeOK
  <1>5. /\ failed' \in [Task -> 0..2]
        /\ \A u \in Task \ {t} : failed'[u] = failed[u]
        /\ failed'[t] = IF st[t] # "answered" \/ t \notin routed THEN 1 ELSE 0
    BY <1>2 DEF SessionsInv, AcpTypeOK
  <1>6. AcpTypeOK' /\ ConnectionInv'
    BY <1>3, <1>4, <1>5 DEF SessionsInv, AcpTypeOK, ConnectionInv
  <1>7. completed[t] = "partial" => failed[t] > 0
    BY <1>1 DEF DispatchInv, OutcomeInv
  <1>8. t \in routed => queue[t] = 0 /\ output[t] = sent[t]
    BY <1>1 DEF Barrier, DispatchInv, ChunksInv, SessionsInv, AcpTypeOK
  <1>9. OutcomeInv(t)'
    <2>1. completed'[t] # "no" \/ failed'[t] > 0
      BY <1>4, <1>5
    <2>2. completed'[t] = "partial" => failed'[t] > 0
      BY <1>2, <1>4, <1>5, <1>7, <1>8
    <2>3. agent'[t] = "running" /\ Carries(t)' => t \in told'
      BY <1>1 DEF DispatchInv, AgentInv
    <2> QED BY <2>1, <2>2, <2>3 DEF OutcomeInv
  <1>10. DispatchInv(t)'
    BY <1>1, <1>2, <1>3, <1>5, <1>9
       DEF DispatchInv, AgentInv, ReportInv, ChunksInv, Before, Concluding, SessionsInv,
           AcpTypeOK
  <1> QED BY <1>3, <1>4, <1>5, <1>6, <1>10, OneDispatch

LEMMA ChunkSessions ==
    ASSUME SessionsInv, NEW t \in Task, Chunk(t)
    PROVE  SessionsInv'
  <1> USE DEF Chunk, connection, outcome
  <1>1. /\ DispatchInv(t) /\ agent[t] = "running" /\ st[t] \notin Before
        /\ Carries(t)' = Carries(t) /\ sent[t] < MaxChunks
    BY DEF SessionsInv, Carries, DispatchInv, AgentInv
  <1>2. /\ sent[t] \in 0..MaxChunks /\ queue[t] \in 0..MaxChunks /\ output[t] \in 0..MaxChunks
        /\ queue[t] + output[t] <= sent[t]
    BY <1>1 DEF SessionsInv, AcpTypeOK, DispatchInv, ChunksInv
  <1>3. /\ sent' \in [Task -> 0..MaxChunks] /\ sent'[t] = sent[t] + 1
        /\ queue' \in [Task -> 0..MaxChunks]
        /\ queue'[t] = IF t \in routed THEN queue[t] + 1 ELSE queue[t]
        /\ \A u \in Task \ {t} : sent'[u] = sent[u] /\ queue'[u] = queue[u]
    BY <1>1, <1>2 DEF SessionsInv, AcpTypeOK
  <1>4. AcpTypeOK' /\ ConnectionInv'
    BY <1>3 DEF SessionsInv, AcpTypeOK, ConnectionInv
  <1>5. DispatchInv(t)'
    BY <1>1, <1>2, <1>3 DEF DispatchInv, AgentInv, ReportInv, ChunksInv, OutcomeInv
  <1> QED BY <1>3, <1>4, <1>5, OneDispatch

LEMMA ConsumeSessions ==
    ASSUME SessionsInv, NEW t \in Task, Consume(t)
    PROVE  SessionsInv'
  <1> USE DEF Consume, connection, outcome, remote
  <1>1. DispatchInv(t) /\ Carries(t)' = Carries(t) /\ queue[t] > 0
    BY DEF SessionsInv, Carries
  <1>2. /\ sent[t] \in 0..MaxChunks /\ queue[t] \in 0..MaxChunks /\ output[t] \in 0..MaxChunks
        /\ queue[t] + output[t] <= sent[t]
    BY <1>1 DEF SessionsInv, AcpTypeOK, DispatchInv, ChunksInv
  <1>3. /\ output' \in [Task -> 0..MaxChunks] /\ output'[t] = output[t] + 1
        /\ queue' \in [Task -> 0..MaxChunks] /\ queue'[t] = queue[t] - 1
        /\ \A u \in Task \ {t} : output'[u] = output[u] /\ queue'[u] = queue[u]
    BY <1>1, <1>2 DEF SessionsInv, AcpTypeOK
  <1>4. AcpTypeOK' /\ ConnectionInv'
    BY <1>3 DEF SessionsInv, AcpTypeOK, ConnectionInv
  <1>5. DispatchInv(t)'
    BY <1>1, <1>2, <1>3 DEF DispatchInv, AgentInv, ReportInv, ChunksInv, OutcomeInv
  <1> QED BY <1>3, <1>4, <1>5, OneDispatch

LEMMA CancelSessions ==
    ASSUME SessionsInv, NEW t \in Task, Cancel(t)
    PROVE  SessionsInv'
  <1> USE DEF Cancel, connection, sessions, outcome
  <1>1. AcpTypeOK' /\ ConnectionInv'
    BY DEF SessionsInv, AcpTypeOK, ConnectionInv
  <1>2. DispatchInv(t)'
    BY DEF SessionsInv, DispatchInv, AgentInv, ReportInv, ChunksInv, OutcomeInv, Carries
  <1> QED BY <1>1, <1>2, OneDispatch

LEMMA FinishSessions ==
    ASSUME SessionsInv, NEW t \in Task, Finish(t)
    PROVE  SessionsInv'
  <1> USE DEF Finish, connection, sessions, outcome
  <1>1. /\ agent' \in [Task -> {"none", "idle", "running", "ended"}] /\ agent'[t] = "ended"
        /\ \A u \in Task \ {t} : agent'[u] = agent[u]
    BY DEF SessionsInv, AcpTypeOK
  <1>2. AcpTypeOK' /\ ConnectionInv'
    BY <1>1 DEF SessionsInv, AcpTypeOK, ConnectionInv
  <1>3. DispatchInv(t)'
    BY <1>1 DEF SessionsInv, DispatchInv, AgentInv, ReportInv, ChunksInv, OutcomeInv, Carries
  <1> QED BY <1>1, <1>2, <1>3, OneDispatch

LEMMA NextSessions == SessionsInv /\ [AcpNext]_acpVars => SessionsInv'
  <1> SUFFICES ASSUME SessionsInv, [AcpNext]_acpVars PROVE SessionsInv'
    OBVIOUS
  <1>1. CASE Supervise \/ Unregister
    BY <1>1, ConnectSessions, SupervisorSessions, FailAllCopySessions,
       FailAllReportSessions DEF Supervise
  <1>2. ASSUME NEW t \in Task,
               \/ AcceptDispatch(t) \/ Advance(t) \/ OpenSession(t)
               \/ PromptReturns(t)
        PROVE  SessionsInv'
    BY <1>2, DispatchSessions, CloneSessions, OpenSessions, OpenFailsSessions, PromptSessions,
       PromptEndsSessions, ConcludeSessions DEF Advance
  <1>3. ASSUME NEW t \in Task, Chunk(t) \/ Consume(t) \/ Cancel(t) \/ Finish(t)
        PROVE  SessionsInv'
    BY <1>3, ChunkSessions, ConsumeSessions, CancelSessions, FinishSessions
  <1>4. CASE UNCHANGED acpVars
    <2>1. AcpTypeOK' /\ ConnectionInv'
      BY <1>4 DEF acpVars, connection, sessions, remote, outcome,
                  SessionsInv, AcpTypeOK, ConnectionInv
    <2>2. ASSUME NEW t \in Task PROVE DispatchInv(t)'
      BY <1>4 DEF acpVars, connection, sessions, remote, outcome,
                  SessionsInv, DispatchInv, AgentInv, ReportInv, ChunksInv, OutcomeInv, Carries
    <2> QED BY <2>1, <2>2 DEF SessionsInv
  <1> QED BY <1>1, <1>2, <1>3, <1>4 DEF AcpNext

-------------------------------------------------------------------------------
(* Connection, map and dispatches agree on who reports and who runs        *)
(* (acp_transport.rs: spawn_supervisor, fail_all, dispatch).               *)
THEOREM SessionsInvariance == AcpSpec => []SessionsInv
  <1> QED BY InitSessions, NextSessions, PTL DEF AcpSpec

(* Every state is well typed: no dispatch is reported as failed more than  *)
(* twice, once by itself and once by fail_all.                             *)
THEOREM SessionsTypeCorrect == AcpSpec => []AcpTypeOK
  <1>1. SessionsInv => AcpTypeOK
    BY DEF SessionsInv
  <1> QED BY <1>1, SessionsInvariance, PTL

(* A dispatch that is over was reported, by itself or by fail_all, however *)
(* fail_all's two looks at the map fall between its steps.                 *)
THEOREM TheEndIsReported == AcpSpec => []DoneIsReported
  <1>1. SessionsInv => DoneIsReported
    BY DEF SessionsInv, DispatchInv, OutcomeInv, DoneIsReported
  <1> QED BY <1>1, SessionsInvariance, PTL

(* A sole Completed has the whole output: dispatch flushes its consumer.   *)
THEOREM OutputIsWhole == AcpSpec => []CompletedIsWhole
  <1>1. SessionsInv => CompletedIsWhole
    BY DEF SessionsInv, DispatchInv, OutcomeInv, CompletedIsWhole
  <1> QED BY <1>1, SessionsInvariance, PTL

(* No agent goes on, over a connection that carries, for a dispatch that   *)
(* is over without having been told to stop.                               *)
THEOREM NobodyIsLeftRunning == AcpSpec => []NobodyRunsUntold
  <1>1. SessionsInv => NobodyRunsUntold
    BY DEF SessionsInv, DispatchInv, OutcomeInv, NobodyRunsUntold
  <1> QED BY <1>1, SessionsInvariance, PTL

-------------------------------------------------------------------------------
(***************************************************************************)
(* The circuits of the other processes (module CircuitSync), for any       *)
(* processes, handlers and number of events.                               *)
(***************************************************************************)

Job == [step : {"idle", "row", "event", "commit"}, row : State,
        event : State \cup {"Left"}, seq : Nat]

LogEntry == [event : State \cup {"Left"}, visible : BOOLEAN]

SyncTypes ==
    /\ circuit \in [Process -> State \cup {"absent"}]
    /\ row \in State
    /\ log \in Seq(LogEntry)
    /\ read \in [Process -> Nat]
    /\ fetched \in [Process -> SUBSET Nat]
    /\ skipped \in [Process -> SUBSET Nat]
    /\ \A p \in Process : read[p] <= Len(log) /\ fetched[p] \subseteq 1..read[p]
    /\ job \in [Process -> [Handler -> Job]]

(* The handler of what cannot be seen yet is about to commit it.           *)
LogInv ==
    /\ \A n \in 1..Len(log) :
          ~log[n].visible => \E p \in Process, h \in Handler :
                                job[p][h].step = "commit" /\ job[p][h].seq = n
    /\ \A p \in Process, h \in Handler :
          job[p][h].step = "commit" => job[p][h].seq \in 1..Len(log)

(* What a process has applied comes before what it has still to apply.     *)
Handled(p, n) == n \in 1..read[p] /\ n \notin fetched[p] /\ n \notin skipped[p]
StreamInv ==
    \A p \in Process : \A m, n \in 1..read[p] :
        Handled(p, m) /\ n \in fetched[p] => m < n

(* Entries are missing only where nobody is reported as gone; and whoever  *)
(* misses its entry has applied nothing.                                   *)
EntriesInv ==
    /\ \A p \in Process : circuit[p] = "absent" =>
          incident = "late" /\ \A n \in 1..read[p] : ~Handled(p, n)
    /\ \A n \in 1..Len(log) : log[n].event = "Left" => incident = "left"
    /\ \A p \in Process, h \in Handler :
          /\ job[p][h].event = "Left" => incident = "left"
          /\ job[p][h].event = "HalfOpen" => job[p][h].row = "HalfOpen"

(* Any event but HalfOpen decides, once it is applied.                     *)
Owes(p, h) == job[p][h].step \in {"row", "event"}
Owed == \E p \in Process, h \in Handler : Owes(p, h) /\ job[p][h].event # "HalfOpen"
Awaits(p) ==
    Owed \/ \E n \in 1..Len(log) : (n > read[p] \/ n \in fetched[p]) /\ Decides(n)

(* Before anything was decided, the row and the entries agree as they did  *)
(* in the beginning.                                                       *)
UndecidedInv ==
    ~Owed /\ (\A n \in 1..Len(log) : ~Decides(n)) =>
        /\ \A p \in Process : Known(p) => (circuit[p] = "Closed" <=> row = "Closed")
        /\ Len(log) > 0 => row # "Closed"
        /\ \A p \in Process, h \in Handler : Owes(p, h) => row # "Closed"

(* Afterwards, whoever has no decision still to come is where the last one *)
(* put it, unless its stream has passed over that one.                     *)
DecidedInv ==
    /\ (\E n \in 1..Len(log) : Decides(n)) => \E n \in 1..Len(log) : DecidesLast(n)
    /\ \A p \in Process, n \in 1..Len(log) :
          Known(p) /\ ~Awaits(p) /\ DecidesLast(n) /\ n \notin skipped[p]
             => (circuit[p] = "Closed" <=> log[n].event # "Open")

SyncInv ==
    SyncTypes /\ LogInv /\ StreamInv /\ EntriesInv /\ UndecidedInv /\ DecidedInv

LEMMA InitSync == SyncInit => SyncInv
  <1> SUFFICES ASSUME SyncInit PROVE SyncInv
    OBVIOUS
  <1> USE DEF SyncInit
  <1>1. log = <<>> /\ log \in Seq(LogEntry) /\ Len(log) = 0
    OBVIOUS
  <1>2. Idle \in Job /\ Idle.step = "idle" /\ Idle.event = "Closed"
    BY DEF Idle, Job, State
  <1>3. \A p \in Process, h \in Handler : job[p][h] = Idle
    OBVIOUS
  <1>4. SyncTypes
    BY <1>1, <1>2 DEF SyncTypes
  <1>5. LogInv /\ StreamInv /\ EntriesInv
    BY <1>1, <1>2, <1>3 DEF LogInv, StreamInv, EntriesInv, State
  <1>6. UndecidedInv /\ DecidedInv
    BY <1>1, <1>2, <1>3 DEF UndecidedInv, DecidedInv, Owes, Known
  <1> QED BY <1>4, <1>5, <1>6 DEF SyncInv

(* A handler that begins to publish a decision: everybody awaits it.       *)
LEMMA PublishSync ==
    ASSUME SyncInv, NEW p \in Process, NEW h \in Handler,
           NEW written \in State, NEW event \in State \cup {"Left"},
           Publish(p, h, written, event),
           circuit' \in [Process -> State \cup {"absent"}],
           \A q \in Process : circuit'[q] = "absent" => circuit[q] = "absent",
           event = "Left" => incident = "left",
           event = "HalfOpen" =>
              /\ written = "HalfOpen"
              /\ circuit[p] = "Open" /\ circuit' = [circuit EXCEPT ![p] = "HalfOpen"]
    PROVE  SyncInv'
  <1> DEFINE j == [step |-> "row", row |-> written, event |-> event, seq |-> 0]
  <1>1. /\ job[p][h] = Idle /\ UNCHANGED <<incident, row, log, read, fetched, skipped>>
        /\ job' = [job EXCEPT ![p] = [job[p] EXCEPT ![h] = j]]
    BY DEF Publish, stream
  <1>2. j \in Job /\ j.step = "row" /\ j.row = written /\ j.event = event
    BY DEF Job
  <1> HIDE DEF j
  <1>3. job \in [Process -> [Handler -> Job]] /\ job[p][h].step = "idle"
    BY <1>1 DEF SyncInv, SyncTypes, Idle
  <1>4. /\ job' \in [Process -> [Handler -> Job]]
        /\ \A q \in Process, k \in Handler :
              job'[q][k] = IF q = p /\ k = h THEN j ELSE job[q][k]
    <2>1. [job[p] EXCEPT ![h] = j] \in [Handler -> Job]
      BY <1>2, <1>3
    <2> QED BY <1>1, <1>3, <2>1
  <1>5. SyncTypes'
    BY <1>1, <1>4 DEF SyncInv, SyncTypes
  <1>6. LogInv' /\ StreamInv'
    BY <1>1, <1>2, <1>3, <1>4 DEF SyncInv, LogInv, StreamInv, Handled
  <1>7. EntriesInv'
    BY <1>1, <1>2, <1>4 DEF SyncInv, EntriesInv, Handled
  <1>8. /\ \A n : Decides(n)' = Decides(n) /\ DecidesLast(n)' = DecidesLast(n)
        /\ Owed => Owed' /\ (event # "HalfOpen" => Owed')
    <2>1. \A n : Decides(n)' = Decides(n) /\ DecidesLast(n)' = DecidesLast(n)
      BY <1>1 DEF Decides, DecidesLast
    <2>2. Owed => Owed'
      BY <1>3, <1>4 DEF Owed, Owes
    <2>3. event # "HalfOpen" => Owed'
      BY <1>2, <1>4 DEF Owed, Owes
    <2> QED BY <2>1, <2>2, <2>3
  <1>9. CASE event # "HalfOpen"
    <2>1. Owed'
      BY <1>2, <1>4, <1>9 DEF Owed, Owes
    <2>2. UndecidedInv'
      BY <2>1 DEF UndecidedInv
    <2>3. \A q : Awaits(q)'
      BY <2>1 DEF Awaits
    <2>4. DecidedInv'
      BY <1>1, <1>8, <2>3 DEF SyncInv, DecidedInv
    <2> QED BY <1>5, <1>6, <1>7, <2>2, <2>4 DEF SyncInv
  <1>10. CASE event = "HalfOpen"
    <2>1. /\ circuit'[p] = "HalfOpen" /\ circuit[p] = "Open"
          /\ \A q \in Process \ {p} : circuit'[q] = circuit[q]
      BY <1>10 DEF SyncInv, SyncTypes
    <2>2. \A q \in Process : /\ Known(q)' = Known(q)
                             /\ (circuit'[q] = "Closed") = (circuit[q] = "Closed")
      BY <2>1 DEF Known
    <2>3. UndecidedInv'
      BY <1>1, <1>8, <1>2, <1>4, <2>1, <2>2 DEF SyncInv, UndecidedInv, Owes, Known
    <2>4. DecidedInv'
      <3>1. \A q : Awaits(q) => Awaits(q)'
        BY <1>1, <1>8 DEF Awaits
      <3> QED BY <1>1, <1>8, <2>2, <3>1 DEF SyncInv, DecidedInv
    <2> QED BY <1>5, <1>6, <1>7, <2>3, <2>4 DEF SyncInv
  <1> QED BY <1>9, <1>10

LEMMA MovesSync ==
    ASSUME SyncInv, NEW p \in Process, NEW h \in Handler,
           Move(p, h) \/ ResetCircuit(p, h) \/ ScanReportsLeft(p, h)
    PROVE  SyncInv'
  <1>1. /\ circuit \in [Process -> State \cup {"absent"}] /\ row \in State
        /\ "Closed" \in State
    BY DEF SyncInv, SyncTypes, State
  <1>2. CASE Move(p, h)
    <2>1. PICK to \in State :
             /\ <<circuit[p], to>> \in Moves
             /\ circuit' = [circuit EXCEPT ![p] = to]
             /\ Publish(p, h, to, to)
      BY <1>2 DEF Move
    <2>2. to # "absent" /\ to # "Left" /\ (to = "HalfOpen" => circuit[p] = "Open")
      BY <2>1 DEF State, Moves
    <2> QED BY <1>1, <2>1, <2>2, PublishSync
  <1>3. CASE ResetCircuit(p, h)
    <2>1. /\ circuit' = [circuit EXCEPT ![p] = IF @ = "absent" THEN @ ELSE "Closed"]
          /\ Publish(p, h, "Closed", "Closed")
      BY <1>3 DEF ResetCircuit
    <2> QED BY <1>1, <2>1, PublishSync
  <1>4. CASE ScanReportsLeft(p, h)
    BY <1>1, <1>4, PublishSync DEF ScanReportsLeft
  <1> QED BY <1>2, <1>3, <1>4

(* What the jobs are once handler h of p has gone on to job j.             *)
LEMMA OneJob ==
    ASSUME SyncTypes, NEW p \in Process, NEW h \in Handler, NEW j \in Job,
           job' = [job EXCEPT ![p] = [job[p] EXCEPT ![h] = j]]
    PROVE  /\ job' \in [Process -> [Handler -> Job]]
           /\ \A q \in Process, k \in Handler :
                 job'[q][k] = IF q = p /\ k = h THEN j ELSE job[q][k]
  <1>1. job \in [Process -> [Handler -> Job]] /\ job[p] \in [Handler -> Job]
    BY DEF SyncTypes
  <1>2. [job[p] EXCEPT ![h] = j] \in [Handler -> Job]
    BY <1>1
  <1> QED BY <1>1, <1>2

(* The row gets what a handler owes it.                                    *)
LEMMA WriteRowSync ==
    ASSUME SyncInv, NEW p \in Process, NEW h \in Handler, WriteRow(p, h)
    PROVE  SyncInv'
  <1> DEFINE j == [job[p][h] EXCEPT !.step = "event"]
  <1>1. /\ job[p][h].step = "row" /\ row' = job[p][h].row
        /\ UNCHANGED <<incident, circuit, log, read, fetched, skipped>>
        /\ job' = [job EXCEPT ![p] = [job[p] EXCEPT ![h] = j]]
    BY DEF WriteRow, stream
  <1>2. job[p][h] \in Job
    BY DEF SyncInv, SyncTypes
  <1>3. j \in Job /\ j.step = "event" /\ j.event = job[p][h].event /\ j.row = job[p][h].row
    BY <1>2 DEF Job
  <1> HIDE DEF j
  <1>4. /\ job' \in [Process -> [Handler -> Job]]
        /\ \A q \in Process, k \in Handler :
              job'[q][k] = IF q = p /\ k = h THEN j ELSE job[q][k]
    BY <1>1, <1>3, OneJob DEF SyncInv
  <1>5. SyncTypes'
    BY <1>1, <1>2, <1>4 DEF SyncInv, SyncTypes, Job
  <1>6. LogInv' /\ StreamInv'
    BY <1>1, <1>3, <1>4 DEF SyncInv, LogInv, StreamInv, Handled
  <1>7. EntriesInv'
    BY <1>1, <1>3, <1>4 DEF SyncInv, EntriesInv, Handled
  <1>8. /\ \A n : Decides(n)' = Decides(n) /\ DecidesLast(n)' = DecidesLast(n)
        /\ \A q \in Process, k \in Handler :
              Owes(q, k)' = Owes(q, k) /\ job'[q][k].event = job[q][k].event
    BY <1>1, <1>3, <1>4 DEF Decides, DecidesLast, Owes
  <1>9. Owed' = Owed
    BY <1>8 DEF Owed
  <1>10. UndecidedInv'
    <2> SUFFICES ASSUME ~Owed, \A n \in 1..Len(log) : ~Decides(n)
                 PROVE  /\ \A q \in Process : Known(q)' =>
                              (circuit'[q] = "Closed" <=> row' = "Closed")
                        /\ row' # "Closed"
      BY <1>1, <1>8, <1>9 DEF UndecidedInv
    <2>1. Owes(p, h) /\ job[p][h].event = "HalfOpen"
      BY <1>1 DEF Owed, Owes
    <2>2. row # "Closed" /\ row' = "HalfOpen"
      BY <1>1, <2>1 DEF SyncInv, UndecidedInv, EntriesInv
    <2> QED BY <1>1, <2>2 DEF SyncInv, UndecidedInv, Known
  <1>11. DecidedInv'
    <2>1. \A q : Awaits(q)' = Awaits(q) /\ Known(q)' = Known(q)
      BY <1>1, <1>8, <1>9 DEF Awaits, Known
    <2> QED BY <1>1, <1>8, <2>1 DEF SyncInv, DecidedInv
  <1> QED BY <1>5, <1>6, <1>7, <1>10, <1>11 DEF SyncInv

(* An event is appended: whatever it decides, nobody has read it.          *)
LEMMA AppendEventSync ==
    ASSUME SyncInv, NEW p \in Process, NEW h \in Handler, AppendEvent(p, h)
    PROVE  SyncInv'
  <1> DEFINE e == [event |-> job[p][h].event, visible |-> FALSE]
             j == [job[p][h] EXCEPT !.step = "commit", !.seq = Len(log')]
  <1>1. /\ job[p][h].step = "event" /\ log' = Append(log, e)
        /\ UNCHANGED <<incident, circuit, row, read, fetched, skipped>>
        /\ job' = [job EXCEPT ![p] = [job[p] EXCEPT ![h] = j]]
    BY DEF AppendEvent, stream
  <1>2. job[p][h] \in Job /\ log \in Seq(LogEntry)
    BY DEF SyncInv, SyncTypes
  <1>3. e \in LogEntry /\ e.event = job[p][h].event /\ e.visible = FALSE
    BY <1>2 DEF LogEntry, Job
  <1> HIDE DEF e
  <1>4. /\ log' \in Seq(LogEntry) /\ Len(log') = Len(log) + 1 /\ Len(log) \in Nat
        /\ \A n \in 1..Len(log) : log'[n] = log[n]
        /\ log'[Len(log) + 1] = e
        /\ DOMAIN log = 1..Len(log)
    BY <1>1, <1>2, <1>3
  <1>0. PICK new \in Nat : new = Len(log) + 1
    BY <1>4
  <1>5. j \in Job /\ j.step = "commit" /\ j.event = job[p][h].event
        /\ j.row = job[p][h].row /\ j.seq = Len(log) + 1
    <2> DEFINE i == [job[p][h] EXCEPT !.step = "commit"]
    <2>1. /\ i \in Job /\ i.step = "commit"
          /\ i.event = job[p][h].event /\ i.row = job[p][h].row
      BY <1>2 DEF Job
    <2>2. j = [i EXCEPT !.seq = Len(log')]
      OBVIOUS
    <2> HIDE DEF i, j
    <2>3. Len(log') = Len(log) + 1 /\ Len(log') \in Nat
      BY <1>4
    <2> QED BY <2>1, <2>2, <2>3 DEF Job
  <1> HIDE DEF j
  <1>6. /\ job' \in [Process -> [Handler -> Job]]
        /\ \A q \in Process, k \in Handler :
              job'[q][k] = IF q = p /\ k = h THEN j ELSE job[q][k]
    BY <1>1, <1>5, OneJob DEF SyncInv
  <1>7. SyncTypes'
    BY <1>1, <1>4, <1>6 DEF SyncInv, SyncTypes
  <1>8. LogInv' /\ StreamInv'
    <2>1. ASSUME NEW n \in 1..Len(log'), ~log'[n].visible
          PROVE  \E q \in Process, k \in Handler :
                    job'[q][k].step = "commit" /\ job'[q][k].seq = n
      <3>1. CASE n \in 1..Len(log)
        <4>1. PICK q \in Process, k \in Handler :
                 job[q][k].step = "commit" /\ job[q][k].seq = n
          BY <1>4, <2>1, <3>1 DEF SyncInv, LogInv
        <4>2. ~(q = p /\ k = h)
          BY <1>1, <4>1
        <4> QED BY <1>6, <4>1, <4>2
      <3>2. CASE n = Len(log) + 1
        BY <1>5, <1>6, <3>2
      <3> QED BY <1>4, <3>1, <3>2
    <2>2. \A q \in Process, k \in Handler :
             job'[q][k].step = "commit" => job'[q][k].seq \in 1..Len(log')
      BY <1>4, <1>5, <1>6 DEF SyncInv, LogInv
    <2>3. StreamInv'
      BY <1>1 DEF SyncInv, StreamInv, Handled
    <2> QED BY <2>1, <2>2, <2>3 DEF LogInv
  <1>9. EntriesInv'
    BY <1>1, <1>3, <1>4, <1>5, <1>6 DEF SyncInv, EntriesInv, Handled
  <1>10. /\ \A n \in 1..Len(log) : (Decides(n)' <=> Decides(n))
         /\ Decides(new)' <=> (job[p][h].event # "HalfOpen")
    BY <1>3, <1>4, <1>0 DEF Decides
  <1>11. \A q \in Process, k \in Handler : Owes(q, k)' => Owes(q, k)
    BY <1>5, <1>6 DEF Owes
  <1>12. CASE job[p][h].event # "HalfOpen"
    <2>1. new \in 1..Len(log') /\ Decides(new)'
          /\ \A n \in 1..Len(log') : ~(n > new)
      BY <1>4, <1>0, <1>10, <1>12
    <2>2. DecidesLast(new)'
      BY <2>1 DEF DecidesLast
    <2>3. UndecidedInv'
      BY <2>1 DEF UndecidedInv
    <2>4. \A q \in Process : Awaits(q)'
      <3> TAKE q \in Process
      <3>1. read'[q] \in Nat /\ read'[q] <= Len(log)
        BY <1>1 DEF SyncInv, SyncTypes
      <3>2. new > read'[q]
        BY <1>4, <1>0, <3>1
      <3> QED BY <2>1, <3>2 DEF Awaits
    <2>5. DecidedInv'
      BY <2>1, <2>2, <2>4 DEF DecidedInv
    <2> QED BY <1>7, <1>8, <1>9, <2>3, <2>5 DEF SyncInv
  <1>13. CASE job[p][h].event = "HalfOpen"
    <2>1. /\ \A n \in 1..Len(log') : Decides(n)' => n \in 1..Len(log) /\ Decides(n)
          /\ \A n \in 1..Len(log) : n \in 1..Len(log') /\ (Decides(n)' <=> Decides(n))
      BY <1>4, <1>0, <1>10, <1>13
    <2>2. \A n \in 1..Len(log') : DecidesLast(n)' => n \in 1..Len(log) /\ DecidesLast(n)
      BY <2>1 DEF DecidesLast
    <2>3. \A n \in 1..Len(log) : DecidesLast(n) => DecidesLast(n)'
      BY <2>1 DEF DecidesLast
    <2>4. Owed => Owed'
      BY <1>6, <1>13 DEF Owed, Owes
    <2>5. UndecidedInv'
      <3> SUFFICES ASSUME ~Owed', \A n \in 1..Len(log') : ~Decides(n)'
                   PROVE  /\ \A q \in Process : Known(q)' =>
                                (circuit'[q] = "Closed" <=> row' = "Closed")
                          /\ row' # "Closed"
        BY DEF UndecidedInv
      <3>1. ~Owed /\ \A n \in 1..Len(log) : ~Decides(n)
        BY <2>1, <2>4
      <3>2. Owes(p, h)
        BY <1>1 DEF Owes
      <3> QED BY <1>1, <3>1, <3>2 DEF SyncInv, UndecidedInv, Known
    <2>6. \A q \in Process : Awaits(q) => Awaits(q)'
      BY <1>1, <2>1, <2>4 DEF Awaits
    <2>7. (\E n \in 1..Len(log') : Decides(n)') => \E n \in 1..Len(log') : DecidesLast(n)'
      BY <2>1, <2>3 DEF SyncInv, DecidedInv
    <2>8. ASSUME NEW q \in Process, NEW n \in 1..Len(log'),
                 Known(q)', ~Awaits(q)', DecidesLast(n)', n \notin skipped'[q]
          PROVE  circuit'[q] = "Closed" <=> log'[n].event # "Open"
      <3>1. n \in 1..Len(log) /\ DecidesLast(n) /\ ~Awaits(q) /\ Known(q)
        BY <1>1, <2>2, <2>6, <2>8 DEF Known
      <3> QED BY <1>1, <1>4, <2>8, <3>1 DEF SyncInv, DecidedInv
    <2>9. DecidedInv'
      BY <2>7, <2>8 DEF DecidedInv
    <2> QED BY <1>7, <1>8, <1>9, <2>5, <2>9 DEF SyncInv
  <1> QED BY <1>12, <1>13

(* An event is committed: it can be seen, and is what it was.              *)
LEMMA CommitSync ==
    ASSUME SyncInv, NEW p \in Process, NEW h \in Handler, Commit(p, h)
    PROVE  SyncInv'
  <1> DEFINE s == job[p][h].seq
  <1>1. /\ job[p][h].step = "commit" /\ log' = [log EXCEPT ![s].visible = TRUE]
        /\ UNCHANGED <<incident, circuit, row, read, fetched, skipped>>
        /\ job' = [job EXCEPT ![p] = [job[p] EXCEPT ![h] = Idle]]
    BY DEF Commit, stream
  <1>2. s \in 1..Len(log) /\ log \in Seq(LogEntry)
    BY <1>1 DEF SyncInv, SyncTypes, LogInv
  <1>3. Idle \in Job /\ Idle.step = "idle" /\ Idle.event = "Closed"
    BY DEF Idle, Job, State
  <1>4. /\ job' \in [Process -> [Handler -> Job]]
        /\ \A q \in Process, k \in Handler :
              job'[q][k] = IF q = p /\ k = h THEN Idle ELSE job[q][k]
    BY <1>1, <1>3, OneJob DEF SyncInv
  <1> HIDE DEF s
  <1>5. [log[s] EXCEPT !.visible = TRUE] \in LogEntry
    <2>1. log[s] \in LogEntry
      BY <1>2
    <2> QED BY <2>1 DEF LogEntry
  <1>6. /\ log' \in Seq(LogEntry) /\ Len(log') = Len(log)
        /\ \A n \in 1..Len(log) :
              /\ log'[n].event = log[n].event
              /\ log'[n].visible = (n = s \/ log[n].visible)
    <2>1. \A n \in 1..Len(log) : log[n] \in LogEntry
      BY <1>2
    <2>2. log' = [log EXCEPT ![s] = [log[s] EXCEPT !.visible = TRUE]]
      BY <1>1
    <2>3. log' \in Seq(LogEntry) /\ Len(log') = Len(log)
      BY <1>2, <1>5, <2>2, ExceptSeq
    <2>4. \A n \in 1..Len(log) :
             log'[n] = IF n = s THEN [log[s] EXCEPT !.visible = TRUE] ELSE log[n]
      BY <1>2, <2>2
    <2> QED BY <2>1, <2>3, <2>4 DEF LogEntry
  <1>7. SyncTypes'
    BY <1>1, <1>4, <1>6 DEF SyncInv, SyncTypes
  <1>8. LogInv' /\ StreamInv'
    <2>1. StreamInv'
      BY <1>1 DEF SyncInv, StreamInv, Handled
    <2>2. ASSUME NEW n \in 1..Len(log'), ~log'[n].visible
          PROVE  \E q \in Process, k \in Handler :
                    job'[q][k].step = "commit" /\ job'[q][k].seq = n
      <3>1. n # s /\ n \in 1..Len(log) /\ ~log[n].visible
        BY <1>6, <2>2
      <3>2. PICK q \in Process, k \in Handler :
               job[q][k].step = "commit" /\ job[q][k].seq = n
        BY <3>1 DEF SyncInv, LogInv
      <3>3. ~(q = p /\ k = h)
        BY <3>1, <3>2 DEF s
      <3> QED BY <1>4, <3>2, <3>3
    <2>3. \A q \in Process, k \in Handler :
             job'[q][k].step = "commit" => job'[q][k].seq \in 1..Len(log')
      BY <1>3, <1>4, <1>6 DEF SyncInv, LogInv
    <2> QED BY <2>1, <2>2, <2>3 DEF LogInv
  <1>9. EntriesInv'
    BY <1>1, <1>3, <1>4, <1>6 DEF SyncInv, EntriesInv, Handled
  <1>10. /\ \A n : Decides(n)' = Decides(n)
         /\ \A q \in Process, k \in Handler :
               /\ Owes(q, k)' = Owes(q, k)
               /\ Owes(q, k) => job'[q][k].event = job[q][k].event
    <2>1. \A n : Decides(n)' = Decides(n)
      BY <1>6 DEF Decides
    <2> QED BY <1>1, <1>3, <1>4, <2>1 DEF Owes
  <1>11. Owed' = Owed /\ \A n : DecidesLast(n)' = DecidesLast(n)
    BY <1>6, <1>10 DEF Owed, DecidesLast
  <1>12. UndecidedInv'
    BY <1>1, <1>6, <1>10, <1>11 DEF SyncInv, UndecidedInv, Known
  <1>13. DecidedInv'
    <2>1. \A q : Awaits(q)' = Awaits(q) /\ Known(q)' = Known(q)
      BY <1>1, <1>6, <1>10, <1>11 DEF Awaits, Known
    <2> QED BY <1>1, <1>6, <1>10, <1>11, <2>1 DEF SyncInv, DecidedInv
  <1> QED BY <1>7, <1>8, <1>9, <1>12, <1>13 DEF SyncInv

(* A process makes its entry of the row: what was decided, it has to read. *)
LEMMA GetSync ==
    ASSUME SyncInv, NEW p \in Process, Get(p)
    PROVE  SyncInv'
  <1>1. /\ circuit[p] = "absent" /\ circuit' = [circuit EXCEPT ![p] = row]
        /\ UNCHANGED <<incident, row, log, read, fetched, skipped, job>>
        /\ circuit \in [Process -> State \cup {"absent"}] /\ row \in State
    BY DEF Get, stream, SyncInv, SyncTypes
  <1>2. /\ circuit' \in [Process -> State \cup {"absent"}] /\ circuit'[p] = row
        /\ row # "absent" /\ \A q \in Process \ {p} : circuit'[q] = circuit[q]
    BY <1>1 DEF State
  <1>3. SyncTypes' /\ LogInv' /\ StreamInv'
    BY <1>1, <1>2 DEF SyncInv, SyncTypes, LogInv, StreamInv, Handled
  <1>4. EntriesInv'
    BY <1>1, <1>2 DEF SyncInv, EntriesInv, Handled
  <1>5. /\ \A n : Decides(n)' = Decides(n) /\ DecidesLast(n)' = DecidesLast(n)
        /\ Owed' = Owed /\ \A q : Awaits(q)' = Awaits(q)
        /\ \A q, h : Owes(q, h)' = Owes(q, h)
    BY <1>1 DEF Decides, DecidesLast, Owed, Owes, Awaits
  <1>6. UndecidedInv'
    BY <1>1, <1>2, <1>5 DEF SyncInv, UndecidedInv, Known
  <1>7. \A n \in 1..Len(log) : DecidesLast(n) => Awaits(p) \/ n \in skipped[p]
    <2>1. \A n \in 1..read[p] : n \in fetched[p] \/ n \in skipped[p]
      BY <1>1 DEF SyncInv, EntriesInv, Handled
    <2>2. read[p] \in Nat /\ Len(log) \in Nat
      BY DEF SyncInv, SyncTypes
    <2> QED BY <2>1, <2>2 DEF Awaits, DecidesLast
  <1>8. DecidedInv'
    BY <1>1, <1>2, <1>5, <1>7 DEF SyncInv, DecidedInv, Known
  <1> QED BY <1>3, <1>4, <1>6, <1>8 DEF SyncInv

(* A process fetches the next batch: what it has not seen, it passes over. *)
LEMMA FetchSync ==
    ASSUME SyncInv, NEW p \in Process, Fetch(p)
    PROVE  SyncInv'
  <1> DEFINE over == {n \in DOMAIN log : read[p] < n /\ n < read'[p] /\ ~log[n].visible}
  <1>1. PICK last \in Unread(p) :
           /\ \A n \in Unread(p) : n <= last
           /\ read' = [read EXCEPT ![p] = last]
           /\ skipped' = [skipped EXCEPT ![p] = @ \cup
                 {n \in DOMAIN log : read[p] < n /\ n < last /\ ~log[n].visible}]
    BY DEF Fetch
  <1>2. /\ fetched[p] = {} /\ fetched' = [fetched EXCEPT ![p] = Unread(p)]
        /\ UNCHANGED <<incident, circuit, row, log, job>>
    BY DEF Fetch
  <1>3. /\ log \in Seq(LogEntry) /\ DOMAIN log = 1..Len(log) /\ Len(log) \in Nat
        /\ read \in [Process -> Nat] /\ read[p] \in Nat
        /\ fetched \in [Process -> SUBSET Nat] /\ skipped \in [Process -> SUBSET Nat]
    BY DEF SyncInv, SyncTypes
  <1>4. last \in 1..Len(log) /\ last > read[p]
    BY <1>3 DEF Unread
  <1>5. /\ read'[p] = last /\ fetched'[p] = Unread(p)
        /\ skipped'[p] = skipped[p] \cup over
        /\ \A q \in Process \ {p} : /\ read'[q] = read[q]
                                     /\ fetched'[q] = fetched[q]
                                     /\ skipped'[q] = skipped[q]
    BY <1>1, <1>2, <1>3
  <1>6. Unread(p) \subseteq 1..last /\ \A n \in Unread(p) : n > read[p]
    BY <1>1, <1>3 DEF Unread
  <1>7. \A n \in 1..last : n > read[p] => n \in Unread(p) \/ n \in over
    BY <1>1, <1>3, <1>4, <1>5 DEF Unread
  <1>8. over \subseteq Nat
    BY <1>3
  <1> HIDE DEF over
  <1>9. SyncTypes'
    <2>1. Unread(p) \subseteq Nat /\ last \in Nat
      BY <1>4, <1>6
    <2>2. /\ read' \in [Process -> Nat] /\ fetched' \in [Process -> SUBSET Nat]
          /\ skipped' \in [Process -> SUBSET Nat]
      BY <1>1, <1>2, <1>3, <1>5, <1>8, <2>1
    <2>3. \A q \in Process : read'[q] <= Len(log') /\ fetched'[q] \subseteq 1..read'[q]
      BY <1>2, <1>4, <1>5, <1>6 DEF SyncInv, SyncTypes
    <2> QED BY <1>2, <2>2, <2>3 DEF SyncInv, SyncTypes
  <1>10. /\ \A q \in Process \ {p} : \A n : Handled(q, n)' <=> Handled(q, n)
         /\ \A n : Handled(p, n)' => Handled(p, n)
    <2>1. \A q \in Process \ {p} : \A n : Handled(q, n)' <=> Handled(q, n)
      BY <1>5 DEF Handled
    <2>2. ASSUME NEW n, Handled(p, n)' PROVE Handled(p, n)
      <3>1. n \in 1..last /\ n \notin Unread(p) /\ n \notin over /\ n \notin skipped[p]
        BY <1>5, <2>2 DEF Handled
      <3>2. n \in 1..read[p]
        BY <1>3, <1>4, <1>7, <3>1
      <3> QED BY <1>2, <3>1, <3>2 DEF Handled
    <2> QED BY <2>1, <2>2
  <1>11. LogInv' /\ StreamInv'
    <2>1. LogInv'
      BY <1>2 DEF SyncInv, LogInv
    <2>2. ASSUME NEW q \in Process, NEW m \in 1..read'[q], NEW n \in 1..read'[q],
                 Handled(q, m)', n \in fetched'[q]
          PROVE  m < n
      <3>1. CASE q = p
        <4>1. m \in 1..read[p] /\ n > read[p]
          BY <1>5, <1>6, <1>10, <2>2, <3>1 DEF Handled
        <4> QED BY <1>3, <4>1
      <3>2. CASE q # p
        BY <1>5, <1>10, <2>2, <3>2 DEF SyncInv, StreamInv
      <3> QED BY <3>1, <3>2
    <2>3. StreamInv'
      BY <2>2 DEF StreamInv
    <2> QED BY <2>1, <2>3
  <1>12. EntriesInv'
    <2>1. \A q \in Process : circuit[q] = "absent" => \A n : ~Handled(q, n)
      BY DEF SyncInv, EntriesInv, Handled
    <2>2. \A q \in Process : circuit[q] = "absent" => \A n : ~Handled(q, n)'
      BY <1>10, <2>1
    <2> QED BY <1>2, <2>2 DEF SyncInv, EntriesInv
  <1>13. /\ \A n : /\ Decides(n)' <=> Decides(n)
                   /\ DecidesLast(n)' <=> DecidesLast(n)
         /\ Owed' <=> Owed
         /\ \A q : Known(q)' <=> Known(q)
    BY <1>2 DEF Decides, DecidesLast, Owed, Owes, Known
  <1>14. UndecidedInv'
    BY <1>2, <1>13 DEF SyncInv, UndecidedInv, Owes
  <1>15. ASSUME NEW q \in Process, NEW n \in 1..Len(log),
                ~Awaits(q)', DecidesLast(n), n \notin skipped'[q]
         PROVE  ~Awaits(q) /\ n \notin skipped[q]
    <2>1. CASE q # p
      BY <1>2, <1>5, <1>13, <1>15, <2>1 DEF Awaits
    <2>2. CASE q = p
      <3>1. ~Owed /\ ~(n > last) /\ n \notin Unread(p)
        BY <1>2, <1>5, <1>13, <1>15, <2>2 DEF Awaits, DecidesLast
      <3>2. n \notin over /\ n \notin skipped[p]
        BY <1>5, <1>15, <2>2
      <3>3. ~(n > read[p])
        BY <1>4, <1>7, <3>1, <3>2
      <3>4. \A m \in 1..Len(log) : m > read[p] => ~Decides(m)
        BY <1>3, <1>15, <3>3 DEF DecidesLast
      <3> QED BY <1>2, <2>2, <3>1, <3>2, <3>4 DEF Awaits
    <2> QED BY <2>1, <2>2
  <1>16. DecidedInv'
    BY <1>2, <1>13, <1>15 DEF SyncInv, DecidedInv
  <1> QED BY <1>9, <1>11, <1>12, <1>14, <1>16 DEF SyncInv

(* A process applies the next event of its batch: all it has applied so    *)
(* far comes before it.                                                    *)
LEMMA ApplySync ==
    ASSUME SyncInv, NEW p \in Process, Apply(p)
    PROVE  SyncInv'
  <1>1. PICK n \in fetched[p] :
           /\ \A m \in fetched[p] : n <= m
           /\ circuit' = [circuit EXCEPT ![p] = Applied(@, log[n].event)]
           /\ fetched' = [fetched EXCEPT ![p] = @ \ {n}]
           /\ UNCHANGED <<incident, row, log, read, skipped, job>>
    BY DEF Apply
  <1>2. /\ circuit \in [Process -> State \cup {"absent"}] /\ log \in Seq(LogEntry)
        /\ read \in [Process -> Nat] /\ read[p] \in Nat /\ Len(log) \in Nat
        /\ fetched \in [Process -> SUBSET Nat]
        /\ fetched[p] \subseteq 1..read[p] /\ read[p] <= Len(log)
    BY DEF SyncInv, SyncTypes
  <1>3. n \in 1..Len(log) /\ n \in 1..read[p] /\ log[n].event \in State \cup {"Left"}
    <2>1. n \in 1..Len(log) /\ n \in 1..read[p]
      BY <1>2
    <2>2. log[n] \in LogEntry
      BY <1>2, <2>1
    <2> QED BY <2>1, <2>2 DEF LogEntry
  <1>5. ~(circuit[p] = "absent" /\ log[n].event = "Left")
    BY <1>3 DEF SyncInv, EntriesInv
  <1>6. /\ circuit'[p] = Applied(circuit[p], log[n].event)
        /\ fetched'[p] = fetched[p] \ {n}
        /\ \A q \in Process \ {p} : circuit'[q] = circuit[q] /\ fetched'[q] = fetched[q]
    BY <1>1, <1>2
  <1>7. /\ circuit'[p] \in State
        /\ log[n].event = "HalfOpen" /\ Known(p) => circuit'[p] = circuit[p]
        /\ log[n].event = "HalfOpen" /\ ~Known(p) => circuit'[p] = "HalfOpen"
        /\ log[n].event # "HalfOpen" => (circuit'[p] = "Closed" <=> log[n].event # "Open")
    BY <1>2, <1>3, <1>5, <1>6 DEF Applied, State, Known
  <1>8. SyncTypes'
    <2>1. circuit' \in [Process -> State \cup {"absent"}]
      BY <1>1, <1>2, <1>6, <1>7
    <2>2. fetched' \in [Process -> SUBSET Nat]
      BY <1>1, <1>2
    <2>3. \A q \in Process : fetched'[q] \subseteq fetched[q]
      BY <1>6
    <2> QED BY <1>1, <2>1, <2>2, <2>3 DEF SyncInv, SyncTypes
  <1>9. /\ \A q \in Process \ {p} : \A m : Handled(q, m)' <=> Handled(q, m)
        /\ \A m : Handled(p, m)' => m = n \/ Handled(p, m)
    BY <1>1, <1>6 DEF Handled
  <1>10. LogInv' /\ StreamInv'
    <2>1. LogInv'
      BY <1>1 DEF SyncInv, LogInv
    <2>2. ASSUME NEW q \in Process, NEW m \in 1..read'[q], NEW k \in 1..read'[q],
                 Handled(q, m)', k \in fetched'[q]
          PROVE  m < k
      <3>1. read'[q] = read[q] /\ k \in fetched[q]
        BY <1>1, <1>6, <2>2
      <3>2. CASE q = p /\ m = n
        <4>1. n <= k /\ n # k
          BY <1>1, <1>6, <2>2, <3>1, <3>2
        <4> QED BY <1>3, <2>2, <3>2, <4>1
      <3>3. CASE ~(q = p /\ m = n)
        <4>1. Handled(q, m)
          BY <1>9, <2>2, <3>3
        <4> QED BY <2>2, <3>1, <4>1 DEF SyncInv, StreamInv
      <3> QED BY <3>2, <3>3
    <2>3. StreamInv'
      BY <2>2 DEF StreamInv
    <2> QED BY <2>1, <2>3
  <1>11. EntriesInv'
    <2>1. circuit'[p] # "absent"
      BY <1>7 DEF State
    <2>2. \A q \in Process \ {p} : circuit'[q] = circuit[q]
      BY <1>6
    <2> QED BY <1>1, <1>9, <2>1, <2>2 DEF SyncInv, EntriesInv
  <1>12. /\ \A m : /\ Decides(m)' <=> Decides(m)
                   /\ DecidesLast(m)' <=> DecidesLast(m)
         /\ Owed' <=> Owed
         /\ \A q, h : Owes(q, h)' <=> Owes(q, h)
    BY <1>1 DEF Decides, DecidesLast, Owed, Owes
  <1>13. UndecidedInv'
    <2> SUFFICES ASSUME ~Owed, \A m \in 1..Len(log) : ~Decides(m)
                 PROVE  \A q \in Process : Known(q)' =>
                           (circuit'[q] = "Closed" <=> row = "Closed")
      BY <1>1, <1>12 DEF SyncInv, UndecidedInv
    <2>1. log[n].event = "HalfOpen" /\ row # "Closed"
      BY <1>3 DEF SyncInv, UndecidedInv, Decides
    <2>2. \A q \in Process : Known(q) => (circuit[q] = "Closed" <=> row = "Closed")
      BY DEF SyncInv, UndecidedInv
    <2> QED BY <1>6, <1>7, <2>1, <2>2 DEF Known
  <1>14. DecidedInv'
    <2>1. \A q \in Process \ {p} : (Known(q)' <=> Known(q)) /\ (Awaits(q)' <=> Awaits(q))
      BY <1>1, <1>6, <1>12 DEF Known, Awaits
    <2>2. ASSUME NEW last \in 1..Len(log), ~Awaits(p)', DecidesLast(last),
                 last \notin skipped[p]
          PROVE  circuit'[p] = "Closed" <=> log[last].event # "Open"
      <3>1. CASE last = n
        BY <1>7, <2>2, <3>1 DEF DecidesLast, Decides
      <3>2. CASE last # n
        <4>1. ~Owed /\ ~(last > read[p]) /\ last \notin fetched[p]
          BY <1>1, <1>6, <1>12, <2>2, <3>2 DEF Awaits, DecidesLast
        <4>2. Handled(p, last)
          BY <1>2, <2>2, <4>1 DEF Handled
        <4>3. last < n
          BY <1>3, <4>2 DEF SyncInv, StreamInv, Handled
        <4>4. log[n].event = "HalfOpen"
          BY <1>3, <2>2, <4>3 DEF DecidesLast, Decides
        <4>5. Known(p)
          BY <4>2 DEF SyncInv, EntriesInv, Known, Handled
        <4>6. ~Awaits(p)
          <5>1. \A m \in 1..Len(log) : m > read[p] \/ m \in fetched[p] => ~Decides(m)
            BY <1>1, <1>6, <1>12, <2>2, <4>4 DEF Awaits, Decides
          <5> QED BY <4>1, <5>1 DEF Awaits
        <4> QED BY <1>7, <2>2, <4>4, <4>5, <4>6 DEF SyncInv, DecidedInv
      <3> QED BY <3>1, <3>2
    <2> QED BY <1>1, <1>6, <1>12, <2>1, <2>2 DEF SyncInv, DecidedInv
  <1> QED BY <1>8, <1>10, <1>11, <1>13, <1>14 DEF SyncInv

LEMMA NextSync == SyncInv /\ [SyncNext]_syncVars => SyncInv'
  <1> SUFFICES ASSUME SyncInv, [SyncNext]_syncVars PROVE SyncInv'
    OBVIOUS
  <1>1. CASE SyncNext
    <2> SUFFICES ASSUME NEW p \in Process,
                        \/ Get(p) \/ Fetch(p) \/ Apply(p)
                        \/ \E h \in Handler :
                             \/ Move(p, h) \/ ResetCircuit(p, h) \/ ScanReportsLeft(p, h)
                             \/ WriteRow(p, h) \/ AppendEvent(p, h) \/ Commit(p, h)
                 PROVE  SyncInv'
      BY <1>1 DEF SyncNext
    <2>1. CASE Get(p)
      BY <2>1, GetSync
    <2>2. CASE Fetch(p)
      BY <2>2, FetchSync
    <2>7. CASE Apply(p)
      BY <2>7, ApplySync
    <2>3. ASSUME NEW h \in Handler, Move(p, h) \/ ResetCircuit(p, h) \/ ScanReportsLeft(p, h)
          PROVE  SyncInv'
      BY <2>3, MovesSync
    <2>4. ASSUME NEW h \in Handler, WriteRow(p, h) PROVE SyncInv'
      BY <2>4, WriteRowSync
    <2>5. ASSUME NEW h \in Handler, AppendEvent(p, h) PROVE SyncInv'
      BY <2>5, AppendEventSync
    <2>6. ASSUME NEW h \in Handler, Commit(p, h) PROVE SyncInv'
      BY <2>6, CommitSync
    <2> QED BY <2>1, <2>2, <2>3, <2>4, <2>5, <2>6, <2>7
  <1>2. CASE UNCHANGED syncVars
    <2>1. UNCHANGED <<incident, circuit, row, log, read, fetched, skipped, job>>
      BY <1>2 DEF syncVars
    <2>2. SyncTypes' /\ LogInv' /\ StreamInv' /\ EntriesInv'
      BY <2>1 DEF SyncInv, SyncTypes, LogInv, StreamInv, EntriesInv, Handled
    <2>3. UndecidedInv' /\ DecidedInv'
      BY <2>1 DEF SyncInv, UndecidedInv, DecidedInv, Owed, Owes, Awaits, Decides, DecidesLast,
                  Known
    <2> QED BY <2>2, <2>3 DEF SyncInv
  <1> QED BY <1>1, <1>2

(***************************************************************************)
(* Once every event is published and read, the processes agree whether the *)
(* worker is under suspicion, but for those whose streams have passed over *)
(* the last event that decides, for any number of processes, handlers and  *)
(* events, whatever order the events become visible in                     *)
(* (MultiAdminSync::apply_one_to, listen_events, and the publishers of     *)
(* dispatcher.rs, event_loop.rs, health.rs, fleet_reset_worker_breaker).   *)
(***************************************************************************)
THEOREM ProcessesComeToAgree == SyncSpec => []ProcessesAgree
  <1>1. SyncInv => ProcessesAgree
    <2> SUFFICES ASSUME SyncInv, Settled, NEW p \in Process, NEW q \in Process,
                        Known(p), Known(q), ~Missed(p), ~Missed(q)
                 PROVE  Agree(p, q)
      BY DEF ProcessesAgree
    <2>1. \A r \in Process, h \in Handler : job[r][h].step = "idle"
      BY DEF Settled, Idle
    <2>2. ~Owed /\ \A n \in 1..Len(log) : log[n].visible
      BY <2>1 DEF Owed, Owes, SyncInv, LogInv
    <2>3. DOMAIN log = 1..Len(log)
      BY DEF SyncInv, SyncTypes
    <2>4. \A r \in Process : ~Awaits(r)
      BY <2>2, <2>3 DEF Settled, Unread, Awaits
    <2>5. CASE \E n \in 1..Len(log) : Decides(n)
      <3>1. PICK n \in 1..Len(log) : DecidesLast(n)
        BY <2>5 DEF SyncInv, DecidedInv
      <3>2. n \notin skipped[p] /\ n \notin skipped[q]
        BY <3>1 DEF Missed
      <3> QED BY <2>4, <3>1, <3>2 DEF SyncInv, DecidedInv, Agree
    <2>6. CASE \A n \in 1..Len(log) : ~Decides(n)
      BY <2>2, <2>6 DEF SyncInv, UndecidedInv, Agree
    <2> QED BY <2>5, <2>6
  <1> QED BY <1>1, InitSync, NextSync, PTL DEF SyncSpec
===============================================================================
