---------------------------- MODULE CircuitBreaker ----------------------------
(***************************************************************************)
(* The circuit breaker one orchestrator process keeps for one worker, and  *)
(* the dispatches that pass it.  The selector leaves the worker out while  *)
(* its circuit is Open; a dispatch that selected the worker calls check    *)
(* some awaits later; what becomes of it is recorded once, not at all, or  *)
(* after the circuit has long moved on.  Each call runs under the          *)
(* breaker's mutex and is one step.  Time is counted in ticks.             *)
(***************************************************************************)
EXTENDS Integers, FiniteSets, Sequences

CONSTANTS
    Dispatch,       \* names for the dispatches under way
    Window,         \* CircuitBreakerConfig.window_duration_secs
    MinSamples,     \* .min_samples
    RatePart,       \* .error_rate_threshold is RatePart / RateWhole
    RateWhole,
    OpenFor,        \* .open_duration_secs
    MaxProbes,      \* .half_open_max_probes
    MaxSamples      \* bound: results remembered at the same time

ASSUME DispatchAssumption == IsFiniteSet(Dispatch)
ASSUME TimesAssumption == Window \in Nat /\ OpenFor \in Nat
ASSUME RatesAssumption ==
    /\ MinSamples \in Nat /\ RatePart \in Nat /\ RateWhole \in Nat \ {0}
    /\ MaxProbes \in Nat /\ MaxSamples \in Nat

VARIABLES
    state,      \* BreakerInner.state
    samples,    \* .samples: results while Closed, oldest first
    opened,     \* ticks since .opened_at
    slots,      \* .half_open_probes: the dispatches whose slot is not given back
    age,        \* age[d]: ticks since d passed check
    pc,         \* pc[d]: how far dispatch d is
    counted     \* history: results counted since the circuit closed, to MinSamples

breakerVars == <<state, samples, opened, slots>>
vars == <<breakerVars, age, pc, counted>>

StaleAfter == IF OpenFor = 0 THEN 1 ELSE OpenFor
ProbeLimit == IF MaxProbes = 0 THEN 1 ELSE MaxProbes

TypeOK ==
    /\ state \in {"Closed", "Open", "HalfOpen"}
    /\ opened \in 0 .. StaleAfter
    /\ slots \subseteq Dispatch
    /\ age \in [Dispatch -> 0 .. StaleAfter]
    /\ pc \in [Dispatch -> {"idle", "selected", "running", "probing", "ended"}]

(* BreakerRegistry::get makes a breaker in the state the row remembers.    *)
Init ==
    /\ state \in {"Closed", "Open", "HalfOpen"}
    /\ samples = <<>>
    /\ opened = 0
    /\ slots = {}
    /\ age = [d \in Dispatch |-> 0]
    /\ pc = [d \in Dispatch |-> "idle"]
    /\ counted = 0

-----------------------------------------------------------------------------
(* Mutant: a lost probe keeps its slot.                                    *)
LiveForever == slots

(* Slots nobody gave back for so long count as lost.                       *)
Live == {p \in slots : age[p] < StaleAfter}

(* WorkerSelector::select, at the circuit filter.  A name is free again    *)
(* once no live slot of an earlier dispatch bears it.                      *)
Select(d) ==
    /\ pc[d] \in {"idle", "ended"} /\ d \notin Live
    /\ state # "Open"
    /\ pc' = [pc EXCEPT ![d] = "selected"]
    /\ UNCHANGED <<breakerVars, age, counted>>

(* d passed check just now.                                                *)
Passes(d, as) ==
    /\ pc' = [pc EXCEPT ![d] = as]
    /\ age' = [age EXCEPT ![d] = 0]
    /\ UNCHANGED <<samples, opened, counted>>

CheckClosed(d) ==
    /\ state = "Closed"
    /\ Passes(d, "running")
    /\ UNCHANGED <<state, slots>>

(* The first call after the cool-down is the first probe.                  *)
CheckCooled(d) ==
    /\ state = "Open" /\ opened >= OpenFor
    /\ state' = "HalfOpen"
    /\ slots' = {d}
    /\ Passes(d, "probing")

(* Mutant: one probe too many.                                             *)
RoomOffByOne == Cardinality(Live) <= ProbeLimit

Room == Cardinality(Live) < ProbeLimit

CheckProbe(d) ==
    /\ state = "HalfOpen" /\ Room
    /\ slots' = Live \cup {d}
    /\ Passes(d, "probing")
    /\ UNCHANGED state

CheckRefuses(d) ==
    /\ \/ state = "Open" /\ opened < OpenFor /\ UNCHANGED slots
       \/ state = "HalfOpen" /\ ~Room /\ slots' = Live
    /\ pc' = [pc EXCEPT ![d] = "idle"]
    /\ UNCHANGED <<state, samples, opened, age, counted>>

Check(d) ==
    /\ pc[d] = "selected"
    /\ CheckClosed(d) \/ CheckCooled(d) \/ CheckProbe(d) \/ CheckRefuses(d)

-----------------------------------------------------------------------------
(* The results once one more is counted: the oldest ones are dropped, up   *)
(* to the first that is within the window.                                 *)
Counting(failed) ==
    LET all == Append(samples, [failed |-> failed, age |-> 0])
        old == {n \in DOMAIN all : \A m \in 1 .. n : all[m].age > Window}
    IN SubSeq(all, Cardinality(old) + 1, Len(all))

Trips(results) ==
    LET failures == Cardinality({n \in DOMAIN results : results[n].failed})
    IN /\ Len(results) >= MinSamples
       /\ failures * RateWhole >= RatePart * Len(results)

(* Mutant: results are not forgotten when the circuit closes.              *)
CloseRemembering ==
    /\ state' = "Closed" /\ opened' = 0 /\ slots' = {} /\ counted' = 0
    /\ UNCHANGED samples

(* A success of a probe, and CircuitBreaker::reset.                        *)
Close ==
    /\ state' = "Closed" /\ opened' = 0 /\ slots' = {} /\ counted' = 0
    /\ samples' = <<>>

(* A trip, a failed probe, and CircuitBreaker::force_open.                 *)
Open == state' = "Open" /\ opened' = 0 /\ slots' = {}

(***************************************************************************)
(* CircuitBreaker::record.  In HalfOpen any result decides, also one of a  *)
(* dispatch that passed before the circuit opened.                         *)
(***************************************************************************)
RecordClosed(failed) ==
    /\ state = "Closed" /\ Len(samples) < MaxSamples
    /\ samples' = Counting(failed)
    /\ counted' = IF counted < MinSamples THEN counted + 1 ELSE counted
    /\ IF Trips(Counting(failed)) THEN Open ELSE UNCHANGED <<state, opened, slots>>

RecordHalfOpen(failed) ==
    /\ state = "HalfOpen"
    /\ IF failed THEN Open /\ UNCHANGED <<samples, counted>> ELSE Close

RecordOpen ==
    /\ state = "Open"
    /\ UNCHANGED <<breakerVars, counted>>

Record(failed) ==
    /\ RecordClosed(failed) \/ RecordHalfOpen(failed) \/ RecordOpen
    /\ UNCHANGED age

(* Completed, Failed, or transport.dispatch fails for the worker's fault.  *)
Reported(d) ==
    /\ pc[d] \in {"running", "probing"}
    /\ pc' = [pc EXCEPT ![d] = "ended"]
    /\ \E failed \in BOOLEAN : Record(failed)

(* Nothing is recorded: the claim was refused, a skill was missing, the    *)
(* request was invalid, the event was dropped or came for an ended task.   *)
Unreported(d) ==
    /\ pc[d] \in {"running", "probing"}
    /\ pc' = [pc EXCEPT ![d] = "ended"]
    /\ UNCHANGED <<breakerVars, age, counted>>

(* A second result: reported lost with its connection, and completed then. *)
ReportedLate(d) ==
    /\ pc[d] = "ended"
    /\ pc' = [pc EXCEPT ![d] = "idle"]
    /\ \E failed \in BOOLEAN : Record(failed)

(* The administrator, or an event of another process: CircuitSync.         *)
Reset == Close /\ UNCHANGED <<age, pc>>
ForceOpen == Open /\ UNCHANGED <<samples, age, pc, counted>>

(* Nobody looks at times beyond StaleAfter.                                *)
Older(a) == IF a < StaleAfter THEN a + 1 ELSE a

Tick ==
    /\ opened' = Older(opened)
    /\ age' = [d \in Dispatch |-> Older(age[d])]
    /\ samples' = [n \in DOMAIN samples |->
                      [samples[n] EXCEPT !.age = IF @ <= Window THEN @ + 1 ELSE @]]
    /\ UNCHANGED <<state, slots, pc, counted>>

-----------------------------------------------------------------------------
Next ==
    \/ \E d \in Dispatch :
         \/ Select(d) \/ Check(d)
         \/ Reported(d) \/ Unreported(d) \/ ReportedLate(d)
    \/ Reset \/ ForceOpen
    \/ Tick

Spec == Init /\ [][Next]_vars

Ends(d) == Reported(d) \/ Unreported(d)

(***************************************************************************)
(* Time goes on, there is always one more task to dispatch (the reconciler *)
(* comes back to Pending tasks), a dispatch that selected the worker       *)
(* reaches check, and no execution runs for ever (prompts time out).       *)
(* Nothing has to be recorded, and nobody has to reset anything.           *)
(***************************************************************************)
Fairness ==
    /\ WF_vars(Tick)
    /\ WF_vars(\E d \in Dispatch : Select(d))
    /\ WF_vars(\E d \in Dispatch : Check(d))
    /\ \A d \in Dispatch : WF_vars(Ends(d))

FairSpec == Spec /\ Fairness

-----------------------------------------------------------------------------
(* The probes sent less than the cool-down ago, and still without result.  *)
Fresh == {d \in Dispatch : pc[d] = "probing" /\ age[d] < OpenFor}

(***************************************************************************)
(* No more than half_open_max_probes probes are sent to a suspect worker   *)
(* within one cool-down, through however many reopenings, resets, forced   *)
(* openings and lost probes (check and record, half_open_probes).  Probes  *)
(* that run longer than that are not bounded: their slots count as lost.   *)
(***************************************************************************)
ProbesBounded == Cardinality(Fresh) <= ProbeLimit

(***************************************************************************)
(* A circuit that has just closed does not trip on the results of before:  *)
(* it takes min_samples new ones (record, samples.clear).                  *)
(***************************************************************************)
TripNeedsNewResults ==
    [][state = "Closed" /\ state' = "Open" /\ samples' # samples
          => counted + 1 >= MinSamples]_vars

(***************************************************************************)
(* A half-open circuit does not wedge when its probes are lost: it decides,*)
(* or sends another probe (check, "lost probe").                           *)
(***************************************************************************)
HalfOpenNeverWedges ==
    state = "HalfOpen" ~> (state # "HalfOpen" \/ \E d \in Dispatch : pc[d] = "probing")

(***************************************************************************)
(* "Open duration in seconds; afterwards it goes to HalfOpen" (config.rs,  *)
(* open_duration_secs), with one more task to dispatch at any time.        *)
(***************************************************************************)
Cooled == state = "Open" /\ opened >= OpenFor

OpenIsProbedAgain == Cooled ~> ~Cooled

-----------------------------------------------------------------------------
(* What every call preserves, and ProbesBounded follows from.              *)
SlotsInv ==
    /\ state = "HalfOpen" => Fresh \subseteq slots /\ Cardinality(slots) <= ProbeLimit
    /\ state = "Open" => \A d \in Fresh : age[d] >= opened

IInv == TypeOK /\ SlotsInv /\ ProbesBounded

(* The results that are remembered were all counted since the circuit      *)
(* closed, unless enough of them were: TripNeedsNewResults follows from it.*)
CountInv ==
    /\ samples \in Seq([failed : BOOLEAN, age : Nat])
    /\ counted \in Nat
    /\ Len(samples) <= counted \/ counted >= MinSamples
=============================================================================
