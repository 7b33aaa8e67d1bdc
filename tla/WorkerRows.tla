------------------------------ MODULE WorkerRows ------------------------------
(***************************************************************************)
(* The workers row of one worker name, and the handlers that write it:     *)
(* registration, heartbeat, deregistration and the health scan.  Most of   *)
(* them read the whole row, change one column of the copy and write the    *)
(* whole copy back, with other handlers in between.  Time is counted in    *)
(* ticks, and only as ages: of last_seen in the row and in every copy.     *)
(***************************************************************************)
EXTENDS Integers, FiniteSets

CONSTANTS Grace,      \* ticks of silence a worker is allowed
          MaxStamp,   \* bound: stamps given before a process starts
          MaxBeats,   \* bound: heartbeat handlers at a time
          Healths,    \* agent_healthy values the worker reports
          Loads       \* whether it may report CPU or RAM above 90%

ASSUME WorkerRowsAssumption ==
    /\ Grace \in Nat \ {0} /\ MaxStamp \in Nat \ {0} /\ MaxBeats \in Nat \ {0}
    /\ Healths \subseteq BOOLEAN /\ Loads \subseteq BOOLEAN

VARIABLES
    row,      \* the workers row
    host,     \* the hosts row of the machine
    proc,     \* the worker process
    mode,     \* its liveness_mode, as it was configured when it started
    mine,     \* the id it registered under
    beats,    \* heartbeat handlers that have read the row
    enrol,    \* the registration handler
    scan,     \* the health scan
    stamp,    \* the newest id or incarnation (UUIDs and NOW() are never reused)
    quiet,    \* history: ticks since a beat or registration was recorded
    former    \* history: the id and incarnation of the last process that ended

vars == <<row, host, proc, mode, mine, beats, enrol, scan, stamp, quiet, former>>

Age == 0..Grace + 1
Status == {"online", "degraded", "draining", "offline"}
Modes == {"periodic", "on_demand"}
Row == [here : BOOLEAN, id : Nat, mode : Modes, status : Status, age : Age, inc : Nat]
Absent == [here |-> FALSE, id |-> 0, mode |-> "periodic", status |-> "offline",
           age |-> 0, inc |-> 0]
Host == [here : BOOLEAN, worker : Nat, status : {"online", "offline"}]
Beat == [stage : {"touch", "status", "host", "drain"}, copy : Row,
         healthy : BOOLEAN, loaded : BOOLEAN, life : Age]
Enrol == [stage : {"none", "bump", "upsert"}, copy : Row]
Scan == [stage : {"none", "offline", "host", "hostwrite"}, copy : Row]

(* The foreign key of the hosts table is part of the row's type.  A stamp  *)
(* may pass its bound, as one process may have to register several times.  *)
TypeOK ==
    /\ row \in Row /\ host \in Host
    /\ host.worker # 0 => row.here /\ row.id = host.worker
    /\ proc \in {"down", "joining", "up"} /\ mode \in Modes
    /\ mine \in Nat
    /\ beats \subseteq Beat /\ enrol \in Enrol /\ scan \in Scan
    /\ stamp \in Nat
    /\ quiet \in Age
    /\ former \in [id : Nat, inc : Nat]

Init ==
    /\ row = Absent
    /\ host = [here |-> FALSE, worker |-> 0, status |-> "offline"]
    /\ proc = "down" /\ mode = "periodic" /\ mine = 0
    /\ beats = {}
    /\ enrol = [stage |-> "none", copy |-> Absent]
    /\ scan = [stage |-> "none", copy |-> Absent]
    /\ stamp = 0 /\ quiet = 0
    /\ former = [id |-> 0, inc |-> 0]

Older(age) == IF age > Grace THEN age ELSE age + 1
Aged(copy) == [copy EXCEPT !.age = IF copy.here THEN Older(@) ELSE @]

(* Mutant: the upsert writes incarnation_started_at as well.               *)
UpsertAll(copy) ==
    IF row.here /\ row.id # copy.id THEN row ELSE [copy EXCEPT !.here = TRUE]

(* upsert_worker: ON CONFLICT (id) every column but registered_at and      *)
(* incarnation_started_at is overwritten; no row of that id is an INSERT,  *)
(* which the name of another row refuses.                                  *)
Upsert(copy) ==
    IF ~row.here THEN [copy EXCEPT !.here = TRUE]
    ELSE IF row.id = copy.id THEN [copy EXCEPT !.inc = row.inc]
    ELSE row

-----------------------------------------------------------------------------
(* Registration.                                                           *)

(* register_worker looks the row up by name.                               *)
RegisterRead ==
    /\ proc = "joining" /\ enrol.stage = "none"
    /\ enrol' = [stage |-> "bump", copy |-> row]
    /\ UNCHANGED <<row, host, proc, mode, mine, beats, scan, stamp, quiet, former>>

(* Mutant: a registration that found the row does not move it.             *)
RegisterNoBump ==
    /\ enrol.stage = "bump"
    /\ enrol' = [enrol EXCEPT !.stage = "upsert"]
    /\ UNCHANGED <<row, host, proc, mode, mine, beats, scan, stamp, quiet, former>>

(* bump_worker_incarnation of a row that was found; it may be gone.        *)
RegisterBump ==
    /\ enrol.stage = "bump"
    /\ enrol' = [enrol EXCEPT !.stage = "upsert"]
    /\ IF enrol.copy.here /\ row.here /\ row.id = enrol.copy.id
       THEN stamp' = stamp + 1 /\ row' = [row EXCEPT !.inc = stamp + 1]
       ELSE UNCHANGED <<row, stamp>>
    /\ UNCHANGED <<host, proc, mode, mine, beats, scan, quiet, former>>

(* build_worker: a new id and incarnation, or those of the row that was    *)
(* found; always Online and seen now, in the mode the request names.       *)
(* upsert_and_register writes it.                                          *)
RegisterUpsert ==
    /\ enrol.stage = "upsert"
    /\ LET found == enrol.copy.here
           n     == IF found THEN stamp ELSE stamp + 1
           new   == [here |-> TRUE, mode |-> mode, status |-> "online", age |-> 0,
                     id  |-> IF found THEN enrol.copy.id ELSE n,
                     inc |-> IF found THEN enrol.copy.inc ELSE n]
       IN  /\ row' = Upsert(new)
           /\ IF row'.id = new.id
              THEN proc' = "up" /\ mine' = new.id /\ quiet' = 0 /\ stamp' = n
              ELSE UNCHANGED <<proc, mine, quiet, stamp>>
    /\ enrol' = [stage |-> "none", copy |-> Absent]
    /\ UNCHANGED <<host, mode, beats, scan, former>>

(* deregister_worker: the row goes, the host row keeps no worker, and what *)
(* earlier processes ran is no longer compared with it.                    *)
Deregister ==
    /\ row.here
    /\ row' = Absent
    /\ host' = IF host.worker = row.id THEN [host EXCEPT !.worker = 0] ELSE host
    /\ former' = [id |-> 0, inc |-> 0]
    /\ UNCHANGED <<proc, mode, mine, beats, enrol, scan, stamp, quiet>>

-----------------------------------------------------------------------------
(* The heartbeat handler, statement by statement.                          *)

Onward(b, stage) == beats' = (beats \ {b}) \cup {[b EXCEPT !.stage = stage]}
Done(b) == beats' = beats \ {b}

(* The row is read first; a worker without one is answered 404.  Only a    *)
(* worker configured as periodic has a heartbeat loop.                     *)
BeatRead ==
    /\ proc = "up" /\ mode = "periodic"
    /\ Cardinality(beats) < MaxBeats
    /\ row.here /\ row.id = mine
    /\ \E healthy \in Healths, loaded \in Loads :
          beats' = beats \cup {[stage |-> "touch", copy |-> row, healthy |-> healthy,
                                loaded |-> loaded, life |-> 0]}
    /\ UNCHANGED <<row, host, proc, mode, mine, enrol, scan, stamp, quiet, former>>

(* update_worker_heartbeat: last_seen = NOW(), or no row and an error.     *)
BeatTouch(b) ==
    /\ b.stage = "touch"
    /\ IF row.here /\ row.id = b.copy.id
       THEN Onward(b, "status") /\ row' = [row EXCEPT !.age = 0] /\ quiet' = 0
       ELSE Done(b) /\ UNCHANGED <<row, quiet>>
    /\ UNCHANGED <<host, proc, mode, mine, enrol, scan, stamp, former>>

Reported(b) == IF b.healthy THEN "online" ELSE "degraded"

(* Mutant: only a worker that is up can change between its two states.     *)
BeatStatusOfTheLiving(b) ==
    /\ b.stage = "status"
    /\ Onward(b, "host")
    /\ row' = IF b.copy.status \notin {"draining", "offline", Reported(b)}
              THEN Upsert([b.copy EXCEPT !.status = Reported(b)]) ELSE row
    /\ UNCHANGED <<host, proc, mode, mine, enrol, scan, stamp, quiet, former>>

(* The reported status, if the copy says another and is not draining: the  *)
(* copy is written back, with the last_seen it was read with.              *)
BeatStatus(b) ==
    /\ b.stage = "status"
    /\ Onward(b, "host")
    /\ row' = IF b.copy.status \notin {"draining", Reported(b)}
              THEN Upsert([b.copy EXCEPT !.status = Reported(b)]) ELSE row
    /\ UNCHANGED <<host, proc, mode, mine, enrol, scan, stamp, quiet, former>>

(* upsert_host: refused by the foreign key when the worker row is gone.    *)
BeatHost(b) ==
    /\ b.stage = "host"
    /\ Onward(b, "drain")
    /\ host' = IF row.here /\ row.id = b.copy.id
               THEN [here |-> TRUE, worker |-> b.copy.id, status |-> "online"] ELSE host
    /\ UNCHANGED <<row, proc, mode, mine, enrol, scan, stamp, quiet, former>>

(* An overloaded worker is drained, again by writing the copy back.        *)
BeatDrain(b) ==
    /\ b.stage = "drain"
    /\ Done(b)
    /\ row' = IF b.loaded /\ b.copy.status # "draining"
              THEN Upsert([b.copy EXCEPT !.status = "draining"]) ELSE row
    /\ UNCHANGED <<host, proc, mode, mine, enrol, scan, stamp, quiet, former>>

-----------------------------------------------------------------------------
(* The health scan.                                                        *)

(* Mutant: draining workers are not listed.                                *)
ScanReadUndrained ==
    /\ scan.stage = "none" /\ row.mode = "periodic"
    /\ row.here /\ row.status \in {"online", "degraded"} /\ row.age > Grace
    /\ scan' = [stage |-> "offline", copy |-> row]
    /\ UNCHANGED <<row, host, proc, mode, mine, beats, enrol, stamp, quiet, former>>

(* list_workers, three times, and the worker whose last_seen is too old;   *)
(* one whose row says on_demand is not judged.                             *)
ScanRead ==
    /\ scan.stage = "none"
    /\ row.mode = "periodic"
    /\ row.here /\ row.status \in {"online", "degraded", "draining"} /\ row.age > Grace
    /\ scan' = [stage |-> "offline", copy |-> row]
    /\ UNCHANGED <<row, host, proc, mode, mine, beats, enrol, stamp, quiet, former>>

(* The copy is written back as Offline, whatever the row says by now.      *)
ScanOffline ==
    /\ scan.stage = "offline"
    /\ scan' = [scan EXCEPT !.stage = "host"]
    /\ row' = Upsert([scan.copy EXCEPT !.status = "offline"])
    /\ UNCHANGED <<host, proc, mode, mine, beats, enrol, stamp, quiet, former>>

(* get_host_by_worker, then upsert_host of the copy.                       *)
ScanHost ==
    /\ scan.stage = "host"
    /\ scan' = IF host.here /\ host.worker = scan.copy.id
               THEN [scan EXCEPT !.stage = "hostwrite"]
               ELSE [stage |-> "none", copy |-> Absent]
    /\ UNCHANGED <<row, host, proc, mode, mine, beats, enrol, stamp, quiet, former>>

ScanHostWrite ==
    /\ scan.stage = "hostwrite"
    /\ scan' = [stage |-> "none", copy |-> Absent]
    /\ host' = IF row.here /\ row.id = scan.copy.id
               THEN [host EXCEPT !.worker = scan.copy.id, !.status = "offline"] ELSE host
    /\ UNCHANGED <<row, proc, mode, mine, beats, enrol, stamp, quiet, former>>

-----------------------------------------------------------------------------
(* The worker process, and time.                                           *)

(* The operator may have changed the configuration since the last start.   *)
Start ==
    /\ proc = "down" /\ stamp < MaxStamp
    /\ proc' = "joining"
    /\ mode' \in Modes
    /\ UNCHANGED <<row, host, mine, beats, enrol, scan, stamp, quiet, former>>

Stop ==
    /\ proc = "up"
    /\ proc' = "down"
    /\ former' = IF row.here /\ row.id = mine THEN [id |-> mine, inc |-> row.inc]
                 ELSE [id |-> 0, inc |-> 0]
    /\ UNCHANGED <<row, host, mode, mine, beats, enrol, scan, stamp, quiet>>

(* A request ends, or is dropped with its connection, well before the      *)
(* grace period (10 s of 45 s): time does not pass a handler that old.     *)
Tick ==
    /\ \A b \in beats : b.life < Grace
    /\ enrol.stage = "none"
    /\ row' = Aged(row)
    /\ beats' = {[b EXCEPT !.life = @ + 1, !.copy = Aged(@)] : b \in beats}
    /\ scan' = [scan EXCEPT !.copy = Aged(@)]
    /\ quiet' = Older(quiet)
    /\ UNCHANGED <<host, proc, mode, mine, enrol, stamp, former>>

-----------------------------------------------------------------------------
Register == RegisterRead \/ RegisterBump \/ RegisterUpsert
Serve == \E b \in beats : BeatTouch(b) \/ BeatStatus(b) \/ BeatHost(b) \/ BeatDrain(b)
HealthScan == ScanRead \/ ScanOffline \/ ScanHost \/ ScanHostWrite

Next ==
    \/ Start \/ Stop \/ Tick \/ Deregister
    \/ Register \/ BeatRead \/ Serve \/ HealthScan

Spec == Init /\ [][Next]_vars

(* Time passes, handlers end, the scan runs and a worker that is up beats. *)
FairSpec ==
    /\ Spec
    /\ WF_vars(Tick) /\ WF_vars(Register) /\ WF_vars(BeatRead) /\ WF_vars(Serve)
    /\ WF_vars(HealthScan)

-----------------------------------------------------------------------------
(* Nothing a stale copy carries takes the incarnation back: a task sent to *)
(* an earlier process stays older than the row (reconcile's restart test). *)
IncarnationNeverBack ==
    [][row.here /\ row'.here /\ row.id = row'.id => row'.inc >= row.inc]_vars

(* A process that registered under the id of an earlier one is newer than  *)
(* it in the row, unless the row was deleted in between.                   *)
RestartIsNoticed ==
    proc = "up" /\ row.here /\ row.id = mine /\ former.id = mine
        => row.inc > former.inc

(* A periodic worker that stopped for good ends Offline, drained or not,   *)
(* whatever its last beats still wrote and in whatever mode earlier        *)
(* processes were in.  An on_demand worker is not judged (health.rs).      *)
DeadIsNoticed ==
    <>[](proc = "down" /\ mode = "periodic")
        => <>[](row.here => row.status = "offline")

(* A worker that beats is seen again and again as something else than      *)
(* Offline, whatever the scan's stale copies did.  An on_demand worker     *)
(* does not beat: nothing takes back what a stale copy did to its row.     *)
AliveIsSeen ==
    <>[](proc = "up" /\ mode = "periodic" /\ row.here /\ row.id = mine)
        => []<>(row.status # "offline")

(* The scan takes a worker for lost only when no heartbeat was recorded    *)
(* for the whole grace period (health.rs: "heartbeats missed").            *)
ExpiredMeansSilent ==
    [][scan.stage = "none" /\ scan'.stage = "offline" => quiet > Grace]_vars
=============================================================================
