--------------------------- MODULE WorkerRowsProofs ---------------------------
(***************************************************************************)
(* Theorems about module WorkerRows, for any grace period and any number   *)
(* of heartbeats at a time.  The bound on the stamps plays no part in      *)
(* them, so the types below have all of Nat.                               *)
(***************************************************************************)
EXTENDS WorkerRows, TLAPS

USE WorkerRowsAssumption

Copy == [here : BOOLEAN, id : Nat, mode : Modes, status : Status, age : Nat, inc : Nat]
Stages == {"none", "bump", "upsert", "touch", "status", "host", "drain",
           "offline", "hostwrite"}

(* A copy of the row, in the table or in a handler's hands, carries stamps *)
(* that were given, and an id if it is of a row.                           *)
Given(copy) ==
    /\ copy \in Copy
    /\ copy.id <= stamp /\ copy.inc <= stamp
    /\ copy.here => copy.id > 0

StampsInv ==
    /\ stamp \in Nat /\ mine \in Nat /\ mode \in Modes
    /\ Given(row)
    /\ beats \subseteq [stage : Stages, copy : Copy, healthy : Healths,
                        loaded : Loads, life : Nat]
    /\ \A b \in beats : Given(b.copy) /\ b.copy.here
    /\ enrol \in [stage : Stages, copy : Copy] /\ Given(enrol.copy)
    /\ scan \in [stage : Stages, copy : Copy] /\ Given(scan.copy)
    /\ scan.stage = "offline" => scan.copy.here

(* The row a process left behind stays that row until it is deleted; a     *)
(* registration that goes on found it, and has moved its incarnation when  *)
(* it comes to the upsert.                                                 *)
FormerInv ==
    /\ former \in [id : Nat, inc : Nat]
    /\ former.id <= stamp /\ former.inc <= stamp
    /\ enrol.stage # "none" => proc = "joining"
    /\ former.id # 0 =>
           /\ row.here /\ row.id = former.id /\ row.inc >= former.inc
           /\ enrol.stage # "none" => enrol.copy.here /\ enrol.copy.id = former.id
           /\ enrol.stage = "upsert" => row.inc > former.inc
           /\ proc = "up" /\ mine = former.id => row.inc > former.inc

(* The inductive invariant.                                                *)
RowInv == StampsInv /\ FormerInv

-------------------------------------------------------------------------------
(* What the statements do to a row.                                        *)

(* An upsert writes stamps that were given, and never the incarnation of a *)
(* row that is there.                                                      *)
LEMMA UpsertGiven ==
    ASSUME stamp \in Nat, Given(row), NEW copy \in Copy, copy.here,
           copy.id > 0, copy.id <= stamp, copy.inc <= stamp
    PROVE  /\ Given(Upsert(copy)) /\ Upsert(copy).here
           /\ row.here => Upsert(copy).id = row.id /\ Upsert(copy).inc = row.inc
  <1>1. CASE ~row.here
    <2>1. Upsert(copy) = [copy EXCEPT !.here = TRUE]
      BY <1>1 DEF Upsert
    <2>2. /\ [copy EXCEPT !.here = TRUE] \in Copy
          /\ [copy EXCEPT !.here = TRUE].id = copy.id
          /\ [copy EXCEPT !.here = TRUE].inc = copy.inc
          /\ [copy EXCEPT !.here = TRUE].here
      BY DEF Copy
    <2> QED BY <1>1, <2>1, <2>2 DEF Given
  <1>2. CASE row.here /\ row.id = copy.id
    <2>1. Upsert(copy) = [copy EXCEPT !.inc = row.inc]
      BY <1>2 DEF Upsert
    <2> QED BY <1>2, <2>1 DEF Given, Copy
  <1>3. CASE row.here /\ row.id # copy.id
    BY <1>3 DEF Upsert, Given
  <1> QED BY <1>1, <1>2, <1>3

(* Steps that keep the stamps, the row's identity and the process.         *)
LEMMA FormerStays ==
    ASSUME RowInv, UNCHANGED <<stamp, former, proc, mine, enrol>>,
           row.here => row'.here /\ row'.id = row.id /\ row'.inc = row.inc
    PROVE  FormerInv'
  BY DEF RowInv, FormerInv

(* A statement of a handler that writes a copy back.                       *)
LEMMA BeatWrites ==
    ASSUME RowInv, NEW b \in beats, NEW status \in Status
    PROVE  /\ Given(Upsert([b.copy EXCEPT !.status = status]))
           /\ row.here => /\ Upsert([b.copy EXCEPT !.status = status]).here
                          /\ Upsert([b.copy EXCEPT !.status = status]).id = row.id
                          /\ Upsert([b.copy EXCEPT !.status = status]).inc = row.inc
  <1> DEFINE copy == [b.copy EXCEPT !.status = status]
  <1>1. Given(b.copy) /\ b.copy.here /\ stamp \in Nat /\ Given(row)
    BY DEF RowInv, StampsInv
  <1>2. copy \in Copy /\ copy.here /\ copy.id = b.copy.id /\ copy.inc = b.copy.inc
    BY <1>1 DEF Given, Copy
  <1> HIDE DEF copy
  <1>3. copy.id > 0 /\ copy.id <= stamp /\ copy.inc <= stamp
    BY <1>1, <1>2 DEF Given
  <1>4. Given(Upsert(copy)) /\ (row.here => /\ Upsert(copy).here /\ Upsert(copy).id = row.id
                                            /\ Upsert(copy).inc = row.inc)
    BY <1>1, <1>2, <1>3, UpsertGiven
  <1> QED BY <1>4 DEF copy

-------------------------------------------------------------------------------
(* The invariant, action by action.                                        *)

LEMMA AbsentGiven ==
    ASSUME stamp \in Nat
    PROVE  Given(Absent) /\ ~Absent.here
  BY DEF Given, Absent, Copy, Modes, Status

LEMMA InitRow == Init => RowInv
  <1> SUFFICES ASSUME Init PROVE RowInv
    OBVIOUS
  <1>1. stamp \in Nat /\ mine \in Nat /\ mode \in Modes /\ Given(row) /\ beats = {}
    BY AbsentGiven DEF Init, Modes
  <1>2. enrol.stage = "none" /\ enrol.copy = Absent /\ scan.stage = "none" /\ scan.copy = Absent
    BY DEF Init
  <1>3. /\ enrol \in [stage : Stages, copy : Copy] /\ scan \in [stage : Stages, copy : Copy]
        /\ Given(enrol.copy) /\ Given(scan.copy)
    BY <1>1, <1>2, AbsentGiven DEF Init, Stages, Given
  <1>4. StampsInv
    BY <1>1, <1>2, <1>3 DEF StampsInv
  <1>5. FormerInv
    BY <1>1, <1>2 DEF Init, FormerInv
  <1> QED BY <1>4, <1>5 DEF RowInv

LEMMA RegisterReadRow ==
    ASSUME RowInv, RegisterRead
    PROVE  RowInv'
  <1> USE DEF RowInv, RegisterRead
  <1>1. enrol' \in [stage : Stages, copy : Copy] /\ enrol'.copy = row /\ enrol'.stage = "bump"
    BY DEF StampsInv, Given, Stages
  <1>2. StampsInv'
    BY <1>1 DEF StampsInv, Given
  <1>3. FormerInv'
    BY <1>1 DEF FormerInv
  <1> QED BY <1>2, <1>3

LEMMA RegisterBumpRow ==
    ASSUME RowInv, RegisterBump
    PROVE  RowInv'
  <1> USE DEF RowInv, RegisterBump
  <1>1. /\ enrol' \in [stage : Stages, copy : Copy] /\ enrol'.copy = enrol.copy
        /\ enrol'.stage = "upsert" /\ enrol.stage = "bump"
    BY DEF StampsInv, Stages
  <1>2. stamp \in Nat /\ stamp' \in Nat /\ stamp <= stamp'
    BY DEF StampsInv
  <1>3. /\ row' \in Copy /\ row'.here = row.here /\ row'.id = row.id
        /\ row'.inc <= stamp' /\ row'.inc >= row.inc
        /\ enrol.copy.here /\ row.here /\ row.id = enrol.copy.id => row'.inc = stamp + 1
    BY <1>2 DEF StampsInv, Given, Copy
  <1>4. \A copy : Given(copy) => Given(copy)'
    BY <1>2 DEF Given, Copy
  <1>5. Given(row)'
    BY <1>2, <1>3 DEF Given, StampsInv, Copy
  <1>6. StampsInv'
    BY <1>1, <1>2, <1>4, <1>5 DEF StampsInv
  <1>7. FormerInv'
    BY <1>1, <1>2, <1>3 DEF FormerInv, StampsInv, Given, Copy
  <1> QED BY <1>6, <1>7

(* The upsert of a registration finds the row it read, or an id nobody had.*)
LEMMA RegisterUpsertRow ==
    ASSUME RowInv, RegisterUpsert
    PROVE  /\ RowInv'
           /\ row.here => row'.here /\ row'.id = row.id /\ row'.inc = row.inc
  <1> USE DEF RowInv
  <1> DEFINE found == enrol.copy.here
             n     == IF found THEN stamp ELSE stamp + 1
             new   == [here |-> TRUE, mode |-> mode, status |-> "online", age |-> 0,
                       id  |-> IF found THEN enrol.copy.id ELSE n,
                       inc |-> IF found THEN enrol.copy.inc ELSE n]
  <1>1. /\ row' = Upsert(new) /\ enrol' = [stage |-> "none", copy |-> Absent]
        /\ enrol.stage = "upsert"
        /\ IF row'.id = new.id
           THEN proc' = "up" /\ mine' = new.id /\ quiet' = 0 /\ stamp' = n
           ELSE UNCHANGED <<proc, mine, quiet, stamp>>
        /\ UNCHANGED <<host, mode, beats, scan, former>>
    BY DEF RegisterUpsert
  <1>2. /\ stamp \in Nat /\ n \in Nat /\ stamp <= n /\ Given(enrol.copy) /\ Given(row)
        /\ mode \in Modes
    BY DEF StampsInv
  <1>3. /\ new \in Copy /\ new.here /\ new.id > 0 /\ new.id <= n /\ new.inc <= n
        /\ found => new.id <= stamp /\ new.inc <= stamp /\ new.id = enrol.copy.id
        /\ ~found => new.id = stamp + 1
    BY <1>2 DEF Given, Copy, Status
  <1> HIDE DEF new, n
  <1>4. /\ row' \in Copy /\ row'.here
        /\ row.here => row'.id = row.id /\ row'.inc = row.inc
        /\ ~row.here => row'.id = new.id /\ row'.inc = new.inc
    <2>1. CASE row.here /\ row.id = new.id
      BY <1>1, <1>2, <1>3, <2>1 DEF Upsert, Given, Copy
    <2>2. CASE row.here /\ row.id # new.id
      BY <1>1, <1>2, <2>2 DEF Upsert, Given
    <2>3. CASE ~row.here
      BY <1>1, <1>3, <2>3 DEF Upsert, Copy
    <2> QED BY <2>1, <2>2, <2>3
  <1>5. stamp' \in Nat /\ stamp <= stamp' /\ mine' \in Nat /\ (row'.id = new.id => stamp' = n)
    BY <1>1, <1>2, <1>3 DEF StampsInv, Copy
  <1>6. Given(row)'
    BY <1>2, <1>3, <1>4, <1>5 DEF Given, Copy
  <1>7. \A copy : Given(copy) => Given(copy)'
    BY <1>2, <1>5 DEF Given, Copy
  <1>8. enrol' \in [stage : Stages, copy : Copy] /\ Given(enrol.copy)' /\ enrol'.stage = "none"
    BY <1>1, <1>5, AbsentGiven DEF Stages, Given, Absent, Copy, Modes, Status
  <1>9. StampsInv'
    BY <1>1, <1>5, <1>6, <1>7, <1>8 DEF StampsInv
  <1>10. FormerInv'
    <2>1. former.id # 0 => row'.here /\ row'.id = former.id /\ row'.inc >= former.inc
                           /\ row'.inc > former.inc
      BY <1>1, <1>4 DEF FormerInv
    <2>2. former' = former /\ former.id <= stamp' /\ former.inc <= stamp'
      BY <1>1, <1>2, <1>5 DEF FormerInv
    <2> QED BY <1>8, <2>1, <2>2 DEF FormerInv
  <1> QED BY <1>4, <1>9, <1>10

(* The heartbeats in progress, apart from the rest of the invariant.       *)
BeatsInv ==
    /\ beats \subseteq [stage : Stages, copy : Copy, healthy : Healths,
                        loaded : Loads, life : Nat]
    /\ \A b \in beats : Given(b.copy) /\ b.copy.here

LEMMA DeregisterRow ==
    ASSUME RowInv, Deregister
    PROVE  RowInv'
  <1> USE DEF RowInv
  <1>1. /\ row' = Absent /\ former' = [id |-> 0, inc |-> 0]
        /\ UNCHANGED <<proc, mode, mine, beats, enrol, scan, stamp>>
    BY DEF Deregister
  <1>2. Given(row)'
    BY <1>1, AbsentGiven DEF StampsInv, Given
  <1>3. StampsInv'
    BY <1>1, <1>2 DEF StampsInv, Given
  <1>4. FormerInv'
    BY <1>1 DEF FormerInv, StampsInv
  <1> QED BY <1>3, <1>4

(* A handler that goes on or ends leaves the copies of all as they are.    *)
LEMMA BeatsGoOn ==
    ASSUME RowInv, UNCHANGED stamp, NEW b \in beats, NEW stage \in Stages,
           Onward(b, stage) \/ Done(b)
    PROVE  BeatsInv'
  <1>1. BeatsInv
    BY DEF RowInv, StampsInv, BeatsInv
  <1> DEFINE c == [b EXCEPT !.stage = stage]
  <1>2. /\ c \in [stage : Stages, copy : Copy, healthy : Healths, loaded : Loads, life : Nat]
        /\ c.copy = b.copy
    BY <1>1 DEF BeatsInv
  <1>3. beats' \subseteq beats \cup {c}
    BY DEF Onward, Done
  <1>4. \A d \in beats' : Given(d.copy) /\ d.copy.here
    BY <1>1, <1>2, <1>3 DEF BeatsInv
  <1>5. \A copy : Given(copy) => Given(copy)'
    BY DEF Given
  <1> HIDE DEF c
  <1>6. beats' \subseteq [stage : Stages, copy : Copy, healthy : Healths, loaded : Loads, life : Nat]
    BY <1>1, <1>2, <1>3 DEF BeatsInv
  <1>7. \A d \in beats' : Given(d.copy)' /\ d.copy.here
    BY <1>4, <1>5
  <1> QED BY <1>6, <1>7 DEF BeatsInv, Given

(* A statement of a heartbeat or of the scan: the row keeps its identity   *)
(* and incarnation if it was there.                                        *)
LEMMA StatementRow ==
    ASSUME RowInv, UNCHANGED <<stamp, former, proc, mode, mine, enrol>>,
           row' = row \/ Given(row'),
           row.here => row'.here /\ row'.id = row.id /\ row'.inc = row.inc,
           UNCHANGED beats \/ BeatsInv',
           UNCHANGED scan \/ (/\ scan' \in [stage : Stages, copy : Copy]
                              /\ Given(scan'.copy)
                              /\ scan'.stage = "offline" => scan'.copy.here)
    PROVE  RowInv'
  <1>1. StampsInv
    BY DEF RowInv
  <1>2. Given(row') /\ stamp' \in Nat /\ mine' \in Nat /\ mode' \in Modes
    BY <1>1 DEF StampsInv
  <1>3. BeatsInv'
    <2>1. BeatsInv
      BY <1>1 DEF StampsInv, BeatsInv
    <2> QED BY <2>1 DEF BeatsInv, Given
  <1>4. /\ scan' \in [stage : Stages, copy : Copy] /\ Given(scan'.copy)
        /\ scan'.stage = "offline" => scan'.copy.here
    BY <1>1 DEF StampsInv
  <1>5. enrol' \in [stage : Stages, copy : Copy] /\ Given(enrol'.copy)
    BY <1>1 DEF StampsInv
  <1>6. Given(row)' /\ Given(enrol.copy)' /\ Given(scan.copy)'
    BY <1>2, <1>4, <1>5 DEF Given
  <1>7. StampsInv'
    BY <1>2, <1>3, <1>4, <1>5, <1>6 DEF StampsInv, BeatsInv
  <1>8. FormerInv'
    BY FormerStays
  <1> QED BY <1>7, <1>8 DEF RowInv

LEMMA BeatReadRow ==
    ASSUME RowInv, BeatRead
    PROVE  RowInv'
  <1>1. PICK healthy \in Healths, loaded \in Loads :
           beats' = beats \cup {[stage |-> "touch", copy |-> row, healthy |-> healthy,
                                 loaded |-> loaded, life |-> 0]}
    BY DEF BeatRead
  <1>2. row.here /\ UNCHANGED <<row, proc, mode, mine, enrol, scan, stamp, former>>
    BY DEF BeatRead
  <1> DEFINE c == [stage |-> "touch", copy |-> row, healthy |-> healthy,
                   loaded |-> loaded, life |-> 0]
  <1>3. Given(row) /\ BeatsInv
    BY DEF RowInv, StampsInv, BeatsInv
  <1>4. /\ c \in [stage : Stages, copy : Copy, healthy : Healths, loaded : Loads, life : Nat]
        /\ c.copy = row
    BY <1>3 DEF Given, Stages
  <1> HIDE DEF c
  <1>5. beats' = beats \cup {c}
    BY <1>1 DEF c
  <1>6. BeatsInv'
    BY <1>2, <1>3, <1>4, <1>5 DEF BeatsInv, Given
  <1> QED BY <1>2, <1>6, StatementRow

LEMMA BeatTouchRow ==
    ASSUME RowInv, NEW b \in beats, BeatTouch(b)
    PROVE  RowInv'
  <1>1. /\ UNCHANGED <<proc, mode, mine, enrol, scan, stamp, former>>
        /\ Onward(b, "status") \/ Done(b)
        /\ row' = row \/ row' = [row EXCEPT !.age = 0]
    BY DEF BeatTouch
  <1>2. BeatsInv'
    <2>1. "status" \in Stages
      BY DEF Stages
    <2> QED BY <1>1, <2>1, BeatsGoOn
  <1>3. Given(row)
    BY DEF RowInv, StampsInv
  <1>4. Given(row') /\ row'.here = row.here /\ row'.id = row.id /\ row'.inc = row.inc
    BY <1>1, <1>3 DEF Given, Copy
  <1> QED BY <1>1, <1>2, <1>4, StatementRow

LEMMA BeatStatusRow ==
    ASSUME RowInv, NEW b \in beats, BeatStatus(b)
    PROVE  RowInv'
  <1>1. /\ UNCHANGED <<proc, mode, mine, enrol, scan, stamp, former>>
        /\ Onward(b, "host")
        /\ row' = row \/ row' = Upsert([b.copy EXCEPT !.status = Reported(b)])
    BY DEF BeatStatus
  <1>2. BeatsInv'
    <2>1. "host" \in Stages
      BY DEF Stages
    <2> QED BY <1>1, <2>1, BeatsGoOn
  <1>3. Reported(b) \in Status
    BY DEF Reported, Status
  <1> QED BY <1>1, <1>2, <1>3, BeatWrites, StatementRow

LEMMA BeatHostRow ==
    ASSUME RowInv, NEW b \in beats, BeatHost(b)
    PROVE  RowInv'
  <1>1. UNCHANGED <<row, proc, mode, mine, enrol, scan, stamp, former>> /\ Onward(b, "drain")
    BY DEF BeatHost
  <1>2. BeatsInv'
    <2>1. "drain" \in Stages
      BY DEF Stages
    <2> QED BY <1>1, <2>1, BeatsGoOn
  <1> QED BY <1>1, <1>2, StatementRow

LEMMA BeatDrainRow ==
    ASSUME RowInv, NEW b \in beats, BeatDrain(b)
    PROVE  RowInv'
  <1>1. /\ UNCHANGED <<proc, mode, mine, enrol, scan, stamp, former>>
        /\ Done(b)
        /\ row' = row \/ row' = Upsert([b.copy EXCEPT !.status = "draining"])
    BY DEF BeatDrain
  <1>2. BeatsInv'
    <2>1. "drain" \in Stages
      BY DEF Stages
    <2> QED BY <1>1, <2>1, BeatsGoOn
  <1>3. "draining" \in Status
    BY DEF Status
  <1> QED BY <1>1, <1>2, <1>3, BeatWrites, StatementRow

LEMMA ScanRow ==
    ASSUME RowInv, HealthScan
    PROVE  RowInv'
  <1>1. UNCHANGED <<proc, mode, mine, beats, enrol, stamp, former>>
    BY DEF HealthScan, ScanRead, ScanOffline, ScanHost, ScanHostWrite
  <1>2. /\ Given(row) /\ Given(scan.copy) /\ stamp \in Nat
        /\ scan \in [stage : Stages, copy : Copy]
        /\ scan.stage = "offline" => scan.copy.here
    BY DEF RowInv, StampsInv
  <1>3. CASE ScanRead
    <2>1. row' = row /\ scan' \in [stage : Stages, copy : Copy]
          /\ scan'.copy = row /\ row.here
      BY <1>2, <1>3 DEF ScanRead, Stages, Given
    <2> QED BY <1>1, <1>2, <2>1, StatementRow
  <1>4. CASE ScanOffline
    <2> DEFINE copy == [scan.copy EXCEPT !.status = "offline"]
    <2>1. /\ row' = Upsert(copy) /\ scan' \in [stage : Stages, copy : Copy]
          /\ scan'.copy = scan.copy /\ scan'.stage = "host" /\ scan.copy.here
      BY <1>2, <1>4 DEF ScanOffline, Stages
    <2>2. /\ copy \in Copy /\ copy.here /\ copy.id > 0
          /\ copy.id <= stamp /\ copy.inc <= stamp
      BY <1>2, <2>1 DEF Given, Copy, Status
    <2> HIDE DEF copy
    <2>3. Given(row') /\ (row.here => row'.here /\ row'.id = row.id /\ row'.inc = row.inc)
      BY <1>2, <2>1, <2>2, UpsertGiven
    <2> QED BY <1>1, <1>2, <2>1, <2>3, StatementRow
  <1>5. CASE ScanHost \/ ScanHostWrite
    <2>1. row' = row
      BY <1>5 DEF ScanHost, ScanHostWrite
    <2>2. /\ scan' \in [stage : Stages, copy : Copy] /\ Given(scan'.copy)
          /\ scan'.stage # "offline"
      <3>1. Absent \in Copy /\ Given(Absent)
        BY <1>2, AbsentGiven DEF Given
      <3>2. CASE scan' = [scan EXCEPT !.stage = "hostwrite"]
        BY <1>2, <3>2 DEF Stages
      <3>3. CASE scan' = [stage |-> "none", copy |-> Absent]
        BY <3>1, <3>3 DEF Stages
      <3> QED BY <1>5, <3>2, <3>3 DEF ScanHost, ScanHostWrite
    <2> QED BY <1>1, <2>1, <2>2, StatementRow
  <1> QED BY <1>3, <1>4, <1>5 DEF HealthScan

LEMMA OlderIsAnAge == \A age \in Nat : Older(age) \in Nat
  BY DEF Older

(* Time changes the ages of the copies and nothing else in them.           *)
LEMMA AgedGiven ==
    ASSUME NEW copy, Given(copy)
    PROVE  /\ Given(Aged(copy)) /\ Aged(copy).here = copy.here
           /\ Aged(copy).id = copy.id /\ Aged(copy).inc = copy.inc
  <1> DEFINE age == IF copy.here THEN Older(copy.age) ELSE copy.age
  <1>1. age \in Nat
    BY OlderIsAnAge DEF Given, Copy
  <1>2. Aged(copy) = [copy EXCEPT !.age = age]
    BY DEF Aged
  <1> HIDE DEF age
  <1> QED BY <1>1, <1>2 DEF Given, Copy

LEMMA TickRow ==
    ASSUME RowInv, Tick
    PROVE  RowInv'
  <1>1. /\ UNCHANGED <<proc, mode, mine, enrol, stamp, former>>
        /\ row' = Aged(row)
        /\ beats' = {[b EXCEPT !.life = @ + 1, !.copy = Aged(@)] : b \in beats}
        /\ scan' = [scan EXCEPT !.copy = Aged(@)]
    BY DEF Tick
  <1>2. /\ Given(row) /\ Given(scan.copy) /\ BeatsInv
        /\ scan \in [stage : Stages, copy : Copy]
        /\ scan.stage = "offline" => scan.copy.here
    BY DEF RowInv, StampsInv, BeatsInv
  <1>3. Given(row') /\ row'.here = row.here /\ row'.id = row.id /\ row'.inc = row.inc
    BY <1>1, <1>2, AgedGiven
  <1>4. BeatsInv'
    <2> SUFFICES ASSUME NEW c \in beats'
                 PROVE  /\ c \in [stage : Stages, copy : Copy, healthy : Healths,
                                  loaded : Loads, life : Nat]
                        /\ Given(c.copy) /\ c.copy.here
      BY <1>1 DEF BeatsInv, Given
    <2>1. PICK b \in beats : c = [b EXCEPT !.life = @ + 1, !.copy = Aged(@)]
      BY <1>1, Zenon
    <2>2. /\ b \in [stage : Stages, copy : Copy, healthy : Healths, loaded : Loads, life : Nat]
          /\ Given(b.copy) /\ b.copy.here
      BY <1>2 DEF BeatsInv
    <2>3. Given(Aged(b.copy)) /\ Aged(b.copy).here
      BY <2>2, AgedGiven
    <2>4. Aged(b.copy) \in Copy
      BY <2>3 DEF Given
    <2>5. /\ c \in [stage : Stages, copy : Copy, healthy : Healths, loaded : Loads, life : Nat]
          /\ c.copy = Aged(b.copy)
      <3> DEFINE d == [b EXCEPT !.life = b.life + 1]
      <3>1. d \in [stage : Stages, copy : Copy, healthy : Healths, loaded : Loads, life : Nat]
        BY <2>2
      <3>2. c = [d EXCEPT !.copy = Aged(b.copy)]
        <4>1. d.copy = b.copy
          BY <2>2
        <4> QED BY <2>1, <4>1, Zenon
      <3> HIDE DEF d
      <3> QED BY <2>4, <3>1, <3>2
    <2> QED BY <2>3, <2>5
  <1>5. /\ scan' \in [stage : Stages, copy : Copy] /\ Given(scan'.copy)
        /\ scan'.stage = "offline" => scan'.copy.here
    <2>1. /\ Given(Aged(scan.copy)) /\ Aged(scan.copy).here = scan.copy.here
          /\ Aged(scan.copy) \in Copy
      BY <1>2, AgedGiven DEF Given
    <2>2. scan'.copy = Aged(scan.copy) /\ scan'.stage = scan.stage
      BY <1>1, <1>2
    <2>3. scan' \in [stage : Stages, copy : Copy]
      BY <1>1, <1>2, <2>1
    <2> QED BY <1>2, <2>1, <2>2, <2>3
  <1> QED BY <1>1, <1>3, <1>4, <1>5, StatementRow

LEMMA ProcessRow ==
    ASSUME RowInv, Start \/ Stop
    PROVE  RowInv'
  <1>1. UNCHANGED <<row, mine, beats, enrol, scan, stamp>> /\ mode' \in Modes
    BY DEF Start, Stop, RowInv, StampsInv
  <1>2. StampsInv'
    BY <1>1 DEF RowInv, StampsInv, Given
  <1>3. ASSUME Start PROVE FormerInv'
    BY <1>1, <1>3 DEF RowInv, FormerInv, Start
  <1>4. ASSUME Stop PROVE FormerInv'
    <2>1. /\ proc = "up" /\ proc' = "down"
          /\ former' = IF row.here /\ row.id = mine THEN [id |-> mine, inc |-> row.inc]
                       ELSE [id |-> 0, inc |-> 0]
      BY <1>4 DEF Stop
    <2>2. row \in Copy /\ row.id <= stamp /\ row.inc <= stamp /\ stamp \in Nat /\ mine \in Nat
      BY DEF RowInv, StampsInv, Given
    <2>3. enrol.stage = "none"
      BY <2>1 DEF RowInv, FormerInv
    <2>4. CASE row.here /\ row.id = mine
      BY <1>1, <2>1, <2>2, <2>3, <2>4 DEF FormerInv, Copy
    <2>5. CASE ~(row.here /\ row.id = mine)
      BY <1>1, <2>1, <2>2, <2>3, <2>5 DEF FormerInv, Copy
    <2> QED BY <2>4, <2>5
  <1>5. FormerInv'
    BY <1>3, <1>4
  <1> QED BY <1>2, <1>5 DEF RowInv

LEMMA NextRow == RowInv /\ [Next]_vars => RowInv'
  <1> SUFFICES ASSUME RowInv, [Next]_vars PROVE RowInv'
    OBVIOUS
  <1>1. CASE Start \/ Stop
    BY <1>1, ProcessRow
  <1>2. CASE Tick
    BY <1>2, TickRow
  <1>3. CASE Deregister
    BY <1>3, DeregisterRow
  <1>4. CASE Register
    BY <1>4, RegisterReadRow, RegisterBumpRow, RegisterUpsertRow DEF Register
  <1>5. CASE BeatRead
    BY <1>5, BeatReadRow
  <1>6. CASE Serve
    <2>1. PICK b \in beats : BeatTouch(b) \/ BeatStatus(b) \/ BeatHost(b) \/ BeatDrain(b)
      BY <1>6 DEF Serve
    <2> QED BY <2>1, BeatTouchRow, BeatStatusRow, BeatHostRow, BeatDrainRow
  <1>7. CASE HealthScan
    BY <1>7, ScanRow
  <1>8. CASE UNCHANGED vars
    BY <1>8 DEF vars, RowInv, StampsInv, FormerInv, Given
  <1> QED BY <1>1, <1>2, <1>3, <1>4, <1>5, <1>6, <1>7, <1>8 DEF Next

(* In every reachable state of the worker's row (health.rs, the heartbeat  *)
(* and the registration handlers) the stamps in the row and in the copies  *)
(* were given, and a former process is not newer than its row.             *)
THEOREM RowInvariance == Spec => []RowInv
  <1>1. Init => RowInv
    BY InitRow
  <1>2. RowInv /\ [Next]_vars => RowInv'
    BY NextRow
  <1> QED BY <1>1, <1>2, PTL DEF Spec

-------------------------------------------------------------------------------
(* The properties.                                                         *)

(* The incarnation of a registered worker never goes back, whichever stale *)
(* copies the heartbeat, the scan and the registration write.              *)
THEOREM IncarnationsGrow == Spec => IncarnationNeverBack
  <1> DEFINE Grows == row.here /\ row'.here /\ row.id = row'.id => row'.inc >= row.inc
  <1>1. RowInv /\ [Next]_vars => [Grows]_vars
    <2> SUFFICES ASSUME RowInv, Next PROVE Grows
      OBVIOUS
    <2>1. row \in Copy /\ stamp \in Nat /\ row.inc <= stamp
      BY DEF RowInv, StampsInv, Given
    <2>2. row.inc \in Nat
      BY <2>1 DEF Copy
    <2>3. CASE UNCHANGED row
      BY <2>2, <2>3
    <2>4. CASE Tick
      <3>1. row' = Aged(row) /\ Given(row)
        BY <2>4 DEF Tick, RowInv, StampsInv
      <3> QED BY <2>2, <3>1, AgedGiven
    <2>5. CASE Deregister
      BY <2>5 DEF Deregister, Absent
    <2>6. CASE RegisterBump
      BY <2>1, <2>2, <2>6 DEF RegisterBump, Copy
    <2>7. CASE RegisterUpsert
      BY <2>2, <2>7, RegisterUpsertRow
    <2>8. ASSUME NEW b \in beats, BeatTouch(b)
          PROVE  Grows
      BY <2>1, <2>2, <2>8 DEF BeatTouch, Copy
    <2>9. ASSUME NEW b \in beats, NEW status \in Status,
                 row' = Upsert([b.copy EXCEPT !.status = status])
          PROVE  Grows
      BY <2>2, <2>9, BeatWrites
    <2>10. CASE ScanOffline
      <3> DEFINE copy == [scan.copy EXCEPT !.status = "offline"]
      <3>1. row' = Upsert(copy) /\ Given(scan.copy) /\ scan.copy.here /\ Given(row)
        BY <2>10 DEF ScanOffline, RowInv, StampsInv
      <3>2. copy \in Copy /\ copy.here /\ copy.id > 0 /\ copy.id <= stamp /\ copy.inc <= stamp
        BY <3>1 DEF Given, Copy, Status
      <3> HIDE DEF copy
      <3>3. row.here => row'.inc = row.inc
        BY <2>1, <3>1, <3>2, UpsertGiven
      <3> QED BY <2>2, <3>3
    <2>11. CASE Serve
      <3>1. PICK b \in beats : BeatTouch(b) \/ BeatStatus(b) \/ BeatHost(b) \/ BeatDrain(b)
        BY <2>11 DEF Serve
      <3>2. CASE BeatStatus(b)
        <4>1. Reported(b) \in Status
          BY DEF Reported, Status
        <4> QED BY <2>3, <2>9, <3>2, <4>1 DEF BeatStatus
      <3>3. CASE BeatDrain(b)
        <4>1. "draining" \in Status
          BY DEF Status
        <4> QED BY <2>3, <2>9, <3>3, <4>1 DEF BeatDrain
      <3>4. CASE BeatHost(b)
        BY <2>3, <3>4 DEF BeatHost
      <3> QED BY <2>8, <3>1, <3>2, <3>3, <3>4
    <2>12. CASE Start \/ Stop \/ RegisterRead \/ BeatRead \/ ScanRead \/ ScanHost \/ ScanHostWrite
      BY <2>3, <2>12 DEF Start, Stop, RegisterRead, BeatRead, ScanRead, ScanHost, ScanHostWrite
    <2> QED BY <2>4, <2>5, <2>6, <2>7, <2>10, <2>11, <2>12 DEF Next, Register, HealthScan
  <1> QED BY <1>1, RowInvariance, PTL DEF Spec, IncarnationNeverBack

(* The reconciler's restart test: whatever a process that runs under the   *)
(* id of an earlier one was given, the row's incarnation is newer than     *)
(* what the earlier one had.                                               *)
THEOREM RestartsShow == Spec => []RestartIsNoticed
  <1>1. RowInv => RestartIsNoticed
    <2> SUFFICES ASSUME RowInv, proc = "up", row.here, row.id = mine, former.id = mine
                 PROVE  row.inc > former.inc
      BY DEF RestartIsNoticed
    <2>1. former.id # 0
      BY DEF RowInv, StampsInv, Given, Copy
    <2> QED BY <2>1 DEF RowInv, FormerInv
  <1> QED BY <1>1, RowInvariance, PTL

-------------------------------------------------------------------------------
(* The types.                                                              *)

LEMMA UpsertTyped ==
    ASSUME row \in Row, NEW copy \in Row, copy.here
    PROVE  /\ Upsert(copy) \in Row
           /\ row.here => Upsert(copy).here /\ Upsert(copy).id = row.id
  <1>1. [copy EXCEPT !.here = TRUE] \in Row /\ [copy EXCEPT !.inc = row.inc] \in Row
    BY DEF Row
  <1>2. [copy EXCEPT !.inc = row.inc].id = copy.id /\ [copy EXCEPT !.inc = row.inc].here = copy.here
    BY DEF Row
  <1> QED BY <1>1, <1>2 DEF Upsert

LEMMA AgedTyped ==
    ASSUME NEW copy \in Row
    PROVE  /\ Aged(copy) \in Row /\ Aged(copy).here = copy.here /\ Aged(copy).id = copy.id
  <1>1. Older(copy.age) \in Age
    BY WorkerRowsAssumption DEF Older, Age, Row
  <1> QED BY <1>1 DEF Aged, Row


LEMMA RowTyped ==
    ASSUME TypeOK, NEW newRow, newRow \in Row, row.here => newRow.here /\ newRow.id = row.id,
           row' = newRow, UNCHANGED <<host, former>>, stamp' \in Nat, mine' \in Nat,
           proc' \in {"down", "joining", "up"}, mode' \in Modes, quiet' \in Age,
           beats' \subseteq Beat, enrol' \in Enrol, scan' \in Scan
    PROVE  TypeOK'
  BY DEF TypeOK

LEMMA OnwardTyped ==
    ASSUME TypeOK, NEW b \in beats, NEW s \in {"touch", "status", "host", "drain"},
           Onward(b, s) \/ Done(b)
    PROVE  beats' \subseteq Beat
  <1>1. b \in Beat
    BY DEF TypeOK
  <1>2. [b EXCEPT !.stage = s] \in Beat
    BY <1>1 DEF Beat
  <1> QED BY <1>2 DEF TypeOK, Onward, Done

LEMMA BeatTyped ==
    ASSUME TypeOK, RowInv, NEW b \in beats,
           BeatTouch(b) \/ BeatStatus(b) \/ BeatHost(b) \/ BeatDrain(b)
    PROVE  TypeOK'
  <1>1. b \in Beat /\ b.copy \in Row /\ b.copy.here /\ row \in Row
    BY DEF TypeOK, Beat, RowInv, StampsInv
  <1>2. beats' \subseteq Beat
    BY OnwardTyped DEF BeatTouch, BeatStatus, BeatHost, BeatDrain
  <1>3. CASE BeatTouch(b)
    <2>1. [row EXCEPT !.age = 0] \in Row /\ 0 \in Age
      BY <1>1, WorkerRowsAssumption DEF Row, Age
    <2>2. [row EXCEPT !.age = 0].here = row.here /\ [row EXCEPT !.age = 0].id = row.id
      BY <1>1 DEF Row
    <2> QED BY <1>1, <1>2, <1>3, <2>1, <2>2, RowTyped DEF BeatTouch, TypeOK
  <1>4. ASSUME NEW s \in Status, row' = Upsert([b.copy EXCEPT !.status = s]),
               UNCHANGED <<host, proc, mode, mine, enrol, scan, stamp, quiet, former>>
        PROVE  TypeOK'
    <2> PICK copy : copy = [b.copy EXCEPT !.status = s]
      OBVIOUS
    <2>1. copy \in Row /\ copy.here
      BY <1>1 DEF Row
    <2>2. /\ Upsert(copy) \in Row
          /\ row.here => Upsert(copy).here /\ Upsert(copy).id = row.id
      BY <1>1, <2>1, UpsertTyped
    <2> QED BY <1>2, <1>4, <2>2, RowTyped DEF TypeOK
  <1>5. CASE BeatStatus(b)
    <2>1. Reported(b) \in Status
      BY DEF Reported, Status
    <2>2. CASE row' = row
      BY <1>2, <1>5, <2>2 DEF BeatStatus, TypeOK
    <2> QED BY <1>4, <1>5, <2>1, <2>2 DEF BeatStatus
  <1>6. CASE BeatDrain(b)
    <2>1. "draining" \in Status
      BY DEF Status
    <2>2. CASE row' = row
      BY <1>2, <1>6, <2>2 DEF BeatDrain, TypeOK
    <2> QED BY <1>4, <1>6, <2>1, <2>2 DEF BeatDrain
  <1>7. CASE BeatHost(b)
    <2>1. host' \in Host /\ (host'.worker # 0 => row.here /\ row.id = host'.worker)
      BY <1>1, <1>7 DEF BeatHost, TypeOK, Host, Row
    <2> QED BY <1>2, <1>7, <2>1 DEF BeatHost, TypeOK
  <1> QED BY <1>3, <1>5, <1>6, <1>7

LEMMA RegisterTyped ==
    ASSUME TypeOK, RowInv, Register
    PROVE  TypeOK'
  <1>1. /\ row \in Row /\ enrol \in Enrol /\ enrol.copy \in Row /\ stamp \in Nat
        /\ Absent \in Row /\ mode \in Modes
    BY WorkerRowsAssumption DEF TypeOK, Enrol, Absent, Row, Modes, Status, Age
  <1>2. CASE RegisterRead
    BY <1>1, <1>2 DEF RegisterRead, TypeOK, Enrol
  <1>3. CASE RegisterBump
    <2>1. enrol' \in Enrol
      BY <1>1, <1>3 DEF RegisterBump, Enrol
    <2>2. CASE row' = row /\ stamp' = stamp
      BY <1>3, <2>1, <2>2 DEF RegisterBump, TypeOK
    <2>3. CASE stamp' = stamp + 1 /\ row' = [row EXCEPT !.inc = stamp + 1]
      <3> PICK newRow : newRow = [row EXCEPT !.inc = stamp + 1]
        OBVIOUS
      <3>1. newRow \in Row /\ newRow.here = row.here /\ newRow.id = row.id
        BY <1>1 DEF Row
      <3> QED BY <1>1, <1>3, <2>1, <2>3, <3>1, RowTyped DEF RegisterBump, TypeOK
    <2> QED BY <1>3, <2>2, <2>3 DEF RegisterBump
  <1>4. CASE RegisterUpsert
    <2> DEFINE found == enrol.copy.here
               n == IF found THEN stamp ELSE stamp + 1
               new == [here |-> TRUE, mode |-> mode, status |-> "online", age |-> 0,
                       id  |-> IF found THEN enrol.copy.id ELSE n,
                       inc |-> IF found THEN enrol.copy.inc ELSE n]
    <2>1. n \in Nat /\ new \in Row /\ new.here /\ 0 \in Age
      BY <1>1, WorkerRowsAssumption DEF Row, Status, Age
    <2>2. /\ row' = Upsert(new)
          /\ \/ proc' = "up" /\ mine' = new.id /\ quiet' = 0 /\ stamp' = n
             \/ UNCHANGED <<proc, mine, quiet, stamp>>
          /\ enrol' = [stage |-> "none", copy |-> Absent]
          /\ UNCHANGED <<host, mode, beats, scan, former>>
      BY <1>4 DEF RegisterUpsert
    <2>3. new.id \in Nat
      BY <2>1 DEF Row
    <2> HIDE DEF found, n, new
    <2>4. enrol' \in Enrol
      BY <1>1, <2>2 DEF Enrol
    <2>5. /\ Upsert(new) \in Row
          /\ row.here => Upsert(new).here /\ Upsert(new).id = row.id
      BY <1>1, <2>1, UpsertTyped
    <2> QED BY <2>1, <2>2, <2>3, <2>4, <2>5, RowTyped DEF TypeOK
  <1> QED BY <1>2, <1>3, <1>4 DEF Register

LEMMA ScanTyped ==
    ASSUME TypeOK, RowInv, HealthScan
    PROVE  TypeOK'
  <1>1. /\ row \in Row /\ scan \in Scan /\ scan.copy \in Row /\ host \in Host
        /\ Absent \in Row
    BY WorkerRowsAssumption DEF TypeOK, Scan, Absent, Row, Modes, Status, Age
  <1>2. CASE ScanRead
    BY <1>1, <1>2 DEF ScanRead, TypeOK, Scan
  <1>3. CASE ScanOffline
    <2> PICK copy : copy = [scan.copy EXCEPT !.status = "offline"]
      OBVIOUS
    <2>1. copy \in Row /\ copy.here
      BY <1>1, <1>3 DEF ScanOffline, RowInv, StampsInv, Row, Status
    <2>2. /\ Upsert(copy) \in Row
          /\ row.here => Upsert(copy).here /\ Upsert(copy).id = row.id
      BY <1>1, <2>1, UpsertTyped
    <2>3. scan' \in Scan
      BY <1>1, <1>3 DEF ScanOffline, Scan
    <2> QED BY <1>3, <2>2, <2>3, RowTyped DEF ScanOffline, TypeOK
  <1>4. CASE ScanHost
    <2>1. scan' \in Scan
      BY <1>1, <1>4 DEF ScanHost, Scan
    <2> QED BY <1>4, <2>1 DEF ScanHost, TypeOK
  <1>5. CASE ScanHostWrite
    <2>1. scan' \in Scan
      BY <1>1, <1>5 DEF ScanHostWrite, Scan
    <2>2. host' \in Host /\ (host'.worker # 0 => row.here /\ row.id = host'.worker)
      BY <1>1, <1>5 DEF ScanHostWrite, TypeOK, Host, Row
    <2> QED BY <1>5, <2>1, <2>2 DEF ScanHostWrite, TypeOK
  <1> QED BY <1>2, <1>3, <1>4, <1>5 DEF HealthScan

LEMMA TickTyped ==
    ASSUME TypeOK, Tick
    PROVE  TypeOK'
  <1>1. /\ row \in Row /\ scan \in Scan /\ scan.copy \in Row /\ quiet \in Age
        /\ beats \subseteq Beat
    BY DEF TypeOK, Scan
  <1>2. Aged(row) \in Row /\ Aged(row).here = row.here /\ Aged(row).id = row.id
    BY <1>1, AgedTyped
  <1>3. beats' \subseteq Beat
    <2> SUFFICES ASSUME NEW c \in beats' PROVE c \in Beat
      OBVIOUS
    <2>1. PICK b \in beats : c = [b EXCEPT !.life = @ + 1, !.copy = Aged(@)]
      BY Zenon DEF Tick
    <2>2. b \in Beat /\ b.copy \in Row /\ b.life \in Age /\ b.life < Grace
      BY <1>1 DEF Tick, Beat
    <2>3. Aged(b.copy) \in Row /\ b.life + 1 \in Age
      BY <2>2, AgedTyped, WorkerRowsAssumption DEF Age
    <2> PICK life \in Age : life = b.life + 1
      BY <2>3
    <2> PICK copy \in Row : copy = Aged(b.copy)
      BY <2>3
    <2>4. c = [b EXCEPT !.life = life, !.copy = copy]
      <3>1. [b EXCEPT !.life = life].copy = b.copy
        BY <2>2 DEF Beat
      <3> QED BY <2>1, <3>1
    <2> QED BY <2>2, <2>4 DEF Beat
  <1>4. Aged(scan.copy) \in Row /\ scan' = [scan EXCEPT !.copy = Aged(scan.copy)]
    BY <1>1, AgedTyped DEF Tick
  <1>5. scan' \in Scan
    BY <1>1, <1>4 DEF Scan
  <1>6. quiet' \in Age
    <2>1. quiet' = Older(quiet)
      BY DEF Tick
    <2> QED BY <1>1, <2>1, WorkerRowsAssumption DEF Older, Age
  <1> QED BY <1>2, <1>3, <1>5, <1>6, RowTyped DEF Tick, TypeOK

(* Every reachable state of the worker's row, its host's row and their     *)
(* handlers is well typed: no handler outlives the grace period, and the   *)
(* host's row names no worker but the one that is there.                   *)
THEOREM RowTypes == Spec => []TypeOK
  <1>1. Init => TypeOK
    BY WorkerRowsAssumption DEF Init, TypeOK, Row, Host, Beat, Enrol, Scan, Absent, Modes, Status, Age
  <1>2. TypeOK /\ RowInv /\ [Next]_vars => TypeOK'
    <2> SUFFICES ASSUME TypeOK, RowInv, [Next]_vars PROVE TypeOK'
      OBVIOUS
    <2>1. CASE Start \/ UNCHANGED vars
      BY <2>1 DEF Start, vars, TypeOK
    <2>2. CASE Stop
      <3>1. former' \in [id : Nat, inc : Nat]
        BY <2>2 DEF Stop, TypeOK, Row
      <3> QED BY <2>2, <3>1 DEF Stop, TypeOK
    <2>3. CASE Tick
      BY <2>3, TickTyped
    <2>4. CASE Deregister
      <3>1. Absent \in Row /\ host' \in Host /\ host'.worker = 0
        BY <2>4, WorkerRowsAssumption DEF Deregister, TypeOK, Host, Absent, Row, Modes, Status, Age
      <3> QED BY <2>4, <3>1 DEF Deregister, TypeOK
    <2>5. CASE Register
      BY <2>5, RegisterTyped
    <2>6. CASE BeatRead
      <3>1. 0 \in Age /\ Healths \subseteq BOOLEAN /\ Loads \subseteq BOOLEAN
        BY WorkerRowsAssumption DEF Age
      <3>2. beats' \subseteq Beat
        BY <2>6, <3>1 DEF BeatRead, TypeOK, Beat
      <3> QED BY <2>6, <3>2 DEF BeatRead, TypeOK
    <2>7. CASE Serve
      BY <2>7, BeatTyped DEF Serve
    <2>8. CASE HealthScan
      BY <2>8, ScanTyped
    <2> QED BY <2>1, <2>2, <2>3, <2>4, <2>5, <2>6, <2>7, <2>8 DEF Next
  <1> QED BY <1>1, <1>2, RowInvariance, PTL DEF Spec
=============================================================================
