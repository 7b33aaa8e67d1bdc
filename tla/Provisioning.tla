------------------------------ MODULE Provisioning ------------------------------
(***************************************************************************)
(* Provisioning a host: the playbook that is run against it, step by step  *)
(* over SSH, and run again when it failed; the files and the service it    *)
(* leaves there; and the enrolment (module Enrolment) one of its steps     *)
(* asks for.  Hosts may also be joined by hand.  A worker has the name of  *)
(* its host.                                                               *)
(***************************************************************************)
EXTENDS Enrolment, Sequences

CONSTANTS Inventory,    \* hosts the playbook is run against
          HandToken,    \* tokens issued to people, for several uses
          HandRequest,  \* join requests made by hand
          MaxUpsets     \* bound: failures, and acts of administrators

ASSUME ProvisioningAssumption ==
    /\ Inventory \subseteq Name /\ HandToken \subseteq Token
    /\ HandRequest \subseteq Worker /\ MaxUpsets \in Nat

VARIABLES
    toml,     \* /etc/fleet/worker.toml of each host
    service,  \* the worker.toml its fleet-worker was started with
    ran,      \* the remote commands that were carried out on a host
    run,      \* the playbook run of each host
    replaced, \* history: hosts whose toml a join wrote behind the [mtls] step of a run
    upsets    \* how many failures and acts of administrators there were

remote == <<toml, service, ran, replaced>>
vars == <<enrolmentVars, remote, run, upsets>>

Nothing == [cred |-> None, gen |-> 0, mtls |-> FALSE]   \* no file, no service

(* The standard playbook, and the commands of each step whose failure      *)
(* stops it.  check_prereqs only looks, and install_grok is one more step  *)
(* like install_deps; both are left out.                                   *)
Play == <<"install_deps", "install_fleet_worker",
          "issue_mtls_assets", "join_worker", "configure_mtls",
          "push_credentials", "start_services">>

Commands ==
    [install_deps         |-> <<"packages">>,
     install_fleet_worker |-> <<"upload", "unit", "reload">>,
     issue_mtls_assets    |-> <<"certs", "certs_mode">>,
     join_worker          |-> <<"mint", "join", "toml_mode">>,
     configure_mtls       |-> <<"read", "section", "section_mode">>,
     push_credentials     |-> <<"push">>,
     start_services       |-> <<"reload", "enable", "restart", "wait">>]

Step(h) == Play[run[h].step]
Command(h) == Commands[Step(h)][run[h].at]

(* Mutant: whether the service runs with it, not whether the file is there.*)
HasJoinedAndRuns(h) == service[h].cred # None

(* A join wrote the configuration.                                         *)
HasJoined(h) == toml[h].cred # None

(* What is_applied of the step looks for on the host.                      *)
IsApplied(h) ==
    CASE Step(h) = "push_credentials" -> FALSE
      [] Step(h) = "install_deps" -> "packages" \in ran[h]
      [] Step(h) = "install_fleet_worker" -> {"upload", "unit"} \subseteq ran[h]
      [] Step(h) = "issue_mtls_assets" -> "certs" \in ran[h]
      [] Step(h) = "join_worker" -> HasJoined(h)
      [] Step(h) = "configure_mtls" -> toml[h].mtls
      [] Step(h) = "start_services" -> service[h] # Nothing

(* A run that is not going on keeps nothing.                               *)
Over(stage, mtls) == [stage |-> stage, step |-> 1, at |-> 1, mtls |-> mtls,
                      token |-> None, worker |-> None, copy |-> Nothing]
Failed == Over("failed", FALSE)

ProvisioningInit ==
    /\ Init
    /\ toml = [h \in Name |-> Nothing]
    /\ service = [h \in Name |-> Nothing]
    /\ ran = [h \in Name |-> {}]
    /\ run = [h \in Inventory |-> Over("idle", FALSE)]
    /\ replaced = {} /\ upsets = 0

-----------------------------------------------------------------------------
(* Where a run goes on.                                                    *)

ToNextStep(r) ==
    IF r.step = Len(Play) THEN Over("succeeded", r.mtls)
    ELSE [r EXCEPT !.stage = "probe", !.step = @ + 1, !.at = 1]

AfterCommand(r) ==
    IF r.at = Len(Commands[Play[r.step]]) THEN ToNextStep(r)
    ELSE [r EXCEPT !.stage = "run", !.at = @ + 1]

Go(h, r) == run' = [run EXCEPT ![h] = r]

(* `fleet provision` is started, the first time or again; mTLS is an       *)
(* option of each run.                                                     *)
Begin(h) ==
    /\ run[h].stage \in {"idle", "failed", "succeeded"}
    /\ \E mtls \in BOOLEAN : Go(h, Over("probe", mtls))
    /\ replaced' = replaced \ {h}
    /\ UNCHANGED <<enrolmentVars, toml, service, ran, upsets>>

(* is_applied first; and without mTLS its two steps do nothing.            *)
Probe(h) ==
    /\ run[h].stage = "probe"
    /\ Go(h, IF \/ IsApplied(h)
                \/ Step(h) \in {"issue_mtls_assets", "configure_mtls"} /\ ~run[h].mtls
             THEN ToNextStep(run[h])
             ELSE [run[h] EXCEPT !.stage = "run"])
    /\ UNCHANGED <<enrolmentVars, remote, upsets>>

Running(h, c) == run[h].stage = "run" /\ Command(h) = c

(* A command that only leaves its mark on the host.                        *)
Execute(h) ==
    /\ run[h].stage = "run"
    /\ Command(h) \notin {"mint", "join", "read", "section", "enable", "restart", "wait"}
    /\ ran' = [ran EXCEPT ![h] = @ \cup {Command(h)}]
    /\ Go(h, AfterCommand(run[h]))
    /\ UNCHANGED <<enrolmentVars, toml, service, replaced, upsets>>

(* New tokens and new worker ids are drawn at random; which is no matter.  *)
NewTokens == {t \in Token \ HandToken : tokens[t].state = "unissued"}
NewToken == CHOOSE t \in NewTokens : TRUE
NewIds == {w \in Worker \ HandRequest : join[w].stage = "idle"}
NewId == CHOOSE w \in NewIds : TRUE

(* A token of one use, for this host only.                                 *)
Mint(h) ==
    /\ Running(h, "mint") /\ NewTokens # {}
    /\ Issue(NewToken, 1)
    /\ Go(h, [AfterCommand(run[h]) EXCEPT !.token = NewToken])
    /\ UNCHANGED <<remote, upsets>>

(* Bound: with every token drawn, a run that needs one more ends here, as  *)
(* it would at the join if the name is still taken; it is run again.       *)
TokensDrawn(h) ==
    /\ Running(h, "mint") /\ NewTokens = {}
    /\ Go(h, Failed)
    /\ UNCHANGED <<enrolmentVars, remote, upsets>>

(* fleet-worker join is started on the host; it goes on by itself when the *)
(* SSH session breaks.                                                     *)
StartJoin(h) ==
    /\ Running(h, "join") /\ NewIds # {}
    /\ Ask(NewId, run[h].token, h)
    /\ Go(h, [run[h] EXCEPT !.stage = "joining", !.worker = NewId])
    /\ UNCHANGED <<remote, upsets>>

Joined(h) == [AfterCommand(run[h]) EXCEPT !.token = None, !.worker = None]

JoinEnds(h) ==
    /\ run[h].stage = "joining"
    /\ LET s == join[run[h].worker].stage IN
          \/ s = "answered" /\ Go(h, Joined(h))
          \/ s \in {"failed", "lost"} /\ Go(h, Failed)
    /\ UNCHANGED <<enrolmentVars, remote, upsets>>

(* configure_mtls reads the file and insists that a join wrote it.         *)
ReadConfig(h) ==
    /\ Running(h, "read")
    /\ Go(h, IF toml[h].cred = None THEN Failed
             ELSE [AfterCommand(run[h]) EXCEPT !.copy = toml[h]])
    /\ UNCHANGED <<enrolmentVars, remote, upsets>>

(* Mutant: the file is moved in place without the section.                 *)
AppendNothing(h) ==
    /\ Running(h, "section")
    /\ toml' = [toml EXCEPT ![h] = run[h].copy]
    /\ Go(h, [AfterCommand(run[h]) EXCEPT !.copy = Nothing])
    /\ UNCHANGED <<enrolmentVars, service, ran, replaced, upsets>>

(* Then it moves a longer one in its place, with the [mtls] section.       *)
AppendSection(h) ==
    /\ Running(h, "section")
    /\ toml' = [toml EXCEPT ![h] = [run[h].copy EXCEPT !.mtls = TRUE]]
    /\ Go(h, [AfterCommand(run[h]) EXCEPT !.copy = Nothing])
    /\ UNCHANGED <<enrolmentVars, service, ran, replaced, upsets>>

(* enable --now starts a unit that is not active, and only such a one gets *)
(* here; restart starts any.                                               *)
StartUnit(h) ==
    /\ run[h].stage = "run" /\ Command(h) \in {"enable", "restart"}
    /\ service' = [service EXCEPT ![h] = toml[h]]
    /\ Go(h, AfterCommand(run[h]))
    /\ UNCHANGED <<enrolmentVars, toml, ran, replaced, upsets>>

(* The control plane lists the name as online, or does not until the time  *)
(* is over.  A run without an API token, which would skip this, did not    *)
(* get here: push_credentials, one step before, refuses to run without.    *)
Wait(h) ==
    /\ Running(h, "wait")
    /\ Go(h, IF workers[h] # None /\ status[h] # "offline"
             THEN AfterCommand(run[h]) ELSE Failed)
    /\ UNCHANGED <<enrolmentVars, remote, upsets>>

-----------------------------------------------------------------------------
(* What goes wrong, each time it does.                                     *)

Upset == upsets < MaxUpsets /\ upsets' = upsets + 1

(* A probe or a command fails, or the session breaks: the run stops there, *)
(* whatever it started on the host.                                        *)
RunBreaks(h) ==
    /\ run[h].stage \in {"probe", "run", "joining"}
    /\ Go(h, Failed)
    /\ Upset /\ UNCHANGED <<enrolmentVars, remote>>

(* The token was stored and its answer lost, or its audit entry failed and *)
(* so did taking it back.                                                  *)
MintBreaks(h) ==
    /\ Running(h, "mint")
    /\ NewTokens # {} /\ Issue(NewToken, 1)
    /\ Go(h, Failed)
    /\ Upset /\ UNCHANGED remote

RequestBreaks(w) == (Abort(w) \/ Lose(w)) /\ Upset /\ UNCHANGED <<remote, run>>

TokenGoes(t) == (Expire(t) \/ RevokeToken(t)) /\ Upset /\ UNCHANGED <<remote, run>>

-----------------------------------------------------------------------------
(* The control plane, and what of it reaches the hosts.                    *)

HandleRequest(w) == Handle(w) /\ UNCHANGED <<remote, run, upsets>>

(* The run is beyond the command that writes the [mtls] section.           *)
Secured(r) ==
    /\ r.stage \in {"probe", "run", "joining"}
    /\ r.step > 5 \/ (r.step = 5 /\ r.at > 2)

(* The answer carries the configuration, and join replaces the file in one *)
(* rename.                                                                 *)
Deliver(w) ==
    /\ Answer(w)
    /\ toml' = [toml EXCEPT ![join[w].name] = [cred |-> w, gen |-> 1, mtls |-> FALSE]]
    /\ replaced' = replaced \cup {h \in Inventory : h = join[w].name /\ Secured(run[h])}
    /\ UNCHANGED <<service, ran, run, upsets>>

JoinByHand ==
    /\ \/ \E t \in HandToken, m \in 1..MaxUses : Issue(t, m)
       \/ \E w \in HandRequest, t \in HandToken, h \in Name :
             tokens[t].state # "unissued" /\ Ask(w, t, h)
    /\ UNCHANGED <<remote, run, upsets>>

Manage ==
    /\ \/ \E h \in Name : Deregister(h)
       \/ \E w \in Worker : RotateCredential(w) \/ RevokeCredential(w)
    /\ Upset /\ UNCHANGED <<remote, run>>

HealthScan == (\E h \in Name : MarkOffline(h)) /\ UNCHANGED <<remote, run, upsets>>

RegisterFinds(h) ==
    /\ service[h].cred # None /\ FindRow(service[h].cred, service[h].gen)
    /\ UNCHANGED <<remote, run, upsets>>

RegisterWrites(h) ==
    /\ service[h].cred # None /\ WriteRow(service[h].cred)
    /\ UNCHANGED <<remote, run, upsets>>

-----------------------------------------------------------------------------
Proceed(h) ==
    \/ Probe(h) \/ Execute(h) \/ Mint(h) \/ TokensDrawn(h) \/ StartJoin(h) \/ JoinEnds(h)
    \/ ReadConfig(h) \/ AppendSection(h) \/ StartUnit(h) \/ Wait(h)

ProvisioningNext ==
    \/ \E h \in Inventory : Begin(h) \/ Proceed(h) \/ RunBreaks(h) \/ MintBreaks(h)
    \/ \E w \in Worker : HandleRequest(w) \/ Deliver(w) \/ RequestBreaks(w)
    \/ \E t \in Token : TokenGoes(t)
    \/ JoinByHand \/ Manage \/ HealthScan
    \/ \E h \in Name : RegisterFinds(h) \/ RegisterWrites(h)

ProvisioningSpec == ProvisioningInit /\ [][ProvisioningNext]_vars

(* A run proceeds, a failed one is started again, and requests are served. *)
Fairness ==
    /\ \A h \in Inventory :
          /\ WF_vars(Proceed(h))
          /\ WF_vars(run[h].stage # "succeeded" /\ Begin(h))
    /\ \A w \in Worker : WF_vars(HandleRequest(w)) /\ WF_vars(Deliver(w))

FairSpec == ProvisioningSpec /\ Fairness

-----------------------------------------------------------------------------
ProvisioningTypeOK ==
    /\ TypeOK
    /\ toml \in [Name -> [cred : Worker \cup {None}, gen : Nat, mtls : BOOLEAN]]
    /\ service \in [Name -> [cred : Worker \cup {None}, gen : Nat, mtls : BOOLEAN]]
    /\ run \in [Inventory -> [stage : {"idle", "probe", "run", "joining", "succeeded", "failed"},
                              step : 1..Len(Play), at : 1..4, mtls : BOOLEAN,
                              token : Token \cup {None}, worker : Worker \cup {None},
                              copy : [cred : Worker \cup {None}, gen : Nat, mtls : BOOLEAN]]]
    /\ replaced \subseteq Inventory /\ upsets \in 0..MaxUpsets

(* A host is only ever configured as a worker the control plane did        *)
(* enrol, under the name of this host; so is the service that runs there.  *)
ConfiguredMeansEnrolled ==
    \A h \in Name : \A c \in {toml[h], service[h]} :
        c.cred # None => creds[c.cred].state # "none" /\ join[c.cred].name = h

(* A run that reports success leaves on its host what each step is there   *)
(* for: packages, binary, unit and credentials, the worker's configuration *)
(* and a started service; and if mTLS was asked for, the certificates and  *)
(* the [mtls] section, unless a join replaced the file behind that step.   *)
(* Of the chmods it says nothing: see RerunsFinishTheWork.                 *)
ReportsAreTrue ==
    [][\A h \in Inventory :
          run[h].stage # "succeeded" /\ run'[h].stage = "succeeded" =>
              /\ {"packages", "upload", "unit", "push"} \subseteq ran'[h]
              /\ toml'[h].cred # None /\ service'[h] # Nothing
              /\ run[h].mtls => "certs" \in ran'[h] /\ (toml'[h].mtls \/ h \in replaced')]_vars

(* The name of the host is held by an enrolment whose answer never came    *)
(* and never will.                                                         *)
TakenByTheLost(h) == workers[h] # None /\ join[workers[h]].stage = "lost"

(* Run again after each failure, the playbook gets there, unless the       *)
(* host's name stays taken by an enrolment whose answer was lost: a run    *)
(* that breaks while its join goes on is no excuse, nor a join by hand.    *)
ProvisionedOrTaken ==
    \A h \in Inventory : <>(run[h].stage = "succeeded") \/ <>[]TakenByTheLost(h)

-----------------------------------------------------------------------------
(* What the code or its documents say and the program does not keep.       *)

(* start_services is reported as applied when the worker has been heard.   *)
StartedMeansHeard ==
    [][\A h \in Inventory :
          Running(h, "wait") /\ run'[h].stage = "succeeded" => status[h] # "joined"]_vars

(* Applying a step again after a failure is safe: after a run that         *)
(* succeeds, worker.toml is readable by root only.                         *)
RerunsFinishTheWork ==
    \A h \in Inventory :
        run[h].stage = "succeeded" => {"toml_mode", "section_mode"} \cap ran[h] # {}

(* After a run that asked for mTLS, the worker runs with it.               *)
MtlsIsInForce ==
    \A h \in Inventory : run[h].stage = "succeeded" /\ run[h].mtls => service[h].mtls
=============================================================================
