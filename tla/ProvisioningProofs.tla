--------------------------- MODULE ProvisioningProofs ---------------------------
(***************************************************************************)
(* Theorems about the modules Enrolment and Provisioning, for any          *)
(* inventory, any sets of tokens, workers, requests and hosts, and any     *)
(* numbers of uses and rotations.  First enrolment alone, with its         *)
(* refinement of the ledger; then the playbook on top of it.               *)
(***************************************************************************)
EXTENDS Provisioning, TLAPS

USE EnrolmentAssumption

Open == {"consumed", "inserted"}
Enrolled == {"committed", "answered", "lost"}

(* A request that goes on names a token and a worker.                      *)
RequestInv ==
    \A w \in Worker :
        join[w].stage \notin {"idle", "failed"} => join[w].token \in Token /\ join[w].name \in Name

(* An open transaction holds a use of its token that is really left, and   *)
(* is alone with it.                                                       *)
TokenInv ==
    \A w \in Worker :
        join[w].stage \in Open =>
            /\ Usable(join[w].token)
            /\ \A v \in Worker :
                  join[v].stage \in Open /\ join[v].token = join[w].token => v = w

(* An inserted row is the only one of its name.                            *)
NameInv ==
    \A w \in Worker :
        join[w].stage = "inserted" =>
            /\ workers[join[w].name] = None
            /\ \A v \in Worker :
                  join[v].stage = "inserted" /\ join[v].name = join[w].name => v = w

(* A worker has a credential from its enrolment on, and while it has one,  *)
(* its row is there.                                                       *)
CredInv ==
    \A w \in Worker :
        /\ creds[w].state # "none" <=> join[w].stage \in Enrolled
        /\ creds[w].state \in {"active", "revoked"} => workers[join[w].name] = w

(* Rows, and registrations under way, are of workers that were enrolled.   *)
RowInv ==
    /\ \A n \in Name : workers[n] # None =>
          join[workers[n]].stage \in Enrolled /\ join[workers[n]].name = n
    /\ \A w \in found : join[w].stage \in Enrolled

(* The inductive invariant.                                                *)
EnrolmentInv == TypeOK /\ RequestInv /\ TokenInv /\ NameInv /\ CredInv /\ RowInv

-------------------------------------------------------------------------------
LEMMA InitHolds == Init => EnrolmentInv
  BY DEF Init, NoRequest, EnrolmentInv, TypeOK, Stage, RequestInv, TokenInv, NameInv,
         CredInv, RowInv, Open, Enrolled

(***************************************************************************)
(* A request that moves to a stage.                                        *)

Request == [stage : Stage, token : Token \cup {None}, name : Name \cup {None}, intime : BOOLEAN]

LEMMA Moved ==
    ASSUME TypeOK, NEW w \in Worker, NEW s \in Stage, ToStage(w, s)
    PROVE  /\ join' \in [Worker -> Request]
           /\ join'[w].stage = s
           /\ join'[w].token = join[w].token /\ join'[w].name = join[w].name
           /\ \A v \in Worker : v # w => join'[v] = join[v]
  BY DEF ToStage, TypeOK, Request

LEMMA HasFailed ==
    ASSUME TypeOK, NEW w \in Worker, Fail(w)
    PROVE  /\ join' \in [Worker -> Request]
           /\ join'[w].stage = "failed"
           /\ \A v \in Worker : v # w => join'[v] = join[v]
  BY DEF Fail, TypeOK, Request, NoRequest, Stage

(* A request that fails before its commit leaves the rest as it was.       *)
LEMMA FailurePreserves ==
    ASSUME EnrolmentInv, NEW w \in Worker, join[w].stage \notin Enrolled, Fail(w),
           UNCHANGED <<tables, status, found>>, expired' \subseteq Token
    PROVE  EnrolmentInv'
  <1>1. TypeOK /\ RequestInv /\ TokenInv /\ NameInv /\ CredInv /\ RowInv
    BY DEF EnrolmentInv
  <1>2. UNCHANGED <<tokens, workers, creds, status, found>>
    BY DEF tables
  <1>3. /\ join' \in [Worker -> Request]
        /\ join'[w].stage = "failed"
        /\ \A v \in Worker : v # w => join'[v] = join[v]
    BY <1>1, HasFailed
  <1>4. TypeOK'
    BY <1>1, <1>2, <1>3 DEF TypeOK, Request
  <1>5. RequestInv' /\ TokenInv' /\ NameInv'
    BY <1>1, <1>2, <1>3 DEF RequestInv, TokenInv, NameInv, Open, Usable
  <1>6. CredInv'
    BY <1>1, <1>2, <1>3 DEF CredInv, Enrolled
  <1>7. RowInv'
    <2>1. \A n \in Name : workers[n] # None => workers[n] \in Worker \ {w}
      BY <1>1 DEF TypeOK, RowInv
    <2>2. found \subseteq Worker \ {w}
      BY <1>1 DEF TypeOK, RowInv
    <2> QED BY <1>1, <1>2, <1>3, <2>1, <2>2 DEF RowInv
  <1> QED BY <1>4, <1>5, <1>6, <1>7 DEF EnrolmentInv

-------------------------------------------------------------------------------
(* Tokens.                                                                 *)

LEMMA TokensPreserve ==
    ASSUME EnrolmentInv, NEW t \in Token,
           (\E m \in 1..MaxUses : Issue(t, m)) \/ RevokeToken(t) \/ Expire(t)
    PROVE  EnrolmentInv'
  <1>1. TypeOK /\ RequestInv /\ TokenInv /\ NameInv /\ CredInv /\ RowInv
    BY DEF EnrolmentInv
  <1>2. UNCHANGED <<workers, status, creds, join, found>>
    BY DEF Issue, RevokeToken, Expire, tables
  <1>3. \A u \in Token : u # t => tokens'[u] = tokens[u]
    BY <1>1 DEF Issue, RevokeToken, Expire, tables, TypeOK
  <1>4. tokens[t] = tokens'[t] \/ tokens[t].state = "unissued" \/ ~TokenLocked(t)
    BY DEF Issue, RevokeToken, Expire, tables
  <1>5. TypeOK'
    <2>1. CASE \E m \in 1..MaxUses : Issue(t, m)
      BY <1>1, <1>2, <2>1 DEF Issue, TypeOK
    <2>2. CASE RevokeToken(t)
      BY <1>1, <1>2, <2>2 DEF RevokeToken, TypeOK
    <2>3. CASE Expire(t)
      BY <1>1, <1>2, <2>3 DEF Expire, tables, TypeOK
    <2> QED BY <2>1, <2>2, <2>3
  <1>6. TokenInv'
    <2> SUFFICES ASSUME NEW w \in Worker, join[w].stage \in Open
                 PROVE  Usable(join[w].token)'
      BY <1>1, <1>2 DEF TokenInv
    <2>1. join[w].token \in Token /\ Usable(join[w].token) /\ TokenLocked(join[w].token)
      BY <1>1 DEF RequestInv, TokenInv, TokenLocked, Open
    <2> QED BY <1>2, <1>3, <1>4, <2>1 DEF Usable
  <1>7. RequestInv' /\ NameInv' /\ CredInv' /\ RowInv'
    BY <1>1, <1>2 DEF RequestInv, NameInv, CredInv, RowInv
  <1> QED BY <1>5, <1>6, <1>7 DEF EnrolmentInv

-------------------------------------------------------------------------------
(* A join request.                                                         *)

LEMMA AskPreserves ==
    ASSUME EnrolmentInv, NEW w \in Worker, NEW t \in Token, NEW n \in Name, Ask(w, t, n)
    PROVE  EnrolmentInv'
  <1>1. TypeOK /\ RequestInv /\ TokenInv /\ NameInv /\ CredInv /\ RowInv
    BY DEF EnrolmentInv
  <1>2. UNCHANGED <<tokens, workers, creds, expired, status, found>>
    BY DEF Ask, tables
  <1>3. CASE Fail(w)
    BY <1>1, <1>2, <1>3, FailurePreserves DEF Ask, TypeOK, Enrolled, tables
  <1>4. CASE join' = [join EXCEPT ![w] = [stage |-> "checked", token |-> t, name |-> n,
                                         intime |-> t \notin expired]]
    <2>1. /\ join' \in [Worker -> Request]
          /\ join'[w].stage = "checked" /\ join'[w].token = t /\ join'[w].name = n
          /\ \A v \in Worker : v # w => join'[v] = join[v]
      BY <1>1, <1>4 DEF TypeOK, Request, Stage
    <2>2. TypeOK'
      BY <1>1, <1>2, <2>1 DEF TypeOK, Request
    <2>3. RequestInv' /\ TokenInv' /\ NameInv'
      BY <1>1, <1>2, <2>1 DEF RequestInv, TokenInv, NameInv, Open, Usable
    <2>4. join[w].stage \notin Enrolled
      BY DEF Ask, Enrolled
    <2>5. CredInv'
      BY <1>1, <1>2, <2>1, <2>4 DEF CredInv, Enrolled
    <2>6. RowInv'
      <3>1. \A m \in Name : workers[m] # None => workers[m] \in Worker \ {w}
        BY <1>1, <2>4 DEF TypeOK, RowInv
      <3>2. found \subseteq Worker \ {w}
        BY <1>1, <2>4 DEF TypeOK, RowInv
      <3> QED BY <1>1, <1>2, <2>1, <3>1, <3>2 DEF RowInv
    <2> QED BY <2>2, <2>3, <2>5, <2>6 DEF EnrolmentInv
  <1> QED BY <1>3, <1>4 DEF Ask

(* A stage before the commit follows another.                              *)
LEMMA AdvancePreserves ==
    ASSUME EnrolmentInv, NEW w \in Worker, NEW s \in {"consumed", "inserted"}, ToStage(w, s),
           join[w].stage \in {"checked", "consumed"},
           Usable(join[w].token),
           \A v \in Worker : join[v].stage \in Open /\ join[v].token = join[w].token => v = w,
           s = "inserted" => workers[join[w].name] = None /\ ~NameLocked(join[w].name),
           UNCHANGED <<tables, expired, status, found>>
    PROVE  EnrolmentInv'
  <1>1. TypeOK /\ RequestInv /\ TokenInv /\ NameInv /\ CredInv /\ RowInv
    BY DEF EnrolmentInv
  <1>2. UNCHANGED <<tokens, workers, creds, expired, status, found>>
    BY DEF tables
  <1>3. /\ join' \in [Worker -> Request]
        /\ join'[w].stage = s
        /\ join'[w].token = join[w].token /\ join'[w].name = join[w].name
        /\ \A v \in Worker : v # w => join'[v] = join[v]
    BY <1>1, Moved DEF Stage
  <1>4. join[w].stage \notin Enrolled /\ s \notin Enrolled
    BY DEF Enrolled
  <1>5. TypeOK' /\ RequestInv'
    BY <1>1, <1>2, <1>3 DEF TypeOK, RequestInv, Request
  <1>6. TokenInv'
    BY <1>1, <1>2, <1>3 DEF TokenInv, Usable, Open
  <1>7. NameInv'
    BY <1>1, <1>2, <1>3 DEF NameInv, NameLocked
  <1>8. CredInv'
    BY <1>1, <1>2, <1>3, <1>4 DEF CredInv
  <1>9. RowInv'
    <2>1. \A m \in Name : workers[m] # None => workers[m] \in Worker \ {w}
      BY <1>1, <1>4 DEF TypeOK, RowInv
    <2>2. found \subseteq Worker \ {w}
      BY <1>1, <1>4 DEF TypeOK, RowInv
    <2> QED BY <1>1, <1>2, <1>3, <2>1, <2>2 DEF RowInv
  <1> QED BY <1>5, <1>6, <1>7, <1>8, <1>9 DEF EnrolmentInv

LEMMA ConsumePreserves ==
    ASSUME EnrolmentInv, NEW w \in Worker, Consume(w)
    PROVE  EnrolmentInv'
  <1>1. CASE Fail(w)
    BY <1>1, FailurePreserves DEF Consume, EnrolmentInv, TypeOK, Enrolled
  <1>2. CASE ToStage(w, "consumed") /\ Usable(join[w].token)
    BY <1>2, AdvancePreserves DEF Consume, TokenLocked, Open
  <1> QED BY <1>1, <1>2 DEF Consume

LEMMA InsertPreserves ==
    ASSUME EnrolmentInv, NEW w \in Worker, InsertWorker(w)
    PROVE  EnrolmentInv'
  <1>1. CASE Fail(w)
    BY <1>1, FailurePreserves DEF InsertWorker, EnrolmentInv, TypeOK, Enrolled
  <1>2. CASE ToStage(w, "inserted") /\ workers[join[w].name] = None
    <2>1. /\ Usable(join[w].token)
          /\ \A v \in Worker :
                join[v].stage \in Open /\ join[v].token = join[w].token => v = w
      BY DEF InsertWorker, EnrolmentInv, TokenInv, Open
    <2> QED BY <1>2, <2>1, AdvancePreserves DEF InsertWorker
  <1> QED BY <1>1, <1>2 DEF InsertWorker

LEMMA CommitPreserves ==
    ASSUME EnrolmentInv, NEW w \in Worker, Commit(w)
    PROVE  EnrolmentInv'
  <1> DEFINE t == join[w].token
             n == join[w].name
  <1>1. TypeOK /\ RequestInv /\ TokenInv /\ NameInv /\ CredInv /\ RowInv
    BY DEF EnrolmentInv
  <1>2. join[w].stage = "inserted" /\ t \in Token /\ n \in Name /\ workers[n] = None
    BY <1>1 DEF Commit, RequestInv, NameInv
  <1>3. /\ join' \in [Worker -> Request]
        /\ join'[w].stage = "committed" /\ join'[w].token = t /\ join'[w].name = n
        /\ \A v \in Worker : v # w => join'[v] = join[v]
    BY <1>1, Moved DEF Commit, Stage
  <1>4. /\ workers'[n] = w /\ \A m \in Name : m # n => workers'[m] = workers[m]
        /\ \A u \in Token : u # t => tokens'[u] = tokens[u]
        /\ creds'[w].state = "active" /\ \A v \in Worker : v # w => creds'[v] = creds[v]
        /\ UNCHANGED <<expired, found>>
    BY <1>1, <1>2 DEF Commit, TypeOK
  <1>5. TypeOK'
    BY <1>1, <1>2, <1>3 DEF Commit, TypeOK, Request
  <1>6. RequestInv'
    BY <1>1, <1>2, <1>3 DEF RequestInv
  <1>7. TokenInv'
    <2> SUFFICES ASSUME NEW v \in Worker, join'[v].stage \in Open
                 PROVE  /\ Usable(join[v].token)'
                        /\ \A u \in Worker :
                              join'[u].stage \in Open /\ join'[u].token = join'[v].token => u = v
      BY DEF TokenInv
    <2>1. v # w /\ join'[v] = join[v] /\ join[v].token \in Token
      BY <1>1, <1>3 DEF Open, RequestInv
    <2>2. join[v].token # t
      BY <1>1, <1>2, <2>1 DEF TokenInv, Open
    <2>3. tokens'[join[v].token] = tokens[join[v].token]
      BY <1>4, <2>1, <2>2
    <2> QED BY <1>1, <1>3, <2>1, <2>3 DEF TokenInv, Usable, Open
  <1>8. NameInv'
    <2> SUFFICES ASSUME NEW v \in Worker, join'[v].stage = "inserted"
                 PROVE  /\ workers'[join'[v].name] = None
                        /\ \A u \in Worker :
                              join'[u].stage = "inserted" /\ join'[u].name = join'[v].name => u = v
      BY DEF NameInv
    <2>1. v # w /\ join'[v] = join[v] /\ join[v].name \in Name
      BY <1>1, <1>3 DEF RequestInv
    <2>2. join[v].name # n
      BY <1>1, <1>2, <2>1 DEF NameInv
    <2> QED BY <1>1, <1>3, <1>4, <2>1, <2>2 DEF NameInv
  <1>9. CredInv'
    <2> SUFFICES ASSUME NEW v \in Worker
                 PROVE  /\ creds'[v].state # "none" <=> join'[v].stage \in Enrolled
                        /\ creds'[v].state \in {"active", "revoked"} => workers'[join'[v].name] = v
      BY DEF CredInv
    <2>1. CASE v = w
      BY <1>3, <1>4, <2>1 DEF Enrolled
    <2>2. CASE v # w
      <3>1. creds'[v] = creds[v] /\ join'[v] = join[v]
        BY <1>3, <1>4, <2>2
      <3>2. creds[v].state # "none" => join[v].name \in Name
        BY <1>1 DEF CredInv, RequestInv, Enrolled
      <3>3. creds[v].state \in {"active", "revoked"} => workers[join[v].name] = v /\ join[v].name # n
        BY <1>1, <1>2 DEF CredInv
      <3> QED BY <1>1, <1>4, <3>1, <3>2, <3>3 DEF CredInv
    <2> QED BY <2>1, <2>2
  <1>10. RowInv'
    <2>1. \A m \in Name : workers[m] # None => workers[m] \in Worker \ {w}
      BY <1>1, <1>2 DEF TypeOK, RowInv, Enrolled
    <2>2. found \subseteq Worker \ {w}
      BY <1>1, <1>2 DEF TypeOK, RowInv, Enrolled
    <2>3. join'[w].stage \in Enrolled
      BY <1>3 DEF Enrolled
    <2> QED BY <1>1, <1>2, <1>3, <1>4, <2>1, <2>2, <2>3 DEF RowInv
  <1> QED BY <1>5, <1>6, <1>7, <1>8, <1>9, <1>10 DEF EnrolmentInv

(* Nothing depends on who has heard of the commit.                         *)
LEMMA AnswerPreserves ==
    ASSUME EnrolmentInv, NEW w \in Worker, Answer(w) \/ Lose(w)
    PROVE  EnrolmentInv'
  <1>1. TypeOK /\ RequestInv /\ TokenInv /\ NameInv /\ CredInv /\ RowInv
    BY DEF EnrolmentInv
  <1>2. PICK s \in {"answered", "lost"} : ToStage(w, s)
    BY DEF Answer, Lose
  <1>3. join[w].stage = "committed" /\ UNCHANGED <<tokens, workers, creds, expired, status, found>>
    BY DEF Answer, Lose, tables
  <1>4. /\ join' \in [Worker -> Request]
        /\ join'[w].stage = s
        /\ join'[w].token = join[w].token /\ join'[w].name = join[w].name
        /\ \A v \in Worker : v # w => join'[v] = join[v]
    BY <1>1, <1>2, Moved DEF Stage
  <1>5. TypeOK' /\ RequestInv'
    BY <1>1, <1>3, <1>4 DEF TypeOK, RequestInv, Request
  <1>6. TokenInv' /\ NameInv'
    BY <1>1, <1>3, <1>4 DEF TokenInv, NameInv, Usable, Open
  <1>7. \A v \in Worker : /\ join'[v].stage \in Enrolled <=> join[v].stage \in Enrolled
                          /\ join'[v].name = join[v].name
    BY <1>3, <1>4 DEF Enrolled
  <1>8. CredInv'
    BY <1>1, <1>3, <1>7 DEF CredInv
  <1>9. RowInv'
    BY <1>1, <1>3, <1>7 DEF RowInv, TypeOK
  <1> QED BY <1>5, <1>6, <1>8, <1>9 DEF EnrolmentInv

-------------------------------------------------------------------------------
(* Administrators, registrations and the health scan: no request moves and *)
(* no token.                                                               *)

LEMMA DeregisterPreserves ==
    ASSUME EnrolmentInv, NEW n \in Name, Deregister(n)
    PROVE  EnrolmentInv'
  <1>1. TypeOK /\ RequestInv /\ TokenInv /\ NameInv /\ CredInv /\ RowInv
    BY DEF EnrolmentInv
  <1> DEFINE w == workers[n]
  <1>2. w \in Worker /\ join[w].stage \in Enrolled /\ join[w].name = n
    BY <1>1 DEF Deregister, TypeOK, RowInv
  <1>3. /\ workers'[n] = None /\ \A m \in Name : m # n => workers'[m] = workers[m]
        /\ creds'[w].state = "deleted" /\ \A v \in Worker : v # w => creds'[v] = creds[v]
        /\ UNCHANGED <<tokens, expired, join, found>>
    BY <1>1, <1>2 DEF Deregister, TypeOK
  <1>4. TypeOK'
    BY <1>1, <1>2 DEF Deregister, TypeOK
  <1>5. RequestInv' /\ TokenInv'
    BY <1>1, <1>3 DEF RequestInv, TokenInv, Usable
  <1>6. NameInv'
    <2>1. \A v \in Worker : join[v].stage = "inserted" => join[v].name \in Name
      BY <1>1 DEF RequestInv
    <2> QED BY <1>1, <1>3, <2>1 DEF NameInv
  <1>7. CredInv'
    <2> SUFFICES ASSUME NEW v \in Worker
                 PROVE  /\ creds'[v].state # "none" <=> join[v].stage \in Enrolled
                        /\ creds'[v].state \in {"active", "revoked"} => workers'[join[v].name] = v
      BY <1>3 DEF CredInv
    <2>1. CASE v = w
      BY <1>2, <1>3, <2>1
    <2>2. CASE v # w
      <3>1. creds[v].state \in {"active", "revoked"} =>
                join[v].name \in Name \ {n} /\ workers[join[v].name] = v
        BY <1>1, <2>2 DEF CredInv, RequestInv, Enrolled
      <3> QED BY <1>1, <1>3, <2>2, <3>1 DEF CredInv
    <2> QED BY <2>1, <2>2
  <1>8. RowInv'
    BY <1>1, <1>3 DEF RowInv
  <1> QED BY <1>4, <1>5, <1>6, <1>7, <1>8 DEF EnrolmentInv

LEMMA CredentialPreserves ==
    ASSUME EnrolmentInv, NEW w \in Worker, RotateCredential(w) \/ RevokeCredential(w)
    PROVE  EnrolmentInv'
  <1>1. TypeOK /\ RequestInv /\ TokenInv /\ NameInv /\ CredInv /\ RowInv
    BY DEF EnrolmentInv
  <1>2. /\ creds[w].state \in {"active", "revoked"} /\ creds'[w].state \in {"active", "revoked"}
        /\ \A v \in Worker : v # w => creds'[v] = creds[v]
        /\ UNCHANGED <<tokens, expired, workers, status, join, found>>
    BY <1>1 DEF RotateCredential, RevokeCredential, TypeOK
  <1>3. TypeOK'
    BY <1>1 DEF RotateCredential, RevokeCredential, TypeOK
  <1>4. RequestInv' /\ TokenInv' /\ NameInv' /\ RowInv'
    BY <1>1, <1>2 DEF RequestInv, TokenInv, NameInv, RowInv, Usable
  <1>5. CredInv'
    BY <1>1, <1>2 DEF CredInv
  <1> QED BY <1>3, <1>4, <1>5 DEF EnrolmentInv

LEMMA FindPreserves ==
    ASSUME EnrolmentInv, NEW w \in Worker, NEW g, FindRow(w, g)
    PROVE  EnrolmentInv'
  <1>1. TypeOK /\ RequestInv /\ TokenInv /\ NameInv /\ CredInv /\ RowInv
    BY DEF EnrolmentInv
  <1>2. UNCHANGED <<tokens, workers, creds, expired, status, join>> /\ found' = found \cup {w}
    BY DEF FindRow, tables
  <1>3. join[w].stage \in Enrolled
    BY <1>1 DEF FindRow, Opens, CredInv
  <1>4. TypeOK' /\ RequestInv' /\ TokenInv' /\ NameInv' /\ CredInv'
    BY <1>1, <1>2 DEF TypeOK, RequestInv, TokenInv, NameInv, CredInv, Usable
  <1>5. RowInv'
    BY <1>1, <1>2, <1>3 DEF RowInv
  <1> QED BY <1>4, <1>5 DEF EnrolmentInv

LEMMA WritePreserves ==
    ASSUME EnrolmentInv, NEW w \in Worker, WriteRow(w)
    PROVE  EnrolmentInv'
  <1> DEFINE n == join[w].name
  <1>1. TypeOK /\ RequestInv /\ TokenInv /\ NameInv /\ CredInv /\ RowInv
    BY DEF EnrolmentInv
  <1>2. w \in found /\ join[w].stage \in Enrolled /\ n \in Name
    BY <1>1 DEF WriteRow, RowInv, RequestInv, Enrolled
  <1>3. /\ UNCHANGED <<tokens, expired, creds, join>> /\ found' = found \ {w}
        /\ \A m \in Name : m # n => workers'[m] = workers[m]
        /\ \/ workers[n] \in {None, w} /\ workers'[n] = w
           \/ workers'[n] = workers[n]
    BY <1>1, <1>2 DEF WriteRow, TypeOK
  <1>4. TypeOK'
    <2>1. CASE workers[n] \in {None, w}
      BY <1>1, <1>2, <2>1 DEF WriteRow, TypeOK
    <2>2. CASE workers[n] \notin {None, w}
      BY <1>1, <1>2, <2>2 DEF WriteRow, TypeOK
    <2> QED BY <2>1, <2>2
  <1>5. RequestInv' /\ TokenInv'
    BY <1>1, <1>3 DEF RequestInv, TokenInv, Usable
  <1>6. NameInv'
    <2>1. \A v \in Worker : join[v].stage = "inserted" => join[v].name \in Name \ {n}
      BY <1>1 DEF WriteRow, NameLocked, RequestInv
    <2> QED BY <1>1, <1>3, <2>1 DEF NameInv
  <1>7. CredInv'
    <2> SUFFICES ASSUME NEW v \in Worker, creds[v].state \in {"active", "revoked"}
                 PROVE  workers'[join[v].name] = v
      BY <1>1, <1>3 DEF CredInv
    <2>1. join[v].name \in Name /\ workers[join[v].name] = v
      BY <1>1 DEF CredInv, RequestInv, Enrolled
    <2> QED BY <1>3, <2>1
  <1>8. RowInv'
    BY <1>1, <1>2, <1>3 DEF RowInv
  <1> QED BY <1>4, <1>5, <1>6, <1>7, <1>8 DEF EnrolmentInv

LEMMA OfflinePreserves ==
    ASSUME EnrolmentInv, NEW n \in Name, MarkOffline(n)
    PROVE  EnrolmentInv'
  BY DEF MarkOffline, tables, EnrolmentInv, TypeOK, RequestInv, TokenInv, NameInv, CredInv,
         RowInv, Usable

-------------------------------------------------------------------------------
LEMMA NextPreserves == EnrolmentInv /\ [Next]_enrolmentVars => EnrolmentInv'
  <1> SUFFICES ASSUME EnrolmentInv, [Next]_enrolmentVars PROVE EnrolmentInv'
    OBVIOUS
  <1>1. CASE UNCHANGED enrolmentVars
    BY <1>1 DEF enrolmentVars, tables, EnrolmentInv, TypeOK, RequestInv, TokenInv, NameInv,
                CredInv, RowInv, Usable
  <1>2. ASSUME NEW t \in Token, Expire(t) \/ (\E m \in 1..MaxUses : Issue(t, m)) \/ RevokeToken(t)
        PROVE  EnrolmentInv'
    BY <1>2, TokensPreserve
  <1>3. ASSUME NEW w \in Worker, NEW t \in Token, NEW n \in Name, Ask(w, t, n)
        PROVE  EnrolmentInv'
    BY <1>3, AskPreserves
  <1>4. ASSUME NEW w \in Worker, Handle(w)
        PROVE  EnrolmentInv'
    BY <1>4, ConsumePreserves, InsertPreserves, CommitPreserves DEF Handle
  <1>5. ASSUME NEW w \in Worker, Abort(w)
        PROVE  EnrolmentInv'
    BY <1>5, FailurePreserves DEF Abort, EnrolmentInv, TypeOK, Enrolled
  <1>6. ASSUME NEW w \in Worker, Answer(w) \/ Lose(w)
        PROVE  EnrolmentInv'
    BY <1>6, AnswerPreserves
  <1>7. ASSUME NEW n \in Name, Deregister(n) \/ MarkOffline(n)
        PROVE  EnrolmentInv'
    BY <1>7, DeregisterPreserves, OfflinePreserves
  <1>8. ASSUME NEW w \in Worker, RotateCredential(w) \/ RevokeCredential(w)
        PROVE  EnrolmentInv'
    BY <1>8, CredentialPreserves
  <1>9. ASSUME NEW w \in Worker, WriteRow(w) \/ \E g \in 1..MaxGeneration : FindRow(w, g)
        PROVE  EnrolmentInv'
    BY <1>9, WritePreserves, FindPreserves
  <1> QED BY <1>1, <1>2, <1>3, <1>4, <1>5, <1>6, <1>7, <1>8, <1>9 DEF Next, Administer

(* Requests, tokens, rows and credentials agree in every reachable state,  *)
(* whatever interleaves with the statements of the join transaction        *)
(* (enroll_worker).                                                        *)
THEOREM Invariance == Spec => []EnrolmentInv
  BY InitHolds, NextPreserves, PTL DEF Spec

(***************************************************************************)
(* The refinement.                                                         *)

LEMMA InitRefines == Init => Ledger!Init
  BY DEF Init, Ledger!Init

LEMMA CommitRefines ==
    ASSUME EnrolmentInv, NEW w \in Worker, Commit(w)
    PROVE  Ledger!Enrol(join[w].token, join[w].name, w)
  <1>1. Usable(join[w].token) /\ workers[join[w].name] = None
    BY DEF Commit, EnrolmentInv, TokenInv, NameInv, Open
  <1>2. creds[w].state = "none"
    BY DEF Commit, EnrolmentInv, CredInv, TypeOK, Enrolled
  <1> QED BY <1>1, <1>2 DEF Commit, Ledger!Enrol, Usable

LEMMA WriteRefines ==
    ASSUME EnrolmentInv, NEW w \in Worker, WriteRow(w)
    PROVE  Ledger!Relist(join[w].name, w) \/ UNCHANGED Ledger!vars
  <1> DEFINE n == join[w].name
  <1>1. UNCHANGED <<tokens, creds>>
    BY DEF WriteRow
  <1>2. CASE workers[n] = w \/ workers[n] \notin {None, w}
    <2>1. workers' = workers
      BY <1>2 DEF WriteRow, EnrolmentInv, TypeOK
    <2> QED BY <1>1, <2>1 DEF Ledger!vars
  <1>3. CASE workers[n] = None
    <2>1. creds[w].state \notin {"none", "active", "revoked"}
      <3>1. w \in found /\ RowInv /\ CredInv
        BY DEF WriteRow, EnrolmentInv
      <3>2. creds[w].state # "none"
        BY <3>1 DEF RowInv, CredInv
      <3>3. w # None
        OBVIOUS
      <3> QED BY <1>3, <3>1, <3>2, <3>3 DEF CredInv
    <2>2. creds[w].state = "deleted"
      BY <2>1 DEF EnrolmentInv, TypeOK
    <2> QED BY <1>1, <1>3, <2>2 DEF WriteRow, Ledger!Relist
  <1> QED BY <1>2, <1>3

LEMMA NextRefines == EnrolmentInv /\ [Next]_enrolmentVars => [Ledger!Next]_(Ledger!vars)
  <1> SUFFICES ASSUME EnrolmentInv, [Next]_enrolmentVars, ~UNCHANGED Ledger!vars
               PROVE  Ledger!Next
    OBVIOUS
  <1>1. Next
    BY DEF enrolmentVars, tables, Ledger!vars
  <1>2. ASSUME NEW t \in Token,
               Expire(t) \/ (\E m \in 1..MaxUses : Issue(t, m)) \/ RevokeToken(t)
        PROVE  Ledger!Next
    <2>1. CASE Expire(t)
      BY <2>1 DEF Expire, tables, Ledger!vars
    <2>2. CASE \E m \in 1..MaxUses : Issue(t, m)
      BY <2>2 DEF Issue, Ledger!Issue, Ledger!Next
    <2>3. CASE RevokeToken(t)
      BY <2>3 DEF RevokeToken, Ledger!Withdraw, Ledger!Next
    <2> QED BY <1>2, <2>1, <2>2, <2>3
  <1>3. ASSUME NEW w \in Worker, NEW t \in Token, NEW n \in Name, Ask(w, t, n)
        PROVE  Ledger!Next
    BY <1>3 DEF Ask, tables, Ledger!vars
  <1>4. ASSUME NEW w \in Worker, Handle(w)
        PROVE  Ledger!Next
    <2>1. CASE Consume(w) \/ InsertWorker(w)
      BY <2>1 DEF Consume, InsertWorker, tables, Ledger!vars
    <2>2. CASE Commit(w)
      <3>1. join[w].token \in Token /\ join[w].name \in Name
        BY <2>2 DEF Commit, EnrolmentInv, RequestInv
      <3> QED BY <2>2, <3>1, CommitRefines DEF Ledger!Next
    <2> QED BY <1>4, <2>1, <2>2 DEF Handle
  <1>5. ASSUME NEW w \in Worker, Abort(w) \/ Answer(w) \/ Lose(w)
        PROVE  Ledger!Next
    BY <1>5 DEF Abort, Answer, Lose, tables, Ledger!vars
  <1>6. ASSUME NEW n \in Name, Deregister(n) \/ MarkOffline(n)
        PROVE  Ledger!Next
    <2>1. CASE Deregister(n)
      BY <2>1 DEF Deregister, Ledger!Remove, Ledger!Next
    <2>2. CASE MarkOffline(n)
      BY <2>2 DEF MarkOffline, tables, Ledger!vars
    <2> QED BY <1>6, <2>1, <2>2
  <1>7. ASSUME NEW w \in Worker, RotateCredential(w) \/ RevokeCredential(w)
        PROVE  Ledger!Next
    BY <1>7 DEF RotateCredential, RevokeCredential, Ledger!Rotate, Ledger!Revoke, Ledger!Next
  <1>8. ASSUME NEW w \in Worker, WriteRow(w) \/ \E g \in 1..MaxGeneration : FindRow(w, g)
        PROVE  Ledger!Next
    <2>1. CASE \E g \in 1..MaxGeneration : FindRow(w, g)
      BY <2>1 DEF FindRow, tables, Ledger!vars
    <2>2. CASE WriteRow(w)
      <3>1. join[w].name \in Name
        BY <2>2 DEF WriteRow, EnrolmentInv, TypeOK, RowInv, RequestInv, Enrolled
      <3> QED BY <2>2, <3>1, WriteRefines DEF Ledger!Next
    <2> QED BY <1>8, <2>1, <2>2
  <1> QED BY <1>1, <1>2, <1>3, <1>4, <1>5, <1>6, <1>7, <1>8 DEF Next, Administer

(* A use of a token, the worker's row and its credential come in one step  *)
(* or not at all: enroll_worker, registrations, expiry and administrators  *)
(* together implement the ledger.                                          *)
THEOREM EnrolmentIsAtomic == Spec => ImplementsLedger
  BY Invariance, InitRefines, NextRefines, PTL DEF Spec, ImplementsLedger, Ledger!Spec

-------------------------------------------------------------------------------
USE ProvisioningAssumption

(***************************************************************************)
(* The playbook as a table: how many commands a step has, and which of     *)
(* them are those of the join.                                             *)
(***************************************************************************)
Steps == 1..7
Size(i) == Len(Commands[Play[i]])

LEMMA PlayShape ==
    /\ Len(Play) = 7
    /\ \A i \in Steps : Size(i) \in 1..4
    /\ Size(4) = 3
    /\ \A i \in Steps : \A c \in 1..Size(i) :
          /\ Commands[Play[i]][c] = "join" => i = 4 /\ c = 2
          /\ Commands[Play[i]][c] = "mint" <=> i = 4 /\ c = 1
  <1>1. Len(Play) = 7
    BY DEF Play
  <1>2. \A i \in Steps : i = 1 \/ i = 2 \/ i = 3 \/ i = 4 \/ i = 5 \/ i = 6 \/ i = 7
    BY DEF Steps
  <1>3. /\ Size(1) = 1 /\ Size(2) = 3 /\ Size(3) = 2 /\ Size(4) = 3 /\ Size(5) = 3
        /\ Size(6) = 1 /\ Size(7) = 4
    BY DEF Size, Play, Commands
  <1>4. \A i \in Steps : Size(i) \in 1..4
    BY <1>2, <1>3
  <1>5. \A i \in Steps : \A c \in 1..Size(i) : c = 1 \/ c = 2 \/ c = 3 \/ c = 4
    BY <1>4
  <1>6. ASSUME NEW i \in Steps, NEW c \in 1..Size(i)
        PROVE  /\ Commands[Play[i]][c] = "join" => i = 4 /\ c = 2
               /\ Commands[Play[i]][c] = "mint" <=> i = 4 /\ c = 1
    <2>1. CASE i \in {1, 2, 3}
      BY <1>3, <1>5, <2>1 DEF Play, Commands
    <2>2. CASE i = 4
      BY <1>3, <1>5, <2>2 DEF Play, Commands
    <2>3. CASE i \in {5, 6, 7}
      BY <1>3, <1>5, <2>3 DEF Play, Commands
    <2> QED BY <1>2, <2>1, <2>2, <2>3
  <1> QED BY <1>1, <1>3, <1>4, <1>6

-------------------------------------------------------------------------------
(* A configuration of host h names nobody, or a worker enrolled under h.   *)
Config == [cred : Worker \cup {None}, gen : Nat, mtls : BOOLEAN]
Known(h, c) ==
    /\ c \in Config
    /\ c.cred # None => /\ join[c.cred].stage \in Enrolled /\ join[c.cred].name = h
                        /\ c.gen \in 1..MaxGeneration

(* A run is at a command of its step, and has a token before it asks.      *)
RunState == [stage : {"idle", "probe", "run", "joining", "succeeded", "failed"},
             step : Steps, at : 1..4, mtls : BOOLEAN, token : Token \cup {None},
             worker : Worker \cup {None}, copy : Config]
GoodRun(h, r) ==
    /\ r \in RunState /\ r.at \in 1..Size(r.step)
    /\ r.stage = "probe" => r.at = 1
    /\ r.stage = "run" /\ r.step = 4 /\ r.at = 2 => r.token \in Token
    /\ r.stage = "joining" => r.step = 4 /\ r.at = 2
    /\ Known(h, r.copy)

HostsInv ==
    /\ toml \in [Name -> Config] /\ service \in [Name -> Config]
    /\ \A h \in Name : Known(h, toml[h]) /\ Known(h, service[h])
RunsInv ==
    /\ run \in [Inventory -> RunState]
    /\ \A h \in Inventory : GoodRun(h, run[h])

(* The inductive invariant.                                                *)
ProvisioningInv == EnrolmentInv /\ HostsInv /\ RunsInv /\ upsets \in 0..MaxUpsets

LEMMA NothingIsKnown == \A h \in Name : Known(h, Nothing)
  BY DEF Known, Nothing, Config

LEMMA OverIsGood ==
    ASSUME NEW h \in Name, NEW s \in {"idle", "probe", "succeeded", "failed"}, NEW m \in BOOLEAN
    PROVE  GoodRun(h, Over(s, m))
  <1>1. Over(s, m) = [stage |-> s, step |-> 1, at |-> 1, mtls |-> m,
                      token |-> None, worker |-> None, copy |-> Nothing]
    BY DEF Over
  <1>2. 1 \in Steps /\ 1 \in 1..Size(1)
    BY PlayShape DEF Steps
  <1>3. Nothing \in Config
    BY DEF Nothing, Config
  <1> QED BY <1>1, <1>2, <1>3, NothingIsKnown DEF GoodRun, RunState

LEMMA ProvisioningInitHolds == ProvisioningInit => ProvisioningInv
  <1> SUFFICES ASSUME ProvisioningInit PROVE ProvisioningInv
    OBVIOUS
  <1>1. EnrolmentInv
    BY InitHolds DEF ProvisioningInit
  <1>2. HostsInv
    BY NothingIsKnown DEF ProvisioningInit, HostsInv, Known
  <1>3. \A h \in Inventory : run[h] = Over("idle", FALSE) /\ GoodRun(h, run[h])
    BY OverIsGood DEF ProvisioningInit
  <1>4. run \in [Inventory -> RunState]
    BY <1>3 DEF ProvisioningInit, GoodRun
  <1>5. upsets \in 0..MaxUpsets
    BY DEF ProvisioningInit
  <1>6. RunsInv
    BY <1>3, <1>4 DEF RunsInv
  <1> QED BY <1>1, <1>2, <1>5, <1>6 DEF ProvisioningInv

(***************************************************************************)
(* What a run may become.                                                  *)

LEMMA AfterIsGood ==
    ASSUME NEW h \in Name, NEW r, GoodRun(h, r), r.stage \in {"probe", "run", "joining"}
    PROVE  /\ GoodRun(h, ToNextStep(r))
           /\ ~(r.step = 4 /\ r.at = 1) => GoodRun(h, AfterCommand(r))
           /\ \A t \in Token : GoodRun(h, [AfterCommand(r) EXCEPT !.token = t])
  <1>1. r \in RunState /\ r.at \in 1..Size(r.step) /\ Known(h, r.copy)
    BY DEF GoodRun
  <1>2. GoodRun(h, ToNextStep(r)) /\ \A t \in Token : GoodRun(h, [ToNextStep(r) EXCEPT !.token = t])
    <2>1. CASE r.step = Len(Play)
      <3>1. ToNextStep(r) = Over("succeeded", r.mtls)
        BY <2>1 DEF ToNextStep
      <3>2. GoodRun(h, ToNextStep(r))
        BY <1>1, <3>1, OverIsGood DEF RunState
      <3>3. ASSUME NEW t \in Token PROVE GoodRun(h, [ToNextStep(r) EXCEPT !.token = t])
        BY <3>1, <3>2 DEF GoodRun, RunState, Over
      <3> QED BY <3>2, <3>3
    <2>2. CASE r.step # Len(Play)
      <3>1. r.step + 1 \in Steps /\ 1 \in 1..Size(r.step + 1)
        BY <1>1, <2>2, PlayShape DEF RunState, Steps
      <3>2. ToNextStep(r) = [r EXCEPT !.stage = "probe", !.step = r.step + 1, !.at = 1]
        BY <2>2 DEF ToNextStep
      <3> DEFINE q == ToNextStep(r)
      <3>3. /\ q \in RunState /\ q.stage = "probe" /\ q.step = r.step + 1 /\ q.at = 1
            /\ q.copy = r.copy
        <4>1. q = [stage |-> "probe", step |-> r.step + 1, at |-> 1, mtls |-> r.mtls,
                   token |-> r.token, worker |-> r.worker, copy |-> r.copy]
          BY <1>1, <3>2 DEF RunState
        <4> HIDE DEF q
        <4>2. /\ r.mtls \in BOOLEAN /\ r.token \in Token \cup {None}
              /\ r.worker \in Worker \cup {None} /\ r.copy \in Config
          BY <1>1 DEF RunState
        <4>3. q \in RunState
          BY <3>1, <4>1, <4>2 DEF RunState
        <4> QED BY <4>1, <4>3
      <3>4. GoodRun(h, q)
        BY <1>1, <3>1, <3>3 DEF GoodRun
      <3>5. ASSUME NEW t \in Token PROVE GoodRun(h, [q EXCEPT !.token = t])
        <4> DEFINE p == [q EXCEPT !.token = t]
        <4>1. /\ p \in RunState /\ p.stage = "probe" /\ p.step = q.step /\ p.at = 1
              /\ p.copy = q.copy
          BY <3>3 DEF RunState
        <4> QED BY <3>4, <4>1 DEF GoodRun
      <3> QED BY <3>4, <3>5
    <2> QED BY <2>1, <2>2
  <1>3. CASE r.at = Size(r.step)
    <2>1. AfterCommand(r) = ToNextStep(r)
      BY <1>3 DEF AfterCommand, Size
    <2> QED BY <1>2, <2>1
  <1>4. CASE r.at # Size(r.step)
    <2>1. r.at + 1 \in 1..4 /\ r.at + 1 \in 1..Size(r.step)
      BY <1>1, <1>4, PlayShape DEF RunState
    <2>2. AfterCommand(r) = [r EXCEPT !.stage = "run", !.at = r.at + 1]
      BY <1>4 DEF AfterCommand, Size
    <2> DEFINE q == AfterCommand(r)
    <2>3. /\ q \in RunState /\ q.stage = "run" /\ q.step = r.step /\ q.at = r.at + 1
          /\ q.copy = r.copy
      BY <1>1, <2>1, <2>2 DEF RunState
    <2>4. ASSUME ~(r.step = 4 /\ r.at = 1) PROVE GoodRun(h, q)
      <3>1. ~(q.step = 4 /\ q.at = 2)
        BY <1>1, <2>3, <2>4 DEF RunState
      <3> QED BY <1>1, <2>1, <2>3, <3>1 DEF GoodRun
    <2>5. ASSUME NEW t \in Token PROVE GoodRun(h, [q EXCEPT !.token = t])
      <3> DEFINE p == [q EXCEPT !.token = t]
      <3>1. /\ p \in RunState /\ p.stage = "run" /\ p.step = q.step /\ p.at = q.at
            /\ p.copy = q.copy /\ p.token = t
        BY <2>3 DEF RunState
      <3> QED BY <1>1, <2>1, <2>3, <3>1 DEF GoodRun
    <2> QED BY <1>2, <2>4, <2>5
  <1> QED BY <1>3, <1>4

(***************************************************************************)
(* What is known of the workers stays known.                               *)

LEMMA EnrolledStays ==
    ASSUME EnrolmentInv, [Next]_enrolmentVars, NEW w \in Worker, join[w].stage \in Enrolled
    PROVE  join'[w].stage \in Enrolled /\ join'[w].name = join[w].name
  <1> DEFINE Same == join'[w] = join[w]
  <1>1. join \in [Worker -> Request]
    BY DEF EnrolmentInv, TypeOK, Request
  <1>2. ASSUME NEW v \in Worker, NEW t \in Token, NEW n \in Name, Ask(v, t, n) PROVE Same
    BY <1>1, <1>2 DEF Ask, Fail, Enrolled, Request
  <1>3. ASSUME NEW v \in Worker, Handle(v) \/ Abort(v)
        PROVE  Same
    <2>1. v # w
      BY <1>3 DEF Handle, Consume, InsertWorker, Commit, Abort, Enrolled
    <2> QED BY <1>1, <1>3, <2>1
        DEF Handle, Consume, InsertWorker, Commit, Abort, ToStage, Fail, Request
  <1>4. ASSUME NEW v \in Worker, Answer(v) \/ Lose(v)
        PROVE  join'[w].stage \in Enrolled /\ join'[w].name = join[w].name
    BY <1>1, <1>4 DEF Answer, Lose, ToStage, Enrolled, Request
  <1>5. ASSUME UNCHANGED join PROVE Same
    BY <1>5
  <1>6. \/ \E v \in Worker, t \in Token, n \in Name : Ask(v, t, n)
        \/ \E v \in Worker : Handle(v) \/ Abort(v) \/ Answer(v) \/ Lose(v)
        \/ UNCHANGED join
    BY DEF Next, Administer, Expire, Issue, RevokeToken, Deregister, RotateCredential,
           RevokeCredential, FindRow, WriteRow, MarkOffline, enrolmentVars
  <1> QED BY <1>2, <1>3, <1>4, <1>5, <1>6

LEMMA KnownStays ==
    ASSUME EnrolmentInv, [Next]_enrolmentVars, NEW h \in Name, NEW c, Known(h, c)
    PROVE  Known(h, c)'
  BY EnrolledStays DEF Known, Config

(* A step is over when it has done its part of the tables, and left runs   *)
(* and hosts that are good by what was known before it.                    *)
LEMMA StepPreserves ==
    ASSUME ProvisioningInv, [Next]_enrolmentVars, upsets' \in 0..MaxUpsets,
           toml' \in [Name -> Config], service' \in [Name -> Config],
           NEW newRun, run' = newRun, newRun \in [Inventory -> RunState],
           \A h \in Inventory : GoodRun(h, newRun[h]),
           NEW newToml, toml' = newToml, \A h \in Name : Known(h, newToml[h]),
           NEW newService, service' = newService, \A h \in Name : Known(h, newService[h])
    PROVE  ProvisioningInv'
  <1>1. EnrolmentInv /\ EnrolmentInv'
    BY NextPreserves DEF ProvisioningInv
  <1>2. HostsInv'
    <2>1. \A h \in Name : Known(h, newToml[h])' /\ Known(h, newService[h])'
      BY <1>1, KnownStays
    <2> QED BY <2>1 DEF HostsInv, Known
  <1>3. RunsInv'
    <2>1. \A h \in Inventory : Known(h, newRun[h].copy)'
      BY <1>1, KnownStays DEF GoodRun
    <2> QED BY <2>1 DEF RunsInv, GoodRun, Known
  <1> QED BY <1>1, <1>2, <1>3 DEF ProvisioningInv

-------------------------------------------------------------------------------
(* Every step is one of the control plane, or none.                        *)

LEMMA CommandOf ==
    ASSUME ProvisioningInv, NEW h \in Inventory
    PROVE  /\ Running(h, "join") => run[h].token \in Token /\ run[h].step = 4 /\ run[h].at = 2
           /\ Running(h, "mint") <=> run[h].stage = "run" /\ run[h].step = 4 /\ run[h].at = 1
  <1>1. GoodRun(h, run[h])
    BY DEF ProvisioningInv, RunsInv
  <1>2. run[h].step \in Steps /\ run[h].at \in 1..Size(run[h].step)
    BY <1>1 DEF GoodRun, RunState
  <1>3. Command(h) = Commands[Play[run[h].step]][run[h].at]
    BY DEF Command, Step
  <1> QED BY <1>1, <1>2, <1>3, PlayShape DEF Running, GoodRun

LEMMA TokenIsDrawn == NewTokens # {} => NewToken \in Token
  BY DEF NewTokens, NewToken
LEMMA IdIsDrawn == NewIds # {} => NewId \in Worker
  BY DEF NewIds, NewId

LEMMA ServiceRefines ==
    ASSUME ProvisioningInv, NEW h \in Name, RegisterFinds(h) \/ RegisterWrites(h)
    PROVE  Next
  <1>1. service[h].cred \in Worker /\ service[h].gen \in 1..MaxGeneration
    BY DEF ProvisioningInv, HostsInv, Known, Config, RegisterFinds, RegisterWrites
  <1> QED BY <1>1 DEF RegisterFinds, RegisterWrites, Next

LEMMA RunRefines ==
    ASSUME ProvisioningInv, NEW h \in Inventory,
           Begin(h) \/ Proceed(h) \/ RunBreaks(h) \/ MintBreaks(h)
    PROVE  [Next]_enrolmentVars
  <1>1. CASE Mint(h) \/ MintBreaks(h)
    <2>1. Issue(NewToken, 1) /\ NewToken \in Token /\ 1 \in 1..MaxUses
      BY <1>1, TokenIsDrawn DEF Mint, MintBreaks
    <2> QED BY <2>1 DEF Next
  <1>2. CASE StartJoin(h)
    <2>1. Ask(NewId, run[h].token, h) /\ NewId \in Worker /\ run[h].token \in Token /\ h \in Name
      BY <1>2, IdIsDrawn, CommandOf DEF StartJoin
    <2> QED BY <2>1 DEF Next
  <1>3. CASE ~(Mint(h) \/ MintBreaks(h) \/ StartJoin(h))
    BY <1>3 DEF Begin, Proceed, RunBreaks, Probe, Execute, TokensDrawn, JoinEnds, ReadConfig,
                AppendSection, StartUnit, Wait
  <1> QED BY <1>1, <1>2, <1>3

LEMMA ProvisioningNextRefines ==
    ProvisioningInv /\ [ProvisioningNext]_vars => [Next]_enrolmentVars
  <1> SUFFICES ASSUME ProvisioningInv, [ProvisioningNext]_vars PROVE [Next]_enrolmentVars
    OBVIOUS
  <1>1. ASSUME NEW w \in Worker, HandleRequest(w) \/ Deliver(w) \/ RequestBreaks(w)
        PROVE  Next
    BY <1>1 DEF HandleRequest, Deliver, RequestBreaks, Next
  <1>2. ASSUME NEW t \in Token, TokenGoes(t)
        PROVE  Next
    BY <1>2 DEF TokenGoes, Next, Administer
  <1>3. ASSUME JoinByHand \/ Manage \/ HealthScan
        PROVE  Next
    BY <1>3 DEF JoinByHand, Manage, HealthScan, Next, Administer
  <1>4. ASSUME UNCHANGED vars PROVE UNCHANGED enrolmentVars
    BY <1>4 DEF vars
  <1> QED BY <1>1, <1>2, <1>3, <1>4, RunRefines, ServiceRefines DEF ProvisioningNext

-------------------------------------------------------------------------------
(* A run that goes on, and leaves the hosts as they are.                   *)
LEMMA GoPreserves ==
    ASSUME ProvisioningInv, [Next]_enrolmentVars, NEW h \in Inventory, NEW r, Go(h, r), GoodRun(h, r),
           UNCHANGED <<toml, service>>, upsets' \in 0..MaxUpsets
    PROVE  ProvisioningInv'
  <1>1. RunsInv /\ HostsInv
    BY DEF ProvisioningInv
  <1> DEFINE newRun == [run EXCEPT ![h] = r]
  <1>2. newRun \in [Inventory -> RunState] /\ \A i \in Inventory : GoodRun(i, newRun[i])
    BY <1>1 DEF RunsInv, GoodRun
  <1>3. run' = newRun
    BY DEF Go
  <1> HIDE DEF newRun
  <1>4. /\ toml' = toml /\ toml' \in [Name -> Config] /\ \A i \in Name : Known(i, toml[i])
        /\ service' = service /\ service' \in [Name -> Config] /\ \A i \in Name : Known(i, service[i])
    BY <1>1 DEF HostsInv
  <1> QED BY <1>2, <1>3, <1>4, StepPreserves

(* A run that goes on, and writes one of the files of its host.            *)
LEMMA HostPreserves ==
    ASSUME ProvisioningInv, [Next]_enrolmentVars, NEW h \in Inventory, NEW r, Go(h, r), GoodRun(h, r),
           NEW c, Known(h, c), UNCHANGED upsets,
           \/ toml' = [toml EXCEPT ![h] = c] /\ UNCHANGED service
           \/ service' = [service EXCEPT ![h] = c] /\ UNCHANGED toml
    PROVE  ProvisioningInv'
  <1>1. RunsInv /\ HostsInv /\ h \in Name /\ c \in Config
    BY DEF ProvisioningInv, Known
  <1> DEFINE newRun == [run EXCEPT ![h] = r]
             newToml == [toml EXCEPT ![h] = c]
             newService == [service EXCEPT ![h] = c]
  <1>2. newRun \in [Inventory -> RunState] /\ \A i \in Inventory : GoodRun(i, newRun[i])
    BY <1>1 DEF RunsInv, GoodRun
  <1>3. run' = newRun /\ upsets' \in 0..MaxUpsets
    BY DEF Go, ProvisioningInv
  <1>4. /\ newToml \in [Name -> Config] /\ \A i \in Name : Known(i, newToml[i])
        /\ newService \in [Name -> Config] /\ \A i \in Name : Known(i, newService[i])
        /\ toml \in [Name -> Config] /\ \A i \in Name : Known(i, toml[i])
        /\ service \in [Name -> Config] /\ \A i \in Name : Known(i, service[i])
    BY <1>1 DEF HostsInv
  <1>5. CASE toml' = newToml /\ service' = service
    <2> HIDE DEF newRun, newToml, newService
    <2> QED BY <1>2, <1>3, <1>4, <1>5, StepPreserves
  <1>6. CASE service' = newService /\ toml' = toml
    <2> HIDE DEF newRun, newToml, newService
    <2> QED BY <1>2, <1>3, <1>4, <1>6, StepPreserves
  <1> QED BY <1>5, <1>6

LEMMA RunPreserves ==
    ASSUME ProvisioningInv, NEW h \in Inventory,
           Begin(h) \/ Proceed(h) \/ RunBreaks(h) \/ MintBreaks(h)
    PROVE  ProvisioningInv'
  <1>1. [Next]_enrolmentVars
    BY RunRefines
  <1>2. h \in Name /\ GoodRun(h, run[h]) /\ Known(h, toml[h]) /\ upsets \in 0..MaxUpsets
    BY DEF ProvisioningInv, RunsInv, HostsInv
  <1>3. run[h] \in RunState
    BY <1>2 DEF GoodRun
  <1>4. GoodRun(h, Failed)
    BY <1>2, OverIsGood DEF Failed
  <1>5. CASE Begin(h)
    <2>1. PICK m \in BOOLEAN : Go(h, Over("probe", m))
      BY <1>5 DEF Begin
    <2> QED BY <1>1, <1>2, <1>5, <2>1, OverIsGood, GoPreserves DEF Begin
  <1>6. CASE Probe(h)
    <2>1. GoodRun(h, ToNextStep(run[h]))
      BY <1>2, <1>6, AfterIsGood DEF Probe
    <2>2. GoodRun(h, [run[h] EXCEPT !.stage = "run"])
      BY <1>2, <1>3, <1>6 DEF Probe, GoodRun, RunState
    <2> QED BY <1>1, <1>2, <1>6, <2>1, <2>2, GoPreserves DEF Probe, remote
  <1>7. ASSUME run[h].stage = "run" PROVE ~Running(h, "mint") => GoodRun(h, AfterCommand(run[h]))
    BY <1>2, <1>7, AfterIsGood, CommandOf
  <1>8. CASE Execute(h) \/ Wait(h)
    BY <1>1, <1>2, <1>4, <1>7, <1>8, GoPreserves DEF Execute, Wait, Running, remote
  <1>9. CASE Mint(h)
    <2>1. GoodRun(h, [AfterCommand(run[h]) EXCEPT !.token = NewToken])
      BY <1>2, <1>9, AfterIsGood, TokenIsDrawn DEF Mint, Running
    <2> QED BY <1>1, <1>2, <1>9, <2>1, GoPreserves DEF Mint, remote
  <1>10. CASE StartJoin(h)
    <2>1. GoodRun(h, [run[h] EXCEPT !.stage = "joining", !.worker = NewId])
      BY <1>2, <1>3, <1>10, IdIsDrawn, CommandOf DEF StartJoin, GoodRun, RunState
    <2> QED BY <1>1, <1>2, <1>10, <2>1, GoPreserves DEF StartJoin, remote
  <1>11. CASE JoinEnds(h)
    <2>1. GoodRun(h, Joined(h))
      <3>1. run[h].step = 4 /\ run[h].at = 2
        BY <1>2, <1>11 DEF JoinEnds, GoodRun
      <3>2. AfterCommand(run[h]) = [run[h] EXCEPT !.stage = "run", !.at = 3]
        BY <3>1, PlayShape DEF AfterCommand, Size
      <3> DEFINE q == Joined(h)
                 r == run[h]
                 p == AfterCommand(r)
      <3>3. q = [stage |-> "run", step |-> 4, at |-> 3, mtls |-> run[h].mtls, token |-> None,
                 worker |-> None, copy |-> run[h].copy]
        <4>1. r \in RunState /\ r.step = 4 /\ p = [r EXCEPT !.stage = "run", !.at = 3]
          BY <1>3, <3>1, <3>2
        <4> HIDE DEF r, p
        <4>2. p = [stage |-> "run", step |-> 4, at |-> 3, mtls |-> r.mtls, token |-> r.token,
                   worker |-> r.worker, copy |-> r.copy]
          BY <4>1 DEF RunState
        <4>3. q = [p EXCEPT !.token = None, !.worker = None]
          BY DEF Joined, p, r
        <4> HIDE DEF q
        <4>4. q = [stage |-> "run", step |-> 4, at |-> 3, mtls |-> r.mtls, token |-> None,
                   worker |-> None, copy |-> r.copy]
          BY <4>2, <4>3
        <4> QED BY <4>4 DEF r
      <3> HIDE DEF q, r, p
      <3>4. run[h].mtls \in BOOLEAN /\ run[h].copy \in Config /\ 4 \in Steps
        BY <1>3 DEF RunState, Steps
      <3>5. q \in RunState
        BY <3>3, <3>4 DEF RunState
      <3>6. GoodRun(h, q)
        BY <1>2, <3>3, <3>5, PlayShape DEF GoodRun
      <3> QED BY <3>6 DEF q
    <2> QED BY <1>1, <1>2, <1>4, <1>11, <2>1, GoPreserves DEF JoinEnds, remote
  <1>12. CASE ReadConfig(h)
    <2>1. GoodRun(h, [AfterCommand(run[h]) EXCEPT !.copy = toml[h]])
      <3>1. GoodRun(h, AfterCommand(run[h]))
        BY <1>7, <1>12 DEF ReadConfig, Running
      <3> QED BY <1>2, <3>1 DEF GoodRun, RunState, Known
    <2> QED BY <1>1, <1>2, <1>4, <1>12, <2>1, GoPreserves DEF ReadConfig, remote
  <1>13. CASE RunBreaks(h) \/ MintBreaks(h) \/ TokensDrawn(h)
    BY <1>1, <1>2, <1>4, <1>13, GoPreserves DEF RunBreaks, MintBreaks, TokensDrawn, Upset, remote
  <1> DEFINE after == AfterCommand(run[h])
  <1>14. CASE AppendSection(h)
    <2>1. GoodRun(h, after) /\ GoodRun(h, [after EXCEPT !.copy = Nothing])
      <3>1. GoodRun(h, after)
        BY <1>7, <1>14 DEF AppendSection, Running
      <3> HIDE DEF after
      <3> QED BY <1>2, <3>1, NothingIsKnown DEF GoodRun, RunState, Known
    <2> DEFINE c == [run[h].copy EXCEPT !.mtls = TRUE]
    <2>2. Known(h, c)
      BY <1>2 DEF GoodRun, Known, Config
    <2> HIDE DEF after, c
    <2> QED BY <1>1, <1>2, <1>14, <2>1, <2>2, HostPreserves DEF AppendSection, after, c
  <1>15. CASE StartUnit(h)
    <2>1. GoodRun(h, after)
      BY <1>7, <1>15 DEF StartUnit, Running
    <2> HIDE DEF after
    <2> QED BY <1>1, <1>2, <1>15, <2>1, HostPreserves DEF StartUnit, after
  <1> QED BY <1>5, <1>6, <1>8, <1>9, <1>10, <1>11, <1>12, <1>13, <1>14, <1>15 DEF Proceed

LEMMA DeliverPreserves ==
    ASSUME ProvisioningInv, NEW w \in Worker, Deliver(w)
    PROVE  ProvisioningInv'
  <1>1. RunsInv /\ HostsInv /\ EnrolmentInv /\ [Next]_enrolmentVars
    BY DEF ProvisioningInv, Deliver, Next
  <1> DEFINE n == join[w].name
             c == [cred |-> w, gen |-> 1, mtls |-> FALSE]
             newToml == [toml EXCEPT ![n] = c]
  <1>2. n \in Name /\ Known(n, c)
    BY <1>1 DEF Deliver, Answer, EnrolmentInv, RequestInv, Known, Config, Enrolled
  <1>3. newToml \in [Name -> Config] /\ \A i \in Name : Known(i, newToml[i])
    BY <1>1, <1>2 DEF HostsInv, Known
  <1>4. toml' = newToml /\ UNCHANGED <<service, run, upsets>>
    BY DEF Deliver
  <1> HIDE DEF newToml
  <1> QED BY <1>1, <1>3, <1>4, StepPreserves DEF RunsInv, HostsInv, ProvisioningInv

(* A step of the control plane that reaches no host and no run.            *)
LEMMA TablesPreserve ==
    ASSUME ProvisioningInv, [Next]_enrolmentVars, UNCHANGED <<toml, service, run>>,
           upsets' \in 0..MaxUpsets
    PROVE  ProvisioningInv'
  BY StepPreserves DEF ProvisioningInv, RunsInv, HostsInv

LEMMA ProvisioningNextPreserves ==
    ProvisioningInv /\ [ProvisioningNext]_vars => ProvisioningInv'
  <1> SUFFICES ASSUME ProvisioningInv, [ProvisioningNext]_vars PROVE ProvisioningInv'
    OBVIOUS
  <1>1. [Next]_enrolmentVars /\ upsets \in 0..MaxUpsets
    BY ProvisioningNextRefines DEF ProvisioningInv
  <1>2. ASSUME Upset \/ UNCHANGED upsets PROVE upsets' \in 0..MaxUpsets
    BY <1>1, <1>2 DEF Upset
  <1>3. CASE \/ \E w \in Worker : HandleRequest(w) \/ RequestBreaks(w)
             \/ \E t \in Token : TokenGoes(t)
             \/ JoinByHand \/ Manage \/ HealthScan
             \/ \E h \in Name : RegisterFinds(h) \/ RegisterWrites(h)
             \/ UNCHANGED vars
    <2>1. UNCHANGED <<toml, service, run>> /\ (Upset \/ UNCHANGED upsets)
      BY <1>3 DEF HandleRequest, RequestBreaks, TokenGoes, JoinByHand, Manage, HealthScan,
                  RegisterFinds, RegisterWrites, remote, vars
    <2> QED BY <1>1, <1>2, <2>1, TablesPreserve
  <1>4. CASE \E w \in Worker : Deliver(w)
    BY <1>4, DeliverPreserves
  <1>5. CASE \E h \in Inventory : Begin(h) \/ Proceed(h) \/ RunBreaks(h) \/ MintBreaks(h)
    BY <1>5, RunPreserves
  <1> QED BY <1>3, <1>4, <1>5 DEF ProvisioningNext

(* Runs, hosts and the control plane agree in every reachable state of a   *)
(* provision: a step is only ever at a command it has, what a run keeps    *)
(* between the read and the write of configure_mtls included.              *)
THEOREM ProvisioningInvariance == ProvisioningSpec => []ProvisioningInv
  BY ProvisioningInitHolds, ProvisioningNextPreserves, PTL DEF ProvisioningSpec

(* Every reachable state of provision is well typed, however often the     *)
(* playbook breaks off and is run again: no run goes past its last step.   *)
THEOREM ProvisioningTypes == ProvisioningSpec => []ProvisioningTypeOK
  <1> DEFINE Few == replaced \subseteq Inventory
  <1>1. ProvisioningInv /\ Few => ProvisioningTypeOK
    <2> SUFFICES ASSUME ProvisioningInv, Few PROVE ProvisioningTypeOK
      OBVIOUS
    <2>1. \A h \in Inventory : run[h].step \in 1..Len(Play) /\ run[h].at \in 1..4
      BY PlayShape DEF ProvisioningInv, RunsInv, GoodRun, RunState, Steps, Size
    <2> QED BY <2>1 DEF ProvisioningInv, EnrolmentInv, HostsInv, RunsInv, GoodRun, RunState,
                        Config, ProvisioningTypeOK
  <1>2. ProvisioningInit => Few
    BY DEF ProvisioningInit
  <1>3. Few /\ [ProvisioningNext]_vars => Few'
    BY DEF ProvisioningNext, Begin, Proceed, RunBreaks, MintBreaks, Probe, Execute, Mint, TokensDrawn,
           StartJoin, JoinEnds, ReadConfig, AppendSection, StartUnit, Wait, HandleRequest, Deliver,
           RequestBreaks, TokenGoes, JoinByHand, Manage, HealthScan, RegisterFinds, RegisterWrites,
           remote, vars
  <1> QED BY <1>1, <1>2, <1>3, ProvisioningInvariance, PTL DEF ProvisioningSpec

(* No host is ever configured, and no service started, as a worker the     *)
(* control plane did not enrol under that host's name: whatever stale copy *)
(* configure_mtls writes back, and however often the playbook is run.      *)
THEOREM HostsAreEnrolled == ProvisioningSpec => []ConfiguredMeansEnrolled
  <1>1. ProvisioningInv => ConfiguredMeansEnrolled
    BY DEF ProvisioningInv, HostsInv, Known, Config, EnrolmentInv, CredInv, ConfiguredMeansEnrolled
  <1> QED BY <1>1, ProvisioningInvariance, PTL

(* Provisioning uses the control plane as module Enrolment describes it,   *)
(* and so keeps the promise of the ledger.                                 *)
THEOREM ProvisioningKeepsTheLedger == ProvisioningSpec => ImplementsLedger
  <1>1. ProvisioningInit => Init
    BY DEF ProvisioningInit
  <1>2. ProvisioningSpec => Spec
    BY <1>1, ProvisioningInvariance, ProvisioningNextRefines, PTL DEF ProvisioningSpec, Spec
  <1> QED BY <1>2, EnrolmentIsAtomic, PTL

-------------------------------------------------------------------------------
(***************************************************************************)
(* What a run reports.  Each command a run has got beyond has left on its  *)
(* host what it is there for, whatever other runs, joins by hand and late  *)
(* answers did to the host in between.                                     *)
(***************************************************************************)
Past(r, step, at) ==
    /\ r.stage \in {"probe", "run", "joining"}
    /\ r.step > step \/ (r.step = step /\ r.at > at)

(* The packages are step 1, the binary and the unit the first commands of  *)
(* step 2, the certificates the first of step 3, the join the second of    *)
(* step 4; configure_mtls, step 5, reads the file and writes it back; the  *)
(* credentials are step 6, and the second command of step 7 starts the     *)
(* service.                                                                *)
Done(marks, conf, svc, r) ==
    /\ Past(r, 1, 1) => "packages" \in marks
    /\ Past(r, 2, 1) => "upload" \in marks
    /\ Past(r, 2, 2) => "unit" \in marks
    /\ Past(r, 6, 1) => "push" \in marks
    /\ Past(r, 3, 1) /\ r.mtls => "certs" \in marks
    /\ Past(r, 4, 2) => conf.cred # None
    /\ Past(r, 7, 2) => svc # Nothing
    /\ r.stage = "run" /\ r.step = 5 /\ r.at = 2 => r.copy.cred # None

(* What a success promises.                                                *)
Promised(marks, conf, svc, r) ==
    /\ {"packages", "upload", "unit", "push"} \subseteq marks
    /\ conf.cred # None /\ svc # Nothing
    /\ r.mtls => "certs" \in marks

(* The join a run waits for is the one it started for its host.            *)
OwnJoin(reqs, h, r) ==
    r.stage = "joining" =>
        /\ r.worker \in Worker /\ reqs[r.worker].stage # "idle"
        /\ reqs[r.worker].stage # "failed" => reqs[r.worker].name = h

DeliveredInv ==
    \A w \in Worker : join[w].stage = "answered" => toml[join[w].name].cred # None

ReportInv ==
    /\ ran = [h \in Name |-> ran[h]]
    /\ DeliveredInv
    /\ \A h \in Inventory : /\ Done(ran[h], toml[h], service[h], run[h])
                            /\ OwnJoin(join, h, run[h])

LEMMA InitReports == ProvisioningInit => ReportInv
  <1> SUFFICES ASSUME ProvisioningInit PROVE ReportInv
    OBVIOUS
  <1>1. \A h \in Inventory : run[h] = Over("idle", FALSE) /\ run[h].stage = "idle"
    BY DEF ProvisioningInit, Over
  <1>2. \A h \in Inventory : Done(ran[h], toml[h], service[h], run[h]) /\ OwnJoin(join, h, run[h])
    BY <1>1 DEF Done, Past, OwnJoin
  <1>3. DeliveredInv
    BY DEF ProvisioningInit, Init, NoRequest, DeliveredInv
  <1>4. ran = [h \in Name |-> ran[h]]
    BY DEF ProvisioningInit
  <1> QED BY <1>2, <1>3, <1>4 DEF ReportInv

(* Where the commands that matter here are in the playbook.                *)
LEMMA PlayPlaces ==
    /\ Size(1) = 1 /\ Size(2) = 3 /\ Size(3) = 2 /\ Size(4) = 3 /\ Size(5) = 3
    /\ Size(6) = 1 /\ Size(7) = 4
    /\ Play[1] = "install_deps" /\ Play[2] = "install_fleet_worker"
    /\ Play[5] = "configure_mtls" /\ Play[6] = "push_credentials"
    /\ Commands[Play[1]][1] = "packages" /\ Commands[Play[6]][1] = "push"
    /\ Commands[Play[2]][1] = "upload" /\ Commands[Play[2]][2] = "unit"
    /\ Play[3] = "issue_mtls_assets" /\ Play[4] = "join_worker" /\ Play[7] = "start_services"
    /\ Commands[Play[3]][1] = "certs" /\ Commands[Play[4]][2] = "join"
    /\ Commands[Play[5]][1] = "read" /\ Commands[Play[5]][2] = "section"
    /\ Commands[Play[7]][2] = "enable"
    /\ \A i \in Steps : \A c \in 1..Size(i) :
          /\ Commands[Play[i]][c] \in {"enable", "restart"} => i = 7 /\ c \in {2, 3}
          /\ Commands[Play[i]][c] = "read" => i = 5 /\ c = 1
          /\ Commands[Play[i]][c] = "section" => i = 5 /\ c = 2
          /\ Commands[Play[i]][c] = "wait" => i = 7 /\ c = 4
  <1>1. \A i \in Steps : i = 1 \/ i = 2 \/ i = 3 \/ i = 4 \/ i = 5 \/ i = 6 \/ i = 7
    BY DEF Steps
  <1>2. /\ Size(1) = 1 /\ Size(2) = 3 /\ Size(3) = 2 /\ Size(4) = 3 /\ Size(5) = 3
        /\ Size(6) = 1 /\ Size(7) = 4
    BY DEF Size, Play, Commands
  <1>3. \A i \in Steps : \A c \in 1..Size(i) : c = 1 \/ c = 2 \/ c = 3 \/ c = 4
    BY <1>1, <1>2
  <1>4. ASSUME NEW i \in Steps, NEW c \in 1..Size(i)
        PROVE  /\ Commands[Play[i]][c] \in {"enable", "restart"} => i = 7 /\ c \in {2, 3}
               /\ Commands[Play[i]][c] = "read" => i = 5 /\ c = 1
               /\ Commands[Play[i]][c] = "section" => i = 5 /\ c = 2
               /\ Commands[Play[i]][c] = "wait" => i = 7 /\ c = 4
    <2>1. CASE i \in {1, 2, 3}
      BY <1>2, <1>3, <2>1 DEF Play, Commands
    <2>2. CASE i = 4
      BY <1>2, <1>3, <2>2 DEF Play, Commands
    <2>3. CASE i \in {5, 6, 7}
      BY <1>2, <1>3, <2>3 DEF Play, Commands
    <2> QED BY <1>1, <2>1, <2>2, <2>3
  <1>5. /\ Play[1] = "install_deps" /\ Play[2] = "install_fleet_worker"
        /\ Play[5] = "configure_mtls" /\ Play[6] = "push_credentials"
        /\ Commands[Play[1]][1] = "packages" /\ Commands[Play[6]][1] = "push"
        /\ Commands[Play[2]][1] = "upload" /\ Commands[Play[2]][2] = "unit"
        /\ Play[3] = "issue_mtls_assets" /\ Play[4] = "join_worker" /\ Play[7] = "start_services"
        /\ Commands[Play[3]][1] = "certs" /\ Commands[Play[4]][2] = "join"
        /\ Commands[Play[5]][1] = "read" /\ Commands[Play[5]][2] = "section"
        /\ Commands[Play[7]][2] = "enable"
    BY DEF Play, Commands
  <1> QED BY <1>2, <1>4, <1>5

(***************************************************************************)
(* A run that goes on to the next step, or after a command.                *)

LEMMA NextStepDone ==
    ASSUME NEW h \in Name, NEW r, GoodRun(h, r), r.stage \in {"probe", "run", "joining"},
           NEW marks, NEW conf, NEW svc,
           "packages" \in marks, r.step >= 2 => {"upload", "unit"} \subseteq marks,
           r.step >= 6 => "push" \in marks,
           r.step >= 3 /\ r.mtls => "certs" \in marks,
           r.step >= 4 => conf.cred # None,
           r.step = 7 => svc # Nothing
    PROVE  /\ Done(marks, conf, svc, ToNextStep(r))
           /\ ToNextStep(r).stage # "joining"
           /\ ToNextStep(r).stage = "succeeded" => Promised(marks, conf, svc, r)
  <1>1. r \in RunState /\ r.step \in 1..7
    BY DEF GoodRun, RunState, Steps
  <1> PICK q : q = ToNextStep(r)
    OBVIOUS
  <1>2. CASE r.step = 7
    <2>1. q = Over("succeeded", r.mtls) /\ q.stage = "succeeded"
      BY <1>2, PlayShape DEF ToNextStep, Over
    <2> QED BY <1>2, <2>1 DEF Done, Past, Promised
  <1>3. CASE r.step # 7
    <2>1. q = [r EXCEPT !.stage = "probe", !.step = r.step + 1, !.at = 1]
      BY <1>3, PlayShape DEF ToNextStep
    <2>2. q.stage = "probe" /\ q.step = r.step + 1 /\ q.at = 1 /\ q.mtls = r.mtls
      BY <1>1, <2>1 DEF RunState
    <2> QED BY <1>1, <1>3, <2>2 DEF Done, Past
  <1> QED BY <1>2, <1>3

LEMMA AfterDone ==
    ASSUME NEW h \in Name, NEW r, GoodRun(h, r), r.stage \in {"probe", "run", "joining"},
           NEW marks, NEW conf, NEW svc, Done(marks, conf, svc, r),
           r.step = 1 /\ r.at = 1 => "packages" \in marks,
           r.step = 2 /\ r.at = 1 => "upload" \in marks,
           r.step = 2 /\ r.at = 2 => "unit" \in marks,
           r.step = 6 /\ r.at = 1 => "push" \in marks,
           r.step = 3 /\ r.at = 1 /\ r.mtls => "certs" \in marks,
           r.step = 4 /\ r.at = 2 => conf.cred # None,
           r.step = 7 /\ r.at = 2 => svc # Nothing,
           NEW a, a = AfterCommand(r),
           NEW q, q.stage = a.stage, q.step = a.step, q.at = a.at, q.mtls = a.mtls,
           r.step = 5 /\ r.at = 1 => q.copy.cred # None
    PROVE  /\ Done(marks, conf, svc, q)
           /\ q.stage # "joining"
           /\ q.stage = "succeeded" => Promised(marks, conf, svc, r)
  <1>1. r \in RunState /\ r.step \in 1..7 /\ r.at \in 1..4
    BY DEF GoodRun, RunState, Steps
  <1>2. CASE r.at = Size(r.step)
    <2>1. a = ToNextStep(r)
      BY <1>2 DEF AfterCommand, Size
    <2>2. CASE r.step = 7
      <3>1. a = Over("succeeded", r.mtls)
        BY <2>1, <2>2, PlayShape DEF ToNextStep
      <3>2. a.stage = "succeeded"
        BY <3>1 DEF Over
      <3>3. r.at = 4
        BY <1>2, <2>2, PlayPlaces
      <3> QED BY <2>2, <3>2, <3>3 DEF Done, Past, Promised
    <2>3. CASE r.step # 7
      <3>1. a = [r EXCEPT !.stage = "probe", !.step = r.step + 1, !.at = 1]
        BY <2>1, <2>3, PlayShape DEF ToNextStep
      <3>2. a.stage = "probe" /\ a.step = r.step + 1 /\ a.at = 1 /\ a.mtls = r.mtls
        BY <1>1, <3>1 DEF RunState
      <3>3. /\ (r.step = 3 => r.at = 2) /\ (r.step = 4 => r.at = 3)
            /\ (r.step = 1 => r.at = 1) /\ (r.step = 2 => r.at = 3) /\ (r.step = 6 => r.at = 1)
        BY <1>2, PlayPlaces
      <3> QED BY <1>1, <2>3, <3>2, <3>3 DEF Done, Past
    <2> QED BY <2>2, <2>3
  <1>3. CASE r.at # Size(r.step)
    <2>1. a = [r EXCEPT !.stage = "run", !.at = r.at + 1]
      BY <1>3 DEF AfterCommand, Size
    <2>2. a.stage = "run" /\ a.step = r.step /\ a.at = r.at + 1 /\ a.mtls = r.mtls
      BY <1>1, <2>1 DEF RunState
    <2> QED BY <1>1, <2>2 DEF Done, Past
  <1> QED BY <1>2, <1>3

(***************************************************************************)
(* A join request is somebody's from the start, and is answered once.      *)

LEMMA JoinStays ==
    ASSUME EnrolmentInv, [Next]_enrolmentVars, NEW w \in Worker, join[w].stage # "idle"
    PROVE  /\ join'[w].stage # "idle"
           /\ join'[w].stage # "failed" =>
                  join[w].stage # "failed" /\ join'[w].name = join[w].name
           /\ join'[w].stage = "answered" => join[w].stage = "answered" \/ Answer(w)
  <1>1. join \in [Worker -> Request]
    BY DEF EnrolmentInv, TypeOK, Request
  <1>2. ASSUME NEW v \in Worker, NEW t \in Token, NEW n \in Name, Ask(v, t, n)
        PROVE  join'[w] = join[w]
    BY <1>1, <1>2 DEF Ask, Fail, Request
  <1>3. ASSUME NEW v \in Worker, Handle(v) \/ Abort(v) \/ Answer(v) \/ Lose(v), v # w
        PROVE  join'[w] = join[w]
    BY <1>1, <1>3 DEF Handle, Consume, InsertWorker, Commit, Abort, Answer, Lose,
                      ToStage, Fail, Request
  <1>4. ASSUME Handle(w) \/ Abort(w) \/ Answer(w) \/ Lose(w)
        PROVE  /\ join'[w].stage # "idle"
               /\ join'[w].stage # "failed" =>
                      join[w].stage # "failed" /\ join'[w].name = join[w].name
               /\ join'[w].stage = "answered" => Answer(w)
    BY <1>1, <1>4 DEF Handle, Consume, InsertWorker, Commit, Abort, Answer, Lose,
                      ToStage, Fail, NoRequest, Request
  <1>6. \/ \E v \in Worker, t \in Token, n \in Name : Ask(v, t, n)
        \/ \E v \in Worker : Handle(v) \/ Abort(v) \/ Answer(v) \/ Lose(v)
        \/ UNCHANGED join
    BY DEF Next, Administer, Expire, Issue, RevokeToken, Deregister, RotateCredential,
           RevokeCredential, FindRow, WriteRow, MarkOffline, enrolmentVars
  <1> QED BY <1>2, <1>3, <1>4, <1>6

LEMMA NotAnsweredAtOnce ==
    ASSUME EnrolmentInv, [Next]_enrolmentVars, NEW w \in Worker, join'[w].stage = "answered"
    PROVE  /\ join[w].stage # "idle" /\ join'[w].name = join[w].name
           /\ join[w].stage = "answered" \/ Answer(w)
  <1>1. join \in [Worker -> Request]
    BY DEF EnrolmentInv, TypeOK, Request
  <1>2. ASSUME join[w].stage = "idle" PROVE FALSE
    <2>1. ASSUME NEW v \in Worker, NEW t \in Token, NEW n \in Name, Ask(v, t, n)
          PROVE  FALSE
      BY <1>1, <1>2, <2>1 DEF Ask, Fail, NoRequest, Request
    <2>2. ASSUME NEW v \in Worker, Handle(v) \/ Abort(v) \/ Answer(v) \/ Lose(v)
          PROVE  FALSE
      BY <1>1, <1>2, <2>2 DEF Handle, Consume, InsertWorker, Commit, Abort, Answer, Lose,
                              ToStage, Fail, Request
    <2>3. \/ \E v \in Worker, t \in Token, n \in Name : Ask(v, t, n)
          \/ \E v \in Worker : Handle(v) \/ Abort(v) \/ Answer(v) \/ Lose(v)
          \/ UNCHANGED join
      BY DEF Next, Administer, Expire, Issue, RevokeToken, Deregister, RotateCredential,
             RevokeCredential, FindRow, WriteRow, MarkOffline, enrolmentVars
    <2> QED BY <1>2, <2>1, <2>2, <2>3
  <1> QED BY <1>2, JoinStays

(* A step of the run of one host, or of none, keeps what was done.         *)
LEMMA ReportsStay ==
    ASSUME ProvisioningInv, ReportInv, [Next]_enrolmentVars, ran' = [n \in Name |-> ran'[n]],
           \A n \in Name : /\ ran[n] \subseteq ran'[n]
                           /\ toml[n].cred # None => toml'[n].cred # None
                           /\ service[n] # Nothing => service'[n] # Nothing,
           \A w \in Worker : Answer(w) => toml'[join[w].name].cred # None,
           \A h \in Inventory :
               \/ run'[h] = run[h]
               \/ Done(ran'[h], toml'[h], service'[h], run'[h]) /\ OwnJoin(join', h, run'[h])
    PROVE  ReportInv'
  <1>1. DeliveredInv'
    <2> SUFFICES ASSUME NEW w \in Worker, join'[w].stage = "answered"
                 PROVE  toml'[join'[w].name].cred # None
      BY DEF DeliveredInv
    <2>1. /\ join'[w].name = join[w].name
          /\ join[w].stage = "answered" \/ Answer(w)
      BY NotAnsweredAtOnce DEF ProvisioningInv
    <2>2. CASE Answer(w)
      BY <2>1, <2>2
    <2>3. CASE join[w].stage = "answered"
      <3>1. join[w].name \in Name /\ toml[join[w].name].cred # None
        BY <2>3 DEF ReportInv, DeliveredInv, ProvisioningInv, EnrolmentInv, RequestInv
      <3> QED BY <2>1, <3>1
    <2> QED BY <2>1, <2>2, <2>3
  <1>2. ASSUME NEW h \in Inventory, run'[h] = run[h]
        PROVE  Done(ran'[h], toml'[h], service'[h], run'[h]) /\ OwnJoin(join', h, run'[h])
    <2>1. Done(ran[h], toml[h], service[h], run[h]) /\ OwnJoin(join, h, run[h]) /\ h \in Name
      BY DEF ReportInv
    <2>2. Done(ran'[h], toml'[h], service'[h], run[h])
      BY <2>1 DEF Done
    <2>3. run[h].stage = "joining" =>
              /\ run[h].worker \in Worker /\ join'[run[h].worker].stage # "idle"
              /\ join'[run[h].worker].stage # "failed" => join'[run[h].worker].name = h
      BY <2>1, JoinStays DEF OwnJoin, ProvisioningInv
    <2> QED BY <1>2, <2>2, <2>3 DEF OwnJoin, Done, Past
  <1> QED BY <1>1, <1>2 DEF ReportInv

(***************************************************************************)
(* The run of one host takes a step: what it leaves on the host, and what  *)
(* a success may then promise.                                             *)
(***************************************************************************)
Earned(h, marks, conf, svc, r) ==
    /\ ran[h] \subseteq marks
    /\ toml[h].cred # None => conf.cred # None
    /\ service[h] # Nothing => svc # Nothing
    /\ Done(marks, conf, svc, r) /\ r.stage # "joining"
    /\ r.stage = "succeeded" => Promised(marks, conf, svc, run[h])

LEMMA NothingEarned ==
    ASSUME ReportInv, NEW h \in Inventory, NEW r, r.stage \in {"failed", "idle"} \/
                      (r.stage = "probe" /\ r.step = 1 /\ r.at = 1)
    PROVE  Earned(h, ran[h], toml[h], service[h], r)
  BY DEF Earned, Done, Past

LEMMA BeginEarns ==
    ASSUME ReportInv, NEW h \in Inventory, NEW m \in BOOLEAN
    PROVE  /\ Earned(h, ran[h], toml[h], service[h], Over("probe", m))
           /\ Earned(h, ran[h], toml[h], service[h], Failed)
  BY NothingEarned DEF Over, Failed

LEMMA ProbeEarns ==
    ASSUME ProvisioningInv, ReportInv, NEW h \in Inventory, Probe(h),
           NEW r, Go(h, r)
    PROVE  Earned(h, ran[h], toml[h], service[h], r)
  <1> DEFINE old == run[h]
  <1>1. /\ GoodRun(h, old) /\ Done(ran[h], toml[h], service[h], old) /\ h \in Name
        /\ old.stage = "probe" /\ old \in RunState /\ old.step \in 1..7 /\ old.at = 1
    BY DEF ProvisioningInv, RunsInv, ReportInv, Probe, GoodRun, RunState, Steps
  <1>2. r = run'[h]
    BY DEF Go, ProvisioningInv, RunsInv
  <1>3. CASE /\ \/ IsApplied(h)
                \/ Step(h) \in {"issue_mtls_assets", "configure_mtls"} /\ ~old.mtls
             /\ r = ToNextStep(old)
    <2>1. old.step = 3 /\ old.mtls => "certs" \in ran[h]
      BY <1>3, PlayPlaces DEF IsApplied, Step
    <2>2. old.step = 4 => toml[h].cred # None
      BY <1>3, PlayPlaces DEF IsApplied, Step, HasJoined
    <2>3. old.step = 7 => service[h] # Nothing
      BY <1>3, PlayPlaces DEF IsApplied, Step
    <2>6. /\ old.step = 1 => "packages" \in ran[h]
          /\ old.step = 2 => {"upload", "unit"} \subseteq ran[h]
          /\ old.step # 6
      BY <1>3, PlayPlaces DEF IsApplied, Step
    <2> HIDE DEF old
    <2>4. /\ old.step >= 3 /\ old.mtls => "certs" \in ran[h]
          /\ old.step >= 4 => toml[h].cred # None
          /\ "packages" \in ran[h] /\ (old.step >= 2 => {"upload", "unit"} \subseteq ran[h])
          /\ old.step >= 6 => "push" \in ran[h]
      BY <1>1, <2>1, <2>2, <2>6 DEF Done, Past
    <2>5. /\ Done(ran[h], toml[h], service[h], r) /\ r.stage # "joining"
          /\ r.stage = "succeeded" => Promised(ran[h], toml[h], service[h], old)
      BY <1>1, <1>3, <2>3, <2>4, NextStepDone
    <2> QED BY <2>5 DEF Earned, old
  <1>4. CASE r = [old EXCEPT !.stage = "run"]
    <2> HIDE DEF old
    <2>1. r.stage = "run" /\ r.step = old.step /\ r.at = 1 /\ r.mtls = old.mtls
      BY <1>1, <1>4 DEF RunState
    <2> QED BY <1>1, <2>1 DEF Earned, Done, Past
  <1>5. run'[h] = IF \/ IsApplied(h)
                     \/ Step(h) \in {"issue_mtls_assets", "configure_mtls"} /\ ~old.mtls
                  THEN ToNextStep(old) ELSE [old EXCEPT !.stage = "run"]
    BY DEF Probe, Go, ProvisioningInv, RunsInv
  <1> QED BY <1>2, <1>3, <1>4, <1>5

LEMMA CommandPlaces ==
    ASSUME ProvisioningInv, NEW h \in Inventory, run[h].stage = "run"
    PROVE  /\ Command(h) \in {"enable", "restart"} => run[h].step = 7 /\ run[h].at \in {2, 3}
           /\ Command(h) = "read" => run[h].step = 5 /\ run[h].at = 1
           /\ Command(h) = "section" => run[h].step = 5 /\ run[h].at = 2
           /\ Command(h) = "wait" => run[h].step = 7 /\ run[h].at = 4
           /\ Command(h) = "mint" => run[h].step = 4 /\ run[h].at = 1
           /\ run[h].step = 1 /\ run[h].at = 1 => Command(h) = "packages"
           /\ run[h].step = 2 /\ run[h].at = 1 => Command(h) = "upload"
           /\ run[h].step = 2 /\ run[h].at = 2 => Command(h) = "unit"
           /\ run[h].step = 6 /\ run[h].at = 1 => Command(h) = "push"
           /\ run[h].step = 3 /\ run[h].at = 1 => Command(h) = "certs"
           /\ run[h].step = 4 /\ run[h].at = 2 => Command(h) = "join"
           /\ run[h].step = 5 /\ run[h].at = 1 => Command(h) = "read"
           /\ run[h].step = 5 /\ run[h].at = 2 => Command(h) = "section"
           /\ run[h].step = 7 /\ run[h].at = 2 => Command(h) = "enable"
  <1>1. run[h].step \in Steps /\ run[h].at \in 1..Size(run[h].step)
    BY DEF ProvisioningInv, RunsInv, GoodRun, RunState
  <1>2. Command(h) = Commands[Play[run[h].step]][run[h].at]
    BY DEF Command, Step
  <1> QED BY <1>1, <1>2, PlayPlaces, PlayShape

(* After a command, the step keeps or gains what it is there for.          *)
LEMMA CommandEarns ==
    ASSUME ProvisioningInv, ReportInv, NEW h \in Inventory, run[h].stage \in {"run", "joining"},
           NEW marks, ran[h] \subseteq marks,
           NEW conf, toml[h].cred # None => conf.cred # None,
           NEW svc, service[h] # Nothing => svc # Nothing,
           run[h].step = 1 /\ run[h].at = 1 => "packages" \in marks,
           run[h].step = 2 /\ run[h].at = 1 => "upload" \in marks,
           run[h].step = 2 /\ run[h].at = 2 => "unit" \in marks,
           run[h].step = 6 /\ run[h].at = 1 => "push" \in marks,
           run[h].step = 3 /\ run[h].at = 1 => "certs" \in marks,
           run[h].step = 4 /\ run[h].at = 2 => conf.cred # None,
           run[h].step = 7 /\ run[h].at = 2 => svc # Nothing,
           NEW a, a = AfterCommand(run[h]),
           NEW q, q.stage = a.stage, q.step = a.step, q.at = a.at, q.mtls = a.mtls,
           run[h].step = 5 /\ run[h].at = 1 => q.copy.cred # None
    PROVE  Earned(h, marks, conf, svc, q)
  <1>1. GoodRun(h, run[h]) /\ h \in Name /\ Done(ran[h], toml[h], service[h], run[h])
    BY DEF ProvisioningInv, RunsInv, ReportInv
  <1> PICK r : r = run[h]
    OBVIOUS
  <1>2. Done(marks, conf, svc, r)
    BY <1>1 DEF Done
  <1>3. /\ Done(marks, conf, svc, q) /\ q.stage # "joining"
        /\ q.stage = "succeeded" => Promised(marks, conf, svc, r)
    BY <1>1, <1>2, AfterDone
  <1> QED BY <1>3 DEF Earned

(* The token and the copy a run keeps do not matter to where it is.        *)
LEMMA AfterFields ==
    ASSUME NEW h \in Name, NEW r, GoodRun(h, r), r.stage \in {"run", "joining"},
           NEW a, a = AfterCommand(r)
    PROVE  a \in RunState
  <1>1. r \in RunState /\ r.at \in 1..Size(r.step)
    BY DEF GoodRun
  <1>2. ToNextStep(r) \in RunState
    BY AfterIsGood DEF GoodRun
  <1>3. CASE r.at = Size(r.step)
    BY <1>2, <1>3 DEF AfterCommand, Size
  <1>4. CASE r.at # Size(r.step)
    <2>1. a = [r EXCEPT !.stage = "run", !.at = r.at + 1]
      BY <1>4 DEF AfterCommand, Size
    <2>2. Size(r.step) \in 1..4
      BY <1>1, PlayShape DEF RunState
    <2>3. r.at + 1 \in 1..4
      BY <1>1, <1>4, <2>2
    <2> PICK n \in 1..4 : n = r.at + 1
      BY <2>3
    <2>4. a = [r EXCEPT !.stage = "run", !.at = n]
      BY <2>1
    <2> QED BY <1>1, <2>4 DEF RunState
  <1> QED BY <1>3, <1>4

(* The steps of a run other than those of the join.                        *)
LEMMA LocalEarns ==
    ASSUME ProvisioningInv, ReportInv, NEW h \in Inventory,
           \/ Begin(h) \/ Probe(h) \/ Execute(h) \/ Mint(h) \/ TokensDrawn(h) \/ ReadConfig(h)
           \/ AppendSection(h) \/ StartUnit(h) \/ Wait(h) \/ RunBreaks(h) \/ MintBreaks(h)
    PROVE  Earned(h, ran'[h], toml'[h], service'[h], run'[h])
  <1> DEFINE r == run[h]
             a == AfterCommand(r)
  <1>1. /\ h \in Name /\ GoodRun(h, r) /\ r \in RunState
        /\ toml \in [Name -> Config] /\ service \in [Name -> Config]
        /\ ran = [n \in Name |-> ran[n]] /\ run \in [Inventory -> RunState]
        /\ Done(ran[h], toml[h], service[h], r)
    BY DEF ProvisioningInv, RunsInv, HostsInv, ReportInv, GoodRun
  <1>2. r.stage = "run" => a \in RunState
    <2> HIDE DEF a
    <2> SUFFICES ASSUME r.stage = "run" PROVE a \in RunState
      OBVIOUS
    <2>1. a = AfterCommand(r)
      BY DEF a
    <2> HIDE DEF r
    <2> QED BY <1>1, <2>1, AfterFields
  <1>3. ASSUME NEW q, Go(h, q) PROVE run'[h] = q
    BY <1>1, <1>3 DEF Go
  <1>4. ASSUME UNCHANGED remote
        PROVE  ran'[h] = ran[h] /\ toml'[h] = toml[h] /\ service'[h] = service[h]
    BY <1>4 DEF remote
  <1>5. Earned(h, ran[h], toml[h], service[h], Failed)
    BY BeginEarns
  <1>6. CASE Begin(h)
    <2>1. PICK m \in BOOLEAN : Go(h, Over("probe", m))
      BY <1>6 DEF Begin
    <2>2. run'[h] = Over("probe", m) /\ UNCHANGED <<toml, service, ran>>
      BY <1>3, <1>6, <2>1 DEF Begin
    <2> QED BY <2>2, BeginEarns
  <1>7. CASE Probe(h)
    <2>1. PICK q : Go(h, q)
      BY <1>7 DEF Probe
    <2>2. run'[h] = q /\ UNCHANGED remote
      BY <1>3, <1>7, <2>1 DEF Probe
    <2> QED BY <1>4, <1>7, <2>1, <2>2, ProbeEarns
  <1>8. CASE RunBreaks(h) \/ MintBreaks(h) \/ TokensDrawn(h)
    <2>1. Go(h, Failed) /\ UNCHANGED remote
      BY <1>8 DEF RunBreaks, MintBreaks, TokensDrawn
    <2> QED BY <1>3, <1>4, <1>5, <2>1
  <1>9. CASE Execute(h)
    <2> DEFINE marks == ran[h] \cup {Command(h)}
    <2>1. r.stage = "run" /\ Command(h) \notin {"join", "read", "enable"}
      BY <1>9 DEF Execute
    <2>2. /\ ran'[h] = marks /\ toml'[h] = toml[h] /\ service'[h] = service[h]
          /\ run'[h] = a
      <3>1. Go(h, a) /\ ran' = [ran EXCEPT ![h] = marks] /\ UNCHANGED <<toml, service>>
        BY <1>9 DEF Execute
      <3>2. ran'[h] = marks
        <4> HIDE DEF marks
        <4> QED BY <1>1, <3>1
      <3> QED BY <1>3, <3>1, <3>2
    <2>3. /\ r.step = 1 /\ r.at = 1 => "packages" \in marks
          /\ r.step = 2 /\ r.at = 1 => "upload" \in marks
          /\ r.step = 2 /\ r.at = 2 => "unit" \in marks
          /\ r.step = 6 /\ r.at = 1 => "push" \in marks
          /\ r.step = 3 /\ r.at = 1 => "certs" \in marks
          /\ ~(r.step = 4 /\ r.at = 2) /\ ~(r.step = 7 /\ r.at = 2) /\ ~(r.step = 5 /\ r.at = 1)
      BY <2>1, CommandPlaces
    <2>4. ran[h] \subseteq marks
      OBVIOUS
    <2> HIDE DEF marks
    <2>5. Earned(h, marks, toml[h], service[h], a)
      <3> HIDE DEF a
      <3>1. a = AfterCommand(run[h])
        BY DEF a
      <3> QED BY <2>1, <2>3, <2>4, <3>1, CommandEarns
    <2> QED BY <2>2, <2>5
  <1>10. CASE Mint(h)
    <2> DEFINE q == [a EXCEPT !.token = NewToken]
    <2>1. r.stage = "run" /\ r.step = 4 /\ r.at = 1 /\ Go(h, q) /\ UNCHANGED remote
      BY <1>10, CommandPlaces DEF Mint, Running
    <2>2. q.stage = a.stage /\ q.step = a.step /\ q.at = a.at /\ q.mtls = a.mtls
      <3> HIDE DEF a, r
      <3> QED BY <1>2, <2>1 DEF RunState
    <2>3. run'[h] = q
      <3> HIDE DEF q
      <3> QED BY <1>3, <2>1
    <2> HIDE DEF q
    <2>4. Earned(h, ran[h], toml[h], service[h], q)
      <3> HIDE DEF a
      <3>1. a = AfterCommand(run[h])
        BY DEF a
      <3> QED BY <2>1, <2>2, <3>1, CommandEarns
    <2> QED BY <1>4, <2>1, <2>3, <2>4
  <1>11. CASE ReadConfig(h)
    <2> DEFINE q == [a EXCEPT !.copy = toml[h]]
    <2>1. /\ r.stage = "run" /\ r.step = 5 /\ r.at = 1 /\ UNCHANGED remote
          /\ Go(h, IF toml[h].cred = None THEN Failed ELSE q)
      BY <1>11, CommandPlaces DEF ReadConfig, Running
    <2>2. /\ q.stage = a.stage /\ q.step = a.step /\ q.at = a.at /\ q.mtls = a.mtls
          /\ q.copy = toml[h]
      <3> HIDE DEF a, r
      <3> QED BY <1>2, <2>1 DEF RunState
    <2> HIDE DEF q
    <2>3. run'[h] = IF toml[h].cred = None THEN Failed ELSE q
      BY <1>3, <2>1
    <2>4. toml[h].cred # None => Earned(h, ran[h], toml[h], service[h], q)
      <3> HIDE DEF a
      <3>1. a = AfterCommand(run[h])
        BY DEF a
      <3>2. /\ run[h].stage = "run" /\ run[h].step \notin {1, 2, 3, 4, 6, 7}
            /\ ran[h] \subseteq ran[h] /\ q.copy = toml[h]
        BY <2>1, <2>2
      <3> HIDE DEF r
      <3> QED BY <2>2, <3>1, <3>2, CommandEarns
    <2> QED BY <1>4, <1>5, <2>1, <2>3, <2>4
  <1>12. CASE AppendSection(h)
    <2> DEFINE q == [a EXCEPT !.copy = Nothing]
               c == [r.copy EXCEPT !.mtls = TRUE]
    <2>1. /\ r.stage = "run" /\ r.step = 5 /\ r.at = 2 /\ UNCHANGED <<service, ran>>
          /\ toml' = [toml EXCEPT ![h] = c] /\ Go(h, q)
      BY <1>12, CommandPlaces DEF AppendSection, Running
    <2>2. q.stage = a.stage /\ q.step = a.step /\ q.at = a.at /\ q.mtls = a.mtls
      <3> HIDE DEF a, r
      <3> QED BY <1>2, <2>1 DEF RunState
    <2>3. c.cred # None
      <3>1. r.copy.cred # None /\ r.copy \in Config
        BY <1>1, <2>1 DEF Done, RunState
      <3> HIDE DEF r
      <3> QED BY <3>1 DEF Config
    <2> HIDE DEF q, c
    <2>4. run'[h] = q /\ toml'[h] = c
      BY <1>1, <1>3, <2>1
    <2>5. Earned(h, ran[h], c, service[h], q)
      <3> HIDE DEF a
      <3>1. a = AfterCommand(run[h])
        BY DEF a
      <3> QED BY <2>1, <2>2, <2>3, <3>1, CommandEarns
    <2> QED BY <2>1, <2>4, <2>5
  <1>13. CASE StartUnit(h)
    <2>1. /\ r.stage = "run" /\ r.step = 7 /\ UNCHANGED <<toml, ran>>
          /\ service' = [service EXCEPT ![h] = toml[h]] /\ Go(h, a)
      BY <1>13, CommandPlaces DEF StartUnit
    <2>2. toml[h].cred # None /\ toml[h] # Nothing
      BY <1>1, <2>1 DEF Done, Past, Nothing
    <2> HIDE DEF a
    <2>3. run'[h] = a /\ service'[h] = toml[h]
      BY <1>1, <1>3, <2>1
    <2>4. Earned(h, ran[h], toml[h], toml[h], a)
      <3>1. a = AfterCommand(run[h])
        BY DEF a
      <3>2. /\ run[h].stage = "run" /\ run[h].step \notin {1, 2, 3, 4, 5, 6}
            /\ ran[h] \subseteq ran[h]
        BY <2>1
      <3> HIDE DEF r
      <3> QED BY <2>2, <3>1, <3>2, CommandEarns
    <2> QED BY <2>1, <2>3, <2>4
  <1>14. CASE Wait(h)
    <2> HIDE DEF a
    <2>1. /\ r.stage = "run" /\ r.step = 7 /\ r.at = 4 /\ UNCHANGED remote
          /\ Go(h, IF workers[h] # None /\ status[h] # "offline" THEN a ELSE Failed)
      BY <1>14, CommandPlaces DEF Wait, Running, a
    <2>2. run'[h] = a \/ run'[h] = Failed
      BY <1>3, <2>1
    <2>3. Earned(h, ran[h], toml[h], service[h], a)
      <3>1. a = AfterCommand(run[h])
        BY DEF a
      <3> QED BY <2>1, <3>1, CommandEarns
    <2> QED BY <1>4, <1>5, <2>1, <2>2, <2>3
  <1> QED BY <1>6, <1>7, <1>8, <1>9, <1>10, <1>11, <1>12, <1>13, <1>14

(* Only Deliver answers a request.                                         *)
LEMMA NobodyElseAnswers ==
    ASSUME EnrolmentInv,
           UNCHANGED join \/ \E v \in Worker, t \in Token, n \in Name : Ask(v, t, n)
    PROVE  \A w \in Worker : ~Answer(w)
  <1>1. join \in [Worker -> Request]
    BY DEF EnrolmentInv, TypeOK, Request
  <1> SUFFICES ASSUME NEW w \in Worker, Answer(w) PROVE FALSE
    OBVIOUS
  <1>2. join[w].stage = "committed" /\ join'[w].stage = "answered"
    BY <1>1 DEF Answer, ToStage, Request
  <1>3. PICK v \in Worker, t \in Token, n \in Name : Ask(v, t, n)
    BY <1>2
  <1>4. v # w /\ join[v].stage = "idle"
    BY <1>2, <1>3 DEF Ask
  <1> QED BY <1>1, <1>2, <1>3, <1>4 DEF Ask, Fail

(* The own steps of a run touch one host and one run.                      *)
LEMMA OwnSteps ==
    ASSUME ProvisioningInv, ReportInv, NEW h \in Inventory,
           Begin(h) \/ Proceed(h) \/ RunBreaks(h) \/ MintBreaks(h)
    PROVE  /\ \A i \in Inventory : i # h => run'[i] = run[i]
           /\ ran' = [n \in Name |-> ran'[n]]
           /\ \A n \in Name : n # h =>
                 ran'[n] = ran[n] /\ toml'[n] = toml[n] /\ service'[n] = service[n]
           /\ \A w \in Worker : ~Answer(w)
  <1>1. /\ h \in Name /\ EnrolmentInv /\ run \in [Inventory -> RunState]
        /\ toml \in [Name -> Config] /\ service \in [Name -> Config]
        /\ ran = [n \in Name |-> ran[n]]
    BY DEF ProvisioningInv, RunsInv, HostsInv, ReportInv
  <1>2. \E r : Go(h, r)
    <2>1. ASSUME Begin(h) PROVE \E r : Go(h, r)
      BY <2>1 DEF Begin
    <2>2. ASSUME JoinEnds(h) PROVE \E r : Go(h, r)
      BY <2>2 DEF JoinEnds
    <2>3. ASSUME Probe(h) \/ ReadConfig(h) \/ Wait(h) PROVE \E r : Go(h, r)
      BY <2>3 DEF Probe, ReadConfig, Wait
    <2> QED BY <2>1, <2>2, <2>3 DEF Proceed, Execute, Mint, TokensDrawn, StartJoin, AppendSection,
                                    StartUnit, RunBreaks, MintBreaks
  <1>3. \A i \in Inventory : i # h => run'[i] = run[i]
    BY <1>1, <1>2 DEF Go
  <1>4. \/ UNCHANGED <<toml, service, ran>>
        \/ UNCHANGED <<toml, service>> /\ \E c : ran' = [ran EXCEPT ![h] = c]
        \/ UNCHANGED <<toml, ran>> /\ \E c : service' = [service EXCEPT ![h] = c]
        \/ UNCHANGED <<service, ran>> /\ \E c : toml' = [toml EXCEPT ![h] = c]
    <2>1. ASSUME Execute(h) PROVE UNCHANGED <<toml, service>> /\ \E c : ran' = [ran EXCEPT ![h] = c]
      BY <2>1 DEF Execute
    <2>2. ASSUME StartUnit(h)
          PROVE  UNCHANGED <<toml, ran>> /\ \E c : service' = [service EXCEPT ![h] = c]
      BY <2>2 DEF StartUnit
    <2>3. ASSUME AppendSection(h)
          PROVE  UNCHANGED <<service, ran>> /\ \E c : toml' = [toml EXCEPT ![h] = c]
      BY <2>3 DEF AppendSection
    <2>4. ASSUME ~Execute(h), ~StartUnit(h), ~AppendSection(h)
          PROVE  UNCHANGED <<toml, service, ran>>
      BY <2>4 DEF remote, Proceed, Begin, Probe, Mint, TokensDrawn, StartJoin, JoinEnds, ReadConfig, Wait,
                  RunBreaks, MintBreaks
    <2> QED BY <2>1, <2>2, <2>3, <2>4
  <1>5. /\ ran' = [n \in Name |-> ran'[n]]
        /\ \A n \in Name : n # h =>
              ran'[n] = ran[n] /\ toml'[n] = toml[n] /\ service'[n] = service[n]
    <2>1. CASE UNCHANGED <<toml, service, ran>>
      BY <1>1, <2>1
    <2>2. CASE UNCHANGED <<toml, service>> /\ \E c : ran' = [ran EXCEPT ![h] = c]
      BY <1>1, <2>2
    <2>3. CASE UNCHANGED <<toml, ran>> /\ \E c : service' = [service EXCEPT ![h] = c]
      BY <1>1, <2>3
    <2>4. CASE UNCHANGED <<service, ran>> /\ \E c : toml' = [toml EXCEPT ![h] = c]
      BY <1>1, <2>4
    <2> QED BY <1>4, <2>1, <2>2, <2>3, <2>4
  <1>6. UNCHANGED join \/ \E v \in Worker, t \in Token, n \in Name : Ask(v, t, n)
    <2>1. ASSUME StartJoin(h) PROVE \E v \in Worker, t \in Token, n \in Name : Ask(v, t, n)
      BY <1>1, <2>1, IdIsDrawn, CommandOf DEF StartJoin
    <2>2. ASSUME Mint(h) \/ MintBreaks(h) PROVE UNCHANGED join
      BY <2>2 DEF Mint, MintBreaks, Issue
    <2>3. ASSUME ~StartJoin(h), ~Mint(h), ~MintBreaks(h) PROVE UNCHANGED join
      <3>1. UNCHANGED enrolmentVars
        BY <2>3 DEF Begin, Proceed, RunBreaks, Probe, Execute, TokensDrawn, JoinEnds, ReadConfig,
                    AppendSection, StartUnit, Wait
      <3> QED BY <3>1 DEF enrolmentVars
    <2> QED BY <2>1, <2>2, <2>3
  <1> QED BY <1>1, <1>3, <1>5, <1>6, NobodyElseAnswers

(* The join of a run: it waits for its own request, and an answer it sees  *)
(* is one that was written to its host.                                    *)
LEMMA StartJoinEarns ==
    ASSUME ProvisioningInv, ReportInv, NEW h \in Inventory, StartJoin(h)
    PROVE  /\ UNCHANGED remote /\ run'[h].stage = "joining"
           /\ Done(ran[h], toml[h], service[h], run'[h]) /\ OwnJoin(join', h, run'[h])
  <1>1. /\ h \in Name /\ run[h] \in RunState /\ run \in [Inventory -> RunState]
        /\ join \in [Worker -> Request]
        /\ Done(ran[h], toml[h], service[h], run[h]) /\ NewId \in Worker
        /\ run[h].stage = "run" /\ run[h].step = 4
    BY IdIsDrawn, CommandOf DEF ProvisioningInv, RunsInv, ReportInv, EnrolmentInv, TypeOK, Request,
                                StartJoin, Running, GoodRun
  <1> PICK r \in RunState : r = run[h]
    BY <1>1
  <1> PICK q : q = [r EXCEPT !.stage = "joining", !.worker = NewId]
    OBVIOUS
  <1>2. /\ q.stage = "joining" /\ q.step = 4 /\ q.at = r.at /\ q.mtls = r.mtls
        /\ q.worker = NewId
    BY <1>1 DEF RunState
  <1>3. run'[h] = q /\ UNCHANGED remote
    BY <1>1 DEF StartJoin, Go
  <1>4. Done(ran[h], toml[h], service[h], q)
    BY <1>1, <1>2 DEF Done, Past
  <1>5. /\ join'[NewId].stage # "idle"
        /\ join'[NewId].stage # "failed" => join'[NewId].name = h
    BY <1>1 DEF StartJoin, Ask, Fail, NoRequest, Request
  <1> QED BY <1>1, <1>2, <1>3, <1>4, <1>5 DEF OwnJoin

LEMMA JoinEndsEarns ==
    ASSUME ProvisioningInv, ReportInv, NEW h \in Inventory, JoinEnds(h)
    PROVE  Earned(h, ran'[h], toml'[h], service'[h], run'[h])
  <1>1. /\ h \in Name /\ GoodRun(h, run[h]) /\ run \in [Inventory -> RunState]
        /\ OwnJoin(join, h, run[h]) /\ DeliveredInv
        /\ run[h].stage = "joining" /\ run[h].step = 4 /\ run[h].at = 2
    BY DEF ProvisioningInv, RunsInv, ReportInv, JoinEnds, GoodRun
  <1>2. ran'[h] = ran[h] /\ toml'[h] = toml[h] /\ service'[h] = service[h]
    BY DEF JoinEnds, remote
  <1>3. CASE Go(h, Failed)
    <2>1. run'[h] = Failed
      BY <1>1, <1>3 DEF Go
    <2> QED BY <1>2, <2>1, BeginEarns
  <1>4. CASE join[run[h].worker].stage = "answered" /\ Go(h, Joined(h))
    <2>1. toml[h].cred # None
      BY <1>1, <1>4 DEF OwnJoin, DeliveredInv
    <2> PICK a : a = AfterCommand(run[h])
      OBVIOUS
    <2>2. a \in RunState
      BY <1>1, AfterFields
    <2> PICK q : q = [a EXCEPT !.token = None, !.worker = None]
      OBVIOUS
    <2>3. q.stage = a.stage /\ q.step = a.step /\ q.at = a.at /\ q.mtls = a.mtls
      BY <2>2 DEF RunState
    <2>4. run'[h] = q
      BY <1>1, <1>4 DEF Go, Joined
    <2>5. Earned(h, ran[h], toml[h], service[h], q)
      <3>1. /\ a = AfterCommand(run[h]) /\ ran[h] \subseteq ran[h]
            /\ run[h].step \notin {1, 2, 3, 5, 6, 7}
            /\ run[h].stage \in {"run", "joining"}
        BY <1>1
      <3> QED BY <2>1, <2>3, <3>1, CommandEarns
    <2> QED BY <1>2, <2>4, <2>5
  <1> QED BY <1>3, <1>4 DEF JoinEnds

LEMMA RunReports ==
    ASSUME ProvisioningInv, ReportInv, [Next]_enrolmentVars, NEW h \in Inventory,
           Begin(h) \/ Proceed(h) \/ RunBreaks(h) \/ MintBreaks(h)
    PROVE  /\ ReportInv'
           /\ \A i \in Inventory : run[i].stage # "succeeded" /\ run'[i].stage = "succeeded" =>
                  Promised(ran'[i], toml'[i], service'[i], run[i])
  <1>1. /\ \A i \in Inventory : i # h => run'[i] = run[i]
        /\ ran' = [n \in Name |-> ran'[n]]
        /\ \A n \in Name : n # h =>
              ran'[n] = ran[n] /\ toml'[n] = toml[n] /\ service'[n] = service[n]
        /\ \A w \in Worker : ~Answer(w)
    BY OwnSteps
  <1>2. /\ Done(ran'[h], toml'[h], service'[h], run'[h]) /\ OwnJoin(join', h, run'[h])
        /\ ran[h] \subseteq ran'[h]
        /\ toml[h].cred # None => toml'[h].cred # None
        /\ service[h] # Nothing => service'[h] # Nothing
        /\ run'[h].stage = "succeeded" => Promised(ran'[h], toml'[h], service'[h], run[h])
    <2>1. CASE StartJoin(h)
      BY <2>1, StartJoinEarns DEF remote
    <2>2. CASE ~StartJoin(h)
      <3>1. Earned(h, ran'[h], toml'[h], service'[h], run'[h])
        BY <2>2, LocalEarns, JoinEndsEarns DEF Proceed
      <3> QED BY <3>1 DEF Earned, OwnJoin
    <2> QED BY <2>1, <2>2
  <1>3. \A n \in Name : /\ ran[n] \subseteq ran'[n]
                        /\ toml[n].cred # None => toml'[n].cred # None
                        /\ service[n] # Nothing => service'[n] # Nothing
    BY <1>1, <1>2
  <1>4. \A i \in Inventory :
            \/ run'[i] = run[i]
            \/ Done(ran'[i], toml'[i], service'[i], run'[i]) /\ OwnJoin(join', i, run'[i])
    <2>1. Done(ran'[h], toml'[h], service'[h], run'[h])
      BY <1>2 DEF Done, Past
    <2> QED BY <1>1, <1>2, <2>1
  <1>5. \A w \in Worker : Answer(w) => toml'[join[w].name].cred # None
    BY <1>1
  <1>6. ran' = [n \in Name |-> ran'[n]]
    BY <1>1
  <1>7. ReportInv'
    BY <1>3, <1>4, <1>5, <1>6, ReportsStay
  <1> QED BY <1>1, <1>2, <1>7

(* An answer is heard where it was asked for, and writes the file there.   *)
LEMMA DeliverReports ==
    ASSUME ProvisioningInv, ReportInv, [Next]_enrolmentVars, NEW w \in Worker, Deliver(w)
    PROVE  ReportInv' /\ UNCHANGED run
  <1>1. /\ toml \in [Name -> Config] /\ join \in [Worker -> Request]
        /\ join[w].name \in Name /\ ran = [n \in Name |-> ran[n]]
    BY DEF ProvisioningInv, EnrolmentInv, TypeOK, Request, HostsInv, RequestInv, ReportInv,
           Deliver, Answer
  <1>2. /\ toml'[join[w].name].cred = w
        /\ \A n \in Name : n # join[w].name => toml'[n] = toml[n]
    BY <1>1 DEF Deliver
  <1>3. ASSUME NEW v \in Worker, Answer(v) PROVE v = w
    BY <1>1, <1>3 DEF Answer, Deliver, ToStage, Request
  <1>4. /\ \A n \in Name : toml[n].cred # None => toml'[n].cred # None
        /\ \A v \in Worker : Answer(v) => toml'[join[v].name].cred # None
    BY <1>2, <1>3, EnrolmentAssumption
  <1>5. ran' = ran /\ service' = service /\ run' = run
    BY DEF Deliver
  <1> QED BY <1>1, <1>4, <1>5, ReportsStay

(* What the control plane does by itself reaches no host and answers none. *)
LEMMA TablesReport ==
    ASSUME ProvisioningInv, ReportInv, [Next]_enrolmentVars,
           \/ \E w \in Worker : HandleRequest(w) \/ RequestBreaks(w)
           \/ \E t \in Token : TokenGoes(t)
           \/ JoinByHand \/ Manage \/ HealthScan
           \/ \E h \in Name : RegisterFinds(h) \/ RegisterWrites(h)
           \/ UNCHANGED vars
    PROVE  ReportInv' /\ UNCHANGED run
  <1>1. toml' = toml /\ service' = service /\ ran' = ran /\ run' = run
    BY DEF HandleRequest, RequestBreaks, TokenGoes, JoinByHand, Manage, HealthScan,
           RegisterFinds, RegisterWrites, remote, vars
  <1>2. ran = [n \in Name |-> ran[n]] /\ EnrolmentInv /\ join \in [Worker -> Request]
    BY DEF ReportInv, ProvisioningInv, EnrolmentInv, TypeOK, Request
  <1>3. \A w \in Worker : ~Answer(w)
    <2>1. CASE \E v \in Worker : HandleRequest(v) \/ RequestBreaks(v)
      <3> SUFFICES ASSUME NEW w \in Worker, Answer(w) PROVE FALSE
        OBVIOUS
      <3>1. join[w].stage = "committed" /\ join'[w].stage = "answered"
        BY <1>2 DEF Answer, ToStage, Request
      <3>2. PICK v \in Worker : HandleRequest(v) \/ RequestBreaks(v)
        BY <2>1
      <3> QED BY <1>2, <3>1, <3>2 DEF HandleRequest, RequestBreaks, Handle, Consume, InsertWorker,
                                      Commit, Abort, Lose, ToStage, Fail, NoRequest, Request
    <2>2. CASE JoinByHand
      <3>1. \A t \in HandToken : t \in Token
        BY ProvisioningAssumption
      <3>2. \A w \in HandRequest : w \in Worker
        BY ProvisioningAssumption
      <3>3. UNCHANGED join \/ \E v \in Worker, t \in Token, n \in Name : Ask(v, t, n)
        BY <2>2, <3>1, <3>2 DEF JoinByHand, Issue
      <3> QED BY <1>2, <3>3, NobodyElseAnswers
    <2>3. CASE \/ \E t \in Token : TokenGoes(t)
               \/ Manage \/ HealthScan
               \/ \E h \in Name : RegisterFinds(h) \/ RegisterWrites(h)
               \/ UNCHANGED vars
      <3>1. UNCHANGED join
        BY <2>3 DEF TokenGoes, Expire, RevokeToken, Manage, Deregister, RotateCredential,
                    RevokeCredential, HealthScan, MarkOffline, RegisterFinds, FindRow,
                    RegisterWrites, WriteRow, vars, enrolmentVars
      <3> QED BY <1>2, <3>1, NobodyElseAnswers
    <2> QED BY <2>1, <2>2, <2>3
  <1> QED BY <1>1, <1>2, <1>3, ReportsStay

LEMMA NextReports ==
    ASSUME ProvisioningInv, ReportInv, [ProvisioningNext]_vars
    PROVE  /\ ReportInv'
           /\ \A h \in Inventory : run[h].stage # "succeeded" /\ run'[h].stage = "succeeded" =>
                  Promised(ran'[h], toml'[h], service'[h], run[h])
  <1>1. [Next]_enrolmentVars
    BY ProvisioningNextRefines
  <1>2. CASE \E h \in Inventory : Begin(h) \/ Proceed(h) \/ RunBreaks(h) \/ MintBreaks(h)
    BY <1>1, <1>2, RunReports
  <1>3. CASE \E w \in Worker : Deliver(w)
    BY <1>1, <1>3, DeliverReports
  <1>4. CASE \/ \E w \in Worker : HandleRequest(w) \/ RequestBreaks(w)
             \/ \E t \in Token : TokenGoes(t)
             \/ JoinByHand \/ Manage \/ HealthScan
             \/ \E h \in Name : RegisterFinds(h) \/ RegisterWrites(h)
             \/ UNCHANGED vars
    BY <1>1, <1>4, TablesReport
  <1> QED BY <1>2, <1>3, <1>4 DEF ProvisioningNext

(***************************************************************************)
(* The [mtls] section.  Only Deliver takes it away, and then the host is   *)
(* counted as replaced.                                                    *)
MtlsInv ==
    \A h \in Inventory :
        Secured(run[h]) /\ run[h].mtls => toml[h].mtls \/ h \in replaced

(* Where a run may be after a step that is none of its own, or before the  *)
(* [mtls] section is written.                                              *)
LEMMA NextStepSecured ==
    ASSUME NEW h \in Name, NEW r, GoodRun(h, r), r.stage = "probe"
    PROVE  /\ Secured(ToNextStep(r)) => r.step >= 5 /\ ToNextStep(r).mtls = r.mtls
           /\ ToNextStep(r).stage = "succeeded" => r.step = 7
  <1>1. r \in RunState /\ r.step \in 1..7
    BY DEF GoodRun, RunState, Steps
  <1>2. CASE r.step = 7
    BY <1>2, PlayShape DEF ToNextStep, Over, Secured
  <1>3. CASE r.step # 7
    <2> PICK q : q = ToNextStep(r)
      OBVIOUS
    <2>1. q = [r EXCEPT !.stage = "probe", !.step = r.step + 1, !.at = 1]
      BY <1>3, PlayShape DEF ToNextStep
    <2>2. q.stage = "probe" /\ q.step = r.step + 1 /\ q.at = 1 /\ q.mtls = r.mtls
      BY <1>1, <2>1 DEF RunState
    <2> QED BY <1>1, <1>3, <2>2 DEF Secured
  <1> QED BY <1>2, <1>3

LEMMA AfterSecured ==
    ASSUME NEW h \in Name, NEW r, GoodRun(h, r), r.stage \in {"run", "joining"},
           NEW a, a = AfterCommand(r)
    PROVE  /\ Secured(a) => (Secured(r) \/ (r.step = 5 /\ r.at = 2)) /\ a.mtls = r.mtls
           /\ a.stage = "succeeded" => Secured(r)
  <1>1. r \in RunState /\ r.step \in 1..7 /\ r.at \in 1..Size(r.step) /\ Size(r.step) \in 1..4
    BY PlayShape DEF GoodRun, RunState, Steps
  <1>2. CASE r.at = Size(r.step)
    <2>1. a = ToNextStep(r)
      BY <1>2 DEF AfterCommand, Size
    <2>2. CASE r.step = 7
      <3>1. a = Over("succeeded", r.mtls)
        BY <2>1, <2>2, PlayShape DEF ToNextStep
      <3>2. a.stage = "succeeded"
        BY <3>1 DEF Over
      <3> QED BY <2>2, <3>2 DEF Secured
    <2>3. CASE r.step # 7
      <3>1. a = [r EXCEPT !.stage = "probe", !.step = r.step + 1, !.at = 1]
        BY <2>1, <2>3, PlayShape DEF ToNextStep
      <3>2. a.stage = "probe" /\ a.step = r.step + 1 /\ a.at = 1 /\ a.mtls = r.mtls
        BY <1>1, <3>1 DEF RunState
      <3>3. r.step = 5 => r.at = 3
        BY <1>2, PlayPlaces
      <3> QED BY <1>1, <3>2, <3>3 DEF Secured
    <2>4. a.mtls = r.mtls
      BY <1>1, <2>1, <2>2, PlayShape DEF ToNextStep, Over, RunState
    <2> QED BY <1>1, <2>2, <2>3, <2>4 DEF RunState
  <1>3. CASE r.at # Size(r.step)
    <2>1. a = [r EXCEPT !.stage = "run", !.at = r.at + 1]
      BY <1>3 DEF AfterCommand, Size
    <2>2. a.stage = "run" /\ a.step = r.step /\ a.at = r.at + 1 /\ a.mtls = r.mtls
      BY <1>1, <2>1 DEF RunState
    <2> QED BY <1>1, <2>2 DEF Secured
  <1> QED BY <1>2, <1>3

(* A run that goes on, without writing the section and without having      *)
(* found it, was beyond it before.                                         *)
Keeps(r, q) ==
    /\ Secured(q) => Secured(r) /\ q.mtls = r.mtls
    /\ q.stage = "succeeded" => Secured(r)

LEMMA CommandKeeps ==
    ASSUME ProvisioningInv, NEW h \in Inventory, run[h].stage \in {"run", "joining"},
           ~(run[h].step = 5 /\ run[h].at = 2),
           NEW a, a = AfterCommand(run[h]),
           NEW q, q.stage = a.stage, q.step = a.step, q.at = a.at, q.mtls = a.mtls
    PROVE  Keeps(run[h], q)
  <1> PICK r : r = run[h]
    OBVIOUS
  <1>1. GoodRun(h, r) /\ h \in Name
    BY DEF ProvisioningInv, RunsInv
  <1>2. /\ Secured(a) => Secured(r) /\ a.mtls = r.mtls
        /\ a.stage = "succeeded" => Secured(r)
    BY <1>1, AfterSecured
  <1>3. Secured(q) <=> Secured(a)
    BY DEF Secured
  <1> QED BY <1>2, <1>3 DEF Keeps

LEMMA StoppedKeeps ==
    /\ \A r : Keeps(r, Failed)
    /\ \A r, m : Keeps(r, Over("probe", m))
  BY DEF Keeps, Secured, Failed, Over

(* The probe of step 5 finds the section, or none was asked for.           *)
LEMMA ProbeKeeps ==
    ASSUME ProvisioningInv, NEW h \in Inventory, Probe(h)
    PROVE  \/ Keeps(run[h], run'[h])
           \/ run'[h].mtls = run[h].mtls /\ (run[h].mtls => toml[h].mtls)
              /\ run'[h].stage # "succeeded"
  <1> PICK r : r = run[h]
    OBVIOUS
  <1>1. /\ GoodRun(h, r) /\ h \in Name /\ r.stage = "probe" /\ r \in RunState
        /\ r.step \in 1..7 /\ r.at = 1
    BY DEF ProvisioningInv, RunsInv, Probe, GoodRun, RunState, Steps
  <1>2. run'[h] = IF \/ IsApplied(h)
                     \/ Step(h) \in {"issue_mtls_assets", "configure_mtls"} /\ ~r.mtls
                  THEN ToNextStep(r) ELSE [r EXCEPT !.stage = "run"]
    BY DEF Probe, Go, ProvisioningInv, RunsInv
  <1>3. CASE run'[h] = [r EXCEPT !.stage = "run"]
    <2> PICK q : q = [r EXCEPT !.stage = "run"]
      OBVIOUS
    <2>1. q.stage = "run" /\ q.step = r.step /\ q.at = r.at /\ q.mtls = r.mtls
      BY <1>1 DEF RunState
    <2> QED BY <1>1, <1>3, <2>1 DEF Keeps, Secured
  <1>4. CASE /\ \/ IsApplied(h)
                \/ Step(h) \in {"issue_mtls_assets", "configure_mtls"} /\ ~r.mtls
             /\ run'[h] = ToNextStep(r)
    <2>1. /\ Secured(run'[h]) => r.step >= 5 /\ run'[h].mtls = r.mtls
          /\ run'[h].stage = "succeeded" => r.step = 7
      BY <1>1, <1>4, NextStepSecured
    <2>2. CASE r.step = 5 /\ Secured(run'[h])
      <3>1. Step(h) = "configure_mtls"
        BY <2>2, PlayPlaces DEF Step
      <3>2. r.mtls => toml[h].mtls
        BY <1>4, <3>1 DEF IsApplied
      <3> QED BY <2>1, <2>2, <3>2
    <2>3. CASE ~(r.step = 5 /\ Secured(run'[h]))
      <3>1. r.step > 5 => Secured(r)
        BY <1>1 DEF Secured
      <3> QED BY <1>1, <2>1, <2>3, <3>1 DEF Keeps
    <2> QED BY <2>2, <2>3
  <1> QED BY <1>2, <1>3, <1>4

(* The steps of a run that are neither its start nor the writing.          *)
LEMMA OthersKeep ==
    ASSUME ProvisioningInv, NEW h \in Inventory, ~AppendSection(h), ~Begin(h), ~Probe(h),
           Begin(h) \/ Proceed(h) \/ RunBreaks(h) \/ MintBreaks(h)
    PROVE  UNCHANGED <<toml, replaced>> /\ Keeps(run[h], run'[h])
  <1> DEFINE a == AfterCommand(run[h])
  <1>1. /\ h \in Name /\ GoodRun(h, run[h]) /\ run \in [Inventory -> RunState]
        /\ run[h].stage \in {"run", "joining"} => a \in RunState
    <2>1. h \in Name /\ GoodRun(h, run[h]) /\ run \in [Inventory -> RunState]
      BY DEF ProvisioningInv, RunsInv
    <2> QED BY <2>1, AfterFields
  <1>0. ASSUME run[h].stage \in {"run", "joining"}, ~(run[h].step = 5 /\ run[h].at = 2),
               NEW q, q.stage = a.stage, q.step = a.step, q.at = a.at, q.mtls = a.mtls
        PROVE  Keeps(run[h], q)
    <2>1. PICK b : b = a
      OBVIOUS
    <2>2. b = AfterCommand(run[h])
      BY <2>1
    <2> HIDE DEF a
    <2>3. q.stage = b.stage /\ q.step = b.step /\ q.at = b.at /\ q.mtls = b.mtls
      BY <1>0, <2>1
    <2> QED BY <1>0, <2>2, <2>3, CommandKeeps
  <1>2. ASSUME NEW q, Go(h, q) PROVE run'[h] = q
    BY <1>1, <1>2 DEF Go
  <1>3. CASE RunBreaks(h) \/ MintBreaks(h) \/ TokensDrawn(h)
    <2>1. Go(h, Failed) /\ UNCHANGED <<toml, replaced>>
      BY <1>3 DEF RunBreaks, MintBreaks, TokensDrawn, remote
    <2> QED BY <1>2, <2>1, StoppedKeeps
  <1>4. CASE Execute(h) \/ StartUnit(h)
    <2>1. /\ run[h].stage = "run" /\ Command(h) # "section"
          /\ Go(h, a) /\ UNCHANGED <<toml, replaced>>
      BY <1>4 DEF Execute, StartUnit
    <2>2. ~(run[h].step = 5 /\ run[h].at = 2)
      BY <2>1, CommandPlaces
    <2> QED BY <1>0, <1>2, <2>1, <2>2
  <1>5. CASE Mint(h)
    <2>1. /\ run[h].stage = "run" /\ run[h].step = 4
          /\ Go(h, [a EXCEPT !.token = NewToken]) /\ UNCHANGED <<toml, replaced>>
      BY <1>5, CommandPlaces DEF Mint, Running, remote
    <2> PICK q : q = [a EXCEPT !.token = NewToken]
      OBVIOUS
    <2>2. a \in RunState /\ run'[h] = q
      BY <1>1, <1>2, <2>1
    <2> HIDE DEF a
    <2>3. q.stage = a.stage /\ q.step = a.step /\ q.at = a.at /\ q.mtls = a.mtls
      BY <2>2 DEF RunState
    <2>5. run[h].stage \in {"run", "joining"} /\ ~(run[h].step = 5 /\ run[h].at = 2)
      BY <2>1
    <2>6. Keeps(run[h], q)
      BY <1>0, <2>3, <2>5
    <2> QED BY <2>1, <2>2, <2>6
  <1>6. CASE ReadConfig(h)
    <2>1. /\ run[h].stage = "run" /\ run[h].step = 5 /\ run[h].at = 1 /\ UNCHANGED <<toml, replaced>>
          /\ Go(h, IF toml[h].cred = None THEN Failed ELSE [a EXCEPT !.copy = toml[h]])
      BY <1>6, CommandPlaces DEF ReadConfig, Running, remote
    <2> PICK q : q = [a EXCEPT !.copy = toml[h]]
      OBVIOUS
    <2>2. a \in RunState /\ (run'[h] = q \/ run'[h] = Failed)
      BY <1>1, <1>2, <2>1
    <2> HIDE DEF a
    <2>3. q.stage = a.stage /\ q.step = a.step /\ q.at = a.at /\ q.mtls = a.mtls
      BY <2>2 DEF RunState
    <2>5. Keeps(run[h], q)
      <3>1. run[h].stage \in {"run", "joining"} /\ ~(run[h].step = 5 /\ run[h].at = 2)
        BY <2>1
      <3> QED BY <1>0, <2>3, <3>1
    <2>6. Keeps(run[h], Failed)
      BY StoppedKeeps
    <2> QED BY <2>1, <2>2, <2>5, <2>6
  <1>7. CASE Wait(h)
    <2>1. /\ run[h].stage = "run" /\ run[h].step = 7 /\ UNCHANGED <<toml, replaced>>
          /\ Go(h, IF workers[h] # None /\ status[h] # "offline" THEN a ELSE Failed)
      BY <1>7, CommandPlaces DEF Wait, Running, remote
    <2>2. run'[h] = a \/ run'[h] = Failed
      BY <1>2, <2>1
    <2>3. Keeps(run[h], a)
      BY <1>0, <2>1
    <2> QED BY <2>1, <2>2, <2>3, StoppedKeeps
  <1>8. CASE StartJoin(h)
    <2>1. /\ run[h].stage = "run" /\ run[h].step = 4 /\ UNCHANGED <<toml, replaced>>
          /\ Go(h, [run[h] EXCEPT !.stage = "joining", !.worker = NewId])
      BY <1>8, CommandOf DEF StartJoin, Running, remote
    <2> PICK r \in RunState : r = run[h]
      BY <1>1
    <2> PICK q : q = [r EXCEPT !.stage = "joining", !.worker = NewId]
      OBVIOUS
    <2>2. q.stage = "joining" /\ q.step = 4
      BY <2>1 DEF RunState
    <2>3. run'[h] = q
      BY <1>2, <2>1
    <2> QED BY <2>1, <2>2, <2>3 DEF Keeps, Secured
  <1>9. CASE JoinEnds(h)
    <2>1. /\ run[h].stage = "joining" /\ run[h].step = 4 /\ UNCHANGED <<toml, replaced>>
          /\ Go(h, Failed) \/ Go(h, [a EXCEPT !.token = None, !.worker = None])
      BY <1>1, <1>9 DEF JoinEnds, Joined, remote, GoodRun
    <2> PICK q : q = [a EXCEPT !.token = None, !.worker = None]
      OBVIOUS
    <2>2. a \in RunState /\ (run'[h] = q \/ run'[h] = Failed)
      BY <1>1, <1>2, <2>1
    <2> HIDE DEF a
    <2>3. q.stage = a.stage /\ q.step = a.step /\ q.at = a.at /\ q.mtls = a.mtls
      BY <2>2 DEF RunState
    <2>5. Keeps(run[h], q)
      <3>1. run[h].stage \in {"run", "joining"} /\ ~(run[h].step = 5 /\ run[h].at = 2)
        BY <2>1
      <3> QED BY <1>0, <2>3, <3>1
    <2>6. Keeps(run[h], Failed)
      BY StoppedKeeps
    <2> QED BY <2>1, <2>2, <2>5, <2>6
  <1> QED BY <1>3, <1>4, <1>5, <1>6, <1>7, <1>8, <1>9 DEF Proceed

(* What a step owes the [mtls] section of one host.                        *)
Owed(h) ==
    /\ Secured(run'[h]) /\ run'[h].mtls => toml'[h].mtls \/ h \in replaced'
    /\ run[h].stage # "succeeded" /\ run'[h].stage = "succeeded" /\ run[h].mtls =>
          toml'[h].mtls \/ h \in replaced'

LEMMA KeepsOwed ==
    ASSUME MtlsInv, NEW h \in Inventory, UNCHANGED <<toml, replaced>>, Keeps(run[h], run'[h])
    PROVE  Owed(h)
  BY DEF MtlsInv, Owed, Keeps

LEMMA OwnMtls ==
    ASSUME ProvisioningInv, MtlsInv, NEW h \in Inventory,
           Begin(h) \/ Proceed(h) \/ RunBreaks(h) \/ MintBreaks(h)
    PROVE  Owed(h) /\ \A i \in Inventory : i # h /\ i \in replaced => i \in replaced'
  <1>1. h \in Name /\ run \in [Inventory -> RunState] /\ toml \in [Name -> Config]
    BY DEF ProvisioningInv, RunsInv, HostsInv
  <1>2. CASE Begin(h)
    <2>1. PICK m \in BOOLEAN : Go(h, Over("probe", m))
      BY <1>2 DEF Begin
    <2>2. run'[h] = Over("probe", m) /\ replaced' = replaced \ {h}
      BY <1>1, <1>2, <2>1 DEF Begin, Go
    <2>3. ~Secured(run'[h]) /\ run'[h].stage = "probe"
      BY <2>2 DEF Secured, Over
    <2> QED BY <2>2, <2>3 DEF Owed
  <1>3. CASE Probe(h)
    <2>1. UNCHANGED <<toml, replaced>>
      BY <1>3 DEF Probe, remote
    <2>2. CASE Keeps(run[h], run'[h])
      BY <2>1, <2>2, KeepsOwed
    <2>3. CASE /\ run'[h].mtls = run[h].mtls /\ (run[h].mtls => toml[h].mtls)
               /\ run'[h].stage # "succeeded"
      BY <2>1, <2>3 DEF Owed
    <2> QED BY <1>3, <2>1, <2>2, <2>3, ProbeKeeps
  <1>4. CASE AppendSection(h)
    <2> PICK c \in Config : c = run[h].copy
      BY <1>1 DEF RunState
    <2>1. toml' = [toml EXCEPT ![h] = [c EXCEPT !.mtls = TRUE]] /\ replaced' = replaced
      BY <1>4 DEF AppendSection
    <2>2. toml'[h].mtls
      BY <1>1, <2>1 DEF Config
    <2> QED BY <2>1, <2>2 DEF Owed
  <1>5. CASE ~AppendSection(h) /\ ~Begin(h) /\ ~Probe(h)
    <2>1. UNCHANGED <<toml, replaced>> /\ Keeps(run[h], run'[h])
      BY <1>5, OthersKeep
    <2> QED BY <2>1, KeepsOwed
  <1> QED BY <1>2, <1>3, <1>4, <1>5

(* A join writes the file of one host only, and counts it.                 *)
LEMMA DeliverMtls ==
    ASSUME ProvisioningInv, MtlsInv, NEW w \in Worker, Deliver(w), NEW h \in Inventory
    PROVE  Owed(h)
  <1>1. /\ h \in Name /\ run' = run /\ toml \in [Name -> Config]
        /\ replaced' = replaced \cup {i \in Inventory : i = join[w].name /\ Secured(run[i])}
    BY DEF ProvisioningInv, HostsInv, RunsInv, Deliver
  <1>2. CASE h = join[w].name
    BY <1>1, <1>2 DEF Owed
  <1>3. CASE h # join[w].name
    <2>1. toml'[h] = toml[h]
      BY <1>1, <1>3 DEF Deliver
    <2> QED BY <1>1, <2>1 DEF Owed, MtlsInv
  <1> QED BY <1>2, <1>3

LEMMA NextMtls ==
    ASSUME ProvisioningInv, ReportInv, MtlsInv, [ProvisioningNext]_vars
    PROVE  MtlsInv' /\ \A h \in Inventory : Owed(h)
  <1>1. \A h \in Inventory : Owed(h)
    <2>1. CASE \E h \in Inventory : Begin(h) \/ Proceed(h) \/ RunBreaks(h) \/ MintBreaks(h)
      <3>1. PICK h \in Inventory : Begin(h) \/ Proceed(h) \/ RunBreaks(h) \/ MintBreaks(h)
        BY <2>1
      <3>2. Owed(h)
        BY <3>1, OwnMtls
      <3>3. ASSUME NEW i \in Inventory, i # h PROVE Owed(i)
        <4>1. run'[i] = run[i] /\ toml'[i] = toml[i] /\ (i \in replaced => i \in replaced')
          BY <3>1, <3>3, OwnSteps, OwnMtls DEF ProvisioningInv, RunsInv
        <4> QED BY <4>1 DEF Owed, MtlsInv
      <3> QED BY <3>2, <3>3
    <2>2. CASE \E w \in Worker : Deliver(w)
      BY <2>2, DeliverMtls
    <2>3. CASE UNCHANGED <<toml, replaced, run>>
      BY <2>3 DEF Owed, MtlsInv
    <2>4. CASE \/ \E w \in Worker : HandleRequest(w) \/ RequestBreaks(w)
               \/ \E t \in Token : TokenGoes(t)
               \/ JoinByHand \/ Manage \/ HealthScan
               \/ \E h \in Name : RegisterFinds(h) \/ RegisterWrites(h)
               \/ UNCHANGED vars
      <3>1. UNCHANGED <<toml, replaced, run>>
        BY <2>4 DEF HandleRequest, RequestBreaks, TokenGoes, JoinByHand, Manage, HealthScan,
                    RegisterFinds, RegisterWrites, remote, vars
      <3> QED BY <2>3, <3>1
    <2> QED BY <2>1, <2>2, <2>4 DEF ProvisioningNext
  <1>2. MtlsInv'
    BY <1>1 DEF MtlsInv, Owed, Secured
  <1> QED BY <1>1, <1>2

(* A run of the playbook that reports success has left on its host the     *)
(* packages, the binary and its unit, the credentials, the configuration   *)
(* of a worker and a started service; and if it was run with mTLS, the     *)
(* certificates and the [mtls] section, unless a join replaced the file    *)
(* after the run had got beyond that step: by its own commands, or by      *)
(* those of the runs and joins before it that its probes found.            *)
THEOREM SuccessMeansDone == ProvisioningSpec => ReportsAreTrue
  <1>1. ProvisioningSpec => []ReportInv
    BY InitReports, NextReports, ProvisioningInvariance, PTL DEF ProvisioningSpec
  <1>2. ProvisioningInit => MtlsInv
    BY DEF ProvisioningInit, MtlsInv, Secured, Over
  <1>3. ProvisioningInv /\ ReportInv /\ MtlsInv /\ [ProvisioningNext]_vars => MtlsInv'
    BY NextMtls
  <1>4. ProvisioningSpec => []MtlsInv
    BY <1>1, <1>2, <1>3, ProvisioningInvariance, PTL DEF ProvisioningSpec
  <1>5. ProvisioningInv /\ ReportInv /\ MtlsInv /\ [ProvisioningNext]_vars =>
            [\A h \in Inventory :
                run[h].stage # "succeeded" /\ run'[h].stage = "succeeded" =>
                    /\ {"packages", "upload", "unit", "push"} \subseteq ran'[h]
                    /\ toml'[h].cred # None /\ service'[h] # Nothing
                    /\ run[h].mtls =>
                          "certs" \in ran'[h] /\ (toml'[h].mtls \/ h \in replaced')]_vars
    <2> SUFFICES ASSUME ProvisioningInv, ReportInv, MtlsInv, [ProvisioningNext]_vars,
                        NEW h \in Inventory,
                        run[h].stage # "succeeded" /\ run'[h].stage = "succeeded"
                 PROVE  /\ {"packages", "upload", "unit", "push"} \subseteq ran'[h]
                        /\ toml'[h].cred # None /\ service'[h] # Nothing
                        /\ run[h].mtls =>
                              "certs" \in ran'[h] /\ (toml'[h].mtls \/ h \in replaced')
      OBVIOUS
    <2>1. Promised(ran'[h], toml'[h], service'[h], run[h])
      BY NextReports
    <2>2. Owed(h)
      BY NextMtls
    <2> QED BY <2>1, <2>2 DEF Promised, Owed
  <1> QED BY <1>1, <1>4, <1>5, ProvisioningInvariance, PTL DEF ProvisioningSpec, ReportsAreTrue
=============================================================================
