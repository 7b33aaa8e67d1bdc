------------------------------- MODULE Enrolment -------------------------------
(***************************************************************************)
(* Enrolment at the control plane: bootstrap tokens, the join handler with *)
(* its transaction, the credentials of the workers enrolled, what          *)
(* administrators do to them, and the registration of a worker that has a  *)
(* credential.  The store runs at READ COMMITTED: a statement sees what is *)
(* committed, and waits for the open transaction that wrote what it is     *)
(* about to write.                                                         *)
(***************************************************************************)
EXTENDS Integers

CONSTANTS Token,         \* bootstrap tokens, by digest
          Worker,        \* worker ids; a join request draws a new one
          Name,          \* worker names
          None,
          MaxUses,       \* bound: most uses a token is issued for
          MaxGeneration  \* bound: rotations of a credential

ASSUME EnrolmentAssumption ==
    /\ None \notin Worker
    /\ MaxUses \in Nat \ {0} /\ MaxGeneration \in Nat \ {0}

VARIABLES
    tokens,    \* bootstrap_tokens
    expired,   \* tokens whose expires_at has passed
    workers,   \* workers: the id in the row of a name
    status,    \* workers.status, by name; "joined" is an online nobody sent yet
    creds,     \* worker_operational_credentials, by worker id
    join,      \* the join request that drew each id
    found      \* registrations that have read their row

tables == <<tokens, workers, creds>>
enrolmentVars == <<tokens, expired, workers, status, creds, join, found>>

Stage == {"idle", "checked", "consumed", "inserted", "committed", "answered",
          "failed", "lost"}

TypeOK ==
    /\ tokens \in [Token -> [state : {"unissued", "live", "deleted"}, uses : Nat, max : Nat]]
    /\ expired \subseteq Token
    /\ workers \in [Name -> Worker \cup {None}]
    /\ status \in [Name -> {"joined", "online", "offline"}]
    /\ creds \in [Worker -> [state : {"none", "active", "revoked", "deleted"}, gen : Nat]]
    /\ join \in [Worker -> [stage : Stage, token : Token \cup {None},
                            name : Name \cup {None}, intime : BOOLEAN]]
    /\ found \subseteq Worker

NoRequest == [stage |-> "idle", token |-> None, name |-> None, intime |-> FALSE]

Init ==
    /\ tokens = [t \in Token |-> [state |-> "unissued", uses |-> 0, max |-> 0]]
    /\ expired = {}
    /\ workers = [n \in Name |-> None]
    /\ status = [n \in Name |-> "offline"]
    /\ creds = [w \in Worker |-> [state |-> "none", gen |-> 0]]
    /\ join = [w \in Worker |-> NoRequest]
    /\ found = {}

(* What an open transaction has written and nobody else may: its token's   *)
(* row, and its entry in the unique index on names.                        *)
TokenLocked(t) ==
    \E w \in Worker : join[w].stage \in {"consumed", "inserted"} /\ join[w].token = t
NameLocked(n) ==
    \E w \in Worker : join[w].stage = "inserted" /\ join[w].name = n

-----------------------------------------------------------------------------
(* Tokens.                                                                 *)

(* create_bootstrap_token stored the row; what becomes of the answer is    *)
(* the caller's matter (Provisioning).                                     *)
Issue(t, m) ==
    /\ tokens[t].state = "unissued"
    /\ tokens' = [tokens EXCEPT ![t] = [state |-> "live", uses |-> 0, max |-> m]]
    /\ UNCHANGED <<expired, workers, status, creds, join, found>>

RevokeToken(t) ==
    /\ tokens[t].state = "live" /\ ~TokenLocked(t)
    /\ tokens' = [tokens EXCEPT ![t].state = "deleted"]
    /\ UNCHANGED <<expired, workers, status, creds, join, found>>

Expire(t) ==
    /\ tokens[t].state = "live" /\ t \notin expired
    /\ expired' = expired \cup {t}
    /\ UNCHANGED <<tables, status, join, found>>

-----------------------------------------------------------------------------
(* A join request, from the body that names a token to the answer.         *)

ToStage(w, s) == join' = [join EXCEPT ![w].stage = s]

(* Rolled back and answered with an error, or never answered at all.       *)
Fail(w) == join' = [join EXCEPT ![w] = [NoRequest EXCEPT !.stage = "failed"]]

(* A request reaches the handler.  The early look at the name; then the    *)
(* transaction begins, and the time it takes with it is what the token's   *)
(* expiry is compared to.                                                  *)
Ask(w, t, n) ==
    /\ join[w].stage = "idle"
    /\ IF workers[n] # None
       THEN Fail(w)
       ELSE join' = [join EXCEPT ![w] = [stage |-> "checked", token |-> t, name |-> n,
                                         intime |-> t \notin expired]]
    /\ UNCHANGED <<tables, expired, status, found>>

Usable(t) == tokens[t].state = "live" /\ tokens[t].uses < tokens[t].max

(* Mutant: the count of uses is read and written back without a lock.      *)
ConsumeUnlocked(w) ==
    /\ join[w].stage = "checked"
    /\ IF Usable(join[w].token) /\ join[w].intime
       THEN ToStage(w, "consumed") ELSE Fail(w)
    /\ UNCHANGED <<tables, expired, status, found>>

(* The first statement: one use of the token, if any is left.              *)
Consume(w) ==
    /\ join[w].stage = "checked" /\ ~TokenLocked(join[w].token)
    /\ IF Usable(join[w].token) /\ join[w].intime
       THEN ToStage(w, "consumed") ELSE Fail(w)
    /\ UNCHANGED <<tables, expired, status, found>>

(* The second: a plain insert, which a row of that name refuses; the       *)
(* transaction is rolled back, and the use of the token with it.           *)
InsertWorker(w) ==
    /\ join[w].stage = "consumed" /\ ~NameLocked(join[w].name)
    /\ IF workers[join[w].name] = None THEN ToStage(w, "inserted") ELSE Fail(w)
    /\ UNCHANGED <<tables, expired, status, found>>

(* Mutant: the transaction is dropped, and so rolled back, at its end.     *)
CommitForgotten(w) ==
    /\ join[w].stage = "inserted"
    /\ ToStage(w, "committed")
    /\ UNCHANGED <<tables, expired, status, found>>

(* The third, which cannot collide, and the commit.  The row says online   *)
(* at once.                                                                *)
Commit(w) ==
    /\ join[w].stage = "inserted"
    /\ ToStage(w, "committed")
    /\ tokens' = [tokens EXCEPT ![join[w].token].uses = @ + 1]
    /\ workers' = [workers EXCEPT ![join[w].name] = w]
    /\ status' = [status EXCEPT ![join[w].name] = "joined"]
    /\ creds' = [creds EXCEPT ![w] = [state |-> "active", gen |-> 1]]
    /\ UNCHANGED <<expired, found>>

(* The request ends before its commit: the store fails a statement, the    *)
(* process dies, or the client is gone and its handler dropped.            *)
Abort(w) ==
    /\ join[w].stage \in {"checked", "consumed", "inserted"}
    /\ Fail(w)
    /\ UNCHANGED <<tables, expired, status, found>>

(* After it: the client has the answer, or nobody has.                     *)
Answer(w) ==
    /\ join[w].stage = "committed"
    /\ ToStage(w, "answered")
    /\ UNCHANGED <<tables, expired, status, found>>

Lose(w) ==
    /\ join[w].stage = "committed"
    /\ ToStage(w, "lost")
    /\ UNCHANGED <<tables, expired, status, found>>

-----------------------------------------------------------------------------
(* Administrators.                                                         *)

(* The credential goes with its row (ON DELETE CASCADE).                   *)
Deregister(n) ==
    /\ workers[n] # None
    /\ workers' = [workers EXCEPT ![n] = None]
    /\ status' = [status EXCEPT ![n] = "offline"]
    /\ creds' = [creds EXCEPT ![workers[n]].state = "deleted"]
    /\ UNCHANGED <<tokens, expired, join, found>>

RotateCredential(w) ==
    /\ creds[w].state \in {"active", "revoked"} /\ creds[w].gen < MaxGeneration
    /\ creds' = [creds EXCEPT ![w] = [state |-> "active", gen |-> @.gen + 1]]
    /\ UNCHANGED <<tokens, expired, workers, status, join, found>>

RevokeCredential(w) ==
    /\ creds[w].state = "active"
    /\ creds' = [creds EXCEPT ![w].state = "revoked"]
    /\ UNCHANGED <<tokens, expired, workers, status, join, found>>

-----------------------------------------------------------------------------
(* The registration of a worker by its own credential.                     *)

(* The credential a caller presents opens the worker's own row.            *)
Opens(w, g) == creds[w].state = "active" /\ creds[w].gen = g

(* Authenticated, and the row of the name is the caller's own; under any   *)
(* other id, a new one included, the caller is turned away.                *)
FindRow(w, g) ==
    /\ Opens(w, g) /\ w \notin found
    /\ workers[join[w].name] = w
    /\ found' = found \cup {w}
    /\ UNCHANGED <<tables, expired, status, join>>

(* The upsert writes the row that was found, there or not; a row of the    *)
(* name with another id refuses it.                                        *)
WriteRow(w) ==
    LET n == join[w].name IN
    /\ w \in found /\ ~NameLocked(n)
    /\ found' = found \ {w}
    /\ IF workers[n] \in {None, w}
       THEN /\ workers' = [workers EXCEPT ![n] = w]
            /\ status' = [status EXCEPT ![n] = "online"]
       ELSE UNCHANGED <<workers, status>>
    /\ UNCHANGED <<tokens, expired, creds, join>>

(* The health scan gives a silent worker up (module WorkerRows).           *)
MarkOffline(n) ==
    /\ workers[n] # None /\ status[n] # "offline"
    /\ status' = [status EXCEPT ![n] = "offline"]
    /\ UNCHANGED <<tables, expired, join, found>>

-----------------------------------------------------------------------------
Handle(w) ==
    Consume(w) \/ InsertWorker(w) \/ Commit(w)

Administer ==
    \/ \E t \in Token : RevokeToken(t)
    \/ \E n \in Name : Deregister(n)
    \/ \E w \in Worker : RotateCredential(w) \/ RevokeCredential(w)

(* Any client may ask with any token, and any worker register.             *)
Next ==
    \/ \E t \in Token : Expire(t) \/ \E m \in 1..MaxUses : Issue(t, m)
    \/ \E w \in Worker, t \in Token, n \in Name : Ask(w, t, n)
    \/ \E w \in Worker : Handle(w) \/ Abort(w) \/ Answer(w) \/ Lose(w)
    \/ Administer
    \/ \E w \in Worker, g \in 1..MaxGeneration : FindRow(w, g)
    \/ \E w \in Worker : WriteRow(w)
    \/ \E n \in Name : MarkOffline(n)

Spec == Init /\ [][Next]_enrolmentVars

-----------------------------------------------------------------------------
Ledger == INSTANCE EnrolmentLedger

(* The transaction of the join handler is what the ledger promises: a use  *)
(* of a token, a row and a credential come together or not at all,         *)
(* whatever else reaches the tables between its statements.                *)
ImplementsLedger == Ledger!Spec
=============================================================================
