---------------------------- MODULE EnrolmentLedger ----------------------------
(***************************************************************************)
(* What the enrolment of workers promises: a token is spent exactly when   *)
(* a worker is enrolled with it, in one step with the worker's row and its *)
(* credential, or not at all.                                              *)
(***************************************************************************)
EXTENDS Integers

CONSTANTS Token, Worker, Name, None,
          MaxUses   \* most uses a token is issued for

VARIABLES tokens,    \* what is left of each token's row
          workers,   \* the worker a name belongs to
          creds      \* the operational credential of each worker

vars == <<tokens, workers, creds>>

Init ==
    /\ tokens = [t \in Token |-> [state |-> "unissued", uses |-> 0, max |-> 0]]
    /\ workers = [n \in Name |-> None]
    /\ creds = [w \in Worker |-> [state |-> "none", gen |-> 0]]

Issue(t, m) ==
    /\ tokens[t].state = "unissued"
    /\ tokens' = [tokens EXCEPT ![t] = [state |-> "live", uses |-> 0, max |-> m]]
    /\ UNCHANGED <<workers, creds>>

Withdraw(t) ==
    /\ tokens[t].state = "live"
    /\ tokens' = [tokens EXCEPT ![t].state = "deleted"]
    /\ UNCHANGED <<workers, creds>>

(* The whole of an enrolment.                                              *)
Enrol(t, n, w) ==
    /\ tokens[t].state = "live" /\ tokens[t].uses < tokens[t].max
    /\ workers[n] = None
    /\ creds[w].state = "none"
    /\ tokens' = [tokens EXCEPT ![t].uses = @ + 1]
    /\ workers' = [workers EXCEPT ![n] = w]
    /\ creds' = [creds EXCEPT ![w] = [state |-> "active", gen |-> 1]]

(* A worker and its credential go together.                                *)
Remove(n) ==
    /\ workers[n] # None
    /\ workers' = [workers EXCEPT ![n] = None]
    /\ creds' = [creds EXCEPT ![workers[n]].state = "deleted"]
    /\ UNCHANGED tokens

Rotate(w) ==
    /\ creds[w].state \in {"active", "revoked"}
    /\ creds' = [creds EXCEPT ![w] = [state |-> "active", gen |-> @.gen + 1]]
    /\ UNCHANGED <<tokens, workers>>

Revoke(w) ==
    /\ creds[w].state = "active"
    /\ creds' = [creds EXCEPT ![w].state = "revoked"]
    /\ UNCHANGED <<tokens, workers>>

(* A worker that was removed may be listed again, never with a credential. *)
Relist(n, w) ==
    /\ workers[n] = None /\ creds[w].state = "deleted"
    /\ workers' = [workers EXCEPT ![n] = w]
    /\ UNCHANGED <<tokens, creds>>

Next ==
    \/ \E t \in Token : (\E m \in 1..MaxUses : Issue(t, m)) \/ Withdraw(t)
    \/ \E t \in Token, n \in Name, w \in Worker : Enrol(t, n, w)
    \/ \E n \in Name : Remove(n)
    \/ \E w \in Worker : Rotate(w) \/ Revoke(w)
    \/ \E n \in Name, w \in Worker : Relist(n, w)

Spec == Init /\ [][Next]_vars
=============================================================================
