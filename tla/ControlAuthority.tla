--------------------------- MODULE ControlAuthority ---------------------------
(***************************************************************************)
(* What the control-plane lease promises to the code that relies on it.    *)
(*                                                                         *)
(* The orchestrator's handlers see the lease through two questions only:   *)
(* LeaseObserver::allows_control ("do I believe I am active?") and         *)
(* LeaseObserver::fence ("under which epoch?").  The database answers a    *)
(* third one, inside a statement: "is this still the row's epoch?".  This  *)
(* module keeps exactly the state those three questions read.  Module      *)
(* ControlLease (the lease row and the lease managers) implements it, and  *)
(* module TaskControl is built on it.                                      *)
(***************************************************************************)
EXTENDS Integers

CONSTANTS
    Instance,   \* orchestrator processes (each start draws a fresh instance id)
    MaxEpoch    \* bound: no epoch beyond this one is granted

ASSUME MaxEpochAssumption == MaxEpoch \in Nat

VARIABLES
    epoch,      \* the lease row's epoch, 0 while there is no row
    valid,      \* TRUE while the row has not expired
    mine,       \* mine[i]: the last epoch the row granted to i, 0 if none
    belief      \* belief[i]: the epoch i reads from its observer, 0 if not Active

authorityVars == <<epoch, valid, mine, belief>>

AuthorityTypeOK ==
    /\ epoch \in Nat
    /\ valid \in BOOLEAN
    /\ mine \in [Instance -> Nat]
    /\ belief \in [Instance -> Nat]

AuthorityInit ==
    /\ epoch = 0
    /\ valid = FALSE
    /\ mine = [i \in Instance |-> 0]
    /\ belief = [i \in Instance |-> 0]

-----------------------------------------------------------------------------
(* LeaseObserver::allows_control.                                          *)
AllowsControl(i) == belief[i] # 0

(* The row passes to i under the next epoch, only once it has expired, and *)
(* only to an instance that does not believe it is active.                 *)
Grant(i) ==
    /\ ~valid
    /\ belief[i] = 0
    /\ epoch < MaxEpoch
    /\ epoch' = epoch + 1
    /\ valid' = TRUE
    /\ mine' = [mine EXCEPT ![i] = epoch + 1]
    /\ UNCHANGED belief

(* The row expires, or its holder gives it up.                             *)
Lapse ==
    /\ valid
    /\ valid' = FALSE
    /\ UNCHANGED <<epoch, mine, belief>>

(* Instance i hears of the last grant it was given, however late.          *)
Learn(i) ==
    /\ mine[i] # 0
    /\ belief' = [belief EXCEPT ![i] = mine[i]]
    /\ UNCHANGED <<epoch, valid, mine>>

(* Instance i stops, is fenced, or dies.                                   *)
Forget(i) ==
    /\ belief' = [belief EXCEPT ![i] = 0]
    /\ UNCHANGED <<epoch, valid, mine>>

AuthorityNext ==
    \/ Lapse
    \/ \E i \in Instance : Grant(i) \/ Learn(i) \/ Forget(i)

AuthoritySpec == AuthorityInit /\ [][AuthorityNext]_authorityVars

=============================================================================
