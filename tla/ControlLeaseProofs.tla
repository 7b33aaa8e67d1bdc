-------------------------- MODULE ControlLeaseProofs --------------------------
(***************************************************************************)
(* Theorems about module ControlLease, for every set of instances, every   *)
(* TTL and every epoch bound.  Everything rests on the inductive invariant *)
(* IInv.                                                                   *)
(***************************************************************************)
EXTENDS ControlLease, TLAPS

USE NoOneAssumption, TtlAssumption, EpochBoundAssumption

(* A manager starts with nothing: no row, no grant, no reply.              *)
LEMMA InitIInv == Init => IInv
  BY DEF Init, IInv, TypeOK, GrantsInv, RepliesInv, ManagersInv, GracefulStopGivesBack, PC

(* The row changes hands only in AcquireGranted, under a new epoch.        *)
LEMMA GrantedIInv ==
    ASSUME IInv, NEW i \in Instance, AcquireGranted(i)
    PROVE  IInv'
  <1> USE DEF IInv, AcquireGranted
  <1>1. TypeOK'
    BY DEF TypeOK, PC
  <1>2. GrantsInv'
    BY DEF TypeOK, GrantsInv
  <1>3. RepliesInv'
    BY DEF TypeOK, RepliesInv
  <1>4. ManagersInv'
    BY DEF TypeOK, ManagersInv
  <1>5. GracefulStopGivesBack'
    BY DEF TypeOK, GrantsInv, GracefulStopGivesBack
  <1> QED BY <1>1, <1>2, <1>3, <1>4, <1>5

(* Renewing, releasing and the clock move only the time that is left.      *)
LEMMA StatementIInv ==
    ASSUME IInv, NEW i \in Instance, Statement(i)
    PROVE  IInv'
  <1> USE DEF IInv
  <1>1. CASE AcquireGranted(i)
    BY <1>1, GrantedIInv
  <1>2. CASE AcquireRefused(i)
    BY <1>2 DEF AcquireRefused, TypeOK, GrantsInv, RepliesInv, ManagersInv, GracefulStopGivesBack, PC
  <1>3. CASE RenewStatement(i)
    <2> USE <1>3 DEF RenewStatement, Renewable
    <2>1. TypeOK'
      BY DEF TypeOK, PC
    <2>2. lease'.holder = lease.holder /\ lease'.epoch = lease.epoch /\ mine' = mine
      BY DEF TypeOK
    <2>3. GrantsInv'
      BY <2>2 DEF TypeOK, GrantsInv
    <2>4. RepliesInv' /\ ManagersInv'
      BY DEF TypeOK, RepliesInv, ManagersInv
    <2>5. GracefulStopGivesBack'
      BY <2>2 DEF TypeOK, GrantsInv, GracefulStopGivesBack
    <2> QED BY <2>1, <2>3, <2>4, <2>5
  <1>4. CASE ReleaseStatement(i)
    <2> USE <1>4 DEF ReleaseStatement
    <2>1. TypeOK'
      BY DEF TypeOK, PC
    <2>2. lease'.holder = lease.holder /\ lease'.epoch = lease.epoch /\ mine' = mine
      BY DEF TypeOK
    <2>3. GrantsInv'
      BY <2>2 DEF TypeOK, GrantsInv
    <2>4. RepliesInv' /\ ManagersInv'
      BY DEF TypeOK, RepliesInv, ManagersInv
    <2>5. GracefulStopGivesBack'
      BY <2>2 DEF TypeOK, GrantsInv, GracefulStopGivesBack
    <2> QED BY <2>1, <2>3, <2>4, <2>5
  <1> QED BY <1>1, <1>2, <1>3, <1>4 DEF Statement

(* A manager that hears an answer believes in its last grant or in none.   *)
LEMMA ObserveIInv ==
    ASSUME IInv, NEW i \in Instance, Observe(i)
    PROVE  IInv'
  <1> USE DEF IInv, TypeOK, GrantsInv, RepliesInv, ManagersInv, GracefulStopGivesBack, PC
  <1>1. CASE ObserveAcquired(i)
    BY <1>1 DEF ObserveAcquired
  <1>2. CASE ObserveNotAcquired(i)
    BY <1>2 DEF ObserveNotAcquired
  <1>3. CASE ObserveRenewed(i)
    BY <1>3 DEF ObserveRenewed
  <1>4. CASE ObserveNotRenewed(i)
    BY <1>4 DEF ObserveNotRenewed
  <1> QED BY <1>1, <1>2, <1>3, <1>4 DEF Observe

(* The manager's own steps touch no grant; it releases what it renewed.    *)
LEMMA ManagerIInv ==
    ASSUME IInv, NEW i \in Instance, Manager(i)
    PROVE  IInv'
  <1> USE DEF IInv, TypeOK, GrantsInv, RepliesInv, ManagersInv, GracefulStopGivesBack, PC
  <1>1. CASE Start(i)
    BY <1>1 DEF Start
  <1>2. CASE RenewDue(i)
    BY <1>2 DEF RenewDue
  <1>3. CASE Retry(i)
    BY <1>3 DEF Retry
  <1>4. CASE Shutdown(i)
    BY <1>4 DEF Shutdown
  <1>5. CASE BeginRelease(i)
    BY <1>5 DEF BeginRelease
  <1>6. CASE ReleaseFailed(i)
    BY <1>6 DEF ReleaseFailed
  <1>7. CASE AbortShutdown(i)
    BY <1>7 DEF AbortShutdown
  <1>8. CASE Crash(i)
    BY <1>8 DEF Crash
  <1> QED BY <1>1, <1>2, <1>3, <1>4, <1>5, <1>6, <1>7, <1>8 DEF Manager

(* The clock takes time from the row and nothing else.                     *)
LEMMA TickIInv == ASSUME IInv, Tick PROVE IInv'
  <1> USE DEF IInv, Tick
  <1>1. TypeOK'
    BY DEF TypeOK
  <1>2. lease'.holder = lease.holder /\ lease'.epoch = lease.epoch /\ mine' = mine
    BY DEF TypeOK
  <1>3. GrantsInv'
    BY <1>2 DEF GrantsInv
  <1>4. RepliesInv' /\ ManagersInv'
    BY DEF RepliesInv, ManagersInv
  <1>5. GracefulStopGivesBack'
    BY <1>2 DEF TypeOK, GracefulStopGivesBack
  <1> QED BY <1>1, <1>3, <1>4, <1>5

(* Every step keeps the inductive invariant.                               *)
LEMMA StepIInv == IInv /\ [Next]_vars => IInv'
  <1> SUFFICES ASSUME IInv, [Next]_vars PROVE IInv'
    OBVIOUS
  <1>1. CASE UNCHANGED vars
    BY <1>1 DEF vars, IInv, TypeOK, GrantsInv, RepliesInv, ManagersInv, GracefulStopGivesBack
  <1>2. CASE Next
    BY <1>2, TickIInv, StatementIInv, ObserveIInv, ManagerIInv DEF Next
  <1> QED BY <1>1, <1>2

(***************************************************************************)
(* The inductive invariant: the lease row, the replies on their way and    *)
(* the managers agree on who was granted which epoch.                      *)
(***************************************************************************)
THEOREM Invariance == Spec => []IInv
  BY InitIInv, StepIInv, PTL DEF Spec

(* Every variable of the lease model keeps its type.                       *)
THEOREM TypeCorrect == Spec => []TypeOK
  <1>1. IInv => TypeOK
    BY DEF IInv
  <1> QED BY <1>1, Invariance, PTL

(***************************************************************************)
(* Whatever replies were lost or late, the one fence the database accepts  *)
(* is carried by the holder of the row alone (lease.rs: fence).            *)
(***************************************************************************)
THEOREM FenceIsTheHolders == Spec => []FenceNamesTheHolder
  <1>1. IInv => FenceNamesTheHolder
    <2> SUFFICES ASSUME IInv, NEW i \in Instance,
                        status[i] = "Active", held[i] = lease.epoch
                 PROVE  /\ lease.holder = i
                        /\ \A j \in Instance \ {i} : belief[j] # lease.epoch
      BY DEF FenceNamesTheHolder
    <2> USE DEF IInv, TypeOK, GrantsInv, ManagersInv
    <2>1. mine[i] = lease.epoch /\ lease.epoch # 0
      OBVIOUS
    <2>2. lease.holder = i
      BY <2>1
    <2>3. ASSUME NEW j \in Instance \ {i} PROVE belief[j] # lease.epoch
      BY <2>1 DEF belief
    <2> QED BY <2>2, <2>3
  <1> QED BY <1>1, Invariance, PTL

(***************************************************************************)
(* A graceful stop of an active instance gives the row back at once unless *)
(* the release failed (lease.rs: run, release).                            *)
(***************************************************************************)
THEOREM StopGivesBack == Spec => []GracefulStopGivesBack
  <1>1. IInv => GracefulStopGivesBack
    BY DEF IInv
  <1> QED BY <1>1, Invariance, PTL

-----------------------------------------------------------------------------
(* Nobody is granted anything before the first acquire.                    *)
LEMMA InitImplements == Init => Authority!AuthorityInit
  BY DEF Init, Authority!AuthorityInit, belief

(* What a statement does to the row is a grant, a lapse, or invisible.     *)
LEMMA StatementImplements ==
    ASSUME IInv, NEW i \in Instance, Statement(i)
    PROVE  \/ Authority!Grant(i) \/ Authority!Lapse
           \/ UNCHANGED Authority!authorityVars
  <1> USE DEF IInv, TypeOK, ManagersInv, belief, Authority!authorityVars
  <1>1. CASE AcquireGranted(i)
    <2>1. lease'.epoch = lease.epoch + 1 /\ lease'.left > 0 /\ ~(lease.left > 0)
      BY <1>1 DEF AcquireGranted
    <2>2. lease.epoch < MaxEpoch /\ mine' = [mine EXCEPT ![i] = lease.epoch + 1]
      BY <1>1 DEF AcquireGranted
    <2>3. belief[i] = 0 /\ UNCHANGED belief
      BY <1>1 DEF AcquireGranted
    <2> QED BY <2>1, <2>2, <2>3 DEF Authority!Grant
  <1>2. CASE AcquireRefused(i)
    BY <1>2 DEF AcquireRefused
  <1>3. CASE RenewStatement(i)
    <2>1. lease'.epoch = lease.epoch /\ (lease'.left > 0 <=> lease.left > 0)
      BY <1>3 DEF RenewStatement, Renewable
    <2>2. UNCHANGED <<mine, belief>>
      BY <1>3 DEF RenewStatement
    <2> QED BY <2>1, <2>2
  <1>4. CASE ReleaseStatement(i)
    <2>1. lease'.epoch = lease.epoch /\ (lease'.left > 0 => lease.left > 0)
      BY <1>4 DEF ReleaseStatement
    <2>2. UNCHANGED <<mine, belief>>
      BY <1>4 DEF ReleaseStatement
    <2> QED BY <2>1, <2>2 DEF Authority!Lapse
  <1> QED BY <1>1, <1>2, <1>3, <1>4 DEF Statement

(* A positive answer teaches the manager its last grant; a negative one    *)
(* makes it forget.                                                        *)
LEMMA ObserveImplements ==
    ASSUME IInv, NEW i \in Instance, Observe(i)
    PROVE  Authority!Learn(i) \/ Authority!Forget(i)
  <1> USE DEF IInv, TypeOK, RepliesInv, belief
  <1>1. CASE ObserveAcquired(i)
    BY <1>1 DEF ObserveAcquired, Authority!Learn
  <1>2. CASE ObserveNotAcquired(i)
    BY <1>2 DEF ObserveNotAcquired, Authority!Forget
  <1>3. CASE ObserveRenewed(i)
    BY <1>3 DEF ObserveRenewed, Authority!Learn
  <1>4. CASE ObserveNotRenewed(i)
    BY <1>4 DEF ObserveNotRenewed, Authority!Forget
  <1> QED BY <1>1, <1>2, <1>3, <1>4 DEF Observe

(* Stopping or dying makes an instance forget; the rest is invisible.      *)
LEMMA ManagerImplements ==
    ASSUME IInv, NEW i \in Instance, Manager(i)
    PROVE  Authority!Forget(i) \/ UNCHANGED Authority!authorityVars
  <1> USE DEF IInv, TypeOK, belief, Authority!authorityVars, Authority!Forget
  <1>1. CASE Start(i)
    BY <1>1 DEF Start
  <1>2. CASE RenewDue(i)
    BY <1>2 DEF RenewDue
  <1>3. CASE Retry(i)
    BY <1>3 DEF Retry
  <1>4. CASE Shutdown(i)
    BY <1>4 DEF Shutdown
  <1>5. CASE BeginRelease(i)
    BY <1>5 DEF BeginRelease
  <1>6. CASE ReleaseFailed(i)
    BY <1>6 DEF ReleaseFailed
  <1>7. CASE AbortShutdown(i)
    BY <1>7 DEF AbortShutdown
  <1>8. CASE Crash(i)
    BY <1>8 DEF Crash
  <1> QED BY <1>1, <1>2, <1>3, <1>4, <1>5, <1>6, <1>7, <1>8 DEF Manager

(* The clock lets the row lapse once its time has run out.                 *)
LEMMA TickImplements ==
    ASSUME IInv, Tick
    PROVE  Authority!Lapse \/ UNCHANGED Authority!authorityVars
  <1>1. lease'.epoch = lease.epoch /\ (lease'.left > 0 => lease.left > 0)
    BY DEF IInv, TypeOK, Tick
  <1>2. UNCHANGED <<mine, belief>>
    BY DEF Tick, belief
  <1> QED BY <1>1, <1>2 DEF Authority!Lapse, Authority!authorityVars

(* Every step of the row and its managers is a step of the promise.        *)
LEMMA StepImplements ==
    IInv /\ [Next]_vars => [Authority!AuthorityNext]_(Authority!authorityVars)
  <1> SUFFICES ASSUME IInv, [Next]_vars
               PROVE  Authority!AuthorityNext \/ UNCHANGED Authority!authorityVars
    OBVIOUS
  <1>1. CASE UNCHANGED vars
    BY <1>1 DEF vars, belief, Authority!authorityVars
  <1>2. CASE Tick
    BY <1>2, TickImplements DEF Authority!AuthorityNext
  <1>3. ASSUME NEW i \in Instance, Statement(i) \/ Observe(i) \/ Manager(i)
        PROVE  Authority!AuthorityNext \/ UNCHANGED Authority!authorityVars
    BY <1>3, StatementImplements, ObserveImplements, ManagerImplements
       DEF Authority!AuthorityNext
  <1> QED BY <1>1, <1>2, <1>3 DEF Next

(***************************************************************************)
(* The lease row with its managers implements the promise the handlers     *)
(* rely on (module ControlAuthority).                                      *)
(***************************************************************************)
THEOREM Refinement == Spec => ImplementsAuthority
  BY InitImplements, StepImplements, Invariance, PTL
     DEF Spec, ImplementsAuthority, Authority!AuthoritySpec
=============================================================================
