----------------------------- MODULE ControlLease -----------------------------
(***************************************************************************)
(* The control-plane lease: one database row per cluster, and one lease    *)
(* manager task per orchestrator process that acquires, renews and         *)
(* releases it (crates/fleet-scheduler/src/lease.rs on top of the three    *)
(* statements of crates/fleet-store/src/postgres.rs).                      *)
(*                                                                         *)
(* Every database call is two steps: the statement takes effect on the     *)
(* row, and later the manager observes the reply.  Between the two the     *)
(* clock may pass, another instance may run, the process may die, or the   *)
(* reply may be lost although the statement was committed.                 *)
(*                                                                         *)
(* expires_at is kept as the time that is left: lease.left = expires_at -  *)
(* NOW(), cut off at -1.  "expires_at > NOW()" is left > 0, "expires_at <  *)
(* NOW()" is left < 0, and left = 0 is neither.                            *)
(***************************************************************************)
EXTENDS Integers

CONSTANTS
    Instance,   \* orchestrator processes, one fresh instance id per start
    NoOne,      \* the holder of a row that does not exist yet
    Ttl,        \* LeaseManagerConfig::ttl in ticks
    MaxEpoch    \* bound: acquire is not answered beyond this epoch

ASSUME NoOneAssumption == NoOne \notin Instance
ASSUME TtlAssumption == Ttl \in Nat \ {0}
ASSUME EpochBoundAssumption == MaxEpoch \in Nat

VARIABLES
    lease,      \* the row: [holder, epoch, left]; epoch 0 is "no row"
    pc,         \* where the manager task of each instance is
    alive,      \* the manager task runs
    stopping,   \* the shutdown token is cancelled
    status,     \* LeaseStatus, the value every LeaseObserver reads
    held,       \* the epoch of LeaseStatus::Active, then of release; 0 if none
    reply,      \* what the last statement answered, not yet observed; 0 = refused
    mine        \* history: the last epoch the row granted to the instance

vars == <<lease, pc, alive, stopping, status, held, reply, mine>>
rowVars == <<lease, mine>>

PC == {"idle", "acquire", "acquireReply", "wait", "renew", "renewReply",
       "backoff", "release", "stopped", "leftToExpire"}

TypeOK ==
    /\ lease \in [holder : Instance \cup {NoOne}, epoch : Nat, left : -1 .. Ttl]
    /\ pc \in [Instance -> PC]
    /\ alive \in [Instance -> BOOLEAN]
    /\ stopping \in [Instance -> BOOLEAN]
    /\ status \in [Instance -> {"Stopped", "Active", "Fenced"}]
    /\ held \in [Instance -> Nat]
    /\ reply \in [Instance -> Nat]
    /\ mine \in [Instance -> Nat]

Init ==
    /\ lease = [holder |-> NoOne, epoch |-> 0, left |-> -1]
    /\ pc = [i \in Instance |-> "idle"]
    /\ alive = [i \in Instance |-> FALSE]
    /\ stopping = [i \in Instance |-> FALSE]
    /\ status = [i \in Instance |-> "Stopped"]
    /\ held = [i \in Instance |-> 0]
    /\ reply = [i \in Instance |-> 0]
    /\ mine = [i \in Instance |-> 0]

-----------------------------------------------------------------------------
(* LeaseManager::spawn, up to the first acquire of run.                    *)
Start(i) ==
    /\ pc[i] = "idle"
    /\ pc' = [pc EXCEPT ![i] = "acquire"]
    /\ alive' = [alive EXCEPT ![i] = TRUE]
    /\ UNCHANGED <<lease, stopping, status, held, reply, mine>>

(* Mutant: ON CONFLICT DO UPDATE forgets epoch = epoch + 1.                *)
AcquireGrantedSameEpoch(i) ==
    /\ pc[i] = "acquire"
    /\ lease.left < 0
    /\ lease.epoch < MaxEpoch
    /\ LET granted == IF lease.epoch = 0 THEN 1 ELSE lease.epoch
       IN /\ lease' = [holder |-> i, epoch |-> granted, left |-> Ttl]
          /\ mine' = [mine EXCEPT ![i] = granted]
          /\ reply' = [reply EXCEPT ![i] = granted]
    /\ pc' = [pc EXCEPT ![i] = "acquireReply"]
    /\ UNCHANGED <<alive, stopping, status, held>>

(***************************************************************************)
(* The INSERT ... ON CONFLICT DO UPDATE ... WHERE expires_at < NOW()       *)
(* statement.  It needs no live manager: a statement that was sent before  *)
(* its process died may still take effect.                                 *)
(***************************************************************************)
AcquireGranted(i) ==
    /\ pc[i] = "acquire"
    /\ lease.left < 0
    /\ lease.epoch < MaxEpoch
    /\ lease' = [holder |-> i, epoch |-> lease.epoch + 1, left |-> Ttl]
    /\ mine' = [mine EXCEPT ![i] = lease.epoch + 1]
    /\ reply' = [reply EXCEPT ![i] = lease.epoch + 1]
    /\ pc' = [pc EXCEPT ![i] = "acquireReply"]
    /\ UNCHANGED <<alive, stopping, status, held>>

AcquireRefused(i) ==
    /\ pc[i] = "acquire"
    /\ lease.left >= 0
    /\ reply' = [reply EXCEPT ![i] = 0]
    /\ pc' = [pc EXCEPT ![i] = "acquireReply"]
    /\ UNCHANGED <<lease, alive, stopping, status, held, mine>>

(* try_acquire, Ok: Active, and renew_loop(lease.epoch) is entered.        *)
ObserveAcquired(i) ==
    /\ pc[i] = "acquireReply" /\ alive[i]
    /\ reply[i] # 0
    /\ status' = [status EXCEPT ![i] = "Active"]
    /\ held' = [held EXCEPT ![i] = reply[i]]
    /\ reply' = [reply EXCEPT ![i] = 0]
    /\ pc' = [pc EXCEPT ![i] = "wait"]
    /\ UNCHANGED <<lease, alive, stopping, mine>>

(***************************************************************************)
(* try_acquire, Err: refused by a valid holder, or a store error, which    *)
(* says nothing about whether the statement was committed.                 *)
(***************************************************************************)
ObserveNotAcquired(i) ==
    /\ alive[i]
    /\ \/ pc[i] = "acquireReply"
       \/ pc[i] = "acquire"
    /\ status' = [status EXCEPT ![i] = "Stopped"]
    /\ held' = [held EXCEPT ![i] = 0]
    /\ reply' = [reply EXCEPT ![i] = 0]
    /\ pc' = [pc EXCEPT ![i] = "backoff"]
    /\ UNCHANGED <<lease, alive, stopping, mine>>

-----------------------------------------------------------------------------
(* The tick arm of renew_loop's select: the next renewal is sent.          *)
RenewDue(i) ==
    /\ pc[i] = "wait" /\ alive[i]
    /\ pc' = [pc EXCEPT ![i] = "renew"]
    /\ UNCHANGED <<lease, alive, stopping, status, held, reply, mine>>

(* Mutant: renewal without the expires_at > NOW() predicate.               *)
RenewableLate(i) ==
    /\ lease.holder = i
    /\ lease.epoch = held[i]

(* renew_control_lease: same instance, same epoch, not yet expired.        *)
Renewable(i) ==
    /\ lease.holder = i
    /\ lease.epoch = held[i]
    /\ lease.left > 0

RenewStatement(i) ==
    /\ pc[i] = "renew"
    /\ IF Renewable(i)
       THEN /\ lease' = [lease EXCEPT !.left = Ttl]
            /\ reply' = [reply EXCEPT ![i] = held[i]]
       ELSE /\ reply' = [reply EXCEPT ![i] = 0]
            /\ UNCHANGED lease
    /\ pc' = [pc EXCEPT ![i] = "renewReply"]
    /\ UNCHANGED <<alive, stopping, status, held, mine>>

(* try_renew, Ok: the loop goes on.                                        *)
ObserveRenewed(i) ==
    /\ pc[i] = "renewReply" /\ alive[i]
    /\ reply[i] # 0
    /\ status' = [status EXCEPT ![i] = "Active"]
    /\ held' = [held EXCEPT ![i] = reply[i]]
    /\ reply' = [reply EXCEPT ![i] = 0]
    /\ pc' = [pc EXCEPT ![i] = "wait"]
    /\ UNCHANGED <<lease, alive, stopping, mine>>

(* try_renew, Err (refused or store error): this instance fences itself.   *)
ObserveNotRenewed(i) ==
    /\ alive[i]
    /\ \/ pc[i] = "renewReply"
       \/ pc[i] = "renew"
    /\ status' = [status EXCEPT ![i] = "Fenced"]
    /\ held' = [held EXCEPT ![i] = 0]
    /\ reply' = [reply EXCEPT ![i] = 0]
    /\ pc' = [pc EXCEPT ![i] = "backoff"]
    /\ UNCHANGED <<lease, alive, stopping, mine>>

(* Mutant: a fenced manager gives up instead of acquiring again.           *)
RetryUnlessFenced(i) ==
    /\ pc[i] = "backoff" /\ alive[i] /\ ~stopping[i]
    /\ status[i] # "Fenced"
    /\ pc' = [pc EXCEPT ![i] = "acquire"]
    /\ UNCHANGED <<lease, alive, stopping, status, held, reply, mine>>

(* The sleep arm of run's select, and the while condition.                 *)
Retry(i) ==
    /\ pc[i] = "backoff" /\ alive[i] /\ ~stopping[i]
    /\ pc' = [pc EXCEPT ![i] = "acquire"]
    /\ UNCHANGED <<lease, alive, stopping, status, held, reply, mine>>

-----------------------------------------------------------------------------
(* LeaseManagerHandle::shutdown cancels the token.                         *)
Shutdown(i) ==
    /\ alive[i] /\ ~stopping[i]
    /\ stopping' = [stopping EXCEPT ![i] = TRUE]
    /\ UNCHANGED <<lease, pc, alive, status, held, reply, mine>>

(* Mutant: release() overwrites the status before it reads the epoch.      *)
BeginReleaseForgetsEpoch(i) ==
    /\ alive[i] /\ stopping[i]
    /\ pc[i] \in {"wait", "backoff"}
    /\ pc' = [pc EXCEPT ![i] = "stopped"]
    /\ status' = [status EXCEPT ![i] = "Stopped"]
    /\ UNCHANGED <<lease, alive, stopping, held, reply, mine>>

(***************************************************************************)
(* The token is received at the two waiting points only; release() takes   *)
(* the epoch out of the status before it overwrites it.                    *)
(***************************************************************************)
BeginRelease(i) ==
    /\ alive[i] /\ stopping[i]
    /\ pc[i] \in {"wait", "backoff"}
    /\ pc' = [pc EXCEPT ![i] = IF status[i] = "Active" THEN "release" ELSE "stopped"]
    /\ status' = [status EXCEPT ![i] = "Stopped"]
    /\ UNCHANGED <<lease, alive, stopping, held, reply, mine>>

(* release_control_lease: expires_at = NOW() if instance and epoch match.  *)
ReleaseStatement(i) ==
    /\ pc[i] = "release"
    /\ lease' = IF lease.holder = i /\ lease.epoch = held[i]
                THEN [lease EXCEPT !.left = 0]
                ELSE lease
    /\ pc' = [pc EXCEPT ![i] = "stopped"]
    /\ UNCHANGED <<alive, stopping, status, held, reply, mine>>

(* The release failed: the row is left to expire by TTL.                   *)
ReleaseFailed(i) ==
    /\ pc[i] = "release" /\ alive[i]
    /\ pc' = [pc EXCEPT ![i] = "leftToExpire"]
    /\ UNCHANGED <<lease, alive, stopping, status, held, reply, mine>>

(***************************************************************************)
(* shutdown_grace ran out: the manager task is aborted wherever it is.     *)
(* Nobody resets the status, so the observers keep what they last read.    *)
(***************************************************************************)
AbortShutdown(i) ==
    /\ alive[i] /\ stopping[i]
    /\ pc[i] \notin {"stopped", "leftToExpire"}
    /\ alive' = [alive EXCEPT ![i] = FALSE]
    /\ UNCHANGED <<lease, pc, stopping, status, held, reply, mine>>

(* The process dies (or exits after an aborted shutdown).                  *)
Crash(i) ==
    /\ pc[i] # "idle"
    /\ alive' = [alive EXCEPT ![i] = FALSE]
    /\ status' = [status EXCEPT ![i] = "Stopped"]
    /\ UNCHANGED <<lease, pc, stopping, held, reply, mine>>

(* The database clock advances.                                            *)
Tick ==
    /\ lease.left >= 0
    /\ lease' = [lease EXCEPT !.left = @ - 1]
    /\ UNCHANGED <<pc, alive, stopping, status, held, reply, mine>>

-----------------------------------------------------------------------------
Statement(i) ==
    \/ AcquireGranted(i) \/ AcquireRefused(i)
    \/ RenewStatement(i) \/ ReleaseStatement(i)

Observe(i) ==
    \/ ObserveAcquired(i) \/ ObserveNotAcquired(i)
    \/ ObserveRenewed(i) \/ ObserveNotRenewed(i)

Manager(i) ==
    \/ Start(i) \/ RenewDue(i) \/ Retry(i)
    \/ Shutdown(i) \/ BeginRelease(i) \/ ReleaseFailed(i)
    \/ AbortShutdown(i) \/ Crash(i)

Next ==
    \/ Tick
    \/ \E i \in Instance : Statement(i) \/ Observe(i) \/ Manager(i)

Spec == Init /\ [][Next]_vars

(***************************************************************************)
(* Time passes; a live manager's timers fire and its replies arrive.  The  *)
(* database is not down for ever: a statement that is sent again and again *)
(* is executed, and its answer observed, at some attempt (strong fairness).*)
(***************************************************************************)
Fairness ==
    /\ WF_vars(Tick)
    /\ \A i \in Instance :
         /\ WF_vars(alive[i] /\ (RenewDue(i) \/ Retry(i) \/ BeginRelease(i)))
         /\ WF_vars(alive[i] /\ Observe(i))
         /\ SF_vars(alive[i] /\ Statement(i))
         /\ SF_vars(ObserveAcquired(i))

FairSpec == Spec /\ Fairness

-----------------------------------------------------------------------------
(* The epoch an observer exports (LeaseStatus::epoch), 0 unless Active.    *)
belief == [i \in Instance |-> IF status[i] = "Active" THEN held[i] ELSE 0]

Authority == INSTANCE ControlAuthority
                WITH epoch <- lease.epoch, valid <- lease.left > 0

(***************************************************************************)
(* The lease row and its managers implement ControlAuthority: authority is *)
(* handed over only after it lapsed, a lapsed epoch is never revived by a  *)
(* late renewal, epochs grow by one per grant, and a manager believes only *)
(* in the last epoch the row granted to it.                                *)
(***************************************************************************)
ImplementsAuthority == Authority!AuthoritySpec

(***************************************************************************)
(* The instance whose fence the database accepts is the one the row names, *)
(* and no second observer carries that fence, whatever replies were lost   *)
(* or late (lease.rs: fence; postgres.rs: the EXISTS predicate).           *)
(***************************************************************************)
FenceNamesTheHolder ==
    \A i \in Instance :
        status[i] = "Active" /\ held[i] = lease.epoch =>
            /\ lease.holder = i
            /\ \A j \in Instance \ {i} : belief[j] # lease.epoch

(***************************************************************************)
(* Graceful shutdown of an instance that believed it was active gives the  *)
(* lease back at once, unless the release itself failed: a standby need    *)
(* not wait for the TTL (lease.rs: run, release).                          *)
(***************************************************************************)
GracefulStopGivesBack ==
    \A i \in Instance :
        pc[i] = "stopped" /\ lease.holder = i /\ lease.epoch = held[i]
            => lease.left =< 0

(***************************************************************************)
(* The inductive invariant that carries FenceNamesTheHolder,               *)
(* GracefulStopGivesBack and ImplementsAuthority: the row, the replies on  *)
(* their way and the managers know of the same grants (lease.rs: try_renew *)
(* and release name the epoch that try_acquire was answered).              *)
(***************************************************************************)
(* The row and the history agree: a grant is never ahead of the row, never *)
(* shared, and the row's epoch is the last grant of the row's holder.      *)
GrantsInv ==
    /\ \A i \in Instance : mine[i] =< lease.epoch
    /\ \A i, j \in Instance : mine[i] = mine[j] /\ mine[i] # 0 => i = j
    /\ \A i \in Instance : lease.holder = i => mine[i] = lease.epoch
    /\ lease.epoch # 0 <=> lease.holder \in Instance

(* An answer on its way names the grant, or the renewal, it answers.       *)
RepliesInv ==
    \A i \in Instance : reply[i] # 0 =>
        /\ pc[i] \in {"acquireReply", "renewReply"}
        /\ reply[i] = mine[i]

(* The manager works on its own last grant as long as it renews it, and    *)
(* believes it is active only then.                                        *)
ManagersInv ==
    \A i \in Instance :
        /\ pc[i] \in {"wait", "renew", "renewReply", "release"} =>
              held[i] = mine[i] /\ mine[i] # 0
        /\ status[i] = "Active" => pc[i] \in {"wait", "renew", "renewReply"}
        /\ pc[i] = "wait" /\ alive[i] => status[i] = "Active"
        /\ pc[i] = "backoff" => held[i] = 0

IInv == TypeOK /\ GrantsInv /\ RepliesInv /\ ManagersInv /\ GracefulStopGivesBack

(***************************************************************************)
(* Failover: once every other instance is gone for good, an instance that  *)
(* keeps running and is not asked to stop becomes active again and again   *)
(* (or the model's epoch bound is exhausted).                              *)
(***************************************************************************)
SurvivorTakesOver ==
    \A i \in Instance :
        <>[](/\ alive[i] /\ ~stopping[i]
             /\ \A j \in Instance \ {i} : ~alive[j])
          => []<>(status[i] = "Active" \/ lease.epoch = MaxEpoch)
=============================================================================
