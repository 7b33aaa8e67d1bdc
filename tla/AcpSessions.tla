------------------------------ MODULE AcpSessions ------------------------------
(***************************************************************************)
(* The ACP transport towards one worker: the supervisor that keeps the     *)
(* connection, the capacity semaphore, and one task per dispatch that      *)
(* opens a session, prompts, collects the output and reports the outcome.  *)
(* The session map is shared by all of them; nobody holds its lock for     *)
(* more than one look.                                                     *)
(***************************************************************************)
EXTENDS Integers, FiniteSets

CONSTANTS Task,        \* dispatches (a task row is dispatched under one id)
          Capacity,    \* max_concurrent of the worker
          MaxEpoch,    \* bound: connections ever made
          MaxChunks    \* bound: output chunks of one session

ASSUME AcpSessionsAssumption ==
    Capacity \in Nat \ {0} /\ MaxEpoch \in Nat \ {0} /\ MaxChunks \in Nat

VARIABLES
    sup,         \* where the supervisor is
    epoch,       \* connections made so far; the last one is the current one
    alive,       \* whether the current connection carries anything
    handle,      \* session.connection: the epoch it holds, 0 for None
    connected,   \* session.state = Connected
    registered,  \* the worker is in `clients`
    drained,     \* what fail_all copied out of the map
    st,          \* where each dispatch is
    via,         \* the epoch of the connection a dispatch cloned
    routed,      \* sessions: the tasks with an entry in the map
    queue,       \* chunks in the session's own queue
    output,      \* chunks its consumer has appended
    agent,       \* what the agent does for the task
    sent,        \* history: chunks the agent sent and the connection delivered
    told,        \* history: a cancel went out on a live connection
    completed,   \* history: Completed events, and whether one lacked output
    failed       \* history: Failed events

connection == <<sup, epoch, alive, handle, connected, registered, drained>>
sessions == <<st, via, routed, queue, output>>
remote == <<agent, sent, told>>
outcome == <<completed, failed>>
acpVars == <<connection, sessions, remote, outcome>>

Stage == {"none", "accepting", "opening", "opened", "prompting",
          "answered", "refused", "expired",      \* the prompt's three results
          "done", "rejected"}

AcpTypeOK ==
    /\ sup \in {"connecting", "up", "lost", "unset", "draining", "backoff", "gone"}
    /\ epoch \in 0..MaxEpoch /\ handle \in 0..MaxEpoch
    /\ alive \in BOOLEAN /\ connected \in BOOLEAN /\ registered \in BOOLEAN
    /\ drained \subseteq Task /\ routed \subseteq Task
    /\ st \in [Task -> Stage]
    /\ via \in [Task -> 0..MaxEpoch]
    /\ queue \in [Task -> 0..MaxChunks] /\ output \in [Task -> 0..MaxChunks]
    /\ agent \in [Task -> {"none", "idle", "running", "ended"}]
    /\ sent \in [Task -> 0..MaxChunks]
    /\ told \subseteq Task
    /\ completed \in [Task -> {"no", "whole", "partial"}]
    /\ failed \in [Task -> 0..2]

AcpInit ==
    /\ sup = "connecting" /\ epoch = 0 /\ alive = FALSE
    /\ handle = 0 /\ connected = FALSE /\ registered = TRUE
    /\ drained = {} /\ routed = {} /\ told = {}
    /\ st = [t \in Task |-> "none"]
    /\ via = [t \in Task |-> 0]
    /\ queue = [t \in Task |-> 0] /\ output = [t \in Task |-> 0]
    /\ sent = [t \in Task |-> 0]
    /\ agent = [t \in Task |-> "none"]
    /\ completed = [t \in Task |-> "no"]
    /\ failed = [t \in Task |-> 0]

(* The connection a dispatch cloned still carries its requests.            *)
Carries(t) == alive /\ via[t] = epoch

(* Permits are held from the check until the spawned task ends.            *)
Holders == {t \in Task : st[t] \notin {"none", "done", "rejected"}}

-----------------------------------------------------------------------------
(* The supervisor.                                                         *)

(* initialize answered: the handle first, the state after it.              *)
Connect ==
    /\ sup = "connecting" /\ epoch < MaxEpoch
    /\ sup' = "up" /\ epoch' = epoch + 1 /\ alive' = TRUE
    /\ handle' = epoch + 1 /\ connected' = TRUE
    /\ UNCHANGED <<registered, drained, sessions, remote, outcome>>

(* After a failure: the backoff, which a requested shutdown cuts short.    *)
Rest == IF registered THEN "backoff" ELSE "gone"

(* No client to connect with, which only costs a sleep; or the attempt     *)
(* fails, which is handled like a connection that was lost.                *)
ConnectFails ==
    /\ sup = "connecting"
    /\ \/ sup' = "lost" /\ UNCHANGED connected
       \/ sup' = Rest /\ connected' = FALSE
    /\ UNCHANGED <<epoch, alive, handle, registered, drained, sessions, remote, outcome>>

(* The socket dies, or unregister asked for the end; requests on it fail   *)
(* from here on, the supervisor hears of it next.                          *)
Lose ==
    /\ sup = "up"
    /\ sup' = "lost" /\ alive' = FALSE
    /\ UNCHANGED <<epoch, handle, connected, registered, drained, sessions, remote, outcome>>

Disconnect ==
    /\ sup = "lost"
    /\ sup' = "unset" /\ handle' = 0 /\ connected' = FALSE
    /\ UNCHANGED <<epoch, alive, registered, drained, sessions, remote, outcome>>

(* fail_all: the map is copied under its lock ...                          *)
FailAllCopy ==
    /\ sup = "unset"
    /\ sup' = "draining" /\ drained' = routed
    /\ UNCHANGED <<epoch, alive, handle, connected, registered, sessions, remote, outcome>>

(* Mutant: the entries go and nobody is told.                              *)
FailAllQuietly ==
    /\ sup = "draining"
    /\ sup' = Rest
    /\ routed' = routed \ drained
    /\ drained' = {}
    /\ UNCHANGED <<epoch, alive, handle, connected, registered, st, via, queue, output,
                   remote, outcome>>

(* ... and taken again for the removal; every copied task is reported,     *)
(* whether its entry was still there or not.                               *)
FailAllReport ==
    /\ sup = "draining"
    /\ sup' = Rest
    /\ routed' = routed \ drained
    /\ failed' = [t \in Task |-> IF t \in drained THEN failed[t] + 1 ELSE failed[t]]
    /\ drained' = {}
    /\ UNCHANGED <<epoch, alive, handle, connected, registered, st, via, queue, output,
                   remote, completed>>

Retry ==
    /\ sup = "backoff"
    /\ sup' = IF registered THEN "connecting" ELSE "gone"
    /\ UNCHANGED <<epoch, alive, handle, connected, registered, drained, sessions,
                   remote, outcome>>

(* unregister: out of `clients`, and the shutdown signal.                  *)
Unregister ==
    /\ registered
    /\ registered' = FALSE
    /\ UNCHANGED <<sup, epoch, alive, handle, connected, drained, sessions, remote, outcome>>

-----------------------------------------------------------------------------
(* One dispatch.                                                           *)

Goes(t, stage) == st' = [st EXCEPT ![t] = stage]

(* dispatch, first looks: registered, Connected, and a permit at once.     *)
AcceptDispatch(t) ==
    /\ st[t] = "none"
    /\ IF registered /\ connected /\ Cardinality(Holders) < Capacity
       THEN Goes(t, "accepting") ELSE Goes(t, "rejected")
    /\ UNCHANGED <<connection, via, routed, queue, output, remote, outcome>>

(* dispatch, last look: the handle may be gone by now.                     *)
Clone(t) ==
    /\ st[t] = "accepting"
    /\ IF handle = 0
       THEN Goes(t, "rejected") /\ UNCHANGED via
       ELSE Goes(t, "opening") /\ via' = [via EXCEPT ![t] = handle]
    /\ UNCHANGED <<connection, routed, queue, output, remote, outcome>>

(* session/new is answered.                                                *)
OpenSession(t) ==
    /\ st[t] = "opening" /\ Carries(t)
    /\ Goes(t, "opened")
    /\ agent' = [agent EXCEPT ![t] = "idle"]
    /\ UNCHANGED <<connection, via, routed, queue, output, sent, told, outcome>>

(* session/new fails or times out: Failed, and the permit goes.            *)
OpenFails(t) ==
    /\ st[t] = "opening"
    /\ Goes(t, "done")
    /\ failed' = [failed EXCEPT ![t] = @ + 1]
    /\ UNCHANGED <<connection, via, routed, queue, output, remote, completed>>

(* The entry is made, SessionOpened goes out, the prompt is sent.          *)
Prompt(t) ==
    /\ st[t] = "opened"
    /\ Goes(t, "prompting")
    /\ routed' = routed \cup {t}
    /\ agent' = [agent EXCEPT ![t] = IF Carries(t) THEN "running" ELSE @]
    /\ UNCHANGED <<connection, via, queue, output, sent, told, outcome>>

(* The prompt is answered, or fails with the connection or on the agent's  *)
(* side.                                                                   *)
PromptReturns(t) ==
    /\ st[t] = "prompting"
    /\ \/ /\ Carries(t) /\ agent[t] = "running"
          /\ agent' = [agent EXCEPT ![t] = "ended"]
          /\ Goes(t, "answered") \/ Goes(t, "refused")
       \/ ~Carries(t) /\ Goes(t, "refused") /\ UNCHANGED agent
    /\ UNCHANGED <<connection, via, routed, queue, output, sent, told, outcome>>

(* Mutant: a prompt is waited for as long as its connection lives.         *)
PromptWaits(t) ==
    /\ st[t] = "prompting" /\ ~Carries(t)
    /\ Goes(t, "expired")
    /\ UNCHANGED <<connection, via, routed, queue, output, remote, outcome>>

(* Or it takes longer than dispatch_timeout.                               *)
PromptExpires(t) ==
    /\ st[t] = "prompting"
    /\ Goes(t, "expired")
    /\ UNCHANGED <<connection, via, routed, queue, output, remote, outcome>>

(* Mutant: the buffer is read as it is.                                    *)
NoBarrier(t) == TRUE

(* The Flush barrier: the consumer has come to it, if there is an entry.   *)
Barrier(t) == t \in routed => queue[t] = 0

(* Mutant: a session that timed out is left running.                       *)
ConcludeUntold(t) ==
    /\ st[t] \in {"answered", "refused", "expired"} /\ Barrier(t)
    /\ Goes(t, "done")
    /\ routed' = routed \ {t}
    /\ IF st[t] = "answered"
       THEN /\ completed' = [completed EXCEPT ![t] =
                                IF output[t] = sent[t] THEN "whole" ELSE "partial"]
            /\ UNCHANGED failed
       ELSE /\ failed' = [failed EXCEPT ![t] = IF t \in routed THEN @ + 1 ELSE @]
            /\ UNCHANGED completed
    /\ UNCHANGED <<connection, via, queue, output, remote>>

(* The entry is removed; whether it was there tells if fail_all came       *)
(* first.  An answer is reported all the same, a failure only if not; a    *)
(* session that timed out is cancelled here, where its id is still known.  *)
Conclude(t) ==
    /\ st[t] \in {"answered", "refused", "expired"} /\ Barrier(t)
    /\ Goes(t, "done")
    /\ routed' = routed \ {t}
    /\ IF st[t] = "answered"
       THEN /\ completed' = [completed EXCEPT ![t] =
                                IF output[t] = sent[t] THEN "whole" ELSE "partial"]
            /\ UNCHANGED failed
       ELSE /\ failed' = [failed EXCEPT ![t] = IF t \in routed THEN @ + 1 ELSE @]
            /\ UNCHANGED completed
    /\ told' = IF st[t] = "expired" /\ t \in routed /\ Carries(t)
               THEN told \cup {t} ELSE told
    /\ UNCHANGED <<connection, via, queue, output, agent, sent>>

-----------------------------------------------------------------------------
(* Output, and cancels.                                                    *)

(* session/update: into the session's queue, or nowhere without an entry.  *)
Chunk(t) ==
    /\ agent[t] = "running" /\ Carries(t) /\ sent[t] < MaxChunks
    /\ sent' = [sent EXCEPT ![t] = @ + 1]
    /\ queue' = [queue EXCEPT ![t] = IF t \in routed THEN @ + 1 ELSE @]
    /\ UNCHANGED <<connection, st, via, routed, output, agent, told, outcome>>

(* The session's consumer.                                                 *)
Consume(t) ==
    /\ queue[t] > 0
    /\ queue' = [queue EXCEPT ![t] = @ - 1]
    /\ output' = [output EXCEPT ![t] = @ + 1]
    /\ UNCHANGED <<connection, st, via, routed, remote, outcome>>

(* cancel: by the entry, or by the session id the row kept; it goes out on *)
(* the connection there is now, or is lost with it.                        *)
Cancel(t) ==
    /\ registered /\ handle # 0 /\ alive
    /\ agent[t] = "running" /\ t \notin told
    /\ told' = told \cup {t}
    /\ UNCHANGED <<connection, sessions, agent, sent, outcome>>

(* An agent may end a turn nobody listens to any more.                     *)
Finish(t) ==
    /\ agent[t] = "running" /\ ~(st[t] = "prompting" /\ Carries(t))
    /\ agent' = [agent EXCEPT ![t] = "ended"]
    /\ UNCHANGED <<connection, sessions, sent, told, outcome>>

-----------------------------------------------------------------------------
Supervise ==
    \/ Connect \/ ConnectFails \/ Lose
    \/ Disconnect \/ FailAllCopy \/ FailAllReport \/ Retry

(* What goes on without the worker: code, timers and errors.               *)
Advance(t) ==
    \/ Clone(t) \/ OpenFails(t) \/ Prompt(t) \/ PromptExpires(t) \/ Conclude(t)

AcpNext ==
    \/ Supervise \/ Unregister
    \/ \E t \in Task : \/ AcceptDispatch(t) \/ Advance(t) \/ OpenSession(t) \/ PromptReturns(t)
                       \/ Chunk(t) \/ Consume(t) \/ Cancel(t) \/ Finish(t)

AcpSpec == AcpInit /\ [][AcpNext]_acpVars

(* Timers fire and spawned tasks run; the supervisor works off a loss; an  *)
(* agent need not answer and a connection need not come back.              *)
AcpFairSpec ==
    /\ AcpSpec
    /\ WF_acpVars(Disconnect \/ FailAllCopy \/ FailAllReport)
    /\ \A t \in Task : WF_acpVars(Advance(t)) /\ WF_acpVars(Consume(t))

-----------------------------------------------------------------------------
(* Every accepted dispatch ends with an outcome, whoever reports it: the   *)
(* dispatch's own task leaves a failure to fail_all only if fail_all has   *)
(* reported it.                                                            *)
DoneIsReported ==
    \A t \in Task : st[t] = "done" => completed[t] # "no" \/ failed[t] > 0

(* A Completed that is the only outcome carries every chunk the agent sent *)
(* before its answer.                                                      *)
CompletedIsWhole ==
    \A t \in Task : completed[t] = "partial" => failed[t] > 0 \/ t \in drained

(* No agent goes on over a live connection for a dispatch that is over and *)
(* was never told to stop.                                                 *)
NobodyRunsUntold ==
    \A t \in Task : st[t] = "done" /\ agent[t] = "running" /\ Carries(t) => t \in told

(* A dispatch that was accepted gives its permit back.                     *)
PermitsComeBack ==
    \A t \in Task : t \in Holders ~> t \notin Holders
=============================================================================
