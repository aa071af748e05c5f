---------------------------- MODULE ToolExecution ----------------------------
(***************************************************************************)
(* One MCPFlow Execution with a single TOOL Step, from its CREATED row to  *)
(* a terminal status: outbox staging and relay, claim, lease, the three    *)
(* phases of the MCP tool runner, wave settlement, lease-expiry recovery   *)
(* and user cancellation (backend/app/execution).                          *)
(*                                                                         *)
(* Every database transaction of the code locks the Execution row FOR      *)
(* UPDATE, so a transaction is one action here, and the interleavings are  *)
(* those of whole transactions, of worker crashes between them, and of     *)
(* the broker's at-least-once delivery.  Executions share no row, so one   *)
(* Execution and several workers show all of them.                         *)
(*                                                                         *)
(* The Plan has one TOOL Step with on_error = FAIL_EXECUTION (what the     *)
(* agent planner and the manual tool test create), and its ToolPolicy      *)
(* neither requires approval nor meets an input_required answer: the two   *)
(* durable waits are not part of this module.                              *)
(***************************************************************************)
EXTENDS Naturals

CONSTANTS
  Workers,       \* Celery task slots; they share one hostname, hence one worker_id
  Kinds,         \* the Executions that are created: source_type and risk_class
  MaxAttempts,   \* policy_snapshot.tool_policy.max_attempts
  LeaseTicks,    \* execution_lease_seconds, in ticks of the model's clock
  MaxFaults,     \* bound: worker crashes plus leases lost by a live owner
  NoOutcome      \* a worker that holds no call outcome

Sources == {"AGENT_REQUEST", "AGENT_SCHEDULE", "MANUAL_TOOL_TEST"}

RiskClasses == {"READ_ONLY", "IDEMPOTENT_WRITE", "NON_IDEMPOTENT_WRITE",
                "DESTRUCTIVE", "UNKNOWN"}

SafeRetryRisks == {"READ_ONLY", "IDEMPOTENT_WRITE"}

\* What _call_remote hands to Phase C: a result, or a class of MCPClientError.
Replies == {"OK", "TOOL_ERROR", "REJECTED"}

TransportErrors == {"CONNECT_TIMEOUT", "CONNECT_ERROR",
                    "READ_TIMEOUT", "READ_ERROR", "GARBLED", "DISCONNECT"}

Outcomes == Replies \union TransportErrors \union {"PRE_SEND", "STEP_TIMEOUT"}

ASSUME KindsAssumption == Kinds \subseteq [source : Sources, risk : RiskClasses]

ASSUME AttemptsAssumption == MaxAttempts \in Nat \ {0}

ASSUME BoundsAssumption == /\ LeaseTicks \in Nat \ {0}
                           /\ MaxFaults \in Nat

ASSUME NoOutcomeAssumption == NoOutcome \notin Outcomes

-----------------------------------------------------------------------------

VARIABLES
  kind,          \* Execution.source_type and policy_snapshot.tool_policy.risk_class
  status,        \* Execution.status
  cancelAt,      \* Execution.cancel_requested_at IS NOT NULL
  leaseToken,    \* Execution.lease_token, 0 when NULL
  leaseLeft,     \* ticks until lease_expires_at, 0 when expired or NULL
  nextToken,     \* the next fresh lease token (uuid4 in the code)
  step,          \* ExecutionStep.status
  attemptCount,  \* ExecutionStep.attempt_count
  attempt,       \* StepAttempt.status by attempt_no
  call,          \* ToolCall.normalized_status by attempt_no
  outbox,        \* the EXECUTION_DISPATCH OutboxEvent
  broker,        \* task messages Redis may deliver, any number of times
  pc,            \* where each worker's task is
  held,          \* the lease token each task runs under
  cur,           \* the attempt_no of each task's prepared call
  out,           \* the outcome each task carries to Phase C and to settlement
  sends,         \* tools/call requests put on the wire, by attempt_no
  answered,      \* attempts whose answer reached the worker that sent them
  dropped,       \* attempts whose connection the server closed instead
  faults         \* crashes and lease lapses so far

dbVars == <<kind, status, cancelAt, leaseToken, leaseLeft, nextToken, step,
            attemptCount, attempt, call>>

queueVars == <<outbox, broker>>

workerVars == <<pc, held, cur, out>>

remoteVars == <<sends, answered, dropped>>

vars == <<kind, status, cancelAt, leaseToken, leaseLeft, nextToken, step,
          attemptCount, attempt, call, outbox, broker, pc, held, cur, out,
          sends, answered, dropped, faults>>

\* One more than the policy allows, so that a step past the limit is visible.
AttemptNos == 1 .. (MaxAttempts + 1)

ExecutionStatus == {"CREATED", "QUEUED", "RUNNING", "CANCEL_REQUESTED",
                    "SUCCEEDED", "FAILED", "CANCELLED", "TIMED_OUT"}

TerminalExecution == {"SUCCEEDED", "FAILED", "CANCELLED", "TIMED_OUT"}

CallTerminal == {"SUCCEEDED", "FAILED", "TIMED_OUT", "UNKNOWN_OUTCOME",
                 "CANCELLED"}

StepStatus == {"PENDING", "READY", "RUNNING"} \union CallTerminal

CallStatus == {"NONE", "STARTED"} \union CallTerminal

Phases == {"idle", "wave", "prepare", "gate", "send", "remote", "final",
           "settle"}

TypeOK ==
  /\ kind \in Kinds
  /\ status \in ExecutionStatus
  /\ cancelAt \in BOOLEAN
  /\ leaseToken \in Nat
  /\ leaseLeft \in 0 .. LeaseTicks
  /\ nextToken \in Nat \ {0}
  /\ step \in StepStatus
  /\ attemptCount \in 0 .. (MaxAttempts + 1)
  /\ attempt \in [AttemptNos -> CallStatus]
  /\ call \in [AttemptNos -> CallStatus]
  /\ outbox \in {"NONE", "UNPUBLISHED", "PUBLISHED"}
  /\ broker \in SUBSET {"CLAIM", "RECOVER"}
  /\ pc \in [Workers -> Phases]
  /\ held \in [Workers -> Nat]
  /\ cur \in [Workers -> 0 .. (MaxAttempts + 1)]
  /\ out \in [Workers -> Outcomes \union {NoOutcome}]
  /\ sends \in [AttemptNos -> Nat]
  /\ answered \in SUBSET AttemptNos
  /\ dropped \in SUBSET AttemptNos
  /\ faults \in 0 .. MaxFaults

Init ==
  /\ kind \in Kinds
  /\ status = "CREATED"
  /\ cancelAt = FALSE
  /\ leaseToken = 0
  /\ leaseLeft = 0
  /\ nextToken = 1
  /\ step = "PENDING"
  /\ attemptCount = 0
  /\ attempt = [n \in AttemptNos |-> "NONE"]
  /\ call = [n \in AttemptNos |-> "NONE"]
  /\ outbox = "NONE"
  /\ broker = {}
  /\ pc = [w \in Workers |-> "idle"]
  /\ held = [w \in Workers |-> 0]
  /\ cur = [w \in Workers |-> 0]
  /\ out = [w \in Workers |-> NoOutcome]
  /\ sends = [n \in AttemptNos |-> 0]
  /\ answered = {}
  /\ dropped = {}
  /\ faults = 0

-----------------------------------------------------------------------------
(* Mutants: plausible slips in the predicates below.  Each replaces one of *)
(* them to show that a property really depends on it; none is part of the  *)
(* specification.                                                          *)

\* The risk table forgets that a non-idempotent write is unsafe.
LaxRisk(risk) == risk # "DESTRUCTIVE"

\* The fence compares worker_id, which every slot of a host shares, but not
\* the lease token.
FenceWithoutToken(w) == status \in {"RUNNING", "CANCEL_REQUESTED"} /\ leaseLeft > 0

\* Cancellation takes a prepared call that is not sent yet for no call.
SentCallsOnly == \E n \in AttemptNos : call[n] = "STARTED" /\ sends[n] > 0

\* Every transport failure is a known failure.
ClassifyAsKnown(o, risk) == "FAILED"

\* An unknown outcome is not fatal for the Execution.
OnlyPreSendIsFatal(o) == o = "PRE_SEND"

\* Off by one in the attempt limit.
RetryOneMore == attemptCount <= MaxAttempts

\* The recovery scan leaves out CANCEL_REQUESTED.
OnlyRunningRecovers == status = "RUNNING"

-----------------------------------------------------------------------------
(* Helpers shared by the transactions.                                     *)

\* is_safe_retry_risk; every other risk class is is_unsafe_ambiguous_risk.
SafeRisk(risk) == risk \in SafeRetryRisks

\* list_started_tool_calls
InFlightCall == \E n \in AttemptNos : call[n] = "STARTED"

\* cancellation_is_requested
CancelIsRequested == cancelAt \/ status = "CANCEL_REQUESTED"

\* The fence of Phases A and C and of the final gate: status, worker_id,
\* lease_token and lease_expires_at of the locked row.
OwnsLease(w) ==
  /\ status \in {"RUNNING", "CANCEL_REQUESTED"}
  /\ leaseToken = held[w]
  /\ leaseLeft > 0

HasRunningLease(w) == OwnsLease(w) /\ status = "RUNNING"

\* A live task still works under the Execution's current lease.
OwnerAlive == \E w \in Workers : pc[w] # "idle" /\ held[w] = leaseToken

ClearLease == leaseToken' = 0 /\ leaseLeft' = 0

AssignLease(w) ==
  /\ leaseToken' = nextToken
  /\ leaseLeft' = LeaseTicks
  /\ nextToken' = nextToken + 1
  /\ held' = [held EXCEPT ![w] = nextToken]

Terminalize(n, s) ==
  /\ call' = [call EXCEPT ![n] = s]
  /\ attempt' = [attempt EXCEPT ![n] = s]

Goto(w, p) == pc' = [pc EXCEPT ![w] = p]

\* _classify_mcp_failure over MCPClientError.outcome_unknown and error_layer
ClassifyMcpFailure(o, risk) ==
  CASE o \in {"READ_TIMEOUT", "READ_ERROR", "GARBLED"} /\ ~SafeRisk(risk) -> "UNKNOWN_OUTCOME"
    [] o \in {"CONNECT_TIMEOUT", "READ_TIMEOUT"} /\ SafeRisk(risk) -> "TIMED_OUT"
    [] OTHER -> "FAILED"

\* The terminal status Phase C gives the ToolCall, the Attempt and the Step.
TerminalOf(o, risk) ==
  CASE o = "OK" -> "SUCCEEDED"
    [] o = "STEP_TIMEOUT" -> "TIMED_OUT"
    [] OTHER -> ClassifyMcpFailure(o, risk)

\* Dispositions that fail the Execution in the same transaction.
Fatal(o) == TerminalOf(o, kind.risk) = "UNKNOWN_OUTCOME" \/ o = "PRE_SEND"

Retryable(o) == o \in {"CONNECT_TIMEOUT", "CONNECT_ERROR", "READ_TIMEOUT", "READ_ERROR"}

\* decide_safe_transient_retry; the Step's remaining time budget is left to
\* the choice between FinalizeRetry and FinalizeTerminal.
SafeTransientRetry(o) ==
  /\ kind.risk = "READ_ONLY"
  /\ Retryable(o)
  /\ attemptCount < MaxAttempts
  /\ ~CancelIsRequested

\* can_safe_retry
CanSafeRetry == attemptCount < MaxAttempts

-----------------------------------------------------------------------------
(* Dispatch: staging, outbox relay and claim.                              *)

\* stage_created_batch: CREATED -> QUEUED with its OutboxEvent, one transaction.
Stage ==
  /\ status = "CREATED"
  /\ status' = "QUEUED"
  /\ outbox' = "UNPUBLISHED"
  /\ UNCHANGED <<kind, cancelAt, leaseToken, leaseLeft, nextToken, step, attemptCount,
                 attempt, call, broker, faults>>
  /\ UNCHANGED <<workerVars, remoteVars>>

\* The relay sends the message first and commits published_at afterwards: a
\* relay that dies in between sends it again.
RelayPublish ==
  /\ outbox = "UNPUBLISHED"
  /\ broker' = broker \union {"CLAIM"}
  /\ UNCHANGED <<dbVars, outbox, faults, workerVars, remoteVars>>

RelayCommit ==
  /\ outbox = "UNPUBLISHED"
  /\ "CLAIM" \in broker
  /\ outbox' = "PUBLISHED"
  /\ UNCHANGED <<dbVars, broker, faults, workerVars, remoteVars>>

Claimable == status = "QUEUED"

\* claim: only a QUEUED row is taken; any other delivery is a stale no-op.
Claim(w) ==
  /\ pc[w] = "idle"
  /\ "CLAIM" \in broker
  /\ Claimable
  /\ status' = "RUNNING"
  /\ AssignLease(w)
  /\ step' = "READY"
  /\ Goto(w, "wave")
  /\ UNCHANGED <<kind, cancelAt, attemptCount, attempt, call, cur, out, faults>>
  /\ UNCHANGED <<queueVars, remoteVars>>

\* renew_lease, called by the heartbeat task while tools/call is in flight.
Renew(w) ==
  /\ pc[w] = "remote"
  /\ HasRunningLease(w)
  /\ leaseLeft' = LeaseTicks
  /\ UNCHANGED <<kind, status, cancelAt, leaseToken, nextToken, step, attemptCount,
                 attempt, call, faults>>
  /\ UNCHANGED <<queueVars, workerVars, remoteVars>>

-----------------------------------------------------------------------------
(* The orchestrator's wave and Phase A of the tool runner.                 *)

\* A task that finds nothing of its own to do returns and is acknowledged.
Leave(w) ==
  /\ Goto(w, "idle")
  /\ UNCHANGED <<dbVars, held, cur, out, faults, queueVars, remoteVars>>

\* _prepare_wave returns: terminal, cancellation in progress, or stale lease.
WaveStops(w) ==
  /\ pc[w] = "wave"
  /\ ~HasRunningLease(w)
  /\ Leave(w)

\* _reserve_tool_wave_locked: the READY TOOL Step is this wave.
WaveReserves(w) ==
  /\ pc[w] = "wave"
  /\ HasRunningLease(w)
  /\ step = "READY"
  /\ Goto(w, "prepare")
  /\ UNCHANGED <<dbVars, held, cur, out, faults, queueVars, remoteVars>>

\* _prepare returns without a write: cancelled, or fenced out.
PrepareStale(w) ==
  /\ pc[w] = "prepare"
  /\ ~OwnsLease(w)
  /\ Leave(w)

\* Phase A goes on to the Step: the lease holds and nobody asked to cancel.
MayPrepare(w) ==
  /\ pc[w] = "prepare"
  /\ OwnsLease(w)
  /\ ~CancelIsRequested
  /\ step = "READY"

\* The Step's total time budget ran out between two Attempts.
PrepareTimeout(w) ==
  /\ MayPrepare(w)
  /\ attemptCount >= 1
  /\ step' = "TIMED_OUT"
  /\ out' = [out EXCEPT ![w] = "STEP_TIMEOUT"]
  /\ Goto(w, "settle")
  /\ UNCHANGED <<kind, status, cancelAt, leaseToken, leaseLeft, nextToken,
                 attemptCount, attempt, call, held, cur, faults>>
  /\ UNCHANGED <<queueVars, remoteVars>>

\* ToolStepAttemptService.start refuses (policy drift, lineage, arguments): the
\* Step and the Execution fail in this transaction.  A RESOURCE_CONFLICT ends
\* the task; every other code still goes through settlement.
PrepareRefused(w) ==
  /\ MayPrepare(w)
  /\ step' = "FAILED"
  /\ status' = "FAILED"
  /\ ClearLease
  /\ out' = [out EXCEPT ![w] = "PRE_SEND"]
  /\ \E p \in {"idle", "settle"} : Goto(w, p)
  /\ UNCHANGED <<kind, cancelAt, nextToken, attemptCount, attempt, call,
                 held, cur, faults>>
  /\ UNCHANGED <<queueVars, remoteVars>>

\* The Attempt and its ToolCall are created and end in one transaction: the
\* server's transport is unsupported or it has no endpoint (fatal), or less
\* than a millisecond of the Step's time budget is left (a known timeout).
PreparePreSendFails(w) ==
  /\ MayPrepare(w)
  /\ attemptCount' = attemptCount + 1
  /\ cur' = [cur EXCEPT ![w] = attemptCount + 1]
  /\ \/ /\ Terminalize(attemptCount + 1, "FAILED")
        /\ step' = "FAILED"
        /\ status' = "FAILED"
        /\ ClearLease
        /\ out' = [out EXCEPT ![w] = "PRE_SEND"]
     \/ /\ attemptCount >= 1
        /\ Terminalize(attemptCount + 1, "TIMED_OUT")
        /\ step' = "TIMED_OUT"
        /\ out' = [out EXCEPT ![w] = "STEP_TIMEOUT"]
        /\ UNCHANGED <<status, leaseToken, leaseLeft>>
  /\ Goto(w, "settle")
  /\ UNCHANGED <<kind, cancelAt, nextToken, held, faults, queueVars, remoteVars>>

\* Attempt STARTED, ToolCall STARTED and Step RUNNING commit together, before
\* any byte is sent.
PrepareStarts(w) ==
  /\ MayPrepare(w)
  /\ attemptCount' = attemptCount + 1
  /\ Terminalize(attemptCount + 1, "STARTED")
  /\ step' = "RUNNING"
  /\ cur' = [cur EXCEPT ![w] = attemptCount + 1]
  /\ Goto(w, "gate")
  /\ UNCHANGED <<kind, status, cancelAt, leaseToken, leaseLeft, nextToken,
                 held, out, faults>>
  /\ UNCHANGED <<queueVars, remoteVars>>

-----------------------------------------------------------------------------
(* Phase B: secrets, the final gate before the network, and tools/call.    *)

\* _resolve_secrets fails, whatever happened to the lease meanwhile.
SecretsFail(w) ==
  /\ pc[w] = "gate"
  /\ out' = [out EXCEPT ![w] = "PRE_SEND"]
  /\ Goto(w, "final")
  /\ UNCHANGED <<dbVars, held, cur, faults, queueVars, remoteVars>>

GateStale(w) ==
  /\ pc[w] = "gate"
  /\ ~OwnsLease(w)
  /\ Leave(w)

\* cancel_prepared_invocation_before_send, then reconcile: nothing was sent.
GateCancels(w) ==
  /\ pc[w] = "gate"
  /\ OwnsLease(w)
  /\ CancelIsRequested
  /\ Terminalize(cur[w], "CANCELLED")
  /\ step' = "CANCELLED"
  /\ status' = "CANCELLED"
  /\ ClearLease
  /\ Goto(w, "idle")
  /\ UNCHANGED <<kind, cancelAt, nextToken, attemptCount, held, cur, out, faults>>
  /\ UNCHANGED <<queueVars, remoteVars>>

\* Authorization, policy or endpoint drifted since Phase A.
GateDrifts(w) ==
  /\ pc[w] = "gate"
  /\ OwnsLease(w)
  /\ ~CancelIsRequested
  /\ out' = [out EXCEPT ![w] = "PRE_SEND"]
  /\ Goto(w, "final")
  /\ UNCHANGED <<dbVars, held, cur, faults, queueVars, remoteVars>>

GatePasses(w) ==
  /\ pc[w] = "gate"
  /\ OwnsLease(w)
  /\ ~CancelIsRequested
  /\ Goto(w, "send")
  /\ UNCHANGED <<dbVars, held, cur, out, faults, queueVars, remoteVars>>

\* call_tool reaches the server.  Between the gate's commit and this step the
\* lease may lapse and anything may happen to the row.
Send(w) ==
  /\ pc[w] = "send"
  /\ sends' = [sends EXCEPT ![cur[w]] = @ + 1]
  /\ Goto(w, "remote")
  /\ UNCHANGED <<dbVars, held, cur, out, faults, queueVars, answered, dropped>>

\* The connection was never made: nothing reached the server.
ConnectFails(w) ==
  /\ pc[w] = "send"
  /\ \E o \in {"CONNECT_TIMEOUT", "CONNECT_ERROR"} : out' = [out EXCEPT ![w] = o]
  /\ Goto(w, "final")
  /\ UNCHANGED <<dbVars, held, cur, faults, queueVars, remoteVars>>

\* How call_tool can end once the request is out.  A peer that closes the
\* connection raises httpx.RemoteProtocolError, which is neither a timeout nor
\* a NetworkError to _map_transport_error.
RemoteOutcomes == Replies \union {"READ_TIMEOUT", "READ_ERROR", "GARBLED", "DISCONNECT"}

\* An answer arrives, or the wait for it ends without one.
RemoteEnds(w) ==
  /\ pc[w] = "remote"
  /\ \E o \in RemoteOutcomes :
       /\ out' = [out EXCEPT ![w] = o]
       /\ answered' = IF o \in Replies THEN answered \union {cur[w]} ELSE answered
       /\ dropped' = IF o = "DISCONNECT" THEN dropped \union {cur[w]} ELSE dropped
  /\ Goto(w, "final")
  /\ UNCHANGED <<dbVars, held, cur, sends, faults, queueVars>>

-----------------------------------------------------------------------------
(* Phase C and wave settlement.                                            *)

\* "Tool Runner finalize fencing failed": nothing is written.
FinalizeStale(w) ==
  /\ pc[w] = "final"
  /\ ~OwnsLease(w)
  /\ Leave(w)

\* _apply_retry_checkpoint: the Attempt ends, the Step is READY again, and the
\* same task starts the next Attempt under the same lease.
FinalizeRetries(w) ==
  /\ pc[w] = "final"
  /\ OwnsLease(w)
  /\ SafeTransientRetry(out[w])
  /\ Terminalize(cur[w], TerminalOf(out[w], kind.risk))
  /\ step' = "READY"
  /\ out' = [out EXCEPT ![w] = NoOutcome]
  /\ Goto(w, "prepare")
  /\ UNCHANGED <<kind, status, cancelAt, leaseToken, leaseLeft, nextToken, attemptCount,
                 held, cur, faults>>
  /\ UNCHANGED <<queueVars, remoteVars>>

\* _apply_terminal_transition and the cancellation tail of _finalize_locked.
\* Fatal dispositions fail the Execution here; under CANCEL_REQUESTED a known
\* outcome is recorded truthfully and the Execution becomes CANCELLED; every
\* other outcome leaves it RUNNING for settlement.
FinalizeTerminal(w) ==
  /\ pc[w] = "final"
  /\ OwnsLease(w)
  /\ Terminalize(cur[w], TerminalOf(out[w], kind.risk))
  /\ step' = TerminalOf(out[w], kind.risk)
  /\ \/ /\ Fatal(out[w])
        /\ status' = "FAILED"
        /\ ClearLease
        /\ Goto(w, "settle")
     \/ /\ ~Fatal(out[w])
        /\ CancelIsRequested
        /\ status' = "CANCELLED"
        /\ ClearLease
        /\ Goto(w, "idle")
     \/ /\ ~Fatal(out[w])
        /\ ~CancelIsRequested
        /\ Goto(w, "settle")
        /\ UNCHANGED <<status, leaseToken, leaseLeft>>
  /\ UNCHANGED <<kind, cancelAt, nextToken, attemptCount, held, cur, out, faults>>
  /\ UNCHANGED <<queueVars, remoteVars>>

\* The stop branch of _settle_wave: the task's own outcome decides, and neither
\* the lease nor the current status is looked at.
SettleStops(w) ==
  /\ pc[w] = "settle"
  /\ out[w] # "OK"
  /\ status' = IF TerminalOf(out[w], kind.risk) = "TIMED_OUT" THEN "TIMED_OUT" ELSE "FAILED"
  /\ ClearLease
  /\ Goto(w, "idle")
  /\ UNCHANGED <<kind, cancelAt, nextToken, step, attemptCount, attempt, call, held,
                 cur, out, faults>>
  /\ UNCHANGED <<queueVars, remoteVars>>

\* The Step succeeded, but the Execution was cancelled or lost meanwhile.
SettleFenced(w) ==
  /\ pc[w] = "settle"
  /\ out[w] = "OK"
  /\ ~HasRunningLease(w)
  /\ Goto(w, IF CancelIsRequested /\ status \in {"CANCELLED", "FAILED"}
               THEN "idle" ELSE "wave")
  /\ UNCHANGED <<dbVars, held, cur, out, faults, queueVars, remoteVars>>

\* aggregate_all_required over the one SUCCEEDED Step.
SettleSucceeds(w) ==
  /\ pc[w] = "settle"
  /\ out[w] = "OK"
  /\ HasRunningLease(w)
  /\ status' = "SUCCEEDED"
  /\ ClearLease
  /\ Goto(w, "idle")
  /\ UNCHANGED <<kind, cancelAt, nextToken, step, attemptCount, attempt, call, held,
                 cur, out, faults>>
  /\ UNCHANGED <<queueVars, remoteVars>>

-----------------------------------------------------------------------------
(* User cancellation.                                                      *)

\* apply_cancellation_locked without a STARTED ToolCall: CANCELLED at once.
CancelImmediate ==
  /\ status \in {"CREATED", "QUEUED", "RUNNING"}
  /\ ~InFlightCall
  /\ cancelAt' = TRUE
  /\ status' = "CANCELLED"
  /\ step' = IF step \in CallTerminal THEN step ELSE "CANCELLED"
  /\ ClearLease
  /\ UNCHANGED <<kind, nextToken, attemptCount, attempt, call, faults>>
  /\ UNCHANGED <<queueVars, workerVars, remoteVars>>

\* A ToolCall is STARTED: its owner keeps the lease and settles it first.
CancelCooperative ==
  /\ status = "RUNNING"
  /\ InFlightCall
  /\ cancelAt' = TRUE
  /\ status' = "CANCEL_REQUESTED"
  /\ UNCHANGED <<kind, leaseToken, leaseLeft, nextToken, step, attemptCount,
                 attempt, call, faults>>
  /\ UNCHANGED <<queueVars, workerVars, remoteVars>>

-----------------------------------------------------------------------------
(* Time and failures.  A lease that lapses under a live owner (a stall, a  *)
(* heartbeat that cannot reach the database, a cancellation that stops the *)
(* heartbeat) counts as a fault; MaxFaults bounds them.                    *)

Tick ==
  /\ leaseLeft > 0
  /\ leaseLeft' = leaseLeft - 1
  /\ faults' = IF leaseLeft = 1 /\ OwnerAlive THEN faults + 1 ELSE faults
  /\ faults' <= MaxFaults
  /\ UNCHANGED <<kind, status, cancelAt, leaseToken, nextToken, step,
                 attemptCount, attempt, call>>
  /\ UNCHANGED <<queueVars, workerVars, remoteVars>>

\* The task dies between two transactions; Celery redelivers its message.
Crash(w) ==
  /\ pc[w] # "idle"
  /\ faults < MaxFaults
  /\ faults' = faults + 1
  /\ Goto(w, "idle")
  /\ UNCHANGED <<dbVars, held, cur, out, queueVars, remoteVars>>

-----------------------------------------------------------------------------
(* Recovery of an expired lease.                                           *)

LeaseExpired == leaseToken # 0 /\ leaseLeft = 0

\* list_expired_running_ids and list_expired_cancel_requested_ids select both
\* agent sources; a manual tool test is in neither list.
RecoverableSource == kind.source \in {"AGENT_REQUEST", "AGENT_SCHEDULE"}

NeedsRecovery == status \in {"RUNNING", "CANCEL_REQUESTED"}

PublishRecovery ==
  /\ NeedsRecovery
  /\ LeaseExpired
  /\ RecoverableSource
  /\ broker' = broker \union {"RECOVER"}
  /\ UNCHANGED <<dbVars, outbox, faults, workerVars, remoteVars>>

\* recover locks the row and finds it still in this status with an expired lease.
MayRecover(w, s) ==
  /\ pc[w] = "idle"
  /\ "RECOVER" \in broker
  /\ status = s
  /\ LeaseExpired
  /\ RecoverableSource

\* _lock_foundation_step: only AgentRequest Executions pass.
FoundationStep == kind.source = "AGENT_REQUEST"

\* _decide_ready_checkpoint: a READY Step with Attempts left.
ReadyCheckpoint == step = "READY" /\ (attemptCount = 0 \/ CanSafeRetry)

\* recover_expired_cancel_requested_locked: the STARTED call may have been sent.
RecoverCancel(w) ==
  /\ MayRecover(w, "CANCEL_REQUESTED")
  /\ Terminalize(attemptCount, "UNKNOWN_OUTCOME")
  /\ step' = "UNKNOWN_OUTCOME"
  /\ status' = "FAILED"
  /\ ClearLease
  /\ UNCHANGED <<kind, cancelAt, nextToken, attemptCount, faults>>
  /\ UNCHANGED <<queueVars, workerVars, remoteVars>>

\* TAKEOVER_READY: the new owner continues from the READY checkpoint.
RecoverReady(w) ==
  /\ MayRecover(w, "RUNNING")
  /\ FoundationStep
  /\ ReadyCheckpoint
  /\ AssignLease(w)
  /\ Goto(w, "wave")
  /\ UNCHANGED <<kind, status, cancelAt, step, attemptCount, attempt, call,
                 cur, out, faults>>
  /\ UNCHANGED <<queueVars, remoteVars>>

\* SAFE_RETRY: the orphan call failed, a new Attempt may be made.
RecoverSafeRetry(w) ==
  /\ MayRecover(w, "RUNNING")
  /\ FoundationStep
  /\ step = "RUNNING"
  /\ SafeRisk(kind.risk)
  /\ CanSafeRetry
  /\ Terminalize(attemptCount, "FAILED")
  /\ step' = "READY"
  /\ AssignLease(w)
  /\ Goto(w, "wave")
  /\ UNCHANGED <<kind, status, cancelAt, attemptCount, cur, out, faults>>
  /\ UNCHANGED <<queueVars, remoteVars>>

\* FAIL_EXHAUSTED: a safe risk class, but no Attempt is left.
RecoverExhausted(w) ==
  /\ MayRecover(w, "RUNNING")
  /\ FoundationStep
  /\ step = "RUNNING"
  /\ SafeRisk(kind.risk)
  /\ ~CanSafeRetry
  /\ Terminalize(attemptCount, "FAILED")
  /\ step' = "FAILED"
  /\ status' = "FAILED"
  /\ ClearLease
  /\ UNCHANGED <<kind, cancelAt, nextToken, attemptCount, faults>>
  /\ UNCHANGED <<queueVars, workerVars, remoteVars>>

\* UNKNOWN_OUTCOME: an unsafe call may have been sent; never call again.
RecoverUnknown(w) ==
  /\ MayRecover(w, "RUNNING")
  /\ FoundationStep
  /\ step = "RUNNING"
  /\ ~SafeRisk(kind.risk)
  /\ Terminalize(attemptCount, "UNKNOWN_OUTCOME")
  /\ step' = "UNKNOWN_OUTCOME"
  /\ status' = "FAILED"
  /\ ClearLease
  /\ UNCHANGED <<kind, cancelAt, nextToken, attemptCount, faults>>
  /\ UNCHANGED <<queueVars, workerVars, remoteVars>>

\* _fail_inconsistent: the source is not AgentRequest, or the Step is neither
\* RUNNING nor a READY checkpoint.  A STARTED call makes its Attempt and Step UNKNOWN_OUTCOME.
RecoverInconsistent(w) ==
  /\ MayRecover(w, "RUNNING")
  /\ ~(FoundationStep /\ (step = "RUNNING" \/ ReadyCheckpoint))
  /\ \/ /\ InFlightCall
        /\ Terminalize(attemptCount, "UNKNOWN_OUTCOME")
        /\ step' = "UNKNOWN_OUTCOME"
     \/ /\ ~InFlightCall
        /\ step' = IF step \in CallTerminal THEN step ELSE "FAILED"
        /\ UNCHANGED <<attempt, call>>
  /\ status' = "FAILED"
  /\ ClearLease
  /\ UNCHANGED <<kind, cancelAt, nextToken, attemptCount, faults>>
  /\ UNCHANGED <<queueVars, workerVars, remoteVars>>

-----------------------------------------------------------------------------

Recover(w) ==
  \/ RecoverCancel(w)
  \/ RecoverReady(w)
  \/ RecoverSafeRetry(w)
  \/ RecoverExhausted(w)
  \/ RecoverUnknown(w)
  \/ RecoverInconsistent(w)

Prepare(w) ==
  \/ WaveStops(w)
  \/ WaveReserves(w)
  \/ PrepareStale(w)
  \/ PrepareTimeout(w)
  \/ PrepareRefused(w)
  \/ PreparePreSendFails(w)
  \/ PrepareStarts(w)

Invoke(w) ==
  \/ SecretsFail(w)
  \/ GateStale(w)
  \/ GateCancels(w)
  \/ GateDrifts(w)
  \/ GatePasses(w)
  \/ Send(w)
  \/ ConnectFails(w)
  \/ RemoteEnds(w)

Finalize(w) ==
  \/ FinalizeStale(w)
  \/ FinalizeRetries(w)
  \/ FinalizeTerminal(w)

Settle(w) ==
  \/ SettleStops(w)
  \/ SettleFenced(w)
  \/ SettleSucceeds(w)

\* What a running task does next by itself.
TaskStep(w) == Prepare(w) \/ Invoke(w) \/ Finalize(w) \/ Settle(w)

Next ==
  \/ Stage
  \/ RelayPublish
  \/ RelayCommit
  \/ CancelImmediate
  \/ CancelCooperative
  \/ Tick
  \/ PublishRecovery
  \/ \E w \in Workers :
       Claim(w) \/ TaskStep(w) \/ Renew(w) \/ Crash(w) \/ Recover(w)

Spec == Init /\ [][Next]_vars

\* The outbox process stages, relays and scans for ever, the broker delivers, a
\* task that is not killed takes its next step (every remote wait has a
\* timeout), and time passes.  Nothing is assumed of users, of heartbeats or of
\* crashes.
Fairness ==
  /\ WF_vars(Stage)
  /\ WF_vars(RelayPublish)
  /\ WF_vars(RelayCommit)
  /\ WF_vars(Tick)
  /\ WF_vars(PublishRecovery)
  /\ WF_vars(\E w \in Workers : Claim(w))
  /\ WF_vars(\E w \in Workers : Recover(w))
  /\ \A w \in Workers : WF_vars(TaskStep(w))

FairSpec == Spec /\ Fairness

-----------------------------------------------------------------------------
(* Properties.                                                             *)

UnsafeRisk == kind.risk \in {"NON_IDEMPOTENT_WRITE", "DESTRUCTIVE", "UNKNOWN"}

\* A tools/call with an unsafe risk class (NON_IDEMPOTENT_WRITE, DESTRUCTIVE,
\* UNKNOWN) reaches the server at most once per Execution, and one Attempt
\* never sends twice: duplicate deliveries, stale owners whose lease was taken
\* over between the final gate and the network, inline retries and lease
\* recovery together never repeat the side effect.
UnsafeSentAtMostOnce ==
  /\ \A n \in AttemptNos : sends[n] <= 1
  /\ UnsafeRisk => \A m, n \in AttemptNos : sends[m] > 0 /\ sends[n] > 0 => m = n

\* No sequence of inline retries (retry_decision.py) and recoveries
\* (recovery.py) starts more Attempts than the pinned max_attempts, although
\* ToolStepAttemptService.start itself never looks at the limit.
AttemptsBounded == attemptCount <= MaxAttempts

\* An unsafe request that was sent and not answered.
Ambiguous(n) == UnsafeRisk /\ sends[n] > 0 /\ n \notin answered

\* What the documents promise ("post-send stay conservative", current.py:127):
\* while an unsafe call has been sent and its answer is not known, the durable
\* evidence says so: the ToolCall is STARTED or UNKNOWN_OUTCOME.  The code does
\* not keep this promise when the server closes the connection.
AmbiguityPreserved ==
  \A n \in AttemptNos : Ambiguous(n) => call[n] \in {"STARTED", "UNKNOWN_OUTCOME"}

\* What the code does keep: cancellation, recovery, gates and stale owners never
\* record an ambiguous call as failed, timed out or cancelled.  Only the owner
\* itself does, as FAILED, when the server closed the connection on it.
AmbiguityKept ==
  \A n \in AttemptNos :
    Ambiguous(n) => \/ call[n] \in {"STARTED", "UNKNOWN_OUTCOME"}
                    \/ n \in dropped /\ call[n] = "FAILED"

\* An Execution that holds an UNKNOWN_OUTCOME call ends FAILED: never
\* SUCCEEDED, and never a clean CANCELLED ("cancellation must never hide
\* ambiguous external side effects", cancellation.py).
UnknownNeverHidden == (\E n \in AttemptNos : call[n] = "UNKNOWN_OUTCOME") => status = "FAILED"

\* A task between Phase A and Phase C whose fence still holds finds exactly the
\* evidence it created: its Attempt is the newest one, Attempt and ToolCall
\* are STARTED and the Step is RUNNING.  The fail-closed lineage branch of the
\* final gate is therefore never needed, and Phase C never overwrites a
\* terminal row.
OwnerEvidenceIntact ==
  \A w \in Workers :
    pc[w] \in {"gate", "send", "remote", "final"} /\ OwnsLease(w)
      => /\ cur[w] = attemptCount
         /\ step = "RUNNING"
         /\ attempt[cur[w]] = "STARTED"
         /\ call[cur[w]] = "STARTED"

\* CANCEL_REQUESTED always has an in-flight ToolCall to wait for, and a lease
\* that will either be used to settle it or expire into recovery.  (This is
\* what makes the reconcile calls outside Phase C unreachable here.)
CancelRequestedHasCall ==
  status = "CANCEL_REQUESTED" =>
    /\ step = "RUNNING"
    /\ call[attemptCount] = "STARTED"
    /\ leaseToken # 0

\* A lease token is on the row exactly while the Execution is RUNNING or
\* CANCEL_REQUESTED, so recovery's scans find every Execution that needs it.
LeaseDiscipline ==
  leaseToken # 0 <=> status \in {"RUNNING", "CANCEL_REQUESTED"}

\* After an unsafe Execution was reported CANCELLED no request of it is on its
\* way to the server: no task is about to send or waits for an answer.
CancelledMeansQuiet ==
  status = "CANCELLED" /\ UnsafeRisk
    => \A w \in Workers : pc[w] \notin {"send", "remote"}

\* SUCCEEDED is backed by a Step that succeeded on its newest Attempt, and that
\* Attempt's answer really arrived.
TruthfulSuccess ==
  status = "SUCCEEDED" =>
    /\ step = "SUCCEEDED"
    /\ call[attemptCount] = "SUCCEEDED"
    /\ attemptCount \in answered

EvidenceKept ==
  /\ step \in CallTerminal => step' = step
  /\ \A n \in AttemptNos :
       /\ call[n] \in CallTerminal => call'[n] = call[n]
       /\ attempt[n] \in CallTerminal => attempt'[n] = attempt[n]

\* Terminal Step, Attempt and ToolCall rows are never rewritten, by whichever
\* worker, recovery or user: late results are dropped.
EvidenceImmutable == [][EvidenceKept]_vars

NothingNewOnceCancelled == cancelAt => attemptCount' = attemptCount /\ nextToken' = nextToken

\* Once a user asked to cancel, no new Attempt is started and no new lease is
\* given: retries and recovery stop.
NoAttemptAfterCancel == [][NothingNewOnceCancelled]_vars

StaysClosed ==
  (status \in TerminalExecution) => leaseToken' = 0 /\ status' \in TerminalExecution

\* A terminal Execution never runs again, whatever messages are redelivered.
TerminalNeverReopened == [][StaysClosed]_vars

\* A terminal status is final: what a user was told about an Execution does not
\* change afterwards.
TerminalStatusFinal ==
  [][(status \in TerminalExecution) => status' = status]_vars

\* Every Execution of a source that recovery scans terminates for good, however
\* its tasks crash and its messages are duplicated, as long as the faults are
\* finitely many; when a user asked to cancel it, no ToolCall of it stays STARTED.
EventuallyTerminal ==
  RecoverableSource =>
  <>[](/\ status \in TerminalExecution
       /\ cancelAt => \A n \in AttemptNos : call[n] # "STARTED")

-----------------------------------------------------------------------------
(* The inductive invariant behind the properties above.                    *)

\* A task between the commit of its STARTED ToolCall and Phase C.
InTransit(w) == pc[w] \in {"gate", "send", "remote", "final"}

\* A READY Step always has an Attempt left; an unsafe one has none behind it.
CountInv ==
  /\ attemptCount <= MaxAttempts
  /\ step \in {"PENDING", "READY"} => attemptCount < MaxAttempts
  /\ step = "PENDING" => attemptCount = 0
  /\ status \in {"CREATED", "QUEUED"} => step = "PENDING"
  /\ UnsafeRisk => attemptCount <= 1
  /\ UnsafeRisk /\ step = "READY" => attemptCount = 0

\* Every prepared call belongs to one task, and is unsent until that task
\* sends it.
SendInv ==
  /\ \A n \in AttemptNos : sends[n] <= 1
  /\ \A n \in AttemptNos : n > attemptCount => sends[n] = 0
  /\ \A w \in Workers : InTransit(w) => cur[w] \in 1 .. attemptCount
  /\ \A v, w \in Workers : v # w /\ InTransit(v) /\ InTransit(w) => cur[v] # cur[w]
  /\ \A w \in Workers : pc[w] \in {"gate", "send"} => sends[cur[w]] = 0
  /\ \A w \in Workers : pc[w] = "remote" => sends[cur[w]] = 1
  /\ \A n \in answered \union dropped : n <= attemptCount
  /\ \A w \in Workers :
       pc[w] \in {"gate", "send", "remote"} => cur[w] \notin answered \union dropped

\* Lease tokens are fresh: no two tasks ever run under the same one.
TokenInv ==
  /\ leaseToken < nextToken
  /\ \A w \in Workers : pc[w] # "idle" => held[w] # 0 /\ held[w] < nextToken
  /\ \A v, w \in Workers : v # w /\ pc[v] # "idle" /\ pc[w] # "idle" => held[v] # held[w]

\* A RUNNING Step, and CANCEL_REQUESTED, stand on the newest Attempt's STARTED rows.
RunningHasCall ==
  /\ step = "RUNNING" => /\ attemptCount >= 1
                         /\ call[attemptCount] = "STARTED"
                         /\ attempt[attemptCount] = "STARTED"
                         /\ status \in {"RUNNING", "CANCEL_REQUESTED"}
  /\ status = "CANCEL_REQUESTED" => step = "RUNNING"

\* No other Attempt is STARTED, and none exists beyond attempt_count.
OnlyNewestStarted ==
  \A n \in AttemptNos :
    /\ call[n] = "STARTED" \/ attempt[n] = "STARTED" => step = "RUNNING" /\ n = attemptCount
    /\ n > attemptCount => call[n] = "NONE" /\ attempt[n] = "NONE"

\* Settlement comes after the Step's terminal row.
SettlesTerminal == \A w \in Workers : pc[w] = "settle" => step \in CallTerminal

\* The task whose token is on the row is the one that created the newest call.
OwnerPrepared ==
  \A w \in Workers :
    InTransit(w) /\ held[w] = leaseToken => cur[w] = attemptCount /\ step = "RUNNING"

CallInv ==
  /\ RunningHasCall
  /\ OnlyNewestStarted
  /\ SettlesTerminal
  /\ OwnerPrepared

\* What a task carries to Phase C tells the truth about its request, and an
\* unsafe request on its way is on record as such.
OutcomeInv ==
  /\ \A w \in Workers : pc[w] = "final" =>
       /\ out[w] \in Outcomes \ {"STEP_TIMEOUT"}
       /\ out[w] \in Replies => cur[w] \in answered
       /\ out[w] \in {"PRE_SEND", "CONNECT_TIMEOUT", "CONNECT_ERROR"} => sends[cur[w]] = 0
       /\ out[w] = "DISCONNECT" => cur[w] \in dropped
  /\ \A w \in Workers :
       UnsafeRisk /\ pc[w] \in {"send", "remote"}
         => call[cur[w]] \in {"STARTED", "UNKNOWN_OUTCOME"}
  /\ AmbiguityKept

\* The Step's verdict agrees with the task that settles it, with the ToolCalls
\* and with the Execution; a cancellation request leaves the claimable statuses.
VerdictInv ==
  /\ \A w \in Workers : pc[w] = "settle" => out[w] \in Outcomes /\ step = TerminalOf(out[w], kind.risk)
  /\ \A n \in AttemptNos :
       call[n] = "UNKNOWN_OUTCOME" => step = "UNKNOWN_OUTCOME" /\ status = "FAILED"
  /\ step = "SUCCEEDED" => /\ attemptCount \in AttemptNos
                           /\ call[attemptCount] = "SUCCEEDED"
                           /\ attemptCount \in answered
  /\ status = "SUCCEEDED" => step = "SUCCEEDED"
  /\ cancelAt => status \notin {"CREATED", "QUEUED", "RUNNING"}

Invariant ==
  /\ TypeOK
  /\ CountInv
  /\ SendInv
  /\ TokenInv
  /\ LeaseDiscipline
  /\ CallInv
  /\ OutcomeInv
  /\ VerdictInv

-----------------------------------------------------------------------------
(* Refinement of the contract about remote invocations.                    *)

Contract ==
  INSTANCE InvocationContract WITH
    safe <- ~UnsafeRisk,
    limit <- IF UnsafeRisk THEN 1 ELSE MaxAttempts,
    issued <- attemptCount,
    sent <- {n \in AttemptNos : sends[n] > 0},
    answered <- answered,
    dropped <- dropped,
    verdict <- IF step \in CallTerminal THEN step ELSE "OPEN"

\* Claim, retries, cancellation, crashes and recovery together implement the
\* invocation contract: whatever interleaving happens, the Step's durable
\* verdict never claims more than is known about the requests that were sent.
ImplementsContract == Contract!ContractSpec
=============================================================================
