------------------------------- MODULE InputWait -------------------------------
(***************************************************************************)
(* The input an MCP server asks for in the middle of a tools/call (MRTR):  *)
(* a call that answers input_required ends its network round, opens an     *)
(* MCPInputRequest and drops the lease; the user's answer travels through  *)
(* the outbox to a resume claim, and the next round of the same Attempt    *)
(* carries it back (execution/mrtr_*.py and the tool runner).              *)
(*                                                                         *)
(* One Execution with one TOOL Step, claimed and READY.  An Attempt has    *)
(* several ToolCalls here, one per round, and a retry starts over with a   *)
(* fresh Attempt.  A transaction is one action: all of them lock the       *)
(* Execution before they read anything.  The gap between the final gate    *)
(* and the network is ToolExecution's subject.                             *)
(***************************************************************************)
EXTENDS Naturals

CONSTANTS
  Workers,      \* Celery task slots
  MaxRounds,    \* MAX_MRTR_ROUNDS
  MaxAttempts,  \* the pinned policy's max_attempts
  MaxFaults     \* bound: worker crashes plus leases lost by a live owner

ASSUME RoundsAssumption == MaxRounds \in Nat \ {0}

ASSUME AttemptsAssumption == MaxAttempts \in Nat \ {0}

ASSUME FaultsAssumption == MaxFaults \in Nat

-----------------------------------------------------------------------------

VARIABLES
  readOnly,    \* the pinned risk class: READ_ONLY or NON_IDEMPOTENT_WRITE
  status,      \* Execution.status
  step,        \* ExecutionStep.status
  attempt,     \* Step.attempt_count, the newest Attempt's number
  attStatus,   \* the newest StepAttempt's status
  rounds,      \* its ToolCalls that SUCCEEDED with input_required
  call,        \* its last ToolCall, NONE when that is one of the rounds
  requests,    \* MCPInputRequest.status of each <<attempt, round_no>>
  events,      \* the EXECUTION_MRTR_RESUME OutboxEvent of each request
  overdue,     \* the Step's timeout, and with it every expires_at, has passed
  drifted,     \* the policy or the Tool no longer permits the call
  leaseToken,  \* Execution.lease_token, 0 when NULL
  leaseLeft,   \* 1 while lease_expires_at is in the future, else 0
  nextToken,   \* the next fresh lease token (uuid4 in the code)
  pc,          \* where each worker's task is
  held,        \* the lease token each task runs under
  sent,        \* tools/call requests that left, by the answer they carry
  faults       \* crashes and lease lapses so far

callVars == <<attempt, attStatus, rounds, call>>

leaseVars == <<leaseToken, leaseLeft, nextToken>>

inputVars == <<requests, events>>

clockVars == <<overdue, drifted>>

vars == <<readOnly, status, step, attempt, attStatus, rounds, call, requests,
          events, overdue, drifted, leaseToken, leaseLeft, nextToken, pc, held,
          sent, faults>>

TerminalExecution == {"SUCCEEDED", "FAILED", "TIMED_OUT", "CANCELLED"}

ExecutionStatus == {"RUNNING", "WAITING_INPUT", "CANCEL_REQUESTED"} \union TerminalExecution

Terminal == TerminalExecution \union {"UNKNOWN_OUTCOME"}

Attempts == 1 .. MaxAttempts

\* A round beyond the limit can still leave an EXPIRED row.
Requests == Attempts \X (1 .. MaxRounds + 1)

\* The first call of an Attempt carries no answer: round 0.
Sendings == Attempts \X (0 .. MaxRounds + 1)

InputWaitTypeOK ==
  /\ readOnly \in BOOLEAN
  /\ status \in ExecutionStatus
  /\ step \in {"READY", "RUNNING", "WAITING_INPUT"} \union Terminal
  /\ attempt \in 0 .. MaxAttempts
  /\ attStatus \in {"NONE", "STARTED"} \union Terminal
  /\ rounds \in 0 .. MaxRounds
  /\ call \in {"NONE", "STARTED"} \union Terminal
  /\ requests \in [Requests -> {"NONE", "OPEN", "ANSWERED", "REJECTED", "EXPIRED"}]
  /\ events \in [Requests -> {"NONE", "UNPUBLISHED", "SENT", "PUBLISHED"}]
  /\ overdue \in BOOLEAN
  /\ drifted \in BOOLEAN
  /\ leaseToken \in Nat
  /\ leaseLeft \in 0 .. 1
  /\ nextToken \in Nat \ {0}
  /\ pc \in [Workers -> {"idle", "prepare", "gate", "remote", "refused", "succeeded", "stopped"}]
  /\ held \in [Workers -> Nat]
  /\ sent \in [Sendings -> Nat]
  /\ faults \in 0 .. MaxFaults

Init ==
  /\ readOnly \in BOOLEAN
  /\ status = "RUNNING"
  /\ step = "READY"
  /\ attempt = 0
  /\ attStatus = "NONE"
  /\ rounds = 0
  /\ call = "NONE"
  /\ requests = [r \in Requests |-> "NONE"]
  /\ events = [r \in Requests |-> "NONE"]
  /\ overdue = FALSE
  /\ drifted = FALSE
  /\ leaseToken = 1
  /\ leaseLeft = 1
  /\ nextToken = 2
  /\ \E w \in Workers :
       /\ pc = [v \in Workers |-> IF v = w THEN "prepare" ELSE "idle"]
       /\ held = [v \in Workers |-> IF v = w THEN 1 ELSE 0]
  /\ sent = [k \in Sendings |-> 0]
  /\ faults = 0

-----------------------------------------------------------------------------
(* Helpers.                                                                *)

\* Mutants: plausible slips in the definitions below; none is part of the
\* specification.

\* Any answer of this Attempt will do.
AnyAnswer == {r \in Requests : r[1] = attempt /\ requests[r] = "ANSWERED"}

\* Recovery knows rounds only from a call that follows them.
RoundThenCall == rounds > 0 /\ call = "STARTED"

\* The cancellation leaves the requests to their expiry.
KeepRequests == requests

\* A ToolCall in flight is send evidence.
InFlight == call = "STARTED"

\* The fence of the tool runner on the locked row.
OwnsLease(w) ==
  /\ status \in {"RUNNING", "CANCEL_REQUESTED"}
  /\ leaseToken = held[w]
  /\ leaseLeft = 1

OwnerAlive == \E w \in Workers : pc[w] # "idle" /\ held[w] = leaseToken

ClearLease == leaseToken' = 0 /\ leaseLeft' = 0 /\ UNCHANGED nextToken

AssignLease(w) ==
  /\ leaseToken' = nextToken
  /\ leaseLeft' = 1
  /\ nextToken' = nextToken + 1
  /\ held' = [held EXCEPT ![w] = nextToken]

Goto(w, p) == pc' = [pc EXCEPT ![w] = p]

\* ToolCall, Attempt and Step end together.
EndCall(o) ==
  /\ call' = o
  /\ attStatus' = o
  /\ step' = o
  /\ UNCHANGED <<attempt, rounds>>

\* list_open_for_step
OpenRequests == {r \in Requests : requests[r] = "OPEN"}

\* The round an input_required ends: its SUCCEEDED predecessors plus one.
RoundNo == rounds + 1

\* assert_durable_waiting_input, for the request it returns.
DurableWait(r) ==
  /\ status = "WAITING_INPUT"
  /\ step = "WAITING_INPUT"
  /\ leaseToken = 0
  /\ OpenRequests = {r}
  /\ attStatus = "STARTED"
  /\ call = "NONE"
  /\ r = <<attempt, rounds>>

\* _load_answered_mrtr_resume: the newest answer of the STARTED Attempt, which
\* must be that of its last round.
AnsweredResume ==
  {r \in Requests :
     /\ r[1] = attempt
     /\ requests[r] = "ANSWERED"
     /\ r[2] = rounds
     /\ OpenRequests = {}}

-----------------------------------------------------------------------------
(* The worker: Phase A, the final gate, Phase C and settlement.            *)

Leave(w) ==
  /\ Goto(w, "idle")
  /\ UNCHANGED <<readOnly, status, step, callVars, inputVars, clockVars,
                 leaseVars, held, sent, faults>>

\* Fenced out, or the row waits.
PrepareStale(w) ==
  /\ pc[w] = "prepare"
  /\ ~OwnsLease(w)
  /\ Leave(w)

MayPrepare(w) ==
  /\ pc[w] = "prepare"
  /\ OwnsLease(w)
  /\ status = "RUNNING"
  /\ step \in {"READY", "RUNNING"}

\* The total Step budget is used up: before another Attempt the Step alone
\* times out, before another round the new ToolCall and the Attempt do too.
PrepareTimesOut(w) ==
  /\ MayPrepare(w)
  /\ overdue
  /\ step = "RUNNING" => ~drifted
  /\ \/ step = "READY" /\ step' = "TIMED_OUT" /\ UNCHANGED callVars
     \/ step = "RUNNING" /\ ~InFlight /\ EndCall("TIMED_OUT")
  /\ Goto(w, "stopped")
  /\ UNCHANGED <<readOnly, status, inputVars, clockVars, leaseVars, held, sent, faults>>

\* start, or the same checks repeated for a replay, refuse a drifted policy:
\* the Execution fails with the Step.
PrepareRefused(w) ==
  /\ MayPrepare(w)
  /\ drifted
  /\ step = "READY" => ~overdue
  /\ \/ step = "READY" /\ step' = "FAILED" /\ UNCHANGED callVars
     \/ step = "RUNNING" /\ ~InFlight /\ EndCall("FAILED")
  /\ status' = "FAILED"
  /\ ClearLease
  /\ Goto(w, "stopped")
  /\ UNCHANGED <<readOnly, inputVars, clockVars, held, sent, faults>>

\* A new Attempt and its first ToolCall.
PrepareStarts(w) ==
  /\ MayPrepare(w)
  /\ step = "READY"
  /\ ~drifted /\ ~overdue
  /\ attempt' = attempt + 1
  /\ attStatus' = "STARTED"
  /\ rounds' = 0
  /\ call' = "STARTED"
  /\ step' = "RUNNING"
  /\ Goto(w, "gate")
  /\ UNCHANGED <<readOnly, status, inputVars, clockVars, leaseVars, held, sent, faults>>

\* The next ToolCall of a resumed Attempt.  Without an answer to carry the
\* runner fails the Step; WaitIsBacked shows that there is always one.
PrepareReplays(w) ==
  /\ MayPrepare(w)
  /\ step = "RUNNING"
  /\ ~InFlight
  /\ AnsweredResume # {}
  /\ ~drifted /\ ~overdue
  /\ call' = "STARTED"
  /\ Goto(w, "gate")
  /\ UNCHANGED <<readOnly, status, step, attempt, attStatus, rounds, inputVars,
                 clockVars, leaseVars, held, sent, faults>>

GateStale(w) ==
  /\ pc[w] = "gate"
  /\ ~OwnsLease(w)
  /\ Leave(w)

\* cancel_prepared_invocation_before_send
GateCancels(w) ==
  /\ pc[w] = "gate"
  /\ OwnsLease(w)
  /\ status = "CANCEL_REQUESTED"
  /\ EndCall("CANCELLED")
  /\ status' = "CANCELLED"
  /\ ClearLease
  /\ Goto(w, "idle")
  /\ UNCHANGED <<readOnly, inputVars, clockVars, held, sent, faults>>

\* A secret is missing, or policy, Tool or endpoint changed since Phase A.
GateRefuses(w) ==
  /\ pc[w] = "gate"
  /\ OwnsLease(w)
  /\ status = "RUNNING"
  /\ Goto(w, "refused")
  /\ UNCHANGED <<readOnly, status, step, callVars, inputVars, clockVars,
                 leaseVars, held, sent, faults>>

\* What the request carries was fixed in Phase A, under the same lease.
Carried(n) == IF n = 0 THEN {<<attempt, 0>>} ELSE AnsweredResume

GatePasses(w) ==
  /\ pc[w] = "gate"
  /\ OwnsLease(w)
  /\ status = "RUNNING"
  /\ ~drifted
  /\ \E k \in Carried(rounds) : sent' = [sent EXCEPT ![k] = @ + 1]
  /\ Goto(w, "remote")
  /\ UNCHANGED <<readOnly, status, step, callVars, inputVars, clockVars,
                 leaseVars, held, faults>>

FinalizeStale(w) ==
  /\ pc[w] \in {"remote", "refused"}
  /\ ~OwnsLease(w)
  /\ Leave(w)

\* Phase C for a fail-closed refusal and for an outcome nobody knows.
FinalizeFatal(w) ==
  /\ OwnsLease(w)
  /\ \/ pc[w] = "refused" /\ EndCall("FAILED")
     \/ pc[w] = "remote" /\ ~readOnly /\ EndCall("UNKNOWN_OUTCOME")
  /\ status' = "FAILED"
  /\ ClearLease
  /\ Goto(w, "stopped")
  /\ UNCHANGED <<readOnly, inputVars, clockVars, held, sent, faults>>

\* Phase C for a complete result or a known failure; a cancellation that was
\* requested meanwhile takes effect now.
FinalizeKnown(w, o) ==
  /\ pc[w] = "remote"
  /\ OwnsLease(w)
  /\ o = "TIMED_OUT" => readOnly
  /\ EndCall(o)
  /\ \/ /\ status = "CANCEL_REQUESTED"
        /\ status' = "CANCELLED"
        /\ ClearLease
        /\ Goto(w, "idle")
     \/ /\ status = "RUNNING"
        /\ Goto(w, IF o = "SUCCEEDED" THEN "succeeded" ELSE "stopped")
        /\ UNCHANGED <<status, leaseVars>>
  /\ UNCHANGED <<readOnly, inputVars, clockVars, held, sent, faults>>

\* decide_safe_transient_retry and _apply_retry_checkpoint: the rounds of this
\* Attempt and the user's answers are given up with it.
FinalizeRetries(w) ==
  /\ pc[w] = "remote"
  /\ OwnsLease(w)
  /\ status = "RUNNING"
  /\ readOnly
  /\ attempt < MaxAttempts
  /\ ~overdue
  /\ call' = "FAILED"
  /\ attStatus' = "FAILED"
  /\ step' = "READY"
  /\ Goto(w, "prepare")
  /\ UNCHANGED <<readOnly, status, attempt, rounds, inputVars, clockVars,
                 leaseVars, held, sent, faults>>

\* _finalize_input_required under its fence; its checks come in this order:
\* an echoed secret, a cancellation, the Step's budget, the round limit.
InputRequired(w) == pc[w] = "remote" /\ OwnsLease(w)

\* _terminalize_mrtr_secret_echo and the round limit: both fatal.
InputRefused(w) ==
  /\ InputRequired(w)
  /\ EndCall("FAILED")
  /\ status' = "FAILED"
  /\ ClearLease
  /\ Goto(w, "stopped")
  /\ UNCHANGED <<readOnly, inputVars, clockVars, held, sent, faults>>

\* settle_input_required_after_cancel_locked: the round is recorded, the
\* Attempt and the Step are cancelled and nothing is asked.
InputCancelled(w) ==
  /\ InputRequired(w)
  /\ status = "CANCEL_REQUESTED"
  /\ call' = "SUCCEEDED"
  /\ attStatus' = "CANCELLED"
  /\ step' = "CANCELLED"
  /\ status' = "CANCELLED"
  /\ ClearLease
  /\ Goto(w, "idle")
  /\ UNCHANGED <<readOnly, attempt, rounds, inputVars, clockVars, held, sent, faults>>

\* The budget is used up: EXPIRED evidence, and a known time-out.
InputTooLate(w) ==
  /\ InputRequired(w)
  /\ status = "RUNNING"
  /\ overdue
  /\ requests' = [requests EXCEPT ![<<attempt, rounds + 1>>] = "EXPIRED"]
  /\ call' = "SUCCEEDED"
  /\ attStatus' = "TIMED_OUT"
  /\ step' = "TIMED_OUT"
  /\ Goto(w, "stopped")
  /\ UNCHANGED <<readOnly, status, attempt, rounds, events, clockVars, leaseVars, held, sent, faults>>

\* The round ends, the Attempt stays STARTED, and Step and Execution wait
\* without a lease.
InputOpens(w) ==
  /\ InputRequired(w)
  /\ status = "RUNNING"
  /\ ~overdue
  /\ rounds + 1 <= MaxRounds
  /\ OpenRequests = {}
  /\ requests' = [requests EXCEPT ![<<attempt, RoundNo>>] = "OPEN"]
  /\ call' = "NONE"
  /\ rounds' = rounds + 1
  /\ step' = "WAITING_INPUT"
  /\ status' = "WAITING_INPUT"
  /\ ClearLease
  /\ Goto(w, "idle")
  /\ UNCHANGED <<readOnly, attempt, attStatus, events, clockVars, held, sent, faults>>

\* The stop branch of _settle_wave looks at neither status nor lease.
SettleStops(w) ==
  /\ pc[w] = "stopped"
  /\ status' = IF step = "TIMED_OUT" THEN "TIMED_OUT" ELSE "FAILED"
  /\ ClearLease
  /\ Goto(w, "idle")
  /\ UNCHANGED <<readOnly, step, callVars, inputVars, clockVars, held, sent, faults>>

SettleFenced(w) ==
  /\ pc[w] = "succeeded"
  /\ ~(OwnsLease(w) /\ status = "RUNNING")
  /\ Leave(w)

SettleSucceeds(w) ==
  /\ pc[w] = "succeeded"
  /\ OwnsLease(w)
  /\ status = "RUNNING"
  /\ status' = "SUCCEEDED"
  /\ ClearLease
  /\ Goto(w, "idle")
  /\ UNCHANGED <<readOnly, step, callVars, inputVars, clockVars, held, sent, faults>>

-----------------------------------------------------------------------------
(* The user, the relay and the resume claim.                               *)

\* submit_response: answer, hash and resume event commit together.  A late,
\* repeated or invalid answer is refused without a write.
Answer(r) ==
  /\ DurableWait(r)
  /\ ~overdue
  /\ requests' = [requests EXCEPT ![r] = "ANSWERED"]
  /\ events' = [events EXCEPT ![r] = "UNPUBLISHED"]
  /\ UNCHANGED <<readOnly, status, step, callVars, clockVars, leaseVars, pc,
                 held, sent, faults>>

\* A rejection fails Attempt, Step and Execution; the round keeps its success.
Reject(r) ==
  /\ DurableWait(r)
  /\ requests' = [requests EXCEPT ![r] = "REJECTED"]
  /\ attStatus' = "FAILED"
  /\ step' = "FAILED"
  /\ status' = "FAILED"
  /\ ClearLease
  /\ UNCHANGED <<readOnly, attempt, rounds, call, events, clockVars, pc, held,
                 sent, faults>>

\* Send first, commit published_at afterwards; sending again changes nothing.
RelayPublish(r) ==
  /\ events[r] = "UNPUBLISHED"
  /\ events' = [events EXCEPT ![r] = "SENT"]
  /\ UNCHANGED <<readOnly, status, step, callVars, requests, clockVars,
                 leaseVars, pc, held, sent, faults>>

RelayCommit(r) ==
  /\ events[r] = "SENT"
  /\ events' = [events EXCEPT ![r] = "PUBLISHED"]
  /\ UNCHANGED <<readOnly, status, step, callVars, requests, clockVars,
                 leaseVars, pc, held, sent, faults>>

\* A delivery of the resume message, the first or a repeated one.  An Execution
\* that does not wait is a STALE_DELIVERY, an OPEN request an error: both leave
\* everything as it is.
MayResume(w, r) ==
  /\ pc[w] = "idle"
  /\ events[r] \in {"SENT", "PUBLISHED"}
  /\ status = "WAITING_INPUT"
  /\ step = "WAITING_INPUT"
  /\ leaseToken = 0
  /\ OpenRequests = {}

\* The message's request is answered, of the STARTED Attempt, and as many calls
\* as its round_no have ended.
ResumesLastRound(r) ==
  /\ requests[r] = "ANSWERED"
  /\ r = <<attempt, rounds>>
  /\ attStatus = "STARTED"
  /\ ~InFlight

ResumeClaim(w, r) ==
  /\ MayResume(w, r)
  /\ ResumesLastRound(r)
  /\ ~drifted
  /\ status' = "RUNNING"
  /\ step' = "RUNNING"
  /\ AssignLease(w)
  /\ Goto(w, "prepare")
  /\ UNCHANGED <<readOnly, callVars, inputVars, clockVars, sent, faults>>

\* _terminalize_precondition_failed leaves the Attempt STARTED.
ResumeFails(w, r) ==
  /\ MayResume(w, r)
  /\ ~ResumesLastRound(r) \/ drifted
  /\ step' = "FAILED"
  /\ status' = "FAILED"
  /\ ClearLease
  /\ UNCHANGED <<readOnly, callVars, inputVars, clockVars, pc, held, sent, faults>>

-----------------------------------------------------------------------------
(* Cancellation, time, failures and recovery.                              *)

\* _reject_open_mrtr_requests
RejectOpen == [r \in Requests |-> IF requests[r] = "OPEN" THEN "REJECTED" ELSE requests[r]]

CancelImmediate ==
  /\ status \in {"RUNNING", "WAITING_INPUT"}
  /\ ~InFlight
  /\ status' = "CANCELLED"
  /\ step' = IF step \in Terminal THEN step ELSE "CANCELLED"
  /\ attStatus' = IF step \in Terminal \/ attStatus # "STARTED" THEN attStatus ELSE "CANCELLED"
  /\ requests' = RejectOpen
  /\ ClearLease
  /\ UNCHANGED <<readOnly, attempt, rounds, call, events, clockVars, pc, held,
                 sent, faults>>

CancelCooperative ==
  /\ status = "RUNNING"
  /\ InFlight
  /\ status' = "CANCEL_REQUESTED"
  /\ requests' = RejectOpen
  /\ UNCHANGED <<readOnly, step, callVars, events, clockVars, leaseVars, pc,
                 held, sent, faults>>

\* The Step's started_at plus its timeout passes.
BudgetRunsOut ==
  /\ attempt > 0
  /\ ~overdue
  /\ overdue' = TRUE
  /\ UNCHANGED <<readOnly, status, step, callVars, inputVars, drifted, leaseVars,
                 pc, held, sent, faults>>

PolicyDrifts ==
  /\ ~drifted
  /\ drifted' = TRUE
  /\ UNCHANGED <<readOnly, status, step, callVars, inputVars, overdue, leaseVars,
                 pc, held, sent, faults>>

LeaseLapses ==
  /\ leaseToken # 0
  /\ leaseLeft = 1
  /\ leaseLeft' = 0
  /\ faults' = IF OwnerAlive THEN faults + 1 ELSE faults
  /\ faults' <= MaxFaults
  /\ UNCHANGED <<readOnly, status, step, callVars, inputVars, clockVars,
                 leaseToken, nextToken, pc, held, sent>>

Crash(w) ==
  /\ pc[w] # "idle"
  /\ faults < MaxFaults
  /\ faults' = faults + 1
  /\ Goto(w, "idle")
  /\ UNCHANGED <<readOnly, status, step, callVars, inputVars, clockVars,
                 leaseVars, held, sent>>

MayRecover(w) ==
  /\ pc[w] = "idle"
  /\ status \in {"RUNNING", "CANCEL_REQUESTED"}
  /\ leaseToken # 0
  /\ leaseLeft = 0

\* A Step that is RUNNING after a round has a terminal ToolCall, which _decide
\* refuses: FAIL_INCONSISTENT.
RoundEnded == rounds > 0

\* TAKEOVER_READY, or SAFE_RETRY of a first call in flight.
RecoverTakesOver(w) ==
  /\ MayRecover(w)
  /\ status = "RUNNING"
  /\ \/ step = "READY" /\ UNCHANGED <<step, callVars>>
     \/ /\ step = "RUNNING" /\ ~RoundEnded
        /\ InFlight /\ readOnly /\ attempt < MaxAttempts
        /\ call' = "FAILED"
        /\ attStatus' = "FAILED"
        /\ step' = "READY"
        /\ UNCHANGED <<attempt, rounds>>
  /\ AssignLease(w)
  /\ Goto(w, "prepare")
  /\ UNCHANGED <<readOnly, status, inputVars, clockVars, sent, faults>>

\* FAIL_EXHAUSTED: a first call that may be repeated, but not any more.
RecoverExhausted(w) ==
  /\ MayRecover(w)
  /\ status = "RUNNING"
  /\ step = "RUNNING" /\ ~RoundEnded
  /\ InFlight /\ readOnly /\ attempt >= MaxAttempts
  /\ EndCall("FAILED")
  /\ status' = "FAILED"
  /\ ClearLease
  /\ UNCHANGED <<readOnly, inputVars, clockVars, pc, held, sent, faults>>

\* A call in flight that was cancelled, is unsafe to repeat, or came after a
\* round: nobody knows its outcome.
RecoverUnknown(w) ==
  /\ MayRecover(w)
  /\ InFlight
  /\ \/ status = "CANCEL_REQUESTED"
     \/ step = "RUNNING" /\ (~readOnly \/ RoundEnded)
  /\ EndCall("UNKNOWN_OUTCOME")
  /\ status' = "FAILED"
  /\ ClearLease
  /\ UNCHANGED <<readOnly, inputVars, clockVars, pc, held, sent, faults>>

\* FAIL_INCONSISTENT without a call in flight: a resumed Attempt that did not
\* get to its next call, or a Step that ended and was never settled.
RecoverInconsistent(w) ==
  /\ MayRecover(w)
  /\ status = "RUNNING"
  /\ ~InFlight
  /\ \/ step = "RUNNING" /\ RoundEnded /\ step' = "FAILED" /\ attStatus' = "FAILED"
     \/ step \in Terminal /\ UNCHANGED <<step, attStatus>>
  /\ status' = "FAILED"
  /\ ClearLease
  /\ UNCHANGED <<readOnly, attempt, rounds, call, inputVars, clockVars, pc, held,
                 sent, faults>>

-----------------------------------------------------------------------------

Prepare(w) ==
  \/ PrepareStale(w)
  \/ PrepareTimesOut(w)
  \/ PrepareRefused(w)
  \/ PrepareStarts(w)
  \/ PrepareReplays(w)

Gate(w) == GateStale(w) \/ GateCancels(w) \/ GateRefuses(w) \/ GatePasses(w)

Finalize(w) ==
  \/ FinalizeStale(w)
  \/ FinalizeFatal(w)
  \/ \E o \in {"SUCCEEDED", "FAILED", "TIMED_OUT"} : FinalizeKnown(w, o)
  \/ FinalizeRetries(w)
  \/ InputRefused(w)
  \/ InputCancelled(w)
  \/ InputTooLate(w)
  \/ InputOpens(w)

Settle(w) == SettleStops(w) \/ SettleFenced(w) \/ SettleSucceeds(w)

TaskStep(w) == Prepare(w) \/ Gate(w) \/ Finalize(w) \/ Settle(w)

Resume(w) == \E r \in Requests : ResumeClaim(w, r) \/ ResumeFails(w, r)

Recover(w) ==
  RecoverTakesOver(w) \/ RecoverExhausted(w) \/ RecoverUnknown(w) \/ RecoverInconsistent(w)

User == \E r \in Requests : Answer(r) \/ Reject(r)

Relay == \E r \in Requests : RelayPublish(r) \/ RelayCommit(r)

Next ==
  \/ \E w \in Workers : TaskStep(w) \/ Resume(w) \/ Recover(w) \/ Crash(w)
  \/ User
  \/ Relay
  \/ CancelImmediate
  \/ CancelCooperative
  \/ BudgetRunsOut
  \/ PolicyDrifts
  \/ LeaseLapses

Spec == Init /\ [][Next]_vars

\* The outbox process relays and scans for recovery in every iteration, the
\* broker delivers, tasks that are not killed go on, and leases run out.
\* Nothing is assumed of users.
Fairness ==
  /\ WF_vars(Relay)
  /\ WF_vars(LeaseLapses)
  /\ WF_vars(\E w \in Workers : Resume(w))
  /\ WF_vars(\E w \in Workers : Recover(w))
  /\ \A w \in Workers : WF_vars(TaskStep(w))

FairSpec == Spec /\ Fairness

-----------------------------------------------------------------------------
(* Properties.                                                             *)

Waiting == status = "WAITING_INPUT"

Answered(r) == requests[r] = "ANSWERED" /\ events[r] # "NONE"

\* An Execution waits for input only together with its Step, without a lease,
\* and for the last round of its STARTED Attempt: that request is open, or it is
\* answered and its resume event exists; and no request is open without its
\* wait.  assert_durable_waiting_input, which every answer, rejection and resume
\* relies on, never meets the states it refuses.
WaitIsBacked ==
  /\ Waiting <=> step = "WAITING_INPUT"
  /\ Waiting => \E r \in Requests :
                  /\ r = <<attempt, rounds>>
                  /\ DurableWait(r) \/ (Answered(r) /\ OpenRequests = {})
  /\ OpenRequests # {} => Waiting

\* An answer reaches the server at most once, in the round after the one that
\* asked for it, and a first call carries none: redelivered resume messages,
\* retries, crashes and recovery repeat no tools/call of an Attempt and mix up
\* no answers of its rounds.
AnswerSentOnce ==
  \A k \in Sendings :
    /\ sent[k] <= 1
    /\ sent[k] > 0 /\ k[2] > 0 => requests[k] = "ANSWERED"

\* In the end the Execution has ended, or the user is asked and does not answer:
\* an answer is never forgotten between outbox, broker, resume claim and
\* recovery.
InputSettles == <>[](status \in TerminalExecution \/ (Waiting /\ OpenRequests # {}))

WaitEndsByUserOrPolicy ==
  Waiting /\ status' = "FAILED" /\ ~drifted => requests' # requests

\* tasks.py on the resume message: "duplicate delivery is a DB no-op".  Without
\* a policy change only a rejection fails an Execution that waits.
DuplicateIsNoOp == [][WaitEndsByUserOrPolicy]_vars

\* docs/04-agent-mcp-architecture.md: the Step's timeout is a total budget that includes
\* the MRTR wait.  A wait ends once it has passed.
OverdueWaitEnds == (Waiting /\ overdue) ~> status # "WAITING_INPUT"
=============================================================================
