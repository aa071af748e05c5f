----------------------------- MODULE ApprovalWait -----------------------------
(***************************************************************************)
(* The approval of a TOOL Step whose ToolPolicy requires it: the durable   *)
(* wait that drops the lease, the decisions of several users, the expiry   *)
(* sweep, the resume message with its fresh lease, cancellation and lease  *)
(* recovery (backend/app/approval and execution/approval_resume.py).       *)
(*                                                                         *)
(* One Execution with one TOOL Step of an unsafe risk class, so that there *)
(* is one Attempt and one ToolCall.  It starts where ToolExecution's       *)
(* "prepare" phase does: claimed, the Step READY.  A transaction is one    *)
(* action, except that a decision and the sweep read the ApprovalRequest   *)
(* before they lock anything: this read is an action of its own.  The gap  *)
(* between the final gate and the network, the clock of the lease and the  *)
(* dispatch before the claim are ToolExecution's subject, not this one's.  *)
(***************************************************************************)
EXTENDS Naturals, FiniteSets

CONSTANTS
  Approvers,  \* users with approval.decide who match the request's scope
  Mode,       \* ApprovalPolicy.decision_mode
  Required,   \* ApprovalPolicy.required_approvals
  Source,     \* Execution.source_type
  Workers,    \* Celery task slots
  MaxFaults   \* bound: worker crashes plus leases lost by a live owner

Sources == {"AGENT_REQUEST", "MANUAL_TOOL_TEST"}

Modes == {"ANY", "ALL", "QUORUM"}

ASSUME ApproversAssumption == IsFiniteSet(Approvers)

ASSUME PolicyAssumption == Mode \in Modes /\ Required \in Nat \ {0}

ASSUME SourceAssumption == Source \in Sources

ASSUME BoundsAssumption == MaxFaults \in Nat

-----------------------------------------------------------------------------

VARIABLES
  status,      \* Execution.status
  step,        \* ExecutionStep.status
  call,        \* ToolCall.normalized_status, NONE before Phase A created it
  leaseToken,  \* Execution.lease_token, 0 when NULL
  leaseLeft,   \* 1 while lease_expires_at is in the future, else 0
  nextToken,   \* the next fresh lease token (uuid4 in the code)
  reqStatus,   \* ApprovalRequest.status, NONE before there is one
  requests,    \* ApprovalRequests created for the Step
  decisions,   \* the ApprovalDecision row of each user
  expiry,      \* ApprovalRequest.expires_at against the clock
  reading,     \* decide calls between the unlocked read and the locks
  sweep,       \* where the expiry sweep is
  resume,      \* the EXECUTION_APPROVAL_RESUME OutboxEvent and its message
  pc,          \* where each worker's task is
  held,        \* the lease token each task runs under
  sends,       \* tools/call requests that left for the MCP server
  faults       \* crashes and lease lapses so far

execVars == <<status, step, call, leaseToken, leaseLeft, nextToken>>

approvalVars == <<reqStatus, requests, decisions, expiry>>

pendingVars == <<reading, sweep>>

workerVars == <<pc, held, sends>>

vars == <<status, step, call, leaseToken, leaseLeft, nextToken, reqStatus,
          requests, decisions, expiry, reading, sweep, resume, pc,
          held, sends, faults>>

TerminalExecution == {"SUCCEEDED", "FAILED", "CANCELLED"}

ExecutionStatus == {"RUNNING", "WAITING_APPROVAL", "CANCEL_REQUESTED"} \union TerminalExecution

CallTerminal == {"SUCCEEDED", "FAILED", "UNKNOWN_OUTCOME", "CANCELLED"}

StepStatus == {"READY", "RUNNING", "WAITING_APPROVAL"} \union CallTerminal

CallStatus == {"NONE", "STARTED"} \union CallTerminal

Refused == {"REJECTED", "EXPIRED", "CANCELLED"}

ApprovalStatus == {"PENDING", "APPROVED"} \union Refused

Verdicts == {"APPROVE", "REJECT"}

\* After Phase C a task still has to settle the wave.
Phases == {"idle", "prepare", "gate", "remote", "refused", "succeeded", "stopped"}

TypeOK ==
  /\ status \in ExecutionStatus
  /\ step \in StepStatus
  /\ call \in CallStatus
  /\ leaseToken \in Nat
  /\ leaseLeft \in 0 .. 1
  /\ nextToken \in Nat \ {0}
  /\ reqStatus \in ApprovalStatus \union {"NONE"}
  /\ requests \in Nat
  /\ decisions \in [Approvers -> Verdicts \union {"NONE"}]
  /\ expiry \in {"ahead", "past"}
  /\ reading \in [Approvers -> {"no", "timely", "late"}]
  /\ sweep \in {"idle", "locking"}
  /\ resume \in {"NONE", "UNPUBLISHED", "SENT", "PUBLISHED"}
  /\ pc \in [Workers -> Phases]
  /\ held \in [Workers -> Nat]
  /\ sends \in Nat
  /\ faults \in 0 .. MaxFaults

Init ==
  /\ status = "RUNNING"
  /\ step = "READY"
  /\ call = "NONE"
  /\ leaseToken = 1
  /\ leaseLeft = 1
  /\ nextToken = 2
  /\ reqStatus = "NONE"
  /\ requests = 0
  /\ decisions = [u \in Approvers |-> "NONE"]
  /\ expiry = "ahead"
  /\ reading = [u \in Approvers |-> "no"]
  /\ sweep = "idle"
  /\ resume = "NONE"
  /\ \E w \in Workers :
       /\ pc = [v \in Workers |-> IF v = w THEN "prepare" ELSE "idle"]
       /\ held = [v \in Workers |-> IF v = w THEN 1 ELSE 0]
  /\ sends = 0
  /\ faults = 0

-----------------------------------------------------------------------------
(* Helpers.                                                                *)

Count(d, v) == Cardinality({u \in Approvers : d[u] = v})

\* Mutants: plausible slips in the definitions below; none is part of the
\* specification.

\* A quorum is reached one approval early, and ALL forgets the rejections.
LaxAggregate(d) ==
  CASE Count(d, "APPROVE") + 1 >= Required -> "APPROVED"
    [] OTHER -> "PENDING"

\* The resume claim forgets AgentRequest.
ResumesManualOnly == Source = "MANUAL_TOOL_TEST"

\* The rows are not checked again under their locks.
NotRechecked == TRUE

\* aggregate_decision
AggregateDecision(d) ==
  LET approves == Count(d, "APPROVE")
      rejects == Count(d, "REJECT")
  IN CASE Mode = "ANY" /\ approves >= 1 -> "APPROVED"
       [] Mode = "ANY" /\ approves = 0 /\ rejects >= 1 -> "REJECTED"
       [] Mode = "ALL" /\ rejects >= 1 -> "REJECTED"
       [] Mode = "ALL" /\ rejects = 0 /\ approves >= Required -> "APPROVED"
       [] Mode = "QUORUM" /\ approves >= Required -> "APPROVED"
       [] Mode = "QUORUM" /\ approves < Required /\ rejects >= Required -> "REJECTED"
       [] OTHER -> "PENDING"

\* find_valid_approved_evidence; a drifted context is PrepareRefused, GateDrifts
\* and ResumeFails.
ValidEvidence == reqStatus = "APPROVED"

InFlightCall == call = "STARTED"

Waiting == status = "WAITING_APPROVAL" /\ step = "WAITING_APPROVAL"

\* The fence of the tool runner on the locked row.
OwnsLease(w) ==
  /\ status \in {"RUNNING", "CANCEL_REQUESTED"}
  /\ leaseToken = held[w]
  /\ leaseLeft = 1

OwnerAlive == \E w \in Workers : pc[w] # "idle" /\ held[w] = leaseToken

ClearLease == leaseToken' = 0 /\ leaseLeft' = 0

AssignLease(w) ==
  /\ leaseToken' = nextToken
  /\ leaseLeft' = 1
  /\ nextToken' = nextToken + 1
  /\ held' = [held EXCEPT ![w] = nextToken]

Goto(w, p) == pc' = [pc EXCEPT ![w] = p]

Fail == status' = "FAILED" /\ step' = "FAILED"

-----------------------------------------------------------------------------
(* The worker: Phase A, the final gate, Phase C and settlement.            *)

Leave(w) ==
  /\ Goto(w, "idle")
  /\ UNCHANGED <<execVars, approvalVars, pendingVars, resume, held, sends, faults>>

\* Fenced out, or the row already waits (reuse_pending writes nothing).
PrepareStale(w) ==
  /\ pc[w] = "prepare"
  /\ ~OwnsLease(w)
  /\ Leave(w)

MayPrepare(w) ==
  /\ pc[w] = "prepare"
  /\ OwnsLease(w)
  /\ step = "READY"

\* _apply_waiting_state clears the lease: nobody owns a waiting Execution.
DropLease == ClearLease

\* enter_for_tool_step: no approval yet, so the request is created and both
\* rows wait.  A PENDING request at this point is refused without a write;
\* WaitIsConsistent shows that there is none.
PrepareWaits(w) ==
  /\ MayPrepare(w)
  /\ status = "RUNNING"
  /\ ~ValidEvidence
  /\ reqStatus # "PENDING"
  /\ reqStatus' = "PENDING"
  /\ requests' = requests + 1
  /\ decisions' = [u \in Approvers |-> "NONE"]
  /\ expiry' = "ahead"
  /\ status' = "WAITING_APPROVAL"
  /\ step' = "WAITING_APPROVAL"
  /\ DropLease
  /\ Goto(w, "idle")
  /\ UNCHANGED <<call, nextToken, pendingVars, resume, held, sends, faults>>

\* start refuses: policy, lineage or approval context drifted.
PrepareRefused(w) ==
  /\ MayPrepare(w)
  /\ status = "RUNNING"
  /\ Fail
  /\ ClearLease
  /\ Goto(w, "idle")
  /\ UNCHANGED <<call, nextToken, approvalVars, pendingVars, resume, held, sends, faults>>

PrepareStarts(w) ==
  /\ MayPrepare(w)
  /\ status = "RUNNING"
  /\ ValidEvidence
  /\ call' = "STARTED"
  /\ step' = "RUNNING"
  /\ Goto(w, "gate")
  /\ UNCHANGED <<status, leaseToken, leaseLeft, nextToken, approvalVars,
                 pendingVars, resume, held, sends, faults>>

GateStale(w) ==
  /\ pc[w] = "gate"
  /\ ~OwnsLease(w)
  /\ Leave(w)

\* cancel_prepared_invocation_before_send
GateCancels(w) ==
  /\ pc[w] = "gate"
  /\ OwnsLease(w)
  /\ status = "CANCEL_REQUESTED"
  /\ call' = "CANCELLED"
  /\ step' = "CANCELLED"
  /\ status' = "CANCELLED"
  /\ ClearLease
  /\ Goto(w, "idle")
  /\ UNCHANGED <<nextToken, approvalVars, pendingVars, resume, held, sends, faults>>

\* Secrets, policy, endpoint or approval evidence fail the final gate, or the
\* same checks at the end of Phase A.
GateDrifts(w) ==
  /\ pc[w] = "gate"
  /\ OwnsLease(w)
  /\ status = "RUNNING"
  /\ Goto(w, "refused")
  /\ UNCHANGED <<execVars, approvalVars, pendingVars, resume, held, sends, faults>>

\* require_valid_approved_evidence holds once more and the request leaves.
GatePasses(w) ==
  /\ pc[w] = "gate"
  /\ OwnsLease(w)
  /\ status = "RUNNING"
  /\ ValidEvidence
  /\ sends' = sends + 1
  /\ Goto(w, "remote")
  /\ UNCHANGED <<execVars, approvalVars, pendingVars, resume, held, faults>>

FinalizeStale(w) ==
  /\ pc[w] \in {"remote", "refused"}
  /\ ~OwnsLease(w)
  /\ Leave(w)

\* Phase C: a refused or ambiguous call fails the Execution at once, a known
\* outcome under CANCEL_REQUESTED cancels it, any other is left to settlement.
Finalize(w, o) ==
  /\ pc[w] \in {"remote", "refused"}
  /\ OwnsLease(w)
  /\ pc[w] = "refused" => o = "FAILED"
  /\ call' = o
  /\ step' = o
  /\ \/ /\ o = "UNKNOWN_OUTCOME" \/ pc[w] = "refused"
        /\ status' = "FAILED"
        /\ ClearLease
        /\ Goto(w, "stopped")
     \/ /\ o # "UNKNOWN_OUTCOME" /\ pc[w] = "remote"
        /\ status = "CANCEL_REQUESTED"
        /\ status' = "CANCELLED"
        /\ ClearLease
        /\ Goto(w, "idle")
     \/ /\ o # "UNKNOWN_OUTCOME" /\ pc[w] = "remote"
        /\ status = "RUNNING"
        /\ Goto(w, IF o = "SUCCEEDED" THEN "succeeded" ELSE "stopped")
        /\ UNCHANGED <<status, leaseToken, leaseLeft>>
  /\ UNCHANGED <<nextToken, approvalVars, pendingVars, resume, held, sends, faults>>

\* The stop branch of _settle_wave looks at neither status nor lease.
SettleStops(w) ==
  /\ pc[w] = "stopped"
  /\ status' = "FAILED"
  /\ ClearLease
  /\ Goto(w, "idle")
  /\ UNCHANGED <<step, call, nextToken, approvalVars, pendingVars, resume, held, sends, faults>>

SettleFenced(w) ==
  /\ pc[w] = "succeeded"
  /\ ~(OwnsLease(w) /\ status = "RUNNING")
  /\ Leave(w)

SettleSucceeds(w) ==
  /\ pc[w] = "succeeded"
  /\ OwnsLease(w)
  /\ status = "RUNNING"
  /\ status' = "SUCCEEDED"
  /\ ClearLease
  /\ Goto(w, "idle")
  /\ UNCHANGED <<step, call, nextToken, approvalVars, pendingVars, resume, held, sends, faults>>

-----------------------------------------------------------------------------
(* Decisions.                                                              *)

\* decide takes its timestamp and reads the request without a lock.  Calls that
\* find it closed are refused later without a write, and are left out.  The
\* later lock_for_update, without populate_existing, leaves the attributes the
\* session already loaded: "status is PENDING" is decided by this read, here
\* and in the sweep.
BeginDecide(u) ==
  /\ reading[u] = "no"
  /\ reqStatus = "PENDING"
  /\ reading' = [reading EXCEPT ![u] = IF expiry = "past" THEN "late" ELSE "timely"]
  /\ UNCHANGED <<execVars, approvalVars, sweep, resume, workerVars, faults>>

EndDecide(u) == reading' = [reading EXCEPT ![u] = "no"]

\* Any 4xx or rollback: lost permission, self-approval, drifted context, second
\* decision, rows that no longer wait, a resume event that already exists.
DecideRefused(u) ==
  /\ reading[u] # "no"
  /\ EndDecide(u)
  /\ UNCHANGED <<execVars, approvalVars, sweep, resume, workerVars, faults>>

\* _terminalize_expired comes before the check that the rows still wait.
DecideTooLate(u) ==
  /\ reading[u] = "late"
  /\ EndDecide(u)
  /\ reqStatus' = "EXPIRED"
  /\ Fail
  /\ ClearLease
  /\ UNCHANGED <<call, nextToken, requests, decisions, expiry, sweep, resume, workerVars, faults>>

\* The locked Execution and Step still wait.
RowsStillWait == Waiting

\* The resume event's dedupe_key is unique.
ResumeIsNew == resume = "NONE"

\* The decision row, the aggregate over all rows, and its consequence commit
\* together; the Execution and the Step were read under their locks.
Decide(u, v) ==
  /\ reading[u] = "timely"
  /\ RowsStillWait
  /\ decisions[u] = "NONE"
  /\ EndDecide(u)
  /\ decisions' = [decisions EXCEPT ![u] = v]
  /\ \/ /\ AggregateDecision(decisions') = "APPROVED"
        /\ ResumeIsNew
        /\ reqStatus' = "APPROVED"
        /\ resume' = "UNPUBLISHED"
        /\ UNCHANGED execVars
     \/ /\ AggregateDecision(decisions') = "REJECTED"
        /\ reqStatus' = "REJECTED"
        /\ Fail
        /\ ClearLease
        /\ UNCHANGED <<call, nextToken, resume>>
     \/ /\ AggregateDecision(decisions') = "PENDING"
        /\ UNCHANGED <<execVars, reqStatus, resume>>
  /\ UNCHANGED <<requests, expiry, sweep, workerVars, faults>>

-----------------------------------------------------------------------------
(* The expiry sweep of the outbox process.                                 *)

SweepProbe ==
  /\ sweep = "idle"
  /\ reqStatus = "PENDING"
  /\ expiry = "past"
  /\ sweep' = "locking"
  /\ UNCHANGED <<execVars, approvalVars, reading, resume, workerVars, faults>>

\* expire_due_batch, after its row locks.
SweepExpires ==
  /\ sweep = "locking"
  /\ RowsStillWait
  /\ sweep' = "idle"
  /\ reqStatus' = "EXPIRED"
  /\ Fail
  /\ ClearLease
  /\ UNCHANGED <<call, nextToken, requests, decisions, expiry, reading, resume, workerVars, faults>>

\* Another transaction holds a row (SKIP LOCKED), or the rows no longer wait.
SweepSkips ==
  /\ sweep = "locking"
  /\ sweep' = "idle"
  /\ UNCHANGED <<execVars, approvalVars, reading, resume, workerVars, faults>>

-----------------------------------------------------------------------------
(* Resume.                                                                 *)

\* Send first, commit published_at afterwards; sending again changes nothing.
RelayPublish ==
  /\ resume = "UNPUBLISHED"
  /\ resume' = "SENT"
  /\ UNCHANGED <<execVars, approvalVars, pendingVars, workerVars, faults>>

RelayCommit ==
  /\ resume = "SENT"
  /\ resume' = "PUBLISHED"
  /\ UNCHANGED <<execVars, approvalVars, pendingVars, workerVars, faults>>

\* The source check of _assert_structural_resume_preconditions.  Its AppError
\* makes the task discard the message.
ResumableSource == Source = "AGENT_REQUEST"

\* Any other status is a STALE_DELIVERY.
NotStale == Waiting

MayResume(w) ==
  /\ pc[w] = "idle"
  /\ resume \in {"SENT", "PUBLISHED"}
  /\ NotStale
  /\ ResumableSource
  /\ reqStatus = "APPROVED"
  /\ leaseToken = 0

\* _apply_fresh_claim
ResumeClaim(w) ==
  /\ MayResume(w)
  /\ status' = "RUNNING"
  /\ step' = "READY"
  /\ AssignLease(w)
  /\ Goto(w, "prepare")
  /\ UNCHANGED <<call, approvalVars, pendingVars, resume, sends, faults>>

\* _terminalize_resume_precondition_failed
ResumeFails(w) ==
  /\ MayResume(w)
  /\ Fail
  /\ ClearLease
  /\ UNCHANGED <<call, nextToken, approvalVars, pendingVars, resume, workerVars, faults>>

-----------------------------------------------------------------------------
(* Cancellation, time, failures and recovery.                              *)

\* _cancel_pending_approvals
CancelledRequest == IF reqStatus = "PENDING" THEN "CANCELLED" ELSE reqStatus

CancelImmediate ==
  /\ status \in {"RUNNING", "WAITING_APPROVAL"}
  /\ ~InFlightCall
  /\ status' = "CANCELLED"
  /\ step' = IF step \in CallTerminal THEN step ELSE "CANCELLED"
  /\ reqStatus' = CancelledRequest
  /\ ClearLease
  /\ UNCHANGED <<call, nextToken, requests, decisions, expiry, pendingVars,
                 resume, workerVars, faults>>

CancelCooperative ==
  /\ status = "RUNNING"
  /\ InFlightCall
  /\ status' = "CANCEL_REQUESTED"
  /\ reqStatus' = CancelledRequest
  /\ UNCHANGED <<step, call, leaseToken, leaseLeft, nextToken, requests,
                 decisions, expiry, pendingVars, resume, workerVars, faults>>

\* expires_at passes.
ExpiryPasses ==
  /\ requests > 0
  /\ expiry = "ahead"
  /\ expiry' = "past"
  /\ UNCHANGED <<execVars, reqStatus, requests, decisions, pendingVars, resume, workerVars, faults>>

LeaseLapses ==
  /\ leaseToken # 0
  /\ leaseLeft = 1
  /\ leaseLeft' = 0
  /\ faults' = IF OwnerAlive THEN faults + 1 ELSE faults
  /\ faults' <= MaxFaults
  /\ UNCHANGED <<status, step, call, leaseToken, nextToken, approvalVars,
                 pendingVars, resume, workerVars>>

Crash(w) ==
  /\ pc[w] # "idle"
  /\ faults < MaxFaults
  /\ faults' = faults + 1
  /\ Goto(w, "idle")
  /\ UNCHANGED <<execVars, approvalVars, pendingVars, resume, held, sends>>

\* recover finds an expired lease on the locked row; the scans select
\* AgentRequest Executions, never a manual tool test.
MayRecover(w) ==
  /\ pc[w] = "idle"
  /\ Source = "AGENT_REQUEST"
  /\ status \in {"RUNNING", "CANCEL_REQUESTED"}
  /\ leaseToken # 0
  /\ leaseLeft = 0

\* TAKEOVER_READY
RecoverReady(w) ==
  /\ MayRecover(w)
  /\ step = "READY"
  /\ AssignLease(w)
  /\ Goto(w, "prepare")
  /\ UNCHANGED <<status, step, call, approvalVars, pendingVars, resume, sends, faults>>

\* A prepared call of an unsafe risk class may have been sent.
RecoverUnknown(w) ==
  /\ MayRecover(w)
  /\ InFlightCall
  /\ call' = "UNKNOWN_OUTCOME"
  /\ step' = "UNKNOWN_OUTCOME"
  /\ status' = "FAILED"
  /\ ClearLease
  /\ UNCHANGED <<nextToken, approvalVars, pendingVars, resume, workerVars, faults>>

\* FAIL_INCONSISTENT: the Step ended and was never settled.
RecoverSettled(w) ==
  /\ MayRecover(w)
  /\ step \in CallTerminal
  /\ status' = "FAILED"
  /\ ClearLease
  /\ UNCHANGED <<step, call, nextToken, approvalVars, pendingVars, resume, workerVars, faults>>

-----------------------------------------------------------------------------

Prepare(w) == PrepareStale(w) \/ PrepareWaits(w) \/ PrepareRefused(w) \/ PrepareStarts(w)

Gate(w) == GateStale(w) \/ GateCancels(w) \/ GateDrifts(w) \/ GatePasses(w)

Finish(w) ==
  \/ FinalizeStale(w)
  \/ \E o \in {"SUCCEEDED", "FAILED", "UNKNOWN_OUTCOME"} : Finalize(w, o)
  \/ SettleStops(w)
  \/ SettleFenced(w)
  \/ SettleSucceeds(w)

TaskStep(w) == Prepare(w) \/ Gate(w) \/ Finish(w)

Resume(w) == ResumeClaim(w) \/ ResumeFails(w)

Recover(w) == RecoverReady(w) \/ RecoverUnknown(w) \/ RecoverSettled(w)

UserStep(u) ==
  \/ BeginDecide(u)
  \/ DecideRefused(u)
  \/ DecideTooLate(u)
  \/ \E v \in Verdicts : Decide(u, v)

Sweep == SweepProbe \/ SweepExpires \/ SweepSkips

Relay == RelayPublish \/ RelayCommit

Next ==
  \/ \E w \in Workers : TaskStep(w) \/ Resume(w) \/ Recover(w) \/ Crash(w)
  \/ \E u \in Approvers : UserStep(u)
  \/ Sweep
  \/ Relay
  \/ CancelImmediate
  \/ CancelCooperative
  \/ ExpiryPasses
  \/ LeaseLapses

Spec == Init /\ [][Next]_vars

\* The outbox process sweeps, relays and scans for recovery in every iteration,
\* the broker delivers, tasks that are not killed go on, and time passes.  A
\* sweep that finds the row locked tries again, and is not unlucky for ever.
\* Nothing is assumed of users.
Fairness ==
  /\ WF_vars(SweepProbe)
  /\ SF_vars(SweepExpires)
  /\ WF_vars(SweepSkips)
  /\ WF_vars(RelayPublish)
  /\ WF_vars(RelayCommit)
  /\ WF_vars(ExpiryPasses)
  /\ WF_vars(LeaseLapses)
  /\ WF_vars(\E w \in Workers : Resume(w))
  /\ WF_vars(\E w \in Workers : Recover(w))
  /\ \A w \in Workers : WF_vars(TaskStep(w))

FairSpec == Spec /\ Fairness

-----------------------------------------------------------------------------
(* Properties.                                                             *)

\* What decision_mode asks of the decision rows.
EnoughApproved(d) ==
  /\ Mode = "ANY" => Count(d, "APPROVE") >= 1
  /\ Mode # "ANY" => Count(d, "APPROVE") >= Required
  /\ Mode = "ALL" => Count(d, "REJECT") = 0

\* A tools/call that requires approval leaves only after enough distinct users
\* approved it, and under ALL none rejected it: no stale decision, duplicate
\* resume, recovery or crash gets a call past _final_pre_send_gate without them.
CallNeedsApproval == sends > 0 => EnoughApproved(decisions)

\* Execution and Step wait together, hold no lease meanwhile, and wait for a
\* request that is still open or already approved; an open request always has
\* its wait.  The corruption branches of _prepare, reuse_pending and
\* enter_for_tool_step are never taken.
WaitIsConsistent ==
  /\ status = "WAITING_APPROVAL" <=> step = "WAITING_APPROVAL"
  /\ Waiting => leaseToken = 0 /\ reqStatus \in {"PENDING", "APPROVED"}
  /\ reqStatus = "PENDING" => Waiting

\* A Step asks for approval once: after the resume claim, and after a recovery
\* in between, Phase A finds the approval and does not ask again.
OneRequest == requests <= 1

\* One approval is good for one call: redelivered resume messages, crashes and
\* recovery never send the request again.
OneCallPerApproval == sends <= requests

\* A ToolCall in flight has an owner or an expired lease for recovery to find.
\* The exception is the call whose approval a late decision expired behind its
\* back: _terminalize_expired clears the lease and looks at no ToolCall.
NoOrphanedCall ==
  call = "STARTED" =>
    \/ status \in {"RUNNING", "CANCEL_REQUESTED"} /\ leaseToken # 0
    \/ status = "FAILED" /\ reqStatus = "EXPIRED"

RefusalKept ==
  reqStatus \in Refused => reqStatus' \in Refused /\ (call = "NONE" => call' = "NONE")

\* A rejected, expired or cancelled approval is never revived and starts no
\* call, whatever decision or resume message is still under way.
RefusalIsFinal == [][RefusalKept]_vars

DecisionKept == (reqStatus \in Refused \union {"APPROVED"}) => reqStatus' = reqStatus

\* The outcome of an ApprovalRequest is final: decide, the sweep and
\* cancellation act only on a request that is still PENDING.
DecisionFinal == [][DecisionKept]_vars

\* What a stale read can still do to a resolved request.
OnlyRefusedLater ==
  reqStatus \in Refused \union {"APPROVED"} =>
    \/ reqStatus' = reqStatus
    \/ /\ status' = "FAILED"
       /\ \/ reqStatus' = "EXPIRED" /\ \E u \in Approvers : reading[u] = "late"
          \/ reqStatus' = "EXPIRED" /\ sweep = "locking" /\ Waiting
          \/ reqStatus' = "REJECTED" /\ reqStatus = "APPROVED" /\ Mode = "ALL" /\ Waiting

\* A resolved request changes, if at all, into a refusal that fails the
\* Execution: by a decider who read it PENDING when it was overdue or, while the
\* Execution still waits, by the sweep or by a rejection under ALL.
DecisionOnlyHardens == [][OnlyRefusedLater]_vars

\* Every wait ends in a terminal Execution: by approval, resume and the call,
\* by rejection, by expiry or by cancellation.
WaitSettles == Waiting ~> status \in TerminalExecution

-----------------------------------------------------------------------------
(* The inductive invariant behind the safety properties.                   *)

\* An approval stands on its decision rows, and its resume event exists.
EvidenceInv ==
  /\ reqStatus = "APPROVED" => EnoughApproved(decisions) /\ resume # "NONE"
  /\ CallNeedsApproval

\* The request's status and the Execution's move together.
RequestInv ==
  /\ requests = 0 => reqStatus = "NONE"
  /\ status \in {"RUNNING", "CANCEL_REQUESTED"} => reqStatus \in {"NONE", "APPROVED"}
  /\ reqStatus = "NONE" => requests = 0 /\ resume = "NONE"
  /\ resume # "NONE" => reqStatus # "PENDING"
  /\ \A u \in Approvers : reading[u] # "no" => reqStatus # "NONE"

\* A task between the commit of its STARTED ToolCall and Phase C.
InTransit(w) == pc[w] \in {"gate", "remote", "refused"}

\* Nothing is prepared or sent before Phase A passes the approval.
CallInv ==
  /\ step \in {"READY", "WAITING_APPROVAL"} => call = "NONE" /\ sends = 0
  /\ step = "RUNNING" => call = "STARTED"
  /\ status = "CANCEL_REQUESTED" => step = "RUNNING"
  /\ status = "RUNNING" /\ call = "STARTED" => step = "RUNNING"
  /\ sends <= requests
  /\ \A w \in Workers : InTransit(w) => call # "NONE"
  /\ \A v, w \in Workers : InTransit(v) /\ InTransit(w) => v = w
  /\ \A w \in Workers : pc[w] = "gate" => sends = 0
  /\ \A w \in Workers : pc[w] \in {"succeeded", "stopped"} => step \in CallTerminal

\* A lease belongs to one task, which is where the Step is.
LeaseInv ==
  /\ leaseToken < nextToken
  /\ leaseToken # 0 => status \in {"RUNNING", "CANCEL_REQUESTED"}
  /\ \A w \in Workers : pc[w] # "idle" => held[w] # 0 /\ held[w] < nextToken
  /\ \A v, w \in Workers : v # w /\ pc[v] # "idle" /\ pc[w] # "idle" => held[v] # held[w]
  /\ \A w \in Workers : InTransit(w) /\ held[w] = leaseToken => step = "RUNNING"

\* A call in flight rests on its approval, and keeps its Step RUNNING and its
\* lease as long as nobody expires that.
OrphanInv ==
  /\ NoOrphanedCall
  /\ call = "STARTED" => reqStatus \in {"APPROVED", "EXPIRED"}
  /\ call = "STARTED" /\ reqStatus = "APPROVED" => step = "RUNNING"

Invariant ==
  /\ TypeOK
  /\ WaitIsConsistent
  /\ OneRequest
  /\ EvidenceInv
  /\ RequestInv
  /\ CallInv
  /\ LeaseInv
  /\ OrphanInv
=============================================================================
