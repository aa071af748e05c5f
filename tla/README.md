# A TLA+ verification of MCPFlow

MCPFlow lets a user (or an agent, a workflow or a schedule) run tools of MCP
servers. What makes it hard is that a tool call may have a side effect that
cannot be repeated and cannot be observed: the backend must drive it through a
database, an outbox, a Redis/Celery broker, worker processes that die, leases
that lapse and users who cancel, and must still say truthfully what happened.
Around this core are subsystems of the same kind: workflows of many Steps,
loops, waits for approval and for input, schedules, the planning of a request by
language models, a factory that turns OpenAPI documents into MCP servers, and
the registry with its search index. This directory models them in TLA+, checks
them with TLC and proves the guarantees of the core with TLAPS.

Paths below are relative to `src/backend/app` unless they start with `docs/`.

## 1. Inventory

### Components, their state and their operations

| Component | State | Operations | What makes it correct |
|---|---|---|---|
| Claim and lease (`execution/claim.py`) | `Execution.status, lease_token, lease_expires_at` | claim QUEUED, renew, fence | one owner at a time; a terminal row is never claimed |
| Dispatch queue, outbox relay (`execution/queue.py`, `repositories/outbox.py`, `entrypoints/outbox.py`) | `OutboxEvent.published_at`, messages in Redis | stage CREATED to QUEUED, publish, commit | delivered at least once; a duplicate is harmless |
| Tool runner (`execution/tool_runner.py`, `tool_step_attempt.py`, `retry_decision.py`) | `ExecutionStep`, `StepAttempt`, `ToolCall`; the task's local outcome | Phase A prepare, Phase B final gate and `tools/call`, Phase C finalize, inline retry | an unsafe call leaves at most once; a lost answer is UNKNOWN_OUTCOME; late results are dropped |
| Orchestrator (`execution/orchestrator.py`, `dag.py`, `completion.py`) | statuses of all Steps of a Plan | prepare wave, run it, settle, complete | limits and dependencies hold; settlement agrees with the Steps |
| Loops (`execution/loop_*.py`) | LOOP rows, control evidence, iteration rows | start, gate, materialize, advance, time out, end | limits hold; recovery accepts every state the code leaves |
| Lease recovery (`execution/recovery.py`, `workflow_dag_recovery.py`, `loop_recovery.py`) | none of its own | scan, publish, recover one Execution | every abandoned Execution ends or continues; a sent unsafe call is never repeated |
| Cancellation (`execution/cancellation.py`, `services/execution_cancellation.py`) | `cancel_requested_at` | immediate and cooperative cancel, settlement | nothing starts after it; it hides no ambiguous call; it is settled at last |
| Approval waits (`approval/*`, `execution/approval_resume.py`) | `ApprovalRequest`, `ApprovalDecision`, WAITING_APPROVAL | enter wait, decide, expire, cancel, resume | an approval is used once, and only what was approved runs |
| MRTR input waits (`execution/mrtr_*.py`) | `MCPInputRequest`, WAITING_INPUT | open, answer, reject, resume, replay | one answer continues one round of one Attempt |
| Scheduler (`scheduler/*`, `services/schedule*.py`) | `Schedule`, `ScheduleOccurrence` | activate, pause, edit, trigger; collect due points, misfire, overlap, fire, reconcile | a due point is settled once; overlap policies hold; a held occurrence is released |
| Agent planning, requests, clarification (`agent/*`, `services/agent_request.py`, `clarification_response.py`) | `AgentRequest.status`, evidence rows, `ClarificationRequest` | analyze, select, build, generate, validate, answer | evidence of overlapping calls is not mixed; a wait can be answered |
| Agent schedule planner (`services/agent_schedule_execution.py`) | leased planner outbox row | claim, drive the stages, materialize, fail, exhaust | every occurrence is settled |
| Execution creation (`services/*_creation.py`, `repositories/idempotency.py`) | idempotency rows, new Executions | preflight, create, replay | one Execution per key, only of what was confirmed |
| Tool factory (`services/factory*.py`, `factory/*`) | Job, Build, Package, TestRun, Review, objects | upload, claim, analyze, package, test, review, publish, recover | only a sound, tested and approved package is imported |
| MCP servers, Tools, discovery (`services/mcp_*.py`) | `MCPServer.transport_config`, `MCPTool`, versions, RuntimeBinding | configure, test, discover, apply, activate | an imported server is activated only after its test and reconciliation |
| Tool embedding (`search/tool_embedding*.py`) | embedding rows and profiles | ensure, embed, mark stale, recover | search ranks no outdated row; what is missing is made good |
| MCP client (`mcp/*`) | none | classify a failure as known or unknown | post-send failures stay ambiguous |
| Predicates and bindings, events, identity, API, audit, model provider, frontend | rows, or none | pure evaluation, appending, CRUD, I/O | not modelled, section 7 |

### How they interact

The API, the scheduler or the planner writes an Execution (CREATED) with its
Steps. The outbox process stages it (QUEUED and an `EXECUTION_DISPATCH` event in
one transaction), sends the message and commits `published_at`. A Celery task
claims the row, gets a fresh `lease_token`, and drives waves of Steps; a
heartbeat renews the lease. For every TOOL Step the runner commits the Attempt
and the ToolCall as STARTED *before* anything is sent, revalidates in a second
transaction (the final gate), calls the server outside any transaction, and
records the result in a third one. A Step that needs approval, or whose server
answers `input_required`, drops the lease and waits; the transaction with the
decision or the answer writes a resume event, and the task that receives it
claims the row with a new lease. Every iteration of the outbox process also
scans for expired leases and sweeps approvals. Users cancel at any time. All of
them lock the Execution row.

The scheduler reads and locks the Executions of earlier Occurrences before it
creates the next one; staging and claiming move an Occurrence together with its
Execution. The planner of agent schedules drives the stages a user drives through
the API. Factory jobs, test runs and embeddings have leases or messages of their
own, and a recovery scan each. A published package becomes an MCP server of the
registry, and a discovery of it creates the Tools that planning selects.

### What is hard

 - the gaps between transactions: a worker may die, lose its lease, or be
   overtaken by recovery or a cancellation in each of them;
 - all task slots of a host report one `worker_id`, so the token alone fences;
 - a message may be delivered any number of times, at any later moment;
 - `FOR UPDATE` without `populate_existing` does not refresh an object the
   session has already loaded: a check "under the lock" may look at an old row;
 - several paths (inline retry, recovery of a RUNNING Step, takeover of a READY
   one, resume claims) decide whether another call is allowed;
 - siblings of a wave fail, wait and are cancelled at the same time;
 - a waiting Execution has no owner and no lease for a scan to find;
 - stages of planning, tests and discoveries hold no lock while a model or a
   server answers, and write what they decided from an older read;
 - bytes in the object store do not take part in transactions.

`PROJECT.json` lists these as hazards, each with its line and the properties
that would catch it.

## 2. Modules

A transaction of the code is one action wherever it locks what it reads; where
it reads first and locks later, the read is an action of its own. Data is
abstracted to what decides control. What other people may change at any moment
is an action of the environment or a free choice between passing and refusing.

| Module | Models | Instance, proofs |
|---|---|---|
| `ToolExecution` | one Execution with one TOOL Step: outbox, claim, lease, runner phases, settlement, recovery, cancellation | `MCToolExecution`, `ToolExecutionProofs` |
| `InvocationContract` | abstract: what is promised about the remote invocations of one Step | `ToolExecutionProofs` |
| `ApprovalWait` | one TOOL Step that needs approval: wait, decisions, expiry, resume, cancellation, recovery | `MCApprovalWait`, `ApprovalWaitProofs` |
| `InputWait` | one TOOL Step whose server asks for input: rounds, answers, resume, replay, retries, cancellation, recovery | `MCInputWait`, `InputWaitProofs` |
| `WaveExecution` | a Workflow Execution: DAG waves, JOIN, CONDITION, APPROVAL, error policies, completion, cancellation, whole-DAG recovery | `MCWaveExecution`, `OrchestratorProofs` |
| `LoopRuntime` | FOR_EACH and WHILE Steps, their iterations, limits, timeouts and checkpoints | `MCLoopRuntime`, `OrchestratorProofs` |
| `Scheduler` | one Schedule: recurrence over zone changes, misfire and overlap policies, API edits, the rows shared with workers | `MCScheduler`, `SchedulerProofs` |
| `AgentPlanning` | one AgentRequest: stages, clarifications, Execution creation, the planner of agent schedules | `MCAgentPlanning`, `AgentPlanningProofs` |
| `ToolFactory` | one OpenAPI document from upload to publication | `MCToolFactory`, `ToolFactoryProofs` |
| `ToolRegistry` | one MCP server with one Tool and its embeddings | `MCToolRegistry`, `ToolRegistryProofs` |

The `MC...` modules only give constants their values.

### ToolExecution

The variables are the columns named next to their declarations, plus what lives
outside the database: the outbox row and the broker's messages, each task's
program counter and local values (`pc, held, cur, out`), and the ground truth
about the server (`sends`: requests put on the wire, `answered`: answers that
came back, `dropped`: requests whose connection the peer closed without one), which the code cannot see and the properties are about.

| Actions | Code |
|---|---|
| `Stage`, `RelayPublish`, `RelayCommit` | `stage_queued_batch`, and the relay's send-then-commit; a crash between the two is the case in which only `RelayPublish` happened |
| `Claim`, `Renew` | `ExecutionClaimService.claim` on a message that stays deliverable; `renew_lease`, RUNNING rows only |
| `WaveStops`, `WaveReserves` | `_prepare_wave`: PENDING to READY under the fence, or leave |
| `PrepareStale`, `PrepareTimeout`, `PrepareRefused`, `PreparePreSendFails`, `PrepareStarts` | Phase A, one action for each way out |
| `SecretsFail`, `GateStale`, `GateCancels`, `GateDrifts`, `GatePasses` | the gap before and the transaction of the final gate |
| `Send`, `ConnectFails`, `RemoteEnds` | `tools/call` outside any transaction, with every error class of `mcp/current.py` |
| `FinalizeStale`, `FinalizeRetries`, `FinalizeTerminal` | Phase C: drop, inline retry, or terminal rows, with the reconciliation of a pending cancellation |
| `SettleStops`, `SettleFenced`, `SettleSucceeds` | `_settle_wave` and completion |
| `CancelImmediate`, `CancelCooperative` | user cancellation without and with an in-flight call |
| `PublishRecovery`, `Recover...` | the two scans of `recovery.py` and each decision of one recovery |
| `Tick`, `Crash` | the clock and the death of a task (external) |

A call's outcome is a class, inputs and outputs are gone, and the preflight
checks that read configuration other transactions may change at any moment (tool
status, policy, authorization) are a free choice between passing and refusing.
The recovery decision `RESUME_ATTEMPT` (an Attempt without a ToolCall) has no
action: Phase A commits both rows in one transaction, so no state of this model
has it. `Tick` is enabled while the lease has time left. It models both a dead
owner and a live owner that did not renew; the latter is counted with crashes in
`faults`.

### InvocationContract

Kind, limit and the variables `issued, sent, answered, dropped, verdict`, and no workers:
an unsafe Step is issued once; SUCCEEDED needs an answer; an unsafe Step gets a known
verdict only when every sent request was answered or, for FAILED, its connection was
closed by the peer; after a known verdict nothing leaves.
`ToolExecution!ImplementsContract` is the refinement under the mapping
`issued <- attemptCount`, `sent <- {n : sends[n] > 0}`, `verdict <- step` (OPEN while the
Step is not terminal).

### ApprovalWait

It starts where Phase A starts: a claimed Execution with a READY Step of an
unsafe risk class, hence with one Attempt. Retries, the gap between gate and
network, and dispatch are `ToolExecution`'s subject; here they are reduced to
the actions that can meet an approval. Phase A's own repetition of the gate's
checks is not told apart from the gate (`GateDrifts`).

| Actions | Code |
|---|---|
| `PrepareWaits` | `enter_for_tool_step`: the request, both rows WAITING_APPROVAL, the lease dropped, in one transaction |
| `PrepareStarts`, `PrepareRefused`, `PrepareStale` | Phase A with an approval, with drifted policy or context, fenced out or finding a wait |
| `BeginDecide` | `decide` up to its first, unlocked read of the request |
| `Decide`, `DecideTooLate`, `DecideRefused` | the rest of `decide` under the locks: decision row, aggregate and consequence; expiry; any refusal |
| `SweepProbe`, `SweepExpires`, `SweepSkips` | `expire_due_batch`: probe, then locks with SKIP LOCKED |
| `RelayPublish`, `RelayCommit` | the resume event through the outbox; a sent message stays deliverable |
| `ResumeClaim`, `ResumeFails` | the resume claim with a fresh lease, and its failed preflight |
| `Gate...`, `Finalize...`, `Settle...`, `Recover...`, `Cancel...`, `Crash`, `LeaseLapses` | as in `ToolExecution`, for the single call |

`AggregateDecision` is `aggregate_decision`, over the decision rows of a set of
users. Users without permission, wrong scope, self-approval and a second
decision are the refusals of `DecideRefused`.

Other transactions commit between the first read of a request (`BeginDecide`,
`SweepProbe`) and the row locks, and the status that is checked afterwards is the
one read first: `lock_for_update` does not refresh an object the session already
holds. A decider therefore goes on from the status of `BeginDecide`, and every
property and theorem of the module is about that system.

### InputWait

One TOOL Step whose server may answer `tools/call` with `input_required`, up to
`MaxRounds` times in one Attempt. Each round has its ToolCall, its
`MCPInputRequest` and its resume message; `sent` is the ground truth of the
requests put on the wire, each with the answer it carried.

| Actions | Code |
|---|---|
| `Prepare...`, `Gate...` | Phase A of a first call (`tool_runner.py`) and of a replay with the stored answer (`mrtr_resume.py`), and the final gate of both |
| `InputOpens`, `InputRefused`, `InputCancelled`, `InputTooLate` | `mrtr_wait.py`: the ToolCall ends as one round, the request is OPEN and the Execution WAITING_INPUT without a lease; or no wait is possible |
| `Answer`, `Reject` | `mrtr_response.py`, `mrtr_reject.py` under the row locks; an answer writes the resume event |
| `RelayPublish`, `RelayCommit`, `ResumeClaim`, `ResumeFails` | the message, delivered any number of times, and the claim with its preflight |
| `Finalize...`, `Settle...` | Phase C with the inline retry, which starts a new Attempt without rounds; settlement |
| `Cancel...`, `Recover...`, `BudgetRunsOut`, `PolicyDrifts`, `LeaseLapses`, `Crash` | cancellation in and out of the wait, recovery of an expired lease, and the environment |

### WaveExecution

Steps of a Plan with their type, dependencies, `when` gate, error policy,
approval and safety; per Step its status and Attempts, per task its place in the
wave and what `gather` returned. The transitions of single calls are those of
`ToolExecution` reduced to what a sibling can see.

A Plan is any sequence of `PlanStep` records that `ValidDag` accepts. Local
reconciliation repeats the six passes of the code (`ReconcileRound`), each over
every Step in scheduling order (`PassOver`, `LocalWork`): the code goes on while
something changes, and as many rounds as Steps reach the same fixed point,
because each round but the last ends a Step.

| Actions | Code |
|---|---|
| `WaveClaim` | the claim, with roots READY |
| `PrepareReturns`, `PrepareCancels`, `PrepareStops`, `PrepareReserves` | `_prepare_wave`: the fixed point `LocalReconcile` over gates, CONDITION, JOIN and APPROVAL Steps, then the reservation of at most `maxParallelism` TOOLs |
| `RunNoop`, `RunCancelled`, `RunWaits`, `RunFails`, `RunStarts` | Phase A of one sibling |
| `CallFenced`, `GateCancelsCall`, `CallRetries`, `CallEnds` | gate, call and Phase C of one sibling |
| `Gathered`, `WaveStops`, `WaveCancelled`, `WaveStale`, `WaveSettles`, `Finalizes` | `gather`, `_settle_wave`, `_finalize_natural_end` with `completion.py` |
| `WaveCancel`, `Approve`, `Refuse`, `Resume` | cancellation of a wave; the decision of an APPROVAL Step or of a TOOL's approval, and the resume claim |
| `LeaseLapses`, `TaskDies` | the environment |
| `RecoverCancelled`, `RecoverFatal`, `RecoverExhausted`, `RecoverTakesOver` | `workflow_dag_recovery.py`: all Steps classified, then one decision |

### LoopRuntime

FOR_EACH and WHILE Steps beside each other, with the rows they reserve out of
`max_steps`. `LoopPrepare` is one pass of `loop_reconcile.py` (gate, start,
materialize an iteration, advance, end), `StartKid` and `EndKid` are a body
TOOL's run, `LoopSettle` the settlement, `LoopTimeout`, `LoopCancel`,
`LoopCrash` and `LoopLeaseExpires` what may happen between, and `LoopRecover`
the recovery, which first asserts the checkpoints of
`loop_recovery.py`. Those checkpoints are the property `CheckpointsHold`: every
state the runtime leaves must be one its own recovery accepts.

### Scheduler

The clock runs over `0..Horizon`, points and the calendar over `0..ZoneEnd`; `Zone` maps a moment to the clock on the wall and may skip
hours and show them twice. `NextScheduledAt` and `CollectDuePoints` are `recurrence.py`, compared
with a direct definition of the points of a rule (`NextIsLeastPoint`). `MaxCatchUp = 0`
catches up one point, as `max(1, max_catch_up)` does.

| Actions | Code |
|---|---|
| `Activate`, `Pause`, `ResumeSchedule`, `EditSchedule`, `TriggerNow` | `services/schedule*.py` |
| `BeginIteration`, `CommitIteration` | one iteration of `scheduler/runtime.py`, in two moments because it reads the Executions of earlier Occurrences and then waits for their locks: collect due points, misfire policy, overlap policy, fire, project |
| `LockExecution`, `LockOccurrence`, `ExecutionMoves` | the transactions of queue, claim and settlement that lock the same rows in the other order |
| `WorkerIsVictim`, `SchedulerDies`, `SchedulerRestarts`, `Tick` | the database's choice in a deadlock, crashes, the clock |

### AgentPlanning

One AgentRequest. A stage (analyze, select, build, generate, validate) is a read,
a model's answer and a compare-and-set commit, by any of the processes that run
it at the same time, with the evidence it wrote. A selection may map entities to
inputs the request lacks, to all of them or to some, and writes that mapping back with its decision
(`Aligned`, `Lacks`, `Persist`). An AppError of a stage (`Failure`) ends the planner's
attempt and its occurrence, a provider's error (`Outage`) leaves both to the next attempt. `StartAnswer` and `FinishAnswer` are the answer to any of the three kinds of
clarifications, `StartCreate` and `FinishCreate` the Execution with its confirmation, policy preflight
and idempotency key. `ClaimPlan, SkipPlan, RefusePlan, BeginPlan, LosePlan,
FinishPlan, FailPlan, ExhaustPlan` are the planner of agent schedules, which
drives the same stages from a session that keeps the row as it was loaded.
`AdminEdit` changes policy or Tool on the way; `LeaseLapses` and `Crash` are the
environment.

### ToolFactory

One document from upload to publication. What is put into the object store and
what is committed are different actions (`CreateJobPut`, `CreateJobCommit`,
`CreateJobLose`; `GeneratePut`, `GenerateCommit`, `GenerateFail`, `CleanupLook`, `CleanupDelete`), as
are the checks and the commit of a publication (`PublishCheck`,
`PublishCommit`). Workers run `Claim, Skip, Load, LeaseLost, Analyze,
SandboxTest`; API callers run `MaterializeCandidates, CreateBuild,
CreateTestRun, CreateReview`; the outbox runs `Relay` and `Recover`. Messages
are lost, leases lapse, workers and callers die.

### ToolRegistry

One server and one Tool. An administrator's request loads the server, talks to it
and writes what it decided from what it loaded (`AdminStep`: tests, discoveries,
applies, activations, and edits of the RuntimeBinding, which invalidate the server's
evidence as far as they saw it). `ConfigStep` are edits of server, Tool and profile;
`IndexStep` are the embedding workers (`EnsureBegin`, the provider's call, `EnsureEnd`
under the locks); `DispatchStep` are relay, lost messages and recovery. The scenarios of
`MCToolRegistry` say who is at work and which edits happen.

A ToolVersion is its content hash. The imported version and the reviewed contract that the
runtime route serves have the same schemas and different hashes: a reconciliation compares
schemas (`Clean`), an apply looks versions up by hash (`MatchedTool`), so the first
CLEAN apply replaces the imported version. One version has schemas that do not validate,
and is never indexed. Messages of a killed worker are delivered again (`task_acks_late`,
`task_reject_on_worker_lost`); one whose task ends with an exception is gone (`EnsureRaises`).

## 3. Runs

| Run | Instance | Checks |
|---|---|---|
| `tool` | a read-only and a non-idempotent call, each source, all outcomes, fairness | `UnsafeSentAtMostOnce`, `AmbiguityKept`, `UnknownNeverHidden`, `CancelledMeansQuiet`, `OwnerEvidenceIntact`, `ImplementsContract`, `EventuallyTerminal` |
| `approval_quorum` | QUORUM 2 of 3 users, stale reads, one fault, fairness | `CallNeedsApproval`, `OneCallPerApproval`, `RefusalIsFinal`, `WaitSettles` |
| `input` | two rounds, two Attempts, one fault, fairness | `WaitIsBacked`, `AnswerSentOnce`, `InputSettles` |
| `wave` | eleven small Plans, two of them refused, two tasks, one fault, fairness | `ParallelismBounded`, `StartedAfterDependencies`, `UnsafeStartsOnce`, `WaitIsQuiet`, `SuccessIsComplete`, `StepsAreFinal`, `ExecutionEnds` |
| `loop` | seven Plans, two faults, fairness | `CheckpointsHold`, `StepBudget`, `EndedLoopIsQuiet`, `LoopsEnd` |
| `schedule` | six rules, two clock changes, three policies, fairness | `NextIsLeastPoint`, `PointsAccounted`, `OutcomeAgrees`, `CreatedAlone`, `HeldIsReleased` |
| `planning` | user requests and agent schedules, two processes, fairness | `ReadyIsBacked`, `WaitingIsAnswerable`, `ExecutionConfirmed`, `PlanSettles` |
| `factory` | two workers, two callers, fairness | `PublishedIsBacked`, `FinishedIsComplete`, `FactorySettles` |
| `registry` | five scenarios, fairness | `SearchIsCurrent`, `ActivationIsEarned`, `IndexSettles` |
| `tool_dropped_connection`, `approval_stale_decision`, `wave_fail_fast` | expected violations | see Findings |

Each property is stated in words above its definition, with the behaviour of the
code it is about.

**Bounds.** Two workers or tasks: the fence relates an owner and one stale task,
and the proofs (section 5) show that no third one
matters there. `MaxAttempts = 2`: an inline or recovery retry happens, and the
limit is met. A lease of two ticks can be renewed in the middle. `MaxFaults = 2`
in `ToolExecution`: a crash of the owner and of the worker that took over, or a
crash and a lapsed lease; one fault already separates a resume claim or a
takeover from the task before it. Messages are sets whose members can be
delivered again at any time, so duplicates are unbounded; where the broker may
lose them (`factory`), `MaxMsgs = 2` are under way at once. Three users with two
required approvals are the least with which approvals and rejections can both be
short of a quorum, and with which one decision is superfluous. Two rounds of
input are the least with which a message of an earlier round can arrive in a
later one. `Horizon = 5` (with points up to `ZoneEnd = 9`) covers a skipped and two repeated
hours and more due points than `MaxCatchUp` and `DueScanLimit` admit.
`MaxClars = 3` allows one question of each kind. `factory` also passes with three
faults (906,000 states). Symmetry is used only in runs without liveness.

**Deadlock** checking is off: a terminal Execution, request or job whose messages
were consumed has nothing left to do.

**Fairness.** Weak fairness of staging, relay and recovery scans (one polling loop
of the outbox process), of the clock, of *some* worker taking a message, and of
each task's own next step: every wait in a task ends, because connect, read and
Step timeouts are always set. Nothing is assumed about users, heartbeats or
crashes; crashes are finitely many by the bound. Where the modules differ:

 - in `ToolExecution`, `ApprovalWait`, `InputWait` and `WaveExecution` the broker
   does not lose messages it has acknowledged: nothing in the code would notice
   (a hazard). In `ToolFactory` and `ToolRegistry` it does, and recovery repairs it;
 - `ApprovalWait` has the passing of `expires_at`, and strong fairness of the
   sweep: `SKIP LOCKED` may pass a row over while someone holds it, but
   decisions hold it briefly and the sweep comes back. `WaveExecution` reduces
   this to weak fairness of `Refuse`, the end of an approval that nobody gives;
 - `Scheduler` assumes that an iteration which can have its locks again and again
   commits in the end, and that an Execution ends again and again if it can:
   strong fairness, because both wait for row locks that others hold for the
   length of a transaction. A deadlock is broken by the database;
 - in `AgentPlanning` only the planner's stages are fair; a user may stop calling;
 - in `InputWait` a user may never answer, so only an answered wait must end;
 - `ToolRegistry` assumes the provider answers, not that it succeeds: recovery asks
   again, and `IndexSettles` is about what happens once edits and faults are over. One
   Tool is followed; that the scan reaches it assumes that older Tools which fail
   again and again do not fill every batch (`limit` of `list_missing_or_stale_for_profile`).

## 4. Findings

 - `tool_dropped_connection`: a peer that closes the connection after the request
   was dispatched (`httpx.RemoteProtocolError`) is neither a timeout nor a network
   error to `_map_transport_error`, whose last return says `outcome_unknown=False`
   (`mcp/current.py:184`). Phase C records the unsafe call as FAILED, a known
   outcome, while nobody knows whether the server carried it out. The docstring
   at line 126 says that post-send failures stay conservative, and
   docs/02-functional-specification.md:671 that an unknown outcome of a
   non-idempotent call is UNKNOWN_OUTCOME: `AmbiguityPreserved` does not hold.
   What does hold is `AmbiguityKept`: this is the only way to lose the ambiguity.
   Nothing else does, neither crash nor recovery, cancellation or a stale task.
 - `wave_fail_fast`: Phase C commits the failure of a Step whose policy is
   FAIL_EXECUTION and leaves the Execution to `_settle_wave`
   (`execution/orchestrator.py:2816`), which decides from the outcomes the running
   task holds. If the worker dies in between, recovery classifies the failed
   Step as TERMINAL_OK (`execution/workflow_dag_recovery.py:491`) and takes the
   Execution over; the next wave finds nothing to run and PENDING Steps that keep
   the Execution from ending, the lease expires, and it is recovered again without
   end. docs/05-data-model.md:1380 says the Execution becomes FAILED.
 - `approval_stale_decision`: a `decide` call that had to wait for the row lock
   still sees the request as it was before (`approval/decision.py:226`), and its
   expiry branch comes before the check that Execution and Step still wait. An
   APPROVED or CANCELLED request turns EXPIRED and the Execution FAILED; if its
   call had started, the call is left STARTED without a lease, where no recovery
   scan finds it. Safety of the call itself survives: the runs with stale reads
   show that no refused request is revived and none is used twice.

Further facts met while modelling. A name in parentheses is the definition that
states what one would expect and that TLC refutes under the module's instance;
no run keeps it.

*Execution core*

 - the stop branch of `_settle_wave` (`execution/orchestrator.py:2816`) looks at
   neither lease nor status and may write FAILED over a CANCELLED that a user was
   already told (`TerminalStatusFinal`);
 - the immediate branch of `apply_cancellation_locked` (`execution/cancellation.py:387`)
   ends an Execution as CANCELLED over a Step that is settled as UNKNOWN_OUTCOME,
   which the comment at line 445 rules out for the other branch (`CancellationHidesNothing`);
 - a root TOOL whose `when` is false is executed, because the claim makes roots
   READY before gates are evaluated (`execution/claim.py:310`, `dag.py:620`);
 - a READY TOOL with Attempts stays READY when the Execution stops, and recovery
   that finds attempts exhausted leaves siblings RUNNING;
 - an Agent schedule's Execution that died at a clean READY checkpoint is failed
   by recovery (`execution/recovery.py:934`) although the scan includes that source;
 - a manual tool test whose tool needs approval waits like any other, but the
   resume claim refuses its source (`execution/approval_resume.py:455`);
 - a WHILE takes rows a RUNNING FOR_EACH has reserved
   (`execution/loop_reconcile.py:668`), after which materializing the next
   iteration raises, again in every recovery (`ReservationsValid`, with `TightPlans`).

*Input waits*

 - a round-1 resume message that is delivered again after round 2 was answered
   fails the Execution (`execution/mrtr_resume.py:157`), while the task's docstring
   calls a duplicate a no-op (`DuplicateIsNoOp`);
 - an overdue OPEN request can no longer be answered and is not swept either, so
   only a cancellation ends it (`OverdueWaitEnds`; docs/04-agent-mcp-architecture.md:1788);
 - a crash after the resume claim always ends in FAIL_INCONSISTENT
   (`execution/recovery.py:702`): the answer is not used again; a failed
   precondition of a resume leaves the Attempt STARTED; a retry after rounds starts
   a new Attempt and asks the user again.

*Scheduler*

 - REPLACE cancels from what was read before the lock and may overwrite an
   Execution that SUCCEEDED meanwhile (`scheduler/runtime.py:633`; `EndedStaysEnded`);
 - it locks Occurrence and Execution in the order opposite to `execution/queue.py`
   and `claim.py`, so one of them is a deadlock's victim now and then (`NoLockInversion`);
 - RUN_ONCE fires the latest missed point, docs/02 says the first; a released
   QUEUE occurrence keeps its OVERLAP_QUEUE reason and may be SKIPPED after an edit of
   the policy although its Execution exists; a point polled after a later manual
   trigger may overlap it; `resume` of an exhausted schedule leaves it ACTIVE without
   a next point; `activate` drops overdue points, `resume` keeps them.

*Planning*

 - a planner whose lease was taken over misses its compare-and-set and then reports a
   failure that its own stale row lets pass
   (`services/agent_schedule_execution.py:1030`, `:1103`): the occurrence is
   FAILED although the other planner creates its Execution (`FailedHasNoExecution`);
 - WAITING_INPUT of the analyzer has no ClarificationRequest, so it is a dead end
   that only a new request leaves; a crash within ANALYZING or SELECTING strands a
   user's request; different idempotency keys create several Executions of one
   READY request.

*Factory and registry*

 - a worker whose session loaded the job before it was taken over finishes it a
   second time (`services/factory_worker.py:179`; `FinishedOnce`); the bytes of
   a package may be replaced between the check and the import
   (`services/factory.py:1566`, `:1857`);
 - `activate` reads, checks and writes without a lock, and late tests and discoveries
   write back fingerprints that an edit had cleared (`services/mcp_server.py:489`,
   `services/mcp_discovery.py:912`), so an imported server can be ACTIVE without a
   valid binding (`ActiveIsBound`); an edit of an ACTIVE server's endpoint leaves
   it ACTIVE and untested; applies out of order take a Tool back to an older version.

## 5. Proofs

Eight modules hold theorems. Each assumes what its component's module assumes of
its constants and nothing else; where a theorem needs more, its statement says
so. Sets of workers, tasks, users, callers and processes may have any size (finite
where they are counted), and bounds on faults, attempts, rounds and edits any
value, so what TLC shows on an instance the theorems show for all of them.
TLC found every one of these inductive invariants to hold on the instance of its run.

### ToolExecution

Any set of kinds of calls, each a known source with a known risk class; `MaxAttempts`
and `LeaseTicks` positive, `MaxFaults` natural.

`ToolExecutionProofs` proves `Spec => []Invariant` and from it each safety
property. None of the properties is inductive alone; `Invariant` adds:

 - `CountInv`: a READY Step always has an Attempt left, and an unsafe one has
   none behind it. This is how three retry paths share one limit that
   `ToolStepAttemptService.start` never looks at;
 - `SendInv`: two tasks in transit never carry the same Attempt, and an Attempt
   whose task has not reached the network is unsent. A stale task that sends
   late therefore still sends *its* call once;
 - `TokenInv`: tokens are fresh, so at most one task matches the row;
 - `LeaseDiscipline` and `CallInv`: a RUNNING Step stands on the STARTED rows of
   the newest Attempt, no other Attempt is STARTED, and the task whose token is
   on the row created them;
 - `OutcomeInv`: what a task carries tells the truth about its request;
 - `VerdictInv`: Step, ToolCalls and Execution agree.

Each action has one lemma per part it can disturb. Action properties
(`EvidenceImmutable`, `NoAttemptAfterCancel`, `TerminalNeverReopened`) follow
from the invariant step by step. `AmbiguityIsKept` says in its statement what a
dropped connection does, and excludes nothing. `ContractImplemented`, the refinement of
`InvocationContract`, has no further hypothesis either: the contract itself allows FAILED,
and no other known verdict, over requests that were answered or whose connection was closed.

### ApprovalWait

`ApprovalWaitProofs` does the same for `ApprovalWait`, for any finite set of
users, any set of workers, each decision mode and number of required approvals,
and (unless stated) with stale reads. Its `Invariant` adds to the properties:

 - `RequestInv`: an Execution that runs has no request or an APPROVED one, and a
   resume event exists only for a request that is no longer open. With
   `WaitIsConsistent` it is why Phase A never asks twice;
 - `EvidenceInv`: an APPROVED request stands on enough decision rows. The rows
   change only while the Step waits, when nothing was sent; that one more vote
   takes no approval away is a lemma about cardinalities;
 - `CallInv`: before Phase A passes nothing was sent, and at most one task is
   between its STARTED row and Phase C, so `sends <= requests`;
 - `LeaseInv`: the lease belongs to one task, the one of the RUNNING Step;
 - `OrphanInv`: a call in flight keeps its lease, unless a decision on a stale read
   expired its request and failed its Execution.

`CallsAreOwned` and `DecisionsOnlyHarden` say what stale reads leave of ownership and of
finality. `DecisionFinal` itself is what the violation run refutes, and is not proved.

### InputWait

`MaxRounds` and `MaxAttempts` positive. `InputInv` has the shape of the invariant of
`ApprovalWait`, with rounds in the place of requests:

 - `TokensFresh`, `SingleHolder`: tokens are handed out in order, so the lease is
   that of at most one running task;
 - `RowsAgree`, `TaskPlace`: Execution, Step, Attempt and ToolCall agree, and a
   task knows for ever that it has ended the Step, and while its token is on the
   row (expired or not) whether a call is in flight. The expired case matters:
   recovery decides on it;
 - `WaitShape`, `AnswerInHand`: only the last round of a waiting Step is open, and a
   Step that runs after a round has its answer;
 - `RequestsUsed`, `SendingsUsed`: rounds and Attempts are used in order, so what a
   task opens or sends next is new. `AnswerSentOnce` follows.

`EndedRowsAreFinal` is an action property: a Step that ended and a request that was
decided stay so.

### WaveExecution

Any Plan whose Steps have the schema's shape, any finite set of tasks. Several tasks may
believe that they drive the Execution; settlement and cancellation do not even
compare the lease. `WaveInv` says what the lease is worth all the same:

 - `CallsOwned`, `UnknownsOwned`: whoever holds it live knows, from its own wave
   alone, which calls are in flight and which outcomes are unknown. This is why a
   wave that found nothing fatal may complete the Execution, why a waiting TOOL
   leaves no sibling behind, and why no success hides an unknown outcome;
 - `TokensSound`: that task is the only one, and only an Execution that is driven
   has a lease;
 - `AskingAlone`: a TOOL that asks for an approval is alone in its wave;
 - `CallsMatch`, `AttemptsLeft`: RUNNING is a STARTED call, and every path that makes
   a Step READY again leaves it an Attempt, and an unsafe one none behind it;
 - `DepsHold`, `SlotsBounded`: a Step that is ahead of PENDING has its dependencies
   done; a TOOL that waits keeps its slot, or resuming it would exceed the limit;
 - `WaitsMatch`, `QueuedIsNew`: exactly the Execution that waits has a waiting Step;
 - `PlanSound`: Kahn's order of an accepted Plan names every Step.

The transactions that do not compare the lease can only end the Execution, and
every move of a Step is one of seven (`Moved`): most parts follow from these two
summaries. Order and reconciliation are recursive functions; that they exist and
keep a property is proved by induction up to a bound (`BoundedInduction`,
`IterationExists`), stated over sets instead of predicates. `TerminalStepsStay` is
the action property `StepsAreFinal`. The proofs are the first part of
`OrchestratorProofs`.

### LoopRuntime

The second part of `OrchestratorProofs`, which shares those lemmas about recursion.
`LoopPlansAssumption` is what the schema and `plan_validator.py:734` establish:
numbers are natural, the gate has one of its three outcomes, and `max_steps` has
room for the Plan's own Steps. Any number of LOOPs, iterations, body Steps and
crashes. `LoopInv` says of an Execution that is RUNNING:

 - `RowInv`: all iterations but the last have ended with a known outcome, a LOOP that
   is not RUNNING has no open child, and one that never started has none at all;
 - `WhileInv`: the gates a WHILE recorded keep step with its iterations, true up to
   the last one; success has one more, false, and exhaustion one more, true.
   `ForEachInv`: the iterations stay within the collection pinned at the start;
 - `Known`, while the task prepares or runs a wave: no child has an unknown outcome.
   It fails between the settlement that saw one and the stop, which is why it depends
   on the driver;
 - the rows never exceed `max_steps`.

The checkpoints that recovery asserts (`CheckpointsHold`) are weaker than `RowInv`
and not inductive: they do not say which iteration may be open. One pass of
`ReconcileLoops` is a recursive function over the LOOPs; `LoopSound` is carried from
one LOOP to the next by `BoundedInduction`, and `SoundBut` is what holds within a
LOOP's turn, when its own row is unfinished. The rows are a sum over LOOPs; that
changing one summand changes the sum by as much is a lemma, and `StepBudget` follows
because the children that are there are at most the rows reserved for them.
`EndedLoopsStayQuiet` is the action property `EndedLoopIsQuiet`.

### Scheduler

`SchedulerBounds`: any horizon, scan limit, grace, catch-up limit and number of
edits, any of the twelve pairs of policies. `RulesAssumption`: rules have the shape
`validate_schedule_expression` leaves, and manual triggers are on odd ticks, points of
the Schedule's own recurrence on even ones: a trigger's `scheduled_for` has
microseconds, a point is on a full minute or second. (The rules `NextIsLeastPoint`
ranges over, `Calendar`, are not so restricted.) `ZoneAssumption`: a reading which the
clock jumped over is not shown later by setting it back.

`NextRunIsLeastPoint` is about the algorithm alone: for ONCE, INTERVAL and CRON the
search of `recurrence.py` returns the least point after a moment, or none if there is
none. For CRON it goes over readings of the wall clock, from the reading at that
moment, and takes the first moment that shows each; with `ZoneAssumption` the order of
readings is the order of these moments, which is the heart of the argument.

`SchedulerInv` is:

 - `NextOK`: `next_run_at` is a point of the present rule;
 - `RowsPast`: no Occurrence lies in the future or, for a recurrence point, at or
   beyond `next_run_at`. So what an iteration fires has no row yet;
 - `Accounted`: `PointsAccounted` whatever the status, so that it survives a pause;
 - `RowsAgree`: which statuses of an Occurrence and its Execution occur together;
 - `TxOK`: an Execution may have moved since the open transaction read it, but only
   forward (`SeenBefore`), and the points it collected are still the due ones.

That `CollectDuePoints` finds every due point unless it gives up, by induction over its
steps, gives `NoPointForgotten`; `TxOK` and `RowsAgree` give `OutcomesAgree`. Misfire
and overlap decisions are passes over the points in order, recursive functions whose
steps keep a relation between the rows before and after. `FiredAlone` is the action
property `CreatedAlone`. Its proof found the second of the exceptions stated there: a
released QUEUE occurrence that an edited policy marks SKIPPED while its Execution
runs. It needs a horizon of 7, which the run does not reach.

### AgentPlanning

`"NONE"` is a block reason, and no key is the one that stands for an occurrence.
A stage decides on what it read before its model call and commits much later,
under a compare-and-set of the status alone. `PlanningInv` shows why that is
enough: every row a decision refers to only grows under it (`ChainHolds`), so a
decision in flight that was fit stays fit (`JobsFit`), the status and the
questions agree with the evidence (`StatusFits`, `QuestionsFit`), and an Execution
has what its policy asked for (`ExecsFit`).

### ToolFactory and ToolRegistry

`FactoryInv` cannot rest on the workers' fence, which a stale session passes
(section 4). It rests on the order of the stages (`StagesInOrder`): the bytes are fixed
before a TestRun exists, a verdict and its row are written together
(`VerdictsTrue`), and `Publish` holds the Review's lock from its checks to its
commit (`PublishHolds`). `PublishedServersStay` is an action property.

`RegistryInv` needs `LocksGrow`, that a `lock_version` stands for one state of the
generation fields, for `SearchIsCurrent`; and `EvidenceHolds`, that a session,
however old, only writes back fingerprints that a test or an apply put there, for
the action property `ActivationIsEarned`.

### Only model-checked

Every invariant and every action property of the passing runs is also a theorem.
Left to TLC are

 - liveness (`EventuallyTerminal`, `WaitSettles`, `InputSettles`, `ExecutionEnds`,
   `LoopsEnd`, `HeldIsReleased`, `PlanSettles`, `FactorySettles`, `IndexSettles`):
   fairness and ENABLED are out of the prover's reach;
 - that the local reconciliation of a wave reaches *the* fixed point: the theorems
   use what each of its steps keeps, not what it computes in the end;
 - the findings, which are counterexamples.

## 6. Definitions that no run checks

Type invariants and weaker properties that are theorems (`TypeOK`,
`AttemptsBounded`, `LeaseDiscipline`, `TruthfulSuccess`, `EvidenceImmutable`,
`NoAttemptAfterCancel`, `TerminalNeverReopened`, `CancelRequestedHasCall`,
`WaitIsConsistent`, `OneRequest`, `NoOrphanedCall`) are proved and no longer run.
So are the type invariants of the other modules (`WaveTypeOK`, `FactoryTypeOK`,
`RegistryTypeOK`, `InputWaitTypeOK`, `PlanningTypeOK`, `LoopTypeOK`, `SchedulerTypeOK`). The
expectations that the code does not meet are named in section 4.

## 7. Not modelled, and the plan

Left out for good:

 - bindings, predicates and preflight, and the structural validation of a Plan:
   pure evaluation of JSON documents; the modules take their verdict as an input;
 - execution events and audit rows: appended, and read by nobody who decides;
 - agent and workflow registries, identity, API: one locked transaction per call or
   single-row CRUD; what they change under a running operation is an
   environment action of the module that notices;
 - the model provider, the MCP protocol and the factory's HTTP adapter: I/O
   without state; their answers are the outcome classes of the calls;
 - storage declarations, operations scripts and the frontend.

Simplified: corrupted Plan and Step rows, against which the orchestrator checks
lineage, are not generated; hashes that pin evidence are abstracted to its
stability; the creation of an Execution by the workflow API and by a manual
tool test is represented by the two other creators; a Plan with several Steps does
not wait for input, because the code answers DAG_WAIT_UNSUPPORTED.

What would extend the project: a model of Executions outside the recovery scans and of
messages lost after `published_at`, the two hazards no property covers, once the code
handles them; and iterations of a LOOP inside a wave with other Steps, now separate
modules that share the lease, the settlement and the recovery.
