---------------------------- MODULE WaveExecution ----------------------------
(***************************************************************************)
(* The multi-Step Execution of a Workflow: the orchestrator's waves        *)
(* (execution/orchestrator.py, dag.py, completion.py), the claim of the    *)
(* root Steps, wave settlement, cancellation of a running wave, Execution- *)
(* level approval waits and the whole-DAG recovery of an expired lease     *)
(* (execution/workflow_dag_recovery.py).                                   *)
(*                                                                         *)
(* A Plan is a sequence of Steps with dependencies; LOOP Steps are the     *)
(* subject of LoopRuntime.  A transaction is one action.  The single-TOOL  *)
(* Execution, whose runner terminalizes the Execution itself, and the gap  *)
(* between the final gate and the network are ToolExecution's subject; the *)
(* counting of approval decisions is ApprovalWait's.  Predicates are       *)
(* deterministic in pinned evidence, so a Step's gate has one value, drawn *)
(* with the Plan.                                                          *)
(***************************************************************************)
EXTENDS Naturals, Sequences, FiniteSets, SequencesExt

CONSTANTS
  Plans,         \* candidate Plans; those validate_tool_join_dag accepts run
  Tasks,         \* Celery task slots
  MaxAttempts,   \* tool_policy.max_attempts, pinned for every TOOL
  MaxWaveFaults  \* bound: crashes plus leases lost by a live owner

\* A Step of a Plan, as the schema of the Plan leaves it.  `gate` is the value
\* of Step.when, `safe` and `asks` the pinned ToolPolicy of a TOOL.
PlanStep ==
  [type : {"TOOL", "JOIN", "CONDITION", "APPROVAL"}, deps : SUBSET Nat,
   onError : {"FAIL_EXECUTION", "MARK_PARTIAL", "CONTINUE"}, required : BOOLEAN,
   gate : {"TRUE", "FALSE", "ERROR"}, policy : {"ALL_SUCCESS", "ANY_SUCCESS", "ALL_COMPLETE"},
   safe : BOOLEAN, asks : BOOLEAN]

ASSUME WaveBounds ==
  /\ MaxAttempts \in Nat \ {0}
  /\ MaxWaveFaults \in Nat
  /\ IsFiniteSet(Tasks)
  /\ \A p \in Plans : p.steps \in Seq(PlanStep) /\ p.maxParallelism \in Nat

VARIABLES
  plan,        \* the ToolJoinDag of Execution.plan_snapshot
  exec,        \* Execution.status
  cancelAt,    \* Execution.cancel_requested_at IS NOT NULL
  lease,       \* Execution.lease_token, 0 when NULL
  leaseLive,   \* lease_expires_at is in the future
  st,          \* ExecutionStep.status
  code,        \* the class of ExecutionStep.error_code
  tries,       \* ExecutionStep.attempt_count
  callSt,      \* normalized_status of the Step's latest ToolCall
  req,         \* the Step's latest ApprovalRequest
  task,        \* where each task's orchestrator loop is
  own,         \* the lease token each task runs under
  out,         \* of each task's wave: where each Step is, then its outcome
  waveFaults   \* crashes and lease lapses so far

waveDb == <<exec, cancelAt, lease, leaseLive, st, code, tries, callSt, req>>

waveVars == <<plan, exec, cancelAt, lease, leaseLive, st, code, tries,
              callSt, req, task, own, out, waveFaults>>

StepTerminal == {"SUCCEEDED", "FAILED", "TIMED_OUT", "CANCELLED", "SKIPPED",
                 "UNKNOWN_OUTCOME"}

ExecTerminal == {"SUCCEEDED", "PARTIALLY_SUCCEEDED", "FAILED", "TIMED_OUT", "CANCELLED"}

Steps == DOMAIN plan.steps

IsTool(k) == plan.steps[k].type = "TOOL"

Deps(k) == plan.steps[k].deps

-----------------------------------------------------------------------------
(* Plan validation (dag.py).                                               *)

\* Kahn's algorithm over the scheduling keys, least Plan index first.
Order(p) ==
  LET all == DOMAIN p.steps
      f[n \in 0 .. Len(p.steps)] ==
        IF n = 0 THEN << >>
        ELSE LET prev == f[n - 1]
                 free == {k \in all \ ToSet(prev) : p.steps[k].deps \subseteq ToSet(prev)}
             IN  IF free = {} THEN prev ELSE Append(prev, Min(free))
  IN  f[Len(p.steps)]

\* validate_tool_join_dag: a TOOL has at most one dependency, a JOIN at least
\* one, the graph has no cycle and there is at least one slot.
ValidDag(p) ==
  /\ p.maxParallelism >= 1
  /\ \A k \in DOMAIN p.steps :
       /\ p.steps[k].type = "TOOL" => Cardinality(p.steps[k].deps) <= 1
       /\ p.steps[k].type = "JOIN" => p.steps[k].deps # {}
  /\ Len(Order(p)) = Len(p.steps)

\* The ToolJoinDag of a Plan: its Steps, its limit and plan_order.
ToolJoinDag(p) ==
  [steps |-> p.steps, maxParallelism |-> p.maxParallelism, order |-> Order(p)]

-----------------------------------------------------------------------------
(* Progress of dependencies (dag.py and completion.py), over the statuses  *)
(* and error codes of a local state r.                                     *)

ContinuableKnownFailure(onError, s) ==
  onError \in {"MARK_PARTIAL", "CONTINUE"} /\ s \in {"FAILED", "TIMED_OUT"}

IntentionalSkip(r, k) == r.st[k] = "SKIPPED" /\ r.code[k] \in {"WHEN_FALSE", "UPSTREAM_SKIPPED"}

\* Mutant: any terminal dependency unblocks its dependents.
TerminalUnblocks(r, d) == r.st[d] \in StepTerminal

\* dependency_progression_complete
ProgressionComplete(r, d) ==
  \/ r.st[d] = "SUCCEEDED"
  \/ ContinuableKnownFailure(plan.steps[d].onError, r.st[d])

\* tool_, condition_ and approval_structurally_eligible
Eligible(r, k, type) ==
  /\ r.st[k] = "PENDING"
  /\ plan.steps[k].type = type
  /\ \A d \in Deps(k) : ~IntentionalSkip(r, d) /\ ProgressionComplete(r, d)

\* Mutant: the barrier waits for progress, not for the end, of its dependencies.
BarrierNeedsProgress(r, k) ==
  /\ r.st[k] = "PENDING"
  /\ plan.steps[k].type = "JOIN"
  /\ \A d \in Deps(k) : ProgressionComplete(r, d)

JoinBarrierReady(r, k) ==
  /\ r.st[k] = "PENDING"
  /\ plan.steps[k].type = "JOIN"
  /\ \A d \in Deps(k) : r.st[d] \in StepTerminal

\* evaluate_join_policy
JoinPolicy(policy, statuses) ==
  CASE policy = "ALL_SUCCESS"  -> IF statuses = {"SUCCEEDED"} THEN "SUCCEEDED" ELSE "FAILED"
    [] policy = "ANY_SUCCESS"  -> IF "SUCCEEDED" \in statuses THEN "SUCCEEDED" ELSE "FAILED"
    [] policy = "ALL_COMPLETE" -> "SUCCEEDED"

\* skip_all_pending, then cancel_unused_ready_tools
StopUntouched(r) ==
  [r EXCEPT
     !.st = [k \in Steps |->
               CASE @[k] = "PENDING" -> "SKIPPED"
                 [] @[k] = "READY" /\ IsTool(k) /\ tries[k] = 0 -> "CANCELLED"
                 [] OTHER -> @[k]],
     !.code = [k \in Steps |->
                 IF r.st[k] = "PENDING" \/ (r.st[k] = "READY" /\ IsTool(k) /\ tries[k] = 0)
                   THEN "STOPPED" ELSE @[k]]]

\* Mutant: the last Step decides.
AggregateLast(r) == IF r.st[Len(plan.steps)] = "SUCCEEDED" THEN "SUCCEEDED" ELSE "FAILED"

\* aggregate_all_required
AggregateAllRequired(r) ==
  LET failed   == {k \in Steps : r.st[k] \in {"FAILED", "TIMED_OUT", "UNKNOWN_OUTCOME",
                                              "CANCELLED"}}
      required == {k \in Steps : plan.steps[k].required}
      partial  == \E k \in failed : plan.steps[k].onError = "MARK_PARTIAL"
      continued == \E k \in failed \intersect required : plan.steps[k].onError = "CONTINUE"
  IN  IF ~partial /\ \A k \in required : r.st[k] = "SUCCEEDED" \/ IntentionalSkip(r, k)
        THEN "SUCCEEDED"
      ELSE IF (partial \/ continued) /\ \E k \in Steps : r.st[k] = "SUCCEEDED"
        THEN "PARTIALLY_SUCCEEDED"
      ELSE "FAILED"

-----------------------------------------------------------------------------
(* _local_reconcile_locked: CONDITION, APPROVAL, Step.when and JOIN to a   *)
(* fixed point.  A local state r carries what the transaction may change   *)
(* and `stop`, set by every early return.                                  *)

LocalState == [st |-> st, code |-> code, exec |-> exec, req |-> req, stop |-> FALSE]

SetStep(r, k, s, c) == [r EXCEPT !.st[k] = s, !.code[k] = c]

StopWith(r, status) == [StopUntouched(r) EXCEPT !.exec = status, !.stop = TRUE]

\* fail_fast_execution_status
FailFastStatus(s) == IF s = "TIMED_OUT" THEN "TIMED_OUT" ELSE "FAILED"

Prune(r, k) ==
  IF /\ ~r.stop
     /\ r.st[k] = "PENDING"
     /\ plan.steps[k].type # "JOIN"
     /\ \E d \in Deps(k) : IntentionalSkip(r, d)
    THEN SetStep(r, k, "SKIPPED", "UPSTREAM_SKIPPED")
    ELSE r

\* _evaluate_when_gate, _apply_when_false and _fail_closed_predicate: a false
\* gate skips the Step, one that cannot be evaluated fails the Execution.
Gated(r, k, onTrue) ==
  CASE plan.steps[k].gate = "ERROR" -> StopWith(SetStep(r, k, "FAILED", "ERROR"), "FAILED")
    [] plan.steps[k].gate = "FALSE" -> SetStep(r, k, "SKIPPED", "WHEN_FALSE")
    [] OTHER -> onTrue

EvaluateCondition(r, k) ==
  IF r.stop \/ ~Eligible(r, k, "CONDITION") THEN r
  ELSE Gated(r, k, SetStep(r, k, "SUCCEEDED", "NONE"))

\* An approved READY APPROVAL Step succeeds.
CompleteApproval(r, k) ==
  IF r.stop \/ plan.steps[k].type # "APPROVAL" \/ r.st[k] # "READY" THEN r
  ELSE IF r.req[k] = "APPROVED" THEN SetStep(r, k, "SUCCEEDED", "NONE")
  ELSE StopWith(r, "FAILED")

\* The first eligible APPROVAL Step enters the wait: at most one PENDING
\* request per Execution.
EnterApproval(r, k) ==
  IF r.stop \/ ~Eligible(r, k, "APPROVAL") \/ \E j \in Steps : r.req[j] = "PENDING" THEN r
  ELSE Gated(r, k, [SetStep(r, k, "WAITING_APPROVAL", "NONE") EXCEPT
                      !.req[k] = "PENDING", !.exec = "WAITING_APPROVAL", !.stop = TRUE])

\* A TOOL whose gate is true stays PENDING for the reservation.
GateTool(r, k) == IF r.stop \/ ~Eligible(r, k, "TOOL") THEN r ELSE Gated(r, k, r)

\* The JOIN's policy, and its on_error when the policy is not satisfied.
EvaluateJoin(r, k) ==
  IF r.stop \/ ~JoinBarrierReady(r, k) THEN r
  ELSE LET s == JoinPolicy(plan.steps[k].policy, {r.st[d] : d \in Deps(k)})
           j == SetStep(r, k, s, IF s = "FAILED" THEN "ERROR" ELSE "NONE")
       IN  Gated(r, k, IF s = "SUCCEEDED" \/ ContinuableKnownFailure(plan.steps[k].onError, s)
                         THEN j ELSE StopWith(j, FailFastStatus(s)))

\* The element of a singleton (a value computed once, before it is used).
The(S) == CHOOSE x \in S : TRUE

\* The operation of one pass over the Steps.
LocalWork(r, pass, k) ==
  CASE pass = "PRUNE"             -> Prune(r, k)
    [] pass = "CONDITION"         -> EvaluateCondition(r, k)
    [] pass = "COMPLETE_APPROVAL" -> CompleteApproval(r, k)
    [] pass = "ENTER_APPROVAL"    -> EnterApproval(r, k)
    [] pass = "WHEN"              -> GateTool(r, k)
    [] pass = "JOIN"              -> EvaluateJoin(r, k)

\* A pass goes over every Step in scheduling order.
PassOver(r, pass) ==
  LET n == Len(plan.order)
      f[i \in 0 .. n] ==
        IF i = 0 THEN r ELSE The({LocalWork(x, pass, plan.order[i]) : x \in {f[i - 1]}})
  IN  f[n]

\* One round: the six passes, in their order.
ReconcileRound(r) ==
  PassOver(
    PassOver(
      PassOver(
        PassOver(
          PassOver(
            PassOver(r, "PRUNE"),
            "CONDITION"),
          "COMPLETE_APPROVAL"),
        "ENTER_APPROVAL"),
      "WHEN"),
    "JOIN")

\* The rounds end when nothing changes; only a Step that a round ended can give
\* the next one something to do, so there are at most as many rounds as Steps.
LocalReconcile ==
  LET n == Len(plan.order)
      f[i \in 0 .. n] ==
        IF i = 0 THEN LocalState ELSE The({ReconcileRound(x) : x \in {f[i - 1]}})
  IN  f[n]

-----------------------------------------------------------------------------
(* What the transactions share.                                            *)

WaveInit ==
  /\ plan \in {ToolJoinDag(p) : p \in {q \in Plans : ValidDag(q)}}
  /\ exec = "QUEUED"
  /\ cancelAt = FALSE
  /\ lease = 0
  /\ leaseLive = FALSE
  /\ st = [k \in Steps |-> "PENDING"]
  /\ code = [k \in Steps |-> "NONE"]
  /\ tries = [k \in Steps |-> 0]
  /\ callSt = [k \in Steps |-> "NONE"]
  /\ req = [k \in Steps |-> "NONE"]
  /\ task = [w \in Tasks |-> "idle"]
  /\ own = [w \in Tasks |-> 0]
  /\ out = [w \in Tasks |-> [k \in Steps |-> "none"]]
  /\ waveFaults = 0

Started == {k \in Steps : callSt[k] = "STARTED"}

\* The fence of Phases A and C and of the final gate.
OwnsWave(w) == exec \in {"RUNNING", "CANCEL_REQUESTED"} /\ lease = own[w] /\ leaseLive

\* _has_running_lease
RunningLease(w) == OwnsWave(w) /\ exec = "RUNNING"

CancelRequested == cancelAt \/ exec = "CANCEL_REQUESTED"

DropLease == lease' = 0 /\ leaseLive' = FALSE

\* A fresh token, one no running task holds.
FreshLease(w) ==
  LET token == Min((1 .. Cardinality(Tasks) + 1) \ {own[x] : x \in Tasks})
  IN  /\ lease' = token
      /\ leaseLive' = TRUE
      /\ own' = [own EXCEPT ![w] = token]

Go(w, p) == task' = [task EXCEPT ![w] = p]

Ends(w, k, o) == out' = [out EXCEPT ![w][k] = o]

\* The task returns; its wave is forgotten.
Return(w) ==
  /\ Go(w, "idle")
  /\ own' = [own EXCEPT ![w] = 0]
  /\ out' = [out EXCEPT ![w] = [k \in Steps |-> "none"]]

\* Write a local state back; an Execution that left RUNNING drops its lease.
Apply(r) ==
  /\ st' = r.st
  /\ code' = r.code
  /\ exec' = r.exec
  /\ req' = r.req
  /\ IF r.exec # "RUNNING" THEN DropLease ELSE UNCHANGED <<lease, leaseLive>>

NaturallyEnded(r) == \A k \in Steps : r.st[k] \in StepTerminal

\* Mutant: every Step without a call in flight is cancelled.
CancelEveryStep(s, c) == [k \in Steps |-> IF c[k] = "STARTED" THEN s[k] ELSE "CANCELLED"]

\* _cancel_safe_nonterminal_steps, over Steps whose call is not STARTED
CancelSafeSteps(s, c) ==
  [k \in Steps |-> IF s[k] \in StepTerminal \/ c[k] = "STARTED" THEN s[k] ELSE "CANCELLED"]

CancelPendingRequests == req' = [k \in Steps |-> IF req[k] = "PENDING" THEN "CANCELLED" ELSE req[k]]

\* reconcile_cancel_requested_locked over statuses s and calls c: nothing while
\* a call is STARTED, FAILED over an unknown outcome, else CANCELLED.
CancelVerdict(s, c) ==
  IF \E k \in Steps : c[k] = "STARTED" THEN "CANCEL_REQUESTED"
  ELSE IF \E k \in Steps : s[k] = "UNKNOWN_OUTCOME" THEN "FAILED" ELSE "CANCELLED"

ReconcileCancel(s, c) ==
  /\ callSt' = c
  /\ exec' = CancelVerdict(s, c)
  /\ IF exec' = "CANCEL_REQUESTED"
       THEN st' = s /\ UNCHANGED <<lease, leaseLive, req>>
       ELSE st' = CancelSafeSteps(s, c) /\ DropLease /\ CancelPendingRequests

-----------------------------------------------------------------------------
(* Claim and wave preparation.                                             *)

Position(k) == CHOOSE i \in DOMAIN plan.order : plan.order[i] = k

\* The first n Steps of S in scheduling order.
FirstOf(S, n) == {k \in S : Cardinality({j \in S : Position(j) < Position(k)}) < n}

\* claim: the root TOOL Steps, in Plan order up to max_parallelism, are READY
\* at once; their Step.when is not looked at.
WaveClaim(w) ==
  /\ task[w] = "idle"
  /\ exec = "QUEUED"
  /\ exec' = "RUNNING"
  /\ FreshLease(w)
  /\ LET roots == FirstOf({k \in Steps : IsTool(k) /\ Deps(k) = {}}, plan.maxParallelism)
     IN  st' = [k \in Steps |-> IF k \in roots THEN "READY" ELSE st[k]]
  /\ Go(w, "prepare")
  /\ UNCHANGED <<plan, cancelAt, code, tries, callSt, req, out, waveFaults>>

\* _prepare_wave finds a terminal or waiting Execution, a cancellation or a
\* wave in flight, or a lease that is not its own.
PrepareReturns(w) ==
  /\ task[w] = "prepare"
  /\ exec # "CANCEL_REQUESTED" \/ Started # {}
  /\ ~RunningLease(w) \/ \E k \in Steps : IsTool(k) /\ st[k] = "RUNNING"
  /\ Return(w)
  /\ UNCHANGED <<plan, waveDb, waveFaults>>

\* No call is in flight under CANCEL_REQUESTED; the lease is not compared.
PrepareCancels(w) ==
  /\ task[w] = "prepare"
  /\ exec = "CANCEL_REQUESTED"
  /\ Started = {}
  /\ ReconcileCancel(st, callSt)
  /\ Return(w)
  /\ UNCHANGED <<plan, cancelAt, code, tries, waveFaults>>

MayPrepareWave(w) ==
  /\ task[w] = "prepare"
  /\ RunningLease(w)
  /\ ~\E k \in Steps : IsTool(k) /\ st[k] = "RUNNING"

\* The local work stops the Execution or enters an approval wait.
PrepareStops(w) ==
  /\ MayPrepareWave(w)
  /\ \E r \in {LocalReconcile} : r.stop /\ Apply(r)
  /\ Return(w)
  /\ UNCHANGED <<plan, cancelAt, tries, callSt, waveFaults>>

\* Mutant: READY Steps left by a claim or a retry take no slot.
CountRunningOnly(r) == Cardinality({k \in Steps : IsTool(k) /\ r.st[k] = "RUNNING"})

\* count_tool_slots
ToolSlots(r) == Cardinality({k \in Steps : IsTool(k) /\ r.st[k] \in {"READY", "RUNNING"}})

\* Mutant: a TOOL that may have to wait runs beside the others.
WholeWave(ready) == ready

\* _select_approval_suspension_wave: if a TOOL of the wave needs approval, the
\* first such TOOL is the whole wave.
ApprovalWave(ready) ==
  LET asking == FirstOf({k \in ready : plan.steps[k].asks}, 1)
  IN  IF asking = {} THEN ready ELSE asking

\* _reserve_tool_wave_locked: eligible TOOLs fill the free slots and join the
\* READY ones.
PrepareReserves(w) ==
  /\ MayPrepareWave(w)
  /\ \E r \in {LocalReconcile} :
       LET used == ToolSlots(r)
           free == IF used >= plan.maxParallelism THEN 0 ELSE plan.maxParallelism - used
           promoted == FirstOf({k \in Steps : Eligible(r, k, "TOOL")}, free)
           ready == {k \in Steps : IsTool(k) /\ (r.st[k] = "READY" \/ k \in promoted)}
           wave == ApprovalWave(ready)
       IN  /\ ~r.stop
           /\ Apply([r EXCEPT !.st = [k \in Steps |-> IF k \in promoted THEN "READY" ELSE @[k]]])
           /\ out' = [out EXCEPT ![w] = [k \in Steps |-> IF k \in wave THEN "start" ELSE "none"]]
           /\ Go(w, IF wave = {} THEN "finalize" ELSE "run")
  /\ UNCHANGED <<plan, cancelAt, tries, callSt, own, waveFaults>>

-----------------------------------------------------------------------------
(* The tool runner on one Step of the wave; the Steps of a wave run        *)
(* concurrently (asyncio.gather) and defer Execution terminalization.      *)

Waved(w, k, phase) == task[w] = "run" /\ out[w][k] = phase

\* Phase A is fenced out, or finds the Step terminal.
RunNoop(w, k) ==
  /\ Waved(w, k, "start")
  /\ ~OwnsWave(w) \/ (~CancelRequested /\ st[k] \in StepTerminal)
  /\ Ends(w, k, "NOOP")
  /\ UNCHANGED <<plan, waveDb, task, own, waveFaults>>

\* Phase A under CANCEL_REQUESTED: the outcome carries the Execution's status.
RunCancelled(w, k) ==
  /\ Waved(w, k, "start")
  /\ OwnsWave(w)
  /\ CancelRequested
  /\ ReconcileCancel(st, callSt)
  /\ Ends(w, k, IF exec' = "FAILED" THEN "FAILED" ELSE "NOOP")
  /\ UNCHANGED <<plan, cancelAt, code, tries, task, own, waveFaults>>

MayRun(w, k) ==
  /\ Waved(w, k, "start")
  /\ OwnsWave(w)
  /\ ~CancelRequested
  /\ st[k] = "READY"

\* The pinned ToolPolicy needs an approval that is not there yet: Execution
\* and Step wait, without a lease.
RunWaits(w, k) ==
  /\ MayRun(w, k)
  /\ plan.steps[k].asks
  /\ req[k] # "APPROVED"
  /\ st' = [st EXCEPT ![k] = "WAITING_APPROVAL"]
  /\ req' = [req EXCEPT ![k] = "PENDING"]
  /\ exec' = "WAITING_APPROVAL"
  /\ DropLease
  /\ Ends(w, k, "WAIT")
  /\ UNCHANGED <<plan, cancelAt, code, tries, callSt, task, own, waveFaults>>

\* The Attempt is refused (fatal), or the Step's time budget is used up.
RunFails(w, k) ==
  /\ MayRun(w, k)
  /\ \/ st' = [st EXCEPT ![k] = "FAILED"] /\ Ends(w, k, "PRE_SEND")
     \/ tries[k] > 0 /\ st' = [st EXCEPT ![k] = "TIMED_OUT"] /\ Ends(w, k, "TIMED_OUT")
  /\ code' = [code EXCEPT ![k] = "ERROR"]
  /\ UNCHANGED <<plan, exec, cancelAt, lease, leaseLive, tries, callSt,
                 req, task, own, waveFaults>>

\* Attempt, ToolCall and Step start in one transaction.
RunStarts(w, k) ==
  /\ MayRun(w, k)
  /\ plan.steps[k].asks => req[k] = "APPROVED"
  /\ st' = [st EXCEPT ![k] = "RUNNING"]
  /\ tries' = [tries EXCEPT ![k] = @ + 1]
  /\ callSt' = [callSt EXCEPT ![k] = "STARTED"]
  /\ Ends(w, k, "called")
  /\ UNCHANGED <<plan, exec, cancelAt, lease, leaseLive, code, req, task,
                 own, waveFaults>>

\* The final gate is fenced out: the Step's run is a no-op.  Phase C raises
\* instead, and the exception ends the whole gather.
CallFenced(w, k) ==
  /\ Waved(w, k, "called")
  /\ ~OwnsWave(w)
  /\ \/ Ends(w, k, "NOOP") /\ UNCHANGED <<task, own>>
     \/ Return(w)
  /\ UNCHANGED <<plan, waveDb, waveFaults>>

\* cancel_prepared_invocation_before_send.  While a sibling's call is in flight
\* the outcome is a known failure with status CANCELLED.
GateCancelsCall(w, k) ==
  /\ Waved(w, k, "called")
  /\ OwnsWave(w)
  /\ CancelRequested
  /\ ReconcileCancel([st EXCEPT ![k] = "CANCELLED"], [callSt EXCEPT ![k] = "CANCELLED"])
  /\ Ends(w, k, IF exec' = "CANCEL_REQUESTED" THEN "CANCELLED" ELSE "NOOP")
  /\ UNCHANGED <<plan, cancelAt, code, tries, task, own, waveFaults>>

\* An inline retry of a read-only call.
CallRetries(w, k) ==
  /\ Waved(w, k, "called")
  /\ OwnsWave(w)
  /\ plan.steps[k].safe
  /\ tries[k] < MaxAttempts
  /\ ~CancelRequested
  /\ st' = [st EXCEPT ![k] = "READY"]
  /\ callSt' = [callSt EXCEPT ![k] = "FAILED"]
  /\ Ends(w, k, "start")
  /\ UNCHANGED <<plan, exec, cancelAt, lease, leaseLive, code, tries, req,
                 task, own, waveFaults>>

CallOutcomes(k) ==
  {"SUCCEEDED", "FAILED", "TIMED_OUT", "PRE_SEND"}
    \union (IF plan.steps[k].safe THEN {} ELSE {"UNKNOWN_OUTCOME"})

FatalOutcome(o) == o \in {"UNKNOWN_OUTCOME", "PRE_SEND"}

\* Phase C: the Step's terminal status; under CANCEL_REQUESTED a call that is
\* not fatal is followed by the cancellation of the rest.
CallEnds(w, k) ==
  /\ Waved(w, k, "called")
  /\ OwnsWave(w)
  /\ \E o \in CallOutcomes(k) :
       LET s == [st EXCEPT ![k] = IF o = "PRE_SEND" THEN "FAILED" ELSE o]
           c == [callSt EXCEPT ![k] = IF o = "PRE_SEND" THEN "FAILED" ELSE o]
       IN  /\ code' = [code EXCEPT ![k] = IF o = "SUCCEEDED" THEN "NONE" ELSE "ERROR"]
           /\ Ends(w, k, o)
           /\ IF CancelRequested /\ ~FatalOutcome(o)
                THEN ReconcileCancel(s, c)
                ELSE st' = s /\ callSt' = c /\ UNCHANGED <<exec, lease, leaseLive, req>>
  /\ UNCHANGED <<plan, cancelAt, tries, task, own, waveFaults>>

\* The gather returns: a wait ends the task, everything else is settled.
Gathered(w) ==
  /\ task[w] = "run"
  /\ \A k \in Steps : out[w][k] \notin {"start", "called"}
  /\ IF \E k \in Steps : out[w][k] = "WAIT"
       THEN Return(w) ELSE Go(w, "settle") /\ UNCHANGED <<own, out>>
  /\ UNCHANGED <<plan, waveDb, waveFaults>>

-----------------------------------------------------------------------------
(* _settle_wave and _finalize_natural_end.                                 *)

\* Known failures whose on_error does not let the Execution go on.
StopCauses(w) ==
  {k \in Steps :
     /\ out[w][k] \in {"FAILED", "TIMED_OUT", "CANCELLED"}
     /\ ~ContinuableKnownFailure(plan.steps[k].onError, out[w][k])}

\* pick_stop_cause: fatal before a timeout before a failure.
StopStatus(w) ==
  IF \E k \in Steps : FatalOutcome(out[w][k]) THEN "FAILED"
  ELSE IF \E k \in StopCauses(w) : out[w][k] = "TIMED_OUT" THEN "TIMED_OUT"
  ELSE IF StopCauses(w) # {} THEN "FAILED"
  ELSE "NONE"

\* The stop branch looks at the wave's outcomes only, neither at the lease nor
\* at the Execution's status.
WaveStops(w) ==
  /\ task[w] = "settle"
  /\ StopStatus(w) # "NONE"
  /\ Apply([StopUntouched(LocalState) EXCEPT !.exec = StopStatus(w)])
  /\ Return(w)
  /\ UNCHANGED <<plan, cancelAt, tries, callSt, waveFaults>>

\* Cancellation owns what is left after a wave that does not stop.
WaveCancelled(w) ==
  /\ task[w] = "settle"
  /\ StopStatus(w) = "NONE"
  /\ CancelRequested
  /\ IF exec = "CANCEL_REQUESTED" /\ lease = own[w]
       THEN ReconcileCancel(st, callSt)
       ELSE UNCHANGED <<exec, lease, leaseLive, st, callSt, req>>
  /\ IF exec' \in {"CANCELLED", "FAILED"} THEN Return(w) ELSE Go(w, "prepare") /\ UNCHANGED <<own, out>>
  /\ UNCHANGED <<plan, cancelAt, code, tries, waveFaults>>

WaveStale(w) ==
  /\ task[w] = "settle"
  /\ StopStatus(w) = "NONE"
  /\ ~CancelRequested
  /\ ~RunningLease(w)
  /\ Go(w, "prepare")
  /\ UNCHANGED <<plan, waveDb, own, out, waveFaults>>

\* Local work after the wave, then completion or the next wave.
Completed(r) == IF NaturallyEnded(r) /\ ~r.stop THEN [r EXCEPT !.exec = AggregateAllRequired(r)] ELSE r

WaveSettles(w) ==
  /\ task[w] = "settle"
  /\ StopStatus(w) = "NONE"
  /\ ~CancelRequested
  /\ RunningLease(w)
  /\ \E r \in {LocalReconcile} : Apply(Completed(r))
  /\ IF exec' \in ExecTerminal THEN Return(w) ELSE Go(w, "prepare") /\ UNCHANGED <<own, out>>
  /\ UNCHANGED <<plan, cancelAt, tries, callSt, waveFaults>>

\* No READY TOOL: complete the Execution if every Step is terminal.  If not,
\* the task returns and keeps the lease.
Finalizes(w) ==
  /\ task[w] = "finalize"
  /\ IF RunningLease(w)
       THEN \E r \in {LocalReconcile} : Apply(Completed(r))
       ELSE UNCHANGED <<exec, lease, leaseLive, st, code, req>>
  /\ Return(w)
  /\ UNCHANGED <<plan, cancelAt, tries, callSt, waveFaults>>

-----------------------------------------------------------------------------
(* Users: cancellation and approval decisions.                             *)

\* apply_cancellation_locked
WaveCancel ==
  /\ exec \in {"QUEUED", "WAITING_APPROVAL", "RUNNING"}
  /\ cancelAt' = TRUE
  /\ st' = CancelSafeSteps(st, callSt)
  /\ CancelPendingRequests
  /\ IF Started = {}
       THEN exec' = "CANCELLED" /\ DropLease
       ELSE exec' = "CANCEL_REQUESTED" /\ UNCHANGED <<lease, leaseLive>>
  /\ UNCHANGED <<plan, code, tries, callSt, task, own, out, waveFaults>>

Waiting(k) == exec = "WAITING_APPROVAL" /\ st[k] = "WAITING_APPROVAL"

Approve(k) ==
  /\ Waiting(k)
  /\ req[k] = "PENDING"
  /\ req' = [req EXCEPT ![k] = "APPROVED"]
  /\ UNCHANGED <<plan, exec, cancelAt, lease, leaseLive, st, code, tries,
                 callSt, task, own, out, waveFaults>>

\* A rejection and an expiry are mandatory-fatal; an authorable APPROVAL Step
\* also stops the untouched Steps.
Refuse(k) ==
  /\ Waiting(k)
  /\ req[k] = "PENDING"
  /\ LET r == [SetStep(LocalState, k, "FAILED", "ERROR") EXCEPT !.req[k] = "REFUSED",
                                                               !.exec = "FAILED"]
     IN  Apply(IF IsTool(k) THEN r ELSE StopUntouched(r))
  /\ UNCHANGED <<plan, cancelAt, tries, callSt, task, own, out, waveFaults>>

\* EXECUTION_APPROVAL_RESUME: a fresh lease and a READY Step, or a failed
\* precondition.
Resume(w, k) ==
  /\ task[w] = "idle"
  /\ Waiting(k)
  /\ req[k] = "APPROVED"
  /\ \/ /\ exec' = "RUNNING"
        /\ FreshLease(w)
        /\ st' = [st EXCEPT ![k] = "READY"]
        /\ Go(w, "prepare")
        /\ UNCHANGED <<code, req>>
     \/ /\ Apply(StopUntouched([SetStep(LocalState, k, "FAILED", "ERROR") EXCEPT !.exec = "FAILED"]))
        /\ UNCHANGED <<own, task>>
  /\ UNCHANGED <<plan, cancelAt, tries, callSt, out, waveFaults>>

-----------------------------------------------------------------------------
(* Failures and the recovery of an expired lease.                          *)

\* The lease lapses; under a live owner that is a fault.
LeaseLapses ==
  /\ leaseLive
  /\ leaseLive' = FALSE
  /\ waveFaults' = IF \E w \in Tasks : task[w] # "idle" /\ own[w] = lease
                     THEN waveFaults + 1 ELSE waveFaults
  /\ waveFaults' <= MaxWaveFaults
  /\ UNCHANGED <<plan, exec, cancelAt, lease, st, code, tries, callSt, req,
                 task, own, out>>

TaskDies(w) ==
  /\ task[w] # "idle"
  /\ waveFaults < MaxWaveFaults
  /\ waveFaults' = waveFaults + 1
  /\ Return(w)
  /\ UNCHANGED <<plan, waveDb>>

Expired(status) == exec = status /\ lease # 0 /\ ~leaseLive

\* recover_expired_cancel_requested_locked: STARTED calls become UNKNOWN_OUTCOME.
RecoverCancelled ==
  /\ Expired("CANCEL_REQUESTED")
  /\ ReconcileCancel([k \in Steps |-> IF k \in Started THEN "UNKNOWN_OUTCOME" ELSE st[k]],
                     [k \in Steps |-> IF k \in Started THEN "UNKNOWN_OUTCOME" ELSE callSt[k]])
  /\ UNCHANGED <<plan, cancelAt, code, tries, task, own, out, waveFaults>>

\* Mutant: an unsafe call of unknown fate is retried like a safe one.
OnlyDurableUnknown == {k \in Steps : st[k] = "UNKNOWN_OUTCOME"}

\* _classify_step: FATAL_UNKNOWN
FatalUnknown ==
  {k \in Steps : st[k] = "UNKNOWN_OUTCOME" \/ (k \in Started /\ ~plan.steps[k].safe)}

\* _classify_step: FAIL_EXHAUSTED
Exhausted == {k \in Started : plan.steps[k].safe /\ tries[k] >= MaxAttempts}

\* _fail_closed: STARTED calls and their Steps are UNKNOWN_OUTCOME, every
\* other Step that is not terminal has FAILED, and so has the Execution.
RecoverFatal ==
  /\ Expired("RUNNING")
  /\ FatalUnknown # {}
  /\ callSt' = [k \in Steps |-> IF k \in Started THEN "UNKNOWN_OUTCOME" ELSE callSt[k]]
  /\ st' = [k \in Steps |->
              CASE k \in Started -> "UNKNOWN_OUTCOME"
                [] k \notin Started /\ st[k] \in StepTerminal -> st[k]
                [] OTHER -> "FAILED"]
  /\ exec' = "FAILED"
  /\ DropLease
  /\ UNCHANGED <<plan, cancelAt, code, tries, req, task, own, out, waveFaults>>

\* Every exhausted call has failed.
FailExhausted(r) ==
  [r EXCEPT !.st = [k \in Steps |-> IF k \in Exhausted THEN "FAILED" ELSE @[k]],
            !.code = [k \in Steps |-> IF k \in Exhausted THEN "ERROR" ELSE @[k]]]

StopsExecution(k) == ~ContinuableKnownFailure(plan.steps[k].onError, "FAILED")

\* An exhausted Step stops the Execution; the calls of its siblings keep their
\* STARTED evidence.
RecoverExhausted ==
  /\ Expired("RUNNING")
  /\ FatalUnknown = {}
  /\ \E k \in Exhausted : StopsExecution(k)
  /\ callSt' = [k \in Steps |-> IF k \in Exhausted THEN "FAILED" ELSE callSt[k]]
  /\ Apply([StopUntouched(FailExhausted(LocalState)) EXCEPT !.exec = "FAILED"])
  /\ UNCHANGED <<plan, cancelAt, tries, task, own, out, waveFaults>>

\* SAFE_RETRY, continuable FAIL_EXHAUSTED and TAKEOVER_READY: all the evidence
\* first, then one fresh lease.
RecoverTakesOver(w) ==
  /\ task[w] = "idle"
  /\ Expired("RUNNING")
  /\ FatalUnknown = {}
  /\ \A k \in Exhausted : ~StopsExecution(k)
  /\ callSt' = [k \in Steps |-> IF k \in Started THEN "FAILED" ELSE callSt[k]]
  /\ LET r == FailExhausted(LocalState)
     IN  /\ st' = [k \in Steps |-> IF k \in Started \ Exhausted THEN "READY" ELSE r.st[k]]
         /\ code' = r.code
  /\ FreshLease(w)
  /\ Go(w, "prepare")
  /\ UNCHANGED <<plan, exec, cancelAt, tries, req, out, waveFaults>>

-----------------------------------------------------------------------------

TaskMoves(w) ==
  \/ PrepareReturns(w)
  \/ PrepareCancels(w)
  \/ PrepareStops(w)
  \/ PrepareReserves(w)
  \/ Gathered(w)
  \/ WaveStops(w)
  \/ WaveCancelled(w)
  \/ WaveStale(w)
  \/ WaveSettles(w)
  \/ Finalizes(w)

StepMoves(w, k) ==
  \/ RunNoop(w, k)
  \/ RunCancelled(w, k)
  \/ RunWaits(w, k)
  \/ RunFails(w, k)
  \/ RunStarts(w, k)
  \/ CallFenced(w, k)
  \/ GateCancelsCall(w, k)
  \/ CallRetries(w, k)
  \/ CallEnds(w, k)

WaveRecovery ==
  \/ RecoverCancelled
  \/ RecoverFatal
  \/ RecoverExhausted
  \/ \E w \in Tasks : RecoverTakesOver(w)

WaveNext ==
  \/ \E w \in Tasks :
       \/ WaveClaim(w)
       \/ TaskMoves(w)
       \/ TaskDies(w)
       \/ \E k \in Steps : StepMoves(w, k) \/ Resume(w, k)
  \/ \E k \in Steps : Approve(k) \/ Refuse(k)
  \/ WaveCancel
  \/ LeaseLapses
  \/ WaveRecovery

WaveSpec == WaveInit /\ [][WaveNext]_waveVars

-----------------------------------------------------------------------------
(* Properties.                                                             *)

RequestStates == {"NONE", "PENDING", "APPROVED", "REFUSED", "CANCELLED"}

\* Every column of the Execution, its Steps and the tasks has its type.
WaveTypeOK ==
  /\ plan \in {ToolJoinDag(p) : p \in Plans}
  /\ exec \in ExecTerminal \union {"QUEUED", "RUNNING", "WAITING_APPROVAL", "CANCEL_REQUESTED"}
  /\ cancelAt \in BOOLEAN
  /\ lease \in Nat /\ leaseLive \in BOOLEAN
  /\ st \in [Steps -> StepTerminal \union {"PENDING", "READY", "RUNNING", "WAITING_APPROVAL"}]
  /\ code \in [Steps -> {"NONE", "WHEN_FALSE", "UPSTREAM_SKIPPED", "STOPPED", "ERROR"}]
  /\ tries \in [Steps -> 0 .. MaxAttempts]
  /\ callSt \in [Steps -> StepTerminal \union {"NONE", "STARTED"}]
  /\ req \in [Steps -> RequestStates]
  /\ task \in [Tasks -> {"idle", "prepare", "run", "settle", "finalize"}]
  /\ own \in [Tasks -> Nat]
  /\ out \in [Tasks -> [Steps -> StepTerminal \union {"none", "start", "called", "PRE_SEND",
                                                      "NOOP", "WAIT"}]]
  /\ waveFaults \in 0 .. MaxWaveFaults

\* Claim, reservation, inline retry, approval resume and recovery together
\* never hold more TOOL Steps READY or RUNNING than Plan.limits.max_parallelism.
ParallelismBounded ==
  Cardinality({k \in Steps : IsTool(k) /\ st[k] \in {"READY", "RUNNING"}}) <= plan.maxParallelism

\* A TOOL whose call was started had every dependency SUCCEEDED, or failed with
\* an on_error that lets the Plan go on, and keeps it: no recovery, retry or
\* late settlement takes the ground from under a started Step.
StartedAfterDependencies ==
  \A k \in Steps : tries[k] > 0 =>
    \A d \in Deps(k) :
      \/ st[d] = "SUCCEEDED"
      \/ st[d] \in {"FAILED", "TIMED_OUT"} /\ plan.steps[d].onError # "FAIL_EXECUTION"

\* A TOOL that is not safe to retry is started once, whoever drives it: the
\* inline retry, a takeover by the recovery or a resumed approval.
UnsafeStartsOnce == \A k \in Steps : ~plan.steps[k].safe => tries[k] <= 1

\* What cancellation.py says of itself: "cancellation must never hide ambiguous
\* external side effects".
CancellationHidesNothing ==
  exec = "CANCELLED" => \A k \in Steps : st[k] # "UNKNOWN_OUTCOME"

\* An Execution that waits for an approval has no lease, exactly one Step that
\* waits, and no remote call of a sibling in flight.
WaitIsQuiet ==
  exec = "WAITING_APPROVAL" =>
    /\ lease = 0
    /\ Started = {}
    /\ Cardinality({k \in Steps : st[k] = "WAITING_APPROVAL"}) = 1

\* SUCCEEDED means that every required Step succeeded or was skipped by its
\* own gate or an upstream one, and that nothing is left unfinished; and no
\* sibling's success, not even a partial one, hides an UNKNOWN_OUTCOME.
SuccessIsComplete ==
  /\ exec = "SUCCEEDED" =>
       /\ NaturallyEnded(LocalState)
       /\ \A k \in Steps : plan.steps[k].required =>
            st[k] = "SUCCEEDED" \/ IntentionalSkip(LocalState, k)
       /\ \A k \in Steps : plan.steps[k].onError = "MARK_PARTIAL" =>
            st[k] \notin {"FAILED", "TIMED_OUT"}
  /\ exec \in {"SUCCEEDED", "PARTIALLY_SUCCEEDED"} => \A k \in Steps : st[k] # "UNKNOWN_OUTCOME"

\* A terminal Step keeps its status through late outcomes, settlement,
\* cancellation and recovery, and a terminal Execution starts nothing.
StepsAreFinal ==
  [][/\ \A k \in Steps : st[k] \in StepTerminal => st'[k] = st[k]
     /\ exec \in ExecTerminal => tries' = tries]_waveVars

-----------------------------------------------------------------------------
(* Liveness.  A task that is not killed goes on, its calls end, expired    *)
(* leases are found and recovered, messages are delivered.                 *)

WaveFairness ==
  /\ WF_waveVars(\E w \in Tasks : WaveClaim(w))
  /\ \A w \in Tasks : WF_waveVars(TaskMoves(w) \/ \E k \in DOMAIN plan.steps : StepMoves(w, k))
  /\ WF_waveVars(\E k \in DOMAIN plan.steps : Refuse(k))
  /\ WF_waveVars(\E w \in Tasks, k \in DOMAIN plan.steps : Resume(w, k))
  /\ WF_waveVars(LeaseLapses)
  /\ WF_waveVars(WaveRecovery)

WaveFairSpec == WaveSpec /\ WaveFairness

\* A Step failed and its on_error stops the Execution.
Stopping == \E k \in Steps :
  st[k] \in {"FAILED", "TIMED_OUT"} /\ ~ContinuableKnownFailure(plan.steps[k].onError, st[k])

\* Through crashes, lost leases, retries, waits and cancellation the Execution
\* of a validated Plan ends, but for one whose failed Step should stop it.
ExecutionEnds == <>(exec \in ExecTerminal \/ Stopping)

\* docs/05-data-model.md on FAIL_EXECUTION: "after in-flight siblings settle:
\* Execution FAILED/TIMED_OUT".
FailFastEnds == Stopping ~> exec \in ExecTerminal
=============================================================================
