---------------------------- MODULE AgentPlanning ----------------------------
(***************************************************************************)
(* One AgentRequest on its way to an Execution: the analyzer, selector,    *)
(* parameter builder, plan generator and plan validator, the               *)
(* clarifications they ask, the creation of Executions, and the planner of *)
(* agent schedules, which drives the same stages from a leased outbox row. *)
(*                                                                         *)
(* A stage reads the request and its evidence without a lock, calls a      *)
(* model, and commits its evidence with a compare-and-set of the request's *)
(* status; the stages are API calls, which may be repeated and may overlap.*)
(* A call of the model answers anything the code accepts.  Evidence rows   *)
(* refer to each other by their position.                                  *)
(***************************************************************************)
EXTENDS Naturals, Sequences, FiniteSets, FiniteSetsExt, SequencesExt

CONSTANTS
  Procs,            \* API handlers, and planner processes of an agent schedule
  Keys,             \* Idempotency-Key values of POST .../execution
  Origins,          \* who made the request: "USER" or "SCHEDULE"
  Blocks,           \* what an administrator may break
  MaxClars,         \* bound: clarifications asked
  MaxEdits,         \* bound: administrator edits
  MaxFaults,        \* bound: crashes
  MaxPlanAttempts   \* max_attempts of the planner's outbox row

ASSUME PlanningAssumption ==
  /\ MaxClars \in Nat /\ MaxEdits \in Nat /\ MaxFaults \in Nat
  /\ MaxPlanAttempts \in Nat \ {0}
  /\ Origins \subseteq {"USER", "SCHEDULE"} /\ "NONE" \in Blocks
  /\ "OCC" \notin Keys   \* stands for the occurrence itself

VARIABLES
  origin,    \* an element of Origins
  status,    \* agent_requests.status; "NONE" before the planner inserts the row
  doc,       \* structured_request: an input of the Tool is missing, an ambiguity, a list-and-detail goal
  sels,      \* ToolSelectionRuns
  builds,    \* ParameterBuildRuns
  plans,     \* PlanGenerationRuns
  vals,      \* PlanValidationRuns
  clars,     \* ClarificationRequests
  reg,       \* the registry: the Tool's policy, and what is broken
  execs,     \* Executions created
  job,       \* what each process is doing
  outbox,    \* the AGENT_SCHEDULE_PLAN row: who claimed it, attempts, published_at
  lease,     \* the lease each planner wrote last
  occ,       \* the ScheduleOccurrence
  used       \* edits and faults so far

evidence == <<doc, sels, builds, plans, vals, clars>>
planner == <<outbox, lease, occ>>
pvars == <<origin, status, evidence, reg, execs, job, planner, used>>

Policies == {"PLAIN", "CONFIRM", "APPROVE"}
Docs == [lacks : BOOLEAN, unclear : BOOLEAN, pair : BOOLEAN]

Idle == [op |-> "IDLE"]

-----------------------------------------------------------------------------
(* What the stages read.                                                   *)

Open == {i \in DOMAIN clars : clars[i].status = "OPEN"}
Confirmed(i) == clars[i].status = "ANSWERED" /\ clars[i].yes

\* The registry as validator, creation and runtime see it.
ToolAvailable == reg.block # "TOOL"
GrantAllows == reg.block # "GRANT"
Authorized == reg.block # "USER"
PolicyValid == reg.block # "POLICY"
ApprovalPolicyValid == reg.policy = "APPROVE" => reg.block # "APPROVAL"

\* is_safe_readonly_policy: READ_ONLY, no confirmation, no approval.
SafeReadonly(policy) == policy = "PLAIN"

\* _validate_sequential_pair_tools: both TOOLs of a pair, and only safe ones.
PairExecutable(n) == plans[n].pair => SafeReadonly(reg.policy)

\* The gates every TOOL of the plan n has to pass.
Executable(n) ==
  /\ ToolAvailable /\ GrantAllows /\ Authorized /\ PolicyValid /\ ApprovalPolicyValid
  /\ PairExecutable(n)

\* The plan's build is complete and its selection is known.
EvidenceChain(n) ==
  /\ plans[n].build \in DOMAIN builds
  /\ builds[plans[n].build].complete /\ builds[plans[n].build].sel \in DOMAIN sels

\* The latest TOOL_CONFIRMATION is answered with yes.
HasAnsweredToolConfirmation ==
  LET T == {i \in DOMAIN clars : clars[i].type = "TOOL_CONFIRMATION"}
  IN  T # {} /\ Confirmed(Max(T))

\* The latest validation asked about this plan under this policy, and the
\* requester said yes.
SatisfiedPlanConfirmation(n) ==
  /\ vals # <<>>
  /\ LET v == Last(vals) IN
       /\ v.decision = "WAITING_CONFIRMATION" /\ v.plan = n /\ v.policy = reg.policy
       /\ Confirmed(v.clar)

\* assert_answered_plan_confirmation: the latest question about the plan.
AnsweredPlanConfirmation(n, policy) ==
  LET W == {i \in DOMAIN vals : vals[i].decision = "WAITING_CONFIRMATION" /\ vals[i].plan = n}
  IN  W # {} /\ vals[Max(W)].policy = policy /\ Confirmed(vals[Max(W)].clar)

\* Mutant: the policy is not compared with the one that was validated.
PreflightUnpinned ==
  /\ vals # <<>>
  /\ LET v == Last(vals) IN
       v.decision = "READY" /\ v.plan = Len(plans) /\ Executable(v.plan)

\* _preflight: the latest validation is READY for the latest plan, the TOOLs are
\* executable now, the policy is the validated one, and it is confirmed.
Preflight ==
  /\ vals # <<>>
  /\ LET v == Last(vals) IN
       /\ v.decision = "READY" /\ v.plan = Len(plans)
       /\ EvidenceChain(v.plan) /\ Executable(v.plan) /\ reg.policy = v.policy
       /\ reg.policy = "CONFIRM" => AnsweredPlanConfirmation(v.plan, v.policy)

-----------------------------------------------------------------------------
(* What the stages decide: the next status, the evidence row, the question. *)

Result(to, table, row, ask) == [to |-> to, table |-> table, row |-> row, ask |-> ask]
NoRow == [none |-> TRUE]

\* _fail_and_raise and _fail_from: FAILED, without evidence.
Failure == Result("FAILED", "none", NoRow, "NONE")

\* The same for another error than an AppError: a provider's, or an unexpected one.
Outage == Result("FAILED", "outage", NoRow, "NONE")

\* _maybe_align_entities: the model may map entities to missing inputs, to all of
\* them or to some; a mapping is written to structured_request with the decision.
\* A remapping is what the request lacks by it, the empty set is none.
Aligned(d) == IF d.lacks THEN {{}, {TRUE}, {FALSE}} ELSE {{}}
Lacks(d, remap) == d.lacks /\ remap # {FALSE}

\* _system_decision: missing inputs are asked for, the scores may always end in
\* NO_MATCH, and a confirmation gate rules out AUTO_SELECT.
SystemDecisions(lacks, auto) ==
  IF lacks THEN {"CLARIFY", "NO_MATCH"}
  ELSE {"CONFIRM", "NO_MATCH"} \union (IF auto THEN {"AUTO_SELECT"} ELSE {})

\* _decide and what the selector commits for its decision.
SelectResults(lacks, auto) ==
  LET To(decision) == CASE decision = "AUTO_SELECT" -> "BUILDING_PARAMETERS"
                        [] decision = "CONFIRM" -> "WAITING_CONFIRMATION"
                        [] decision = "CLARIFY" -> "WAITING_INPUT"
                        [] decision = "NO_MATCH" -> "REJECTED"
      Ask(decision) == CASE decision = "CONFIRM" -> "TOOL_CONFIRMATION"
                         [] decision = "CLARIFY" -> "MISSING_PARAMETER"
                         [] OTHER -> "NONE"
  IN  {Result(To(x), "sels", [decision |-> x], Ask(x)) :
         x \in SystemDecisions(lacks, auto)}

\* _map_entities_to_bindings: every required input of the schema has an entity.
Complete == ~doc.lacks

\* _build_locked: the latest selection, its ToolVersion and grant; what is
\* missing is asked for.
BuildResults ==
  LET row == [sel |-> Len(sels), complete |-> Complete] IN
  IF \/ \E i \in Open : clars[i].type = "MISSING_PARAMETER"
     \/ sels = <<>> \/ Last(sels).decision = "NO_MATCH"
     \/ ~ToolAvailable \/ ~GrantAllows
  THEN {Failure}
  ELSE IF Complete THEN {Result("PLANNING", "builds", row, "NONE")}
  ELSE {Result("WAITING_INPUT", "builds", row, "MISSING_PARAMETER")}

\* _try_sequential_readonly_pair: a list-and-detail goal needs a selection that
\* was automatic or confirmed, a safe policy and exactly one companion.
PairAllowed(b) ==
  /\ \/ sels[b.sel].decision = "AUTO_SELECT"
     \/ sels[b.sel].decision = "CONFIRM" /\ HasAnsweredToolConfirmation
  /\ SafeReadonly(reg.policy)

\* _generate_locked: the latest build has to be complete.
GenerateResults ==
  LET plan(two) == Result("VALIDATING", "plans", [build |-> Len(builds), pair |-> two], "NONE") IN
  IF builds = <<>> \/ ~Last(builds).complete \/ ~ToolAvailable \/ ~GrantAllows THEN {Failure}
  ELSE IF ~doc.pair THEN {plan(FALSE)}
  ELSE IF PairAllowed(Last(builds)) THEN {plan(TRUE), Failure}
  ELSE {Failure}

\* _validate_locked: failed, rejected, or a confirmation is still needed, or READY.
ValidateResults ==
  LET n == Len(plans)
      decision == IF ~EvidenceChain(n) THEN "FAILED"
                  ELSE IF ~Executable(n) THEN "REJECTED"
                  ELSE IF reg.policy = "CONFIRM" /\ ~SatisfiedPlanConfirmation(n)
                       THEN "WAITING_CONFIRMATION" ELSE "READY"
      ask == IF decision = "WAITING_CONFIRMATION" THEN "PLAN_CONFIRMATION" ELSE "NONE"
  IN  IF Open # {} \/ plans = <<>> THEN {Failure}
      ELSE {Result(decision, "vals",
              [plan |-> n, decision |-> decision, policy |-> reg.policy, clar |-> 0], ask)}

\* The evidence and the question of r, in the transaction of its status.  A
\* remapping replaces the inputs the request has by then.
Persist(r, remap) ==
  LET Put(table, name, row) == IF r.table = name THEN Append(table, row) ELSE table IN
  /\ sels' = Put(sels, "sels", r.row)
  /\ builds' = Put(builds, "builds", r.row)
  /\ plans' = Put(plans, "plans", r.row)
  /\ vals' = Put(vals, "vals",
               [r.row EXCEPT !.clar = IF r.ask = "NONE" THEN 0 ELSE Len(clars) + 1])
  /\ clars' = IF r.ask = "NONE" THEN clars
              ELSE Append(clars, [type |-> r.ask, status |-> "OPEN", yes |-> FALSE,
                                  policy |-> IF r.table = "vals" THEN r.row.policy ELSE "NONE",
                                  about |-> CASE r.table = "sels" -> Len(sels) + 1
                                              [] r.table = "builds" -> Len(builds) + 1
                                              [] r.table = "vals" -> r.row.plan])
  /\ doc' \in IF remap = {} THEN {doc} ELSE {[doc EXCEPT !.lacks = b] : b \in remap}

-----------------------------------------------------------------------------
(* The stages, run by an API call or by a planner.                         *)

\* The status a stage starts from: an API call reads it, a planner's session
\* keeps the object of its own last compare-and-set.
Sees(p, from) ==
  \/ origin = "USER" /\ job[p] = Idle /\ status = from
  \/ origin = "SCHEDULE" /\ job[p] = [op |-> "NEXT", view |-> from]

\* A stage is over: the response is sent, or the planner goes on.
Done(to) == IF origin = "USER" \/ to = "TRANSIENT" THEN Idle
            ELSE IF to = "ERROR" THEN [op |-> "FAILING"] ELSE [op |-> "NEXT", view |-> to]
Goes(p, j) == job' = [job EXCEPT ![p] = j]

\* A result waits for its commit.
Decided(from, r, remap) == [op |-> "COMMITTING", from |-> from, result |-> r, remap |-> remap]

\* Where the caller goes from a result that was committed.
Outcome(r) == CASE r = Failure -> "ERROR" [] r = Outage -> "TRANSIENT"
                [] OTHER -> r.to

\* analyze: RECEIVED is taken with a compare-and-set before the model is called.
StartAnalyze(p) ==
  /\ origin = "USER" /\ job[p] = Idle /\ status = "RECEIVED"
  /\ status' = "ANALYZING" /\ Goes(p, [op |-> "ANALYZING"])
  /\ UNCHANGED <<origin, evidence, reg, execs, planner, used>>

\* The model's answer; an ambiguity waits without a clarification.
Analyzed(p) ==
  /\ job[p].op = "ANALYZING" /\ status = "ANALYZING"
  /\ \E d \in Docs :
       /\ doc' = d
       /\ status' = IF d.unclear THEN "WAITING_INPUT" ELSE "RETRIEVING"
       /\ Goes(p, Done(status'))
  /\ UNCHANGED <<origin, sels, builds, plans, vals, clars, reg, execs, planner, used>>

\* _fail_closed: the provider or the answer's schema failed.
AnalyzeFails(p) ==
  /\ job[p].op = "ANALYZING" /\ status = "ANALYZING"
  /\ status' = "FAILED" /\ Goes(p, Done("ERROR"))
  /\ UNCHANGED <<origin, evidence, reg, execs, planner, used>>

\* _release_for_retry: for the planner, a retryable provider error gives the
\* request back.
AnalyzeRetried(p) ==
  /\ origin = "SCHEDULE" /\ job[p].op = "ANALYZING" /\ status = "ANALYZING"
  /\ status' = "RECEIVED" /\ Goes(p, Done("TRANSIENT"))
  /\ UNCHANGED <<origin, evidence, reg, execs, planner, used>>

\* select: the request is read and the transaction ends; RETRIEVING is kept.
StartSelect(p) ==
  /\ Sees(p, "RETRIEVING")
  /\ Goes(p, [op |-> "RETRIEVING", doc |-> doc])
  /\ UNCHANGED <<origin, status, evidence, reg, execs, planner, used>>

\* An AppError of the retrieval, or of what it needs, ends the planner's attempt
\* for good, a provider error does not.  A miss of the compare-and-set rolls back
\* and leaves the planner without its row.
RetrievalFails(p) ==
  /\ job[p].op = "RETRIEVING"
  /\ IF status = "RETRIEVING"
       THEN status' = "FAILED" /\ \E to \in {"ERROR", "TRANSIENT"} : Goes(p, Done(to))
       ELSE UNCHANGED status /\ Goes(p, Done("TRANSIENT"))
  /\ UNCHANGED <<origin, evidence, reg, execs, planner, used>>

\* retrieve: the ToolVersions the requester and the Agent may use.
Candidates == ToolAvailable /\ GrantAllows /\ Authorized

\* No candidate: NO_MATCH is committed straight from RETRIEVING.
NothingRetrieved(p) ==
  /\ job[p].op = "RETRIEVING" /\ ~Candidates
  /\ Goes(p, Decided("RETRIEVING", Result("REJECTED", "sels", [decision |-> "NO_MATCH"], "NONE"), {}))
  /\ UNCHANGED <<origin, status, evidence, reg, execs, planner, used>>

\* The acquisition of SELECTING after the retrieval; a miss raises without a
\* rollback.
Retrieved(p) ==
  /\ job[p].op = "RETRIEVING" /\ Candidates
  /\ IF status = "RETRIEVING"
       THEN /\ status' = "SELECTING"
            /\ Goes(p, [op |-> "SELECTING", doc |-> job[p].doc,
                        auto |-> PolicyValid /\ reg.policy # "CONFIRM"])
       ELSE UNCHANGED status /\ Goes(p, Done("ERROR"))
  /\ UNCHANGED <<origin, evidence, reg, execs, planner, used>>

\* The rerank answers, is invalid or has no provider; the decision waits for its
\* commit.
Reranked(p) ==
  /\ job[p].op = "SELECTING"
  /\ \/ \E remap \in Aligned(job[p].doc) :
          \E r \in SelectResults(Lacks(job[p].doc, remap), job[p].auto) :
            Goes(p, Decided("SELECTING", r, remap))
     \/ \E r \in {Failure, Outage} : Goes(p, Decided("SELECTING", r, {}))
  /\ UNCHANGED <<origin, status, evidence, reg, execs, planner, used>>

\* build, generate and validate: the evidence is read without a lock.
StartStage(p, from, results) ==
  /\ Sees(p, from)
  /\ \E r \in results \union {Outage} : Goes(p, Decided(from, r, {}))
  /\ UNCHANGED <<origin, status, evidence, reg, execs, planner, used>>
StartBuild(p) == StartStage(p, "BUILDING_PARAMETERS", BuildResults)
StartGenerate(p) == StartStage(p, "PLANNING", GenerateResults)
StartValidate(p) == StartStage(p, "VALIDATING", ValidateResults)

\* Mutant: the evidence is committed whatever the status has become.
CommitStageUnchecked(p) ==
  /\ job[p].op = "COMMITTING"
  /\ status' = job[p].result.to /\ Persist(job[p].result, job[p].remap)
  /\ Goes(p, Done(Outcome(job[p].result)))
  /\ UNCHANGED <<origin, reg, execs, planner, used>>

\* Evidence, question and status in one transaction; a compare-and-set that
\* misses rolls all of it back.
CommitStage(p) ==
  /\ job[p].op = "COMMITTING"
  /\ LET r == job[p].result IN
       IF status = job[p].from
         THEN /\ status' = r.to /\ Persist(r, job[p].remap)
              /\ Goes(p, Done(Outcome(r)))
         ELSE UNCHANGED <<status, evidence>> /\ Goes(p, Done("TRANSIENT"))
  /\ UNCHANGED <<origin, reg, execs, planner, used>>

-----------------------------------------------------------------------------
(* The requester: answers and Executions.                                  *)

\* Mutant: the answer's value is not looked at.
AnswerTargetYes(type, yes) ==
  CASE type = "MISSING_PARAMETER" -> "RETRIEVING"
    [] type = "TOOL_CONFIRMATION" -> "BUILDING_PARAMETERS"
    [] type = "PLAN_CONFIRMATION" -> "VALIDATING"

\* Where an answer sends the request: back to the stage that asked, or away.
AnswerTarget(type, yes) ==
  CASE type = "MISSING_PARAMETER" -> "RETRIEVING"
    [] type # "MISSING_PARAMETER" /\ ~yes -> "CANCELLED"
    [] type = "TOOL_CONFIRMATION" /\ yes -> "BUILDING_PARAMETERS"
    [] type = "PLAN_CONFIRMATION" /\ yes -> "VALIDATING"

\* _answer_missing_parameter, _answer_tool_confirmation, _answer_plan_confirmation:
\* the status fits the question, and what it asked about is still the latest.
InputAnswerable(i, yes) ==
  clars[i].type = "MISSING_PARAMETER" /\ status = "WAITING_INPUT" /\ yes /\ ~doc.unclear
ToolAnswerable(i) ==
  /\ clars[i].type = "TOOL_CONFIRMATION" /\ status = "WAITING_CONFIRMATION"
  /\ sels # <<>> /\ Last(sels).decision = "CONFIRM"
PlanAnswerable(i, yes) ==
  /\ clars[i].type = "PLAN_CONFIRMATION" /\ status = "WAITING_CONFIRMATION"
  /\ yes => /\ vals # <<>> /\ Last(vals).decision = "WAITING_CONFIRMATION"
            /\ Last(vals).clar = i /\ Last(vals).plan = Len(plans)

\* submit_response up to the transaction: the question is the open one.
StartAnswer(p, i, yes) ==
  /\ origin = "USER" /\ job[p] = Idle /\ Len(clars) < MaxClars
  /\ i \in Open
  /\ InputAnswerable(i, yes) \/ ToolAnswerable(i) \/ PlanAnswerable(i, yes)
  /\ Goes(p, [op |-> "ANSWERING", clar |-> i, yes |-> yes, from |-> status,
              to |-> AnswerTarget(clars[i].type, yes)])
  /\ UNCHANGED <<origin, status, evidence, reg, execs, planner, used>>

\* answer_open and the compare-and-set of the status, both or neither.  A
\* supplied input may still leave the Tool that is picked next without one.
FinishAnswer(p) ==
  /\ job[p].op = "ANSWERING" /\ Goes(p, Idle)
  /\ LET a == job[p] IN
     IF clars[a.clar].status = "OPEN" /\ status = a.from
       THEN /\ clars' = [clars EXCEPT ![a.clar].status = "ANSWERED", ![a.clar].yes = a.yes]
            /\ status' = a.to
            /\ IF a.to = "RETRIEVING" THEN \E b \in BOOLEAN : doc' = [doc EXCEPT !.lacks = b]
               ELSE UNCHANGED doc
       ELSE UNCHANGED <<status, doc, clars>>
  /\ UNCHANGED <<origin, sels, builds, plans, vals, reg, execs, planner, used>>

\* create_execution: the key's Execution is replayed, otherwise the request has
\* to be READY and pass the preflight.
StartCreate(p, k) ==
  /\ origin = "USER" /\ job[p] = Idle
  /\ ~\E e \in execs : e.key = k
  /\ status = "READY" /\ Preflight
  /\ Goes(p, [op |-> "CREATING", row |-> [key |-> k, plan |-> Last(vals).plan, policy |-> reg.policy]])
  /\ UNCHANGED <<origin, status, evidence, reg, execs, planner, used>>

\* The insert with its idempotency record, whose key is unique: a duplicate is
\* replayed.
FinishCreate(p) ==
  /\ job[p].op = "CREATING" /\ Goes(p, Idle)
  /\ execs' = IF \E e \in execs : e.key = job[p].row.key THEN execs
              ELSE execs \union {job[p].row}
  /\ UNCHANGED <<origin, status, evidence, reg, planner, used>>

-----------------------------------------------------------------------------
(* The planner of agent schedules.                                         *)

\* The claim in the row is live: its owner's lease has not run out.
Claimed == outbox.owner # "NONE" /\ lease[outbox.owner] = "HELD"

\* claim_lease_batch: an unpublished row without a live claim, and attempts left.
ClaimPlan(p) ==
  /\ origin = "SCHEDULE" /\ job[p] = Idle
  /\ ~outbox.published /\ ~Claimed /\ outbox.attempts < MaxPlanAttempts
  /\ outbox' = [outbox EXCEPT !.owner = p, !.attempts = @ + 1]
  /\ lease' = [lease EXCEPT ![p] = "HELD"]
  /\ Goes(p, [op |-> "CLAIMED"])
  /\ UNCHANGED <<origin, status, evidence, reg, execs, occ, used>>

\* Mutant: one attempt too late.
ExhaustPlanLate ==
  /\ origin = "SCHEDULE" /\ ~outbox.published /\ ~Claimed
  /\ outbox.attempts > MaxPlanAttempts
  /\ outbox' = [outbox EXCEPT !.published = TRUE, !.owner = "NONE"]
  /\ occ' = "FAILED"
  /\ UNCHANGED <<origin, status, evidence, reg, execs, job, lease, used>>

\* _exhaust_attempts: the occurrence fails with the last attempt.
ExhaustPlan ==
  /\ origin = "SCHEDULE" /\ ~outbox.published /\ ~Claimed
  /\ outbox.attempts >= MaxPlanAttempts
  /\ outbox' = [outbox EXCEPT !.published = TRUE, !.owner = "NONE"]
  /\ occ' = "FAILED"
  /\ UNCHANGED <<origin, status, evidence, reg, execs, job, lease, used>>

\* A lease runs out while the planner works, waits for a model, or is dead.
LeaseLapses(p) ==
  /\ lease[p] = "HELD" /\ (outbox.owner = p \/ job[p] # Idle)
  /\ lease' = [lease EXCEPT ![p] = "LAPSED"]
  /\ UNCHANGED <<origin, status, evidence, reg, execs, job, outbox, occ, used>>

Published == outbox' = [outbox EXCEPT !.published = TRUE, !.owner = "NONE"]

\* process_claimed finds the row taken over, or an Execution or a decision for
\* the occurrence: the planner leaves, publishing a row that is its own.
SkipPlan(p) ==
  /\ job[p].op = "CLAIMED" /\ Goes(p, Idle)
  /\ \/ (outbox.owner # p \/ outbox.published) /\ UNCHANGED outbox
     \/ outbox.owner = p /\ (execs # {} \/ occ # "PLANNED") /\ Published
  /\ UNCHANGED <<origin, status, evidence, reg, execs, lease, occ, used>>

Plannable(p) == job[p].op = "CLAIMED" /\ outbox.owner = p /\ execs = {} /\ occ = "PLANNED"

\* The Agent or its version can no longer be used.
RefusePlan(p) ==
  /\ Plannable(p) /\ reg.block = "AGENT"
  /\ Published /\ occ' = "FAILED" /\ Goes(p, Idle)
  /\ UNCHANGED <<origin, status, evidence, reg, execs, lease, used>>

\* The AgentRequest is inserted, or read, and its analysis is started in the same
\* transaction, under the row's lock.
BeginPlan(p) ==
  /\ Plannable(p) /\ reg.block # "AGENT"
  /\ IF status \in {"NONE", "RECEIVED"}
       THEN status' = "ANALYZING" /\ Goes(p, [op |-> "ANALYZING"])
       ELSE UNCHANGED status /\ Goes(p, [op |-> "NEXT", view |-> status])
  /\ UNCHANGED <<origin, evidence, reg, execs, planner, used>>

\* _advance_pipeline has returned: no stage follows the status it saw last.
PipelineOver(p) ==
  /\ job[p].op = "NEXT"
  /\ job[p].view \notin {"RETRIEVING", "BUILDING_PARAMETERS", "PLANNING", "VALIDATING"}

\* The session still holds the row it claimed, so the ownership check sees its
\* own claim and fails only when its own lease ran out.
LosePlan(p) ==
  /\ PipelineOver(p) /\ lease[p] = "LAPSED" /\ Goes(p, Idle)
  /\ UNCHANGED <<origin, status, evidence, reg, execs, planner, used>>

\* is_safe_auto_execute and the preflight of an Execution.
SafeAutoExecute(p) ==
  /\ job[p].view = "READY" /\ vals # <<>> /\ SafeReadonly(Last(vals).policy)
  /\ Preflight

\* A request that is not READY, not safe or no longer executable fails the
\* occurrence; otherwise it becomes the occurrence's one Execution.
FinishPlan(p) ==
  /\ PipelineOver(p) /\ lease[p] = "HELD" /\ Goes(p, Idle)
  /\ Published
  /\ IF ~SafeAutoExecute(p) THEN occ' = "FAILED" /\ UNCHANGED execs
     ELSE /\ UNCHANGED occ
          /\ execs' = IF execs # {} THEN execs
                      ELSE {[key |-> "OCC", plan |-> Last(vals).plan, policy |-> reg.policy]}
  /\ UNCHANGED <<origin, status, evidence, reg, lease, used>>

\* _owned_fail_and_publish with the time of the claim and the session's own copy
\* of the row: neither a lapsed lease nor another claim stops it.
FailPlan(p) ==
  /\ job[p].op = "FAILING" /\ Goes(p, Idle)
  /\ Published /\ occ' = "FAILED"
  /\ UNCHANGED <<origin, status, evidence, reg, execs, lease, used>>

-----------------------------------------------------------------------------
(* The environment.                                                        *)

\* An administrator changes the Tool's policy, or breaks or mends something.
AdminEdit(r) ==
  /\ used.edits < MaxEdits /\ r # reg
  /\ reg' = r /\ used' = [used EXCEPT !.edits = @ + 1]
  /\ UNCHANGED <<origin, status, evidence, execs, job, planner>>

\* A process dies: its open transaction is rolled back, what it committed stays.
Crash(p) ==
  /\ used.faults < MaxFaults /\ job[p] # Idle
  /\ Goes(p, Idle) /\ used' = [used EXCEPT !.faults = @ + 1]
  /\ UNCHANGED <<origin, status, evidence, reg, execs, planner>>

Registries == [policy : Policies, block : Blocks]

\* A submitted message, or an occurrence with its planning row.
PlanningInit ==
  /\ origin \in Origins
  /\ status = IF origin = "USER" THEN "RECEIVED" ELSE "NONE"
  /\ doc = [lacks |-> FALSE, unclear |-> FALSE, pair |-> FALSE]
  /\ sels = <<>> /\ builds = <<>> /\ plans = <<>> /\ vals = <<>> /\ clars = <<>>
  /\ reg \in [policy : Policies, block : {"NONE"}]
  /\ execs = {}
  /\ job = [p \in Procs |-> Idle]
  /\ outbox = [owner |-> "NONE", attempts |-> 0, published |-> FALSE]
  /\ lease = [p \in Procs |-> "NONE"]
  /\ occ = "PLANNED"
  /\ used = [edits |-> 0, faults |-> 0]

StageSteps(p) ==
  \/ Analyzed(p) \/ AnalyzeFails(p) \/ AnalyzeRetried(p)
  \/ StartSelect(p) \/ RetrievalFails(p) \/ NothingRetrieved(p) \/ Retrieved(p) \/ Reranked(p)
  \/ StartBuild(p) \/ StartGenerate(p) \/ StartValidate(p) \/ CommitStage(p)

PlannerSteps(p) ==
  \/ ClaimPlan(p) \/ SkipPlan(p) \/ RefusePlan(p) \/ BeginPlan(p)
  \/ LosePlan(p) \/ FinishPlan(p) \/ FailPlan(p)

PlanningNext ==
  \/ \E p \in Procs :
       \/ StartAnalyze(p) \/ StageSteps(p) \/ PlannerSteps(p)
       \/ \E i \in DOMAIN clars, yes \in BOOLEAN : StartAnswer(p, i, yes)
       \/ FinishAnswer(p)
       \/ \E k \in Keys : StartCreate(p, k)
       \/ FinishCreate(p) \/ LeaseLapses(p) \/ Crash(p)
  \/ ExhaustPlan
  \/ \E r \in Registries : AdminEdit(r)

\* The planner polls, model calls end, leases run out.
PlanningFairness ==
  /\ \A p \in Procs : /\ WF_pvars(origin = "SCHEDULE" /\ StageSteps(p))
                      /\ WF_pvars(PlannerSteps(p)) /\ WF_pvars(LeaseLapses(p))
  /\ WF_pvars(ExhaustPlan)

PlanningSpec == PlanningInit /\ [][PlanningNext]_pvars /\ PlanningFairness

-----------------------------------------------------------------------------
(* Properties.                                                             *)

\* The selection s was automatic, or the requester confirmed it.
SelectionSettled(s) ==
  \/ sels[s].decision = "AUTO_SELECT"
  \/ /\ sels[s].decision = "CONFIRM"
     /\ \E i \in DOMAIN clars : /\ clars[i].type = "TOOL_CONFIRMATION"
                                /\ clars[i].about = s /\ Confirmed(i)

\* A READY request stands on evidence no concurrent stage call can have mixed:
\* its latest validation is of its latest plan, from a complete build of a Tool
\* that was selected automatically or confirmed, and no question is open.
ReadyIsBacked ==
  status = "READY" =>
    /\ Open = {} /\ vals # <<>>
    /\ Last(vals).decision = "READY" /\ Last(vals).plan = Len(plans)
    /\ LET b == builds[Last(plans).build] IN b.complete /\ SelectionSettled(b.sel)

\* A request that waits can be answered, and nothing else can: exactly one
\* question is open, of the kind its status waits for.  (The analyzer's wait for
\* an ambiguity is the exception: it has no question.)
WaitingIsAnswerable ==
  LET kinds == {clars[i].type : i \in Open} IN
  /\ Cardinality(Open) <= 1
  /\ status = "WAITING_CONFIRMATION" => kinds \in {{"TOOL_CONFIRMATION"}, {"PLAN_CONFIRMATION"}}
  /\ status = "WAITING_INPUT" => kinds = IF doc.unclear THEN {} ELSE {"MISSING_PARAMETER"}
  /\ status \notin {"WAITING_CONFIRMATION", "WAITING_INPUT"} => Open = {}

\* Whatever was edited, repeated or overtaken on the way: an Execution's plan
\* comes from a complete build and a settled selection, a policy that asks for a
\* confirmation was confirmed for this very plan, a key and an occurrence have
\* one Execution, and an occurrence's Execution needs neither confirmation nor
\* approval.
ExecutionConfirmed ==
  /\ \A e \in execs :
       /\ LET b == builds[plans[e.plan].build] IN b.complete /\ SelectionSettled(b.sel)
       /\ e.policy = "CONFIRM" =>
            \E i \in DOMAIN clars : /\ clars[i].type = "PLAN_CONFIRMATION" /\ Confirmed(i)
                                    /\ clars[i].about = e.plan /\ clars[i].policy = "CONFIRM"
       /\ e.key = "OCC" => SafeReadonly(e.policy)
  /\ \A e, f \in execs : e.key = f.key => e = f

\* Every occurrence of an agent schedule is settled: its planning row is
\* published at last, whatever planner died or was overtaken.
PlanSettles == origin = "SCHEDULE" ~> outbox.published

\* A failed occurrence has no Execution ("fail-closed without an Execution").
FailedHasNoExecution == occ = "FAILED" => execs = {}

=============================================================================
