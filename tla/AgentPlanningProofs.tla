-------------------------- MODULE AgentPlanningProofs --------------------------
(***************************************************************************)
(* Proofs about AgentPlanning, for any number of concurrent handlers and   *)
(* planners, keys, edits, faults and clarifications.                       *)
(*                                                                         *)
(* A stage decides on what it read before its model call and commits it    *)
(* much later; nothing locks what it read.  The compare-and-set of the     *)
(* status is enough because every row of evidence that a decision refers   *)
(* to only grows under it: selections, builds and plans are never changed, *)
(* a plan is never replaced, and a confirmation is never taken back.  The  *)
(* invariant says this of the evidence and of the decisions in flight.     *)
(***************************************************************************)
EXTENDS AgentPlanning, FiniteSetTheorems, SequenceTheorems, WellFoundedInduction, TLAPS

(* The inductive invariant, part by part.                                  *)

Statuses ==
  {"NONE", "RECEIVED", "ANALYZING", "RETRIEVING", "SELECTING", "BUILDING_PARAMETERS", "PLANNING",
   "VALIDATING", "WAITING_INPUT", "WAITING_CONFIRMATION", "READY", "REJECTED", "FAILED",
   "CANCELLED"}

\* Before a selection is committed, and once there is a plan.
BeforeSelection == {"NONE", "RECEIVED", "ANALYZING", "RETRIEVING", "SELECTING"}
AfterPlan == {"VALIDATING", "WAITING_CONFIRMATION", "READY", "REJECTED", "FAILED", "CANCELLED"}

\* The statuses a stage starts from.
Stages == {"RETRIEVING", "SELECTING", "BUILDING_PARAMETERS", "PLANNING", "VALIDATING"}

Decisions == {"AUTO_SELECT", "CONFIRM", "CLARIFY", "NO_MATCH"}
ValDecisions == {"FAILED", "REJECTED", "WAITING_CONFIRMATION", "READY"}
Questions == {"MISSING_PARAMETER", "TOOL_CONFIRMATION", "PLAN_CONFIRMATION"}

\* The rows of the evidence.
Selections == [decision : Decisions]
Builds == [sel : Nat, complete : BOOLEAN]
Plans == [build : Nat, pair : BOOLEAN]
Validations == [plan : Nat, decision : ValDecisions, policy : Policies, clar : Nat]
Clarifications ==
  [type : Questions, status : {"OPEN", "ANSWERED"}, yes : BOOLEAN,
   policy : Policies \cup {"NONE"}, about : Nat]

\* Types of the request and its evidence; and of the registry and the processes.
EvidenceTypeOK ==
  /\ origin \in {"USER", "SCHEDULE"} /\ status \in Statuses /\ doc \in Docs
  /\ sels \in Seq(Selections) /\ builds \in Seq(Builds) /\ plans \in Seq(Plans)
  /\ vals \in Seq(Validations) /\ clars \in Seq(Clarifications)

PlanningTypeOK ==
  /\ EvidenceTypeOK
  /\ reg \in Registries
  /\ job = [p \in Procs |-> job[p]]

\* Every row of evidence refers to rows it was made from: a build to a settled
\* selection, a plan to a complete build, a validation to the one plan, and its
\* question to both.
ChainHolds ==
  /\ \A b \in DOMAIN builds : builds[b].sel \in DOMAIN sels /\ SelectionSettled(builds[b].sel)
  /\ \A n \in DOMAIN plans : plans[n].build \in DOMAIN builds /\ builds[plans[n].build].complete
  /\ \A i \in DOMAIN vals :
       /\ plans # <<>> /\ vals[i].plan = Len(plans)
       /\ vals[i].decision = "WAITING_CONFIRMATION" =>
            /\ vals[i].clar \in DOMAIN clars
            /\ clars[vals[i].clar].type = "PLAN_CONFIRMATION"
            /\ clars[vals[i].clar].about = vals[i].plan
            /\ clars[vals[i].clar].policy = vals[i].policy

\* What the status says of the evidence.
StatusFits ==
  /\ status = "BUILDING_PARAMETERS" => sels # <<>> /\ SelectionSettled(Len(sels))
  /\ plans # <<>> => status \in AfterPlan
  /\ status = "READY" => vals # <<>> /\ Last(vals).decision = "READY"
  /\ doc.unclear => status = "WAITING_INPUT"

\* The open question, if any, is the one the status waits for.
QuestionFits(i) ==
  \/ clars[i].type = "MISSING_PARAMETER" /\ status = "WAITING_INPUT" /\ ~doc.unclear
  \/ /\ clars[i].type = "TOOL_CONFIRMATION" /\ status = "WAITING_CONFIRMATION" /\ plans = <<>>
     /\ sels # <<>> /\ clars[i].about = Len(sels) /\ Last(sels).decision = "CONFIRM"
  \/ clars[i].type = "PLAN_CONFIRMATION" /\ status = "WAITING_CONFIRMATION"

QuestionsFit ==
  /\ \A i, j \in Open : i = j
  /\ \A i \in Open : QuestionFits(i)
  /\ status = "WAITING_CONFIRMATION" => Open # {}
  /\ status = "WAITING_INPUT" /\ ~doc.unclear => Open # {}

\* What a stage may have decided, whenever it read the evidence.
SelectOutcomes ==
  {Result("BUILDING_PARAMETERS", "sels", [decision |-> "AUTO_SELECT"], "NONE"),
   Result("WAITING_CONFIRMATION", "sels", [decision |-> "CONFIRM"], "TOOL_CONFIRMATION"),
   Result("WAITING_INPUT", "sels", [decision |-> "CLARIFY"], "MISSING_PARAMETER"),
   Result("REJECTED", "sels", [decision |-> "NO_MATCH"], "NONE")}

BuildOutcomes(s) ==
  {Result("PLANNING", "builds", [sel |-> s, complete |-> TRUE], "NONE"),
   Result("WAITING_INPUT", "builds", [sel |-> s, complete |-> FALSE], "MISSING_PARAMETER")}

PlanOutcome(b, two) == Result("VALIDATING", "plans", [build |-> b, pair |-> two], "NONE")

ValOutcome(n, d, policy) ==
  Result(d, "vals", [plan |-> n, decision |-> d, policy |-> policy, clar |-> 0],
         IF d = "WAITING_CONFIRMATION" THEN "PLAN_CONFIRMATION" ELSE "NONE")

ResultFits(from, r) ==
  \/ from \in Stages /\ r \in {Failure, Outage}
  \/ from \in {"RETRIEVING", "SELECTING"} /\ r \in SelectOutcomes
  \/ /\ from = "BUILDING_PARAMETERS"
     /\ \E s \in DOMAIN sels : SelectionSettled(s) /\ r \in BuildOutcomes(s)
  \/ /\ from = "PLANNING"
     /\ \E b \in DOMAIN builds, two \in BOOLEAN : builds[b].complete /\ r = PlanOutcome(b, two)
  \/ /\ from = "VALIDATING" /\ plans # <<>>
     /\ \E d \in ValDecisions, policy \in Policies : r = ValOutcome(Len(plans), d, policy)

\* Only a selection remaps entities.
RemapFits(r, remap) == remap \subseteq BOOLEAN /\ (remap # {} => r.table = "sels")

\* An answer goes where its question sends it.
AnswerFits(a) ==
  /\ origin = "USER" /\ a.clar \in DOMAIN clars /\ a.yes \in BOOLEAN
  /\ a.to = AnswerTarget(clars[a.clar].type, a.yes)
  /\ clars[a.clar].type = "MISSING_PARAMETER" => a.yes

\* An Execution, made or about to be made, is of a plan and has its confirmation.
RowFits(e) ==
  /\ e.plan \in DOMAIN plans
  /\ e.policy = "CONFIRM" =>
       \E i \in DOMAIN clars : /\ clars[i].type = "PLAN_CONFIRMATION" /\ Confirmed(i)
                               /\ clars[i].about = e.plan /\ clars[i].policy = "CONFIRM"
  /\ e.key = "OCC" => SafeReadonly(e.policy)

\* A planner that goes on to build parameters has a settled selection, which
\* nobody replaces: no answer sends a schedule's request back.
ViewFits(view) ==
  /\ origin = "SCHEDULE"
  /\ view = "BUILDING_PARAMETERS" =>
       /\ sels # <<>> /\ SelectionSettled(Len(sels)) /\ status \notin BeforeSelection

JobFits(j) ==
  /\ j.op = "COMMITTING" => ResultFits(j.from, j.result) /\ RemapFits(j.result, j.remap)
  /\ j.op = "ANSWERING" => AnswerFits(j)
  /\ j.op = "CREATING" => j.row.key \in Keys /\ RowFits(j.row)
  /\ j.op = "CLAIMED" => origin = "SCHEDULE"
  /\ j.op = "NEXT" => ViewFits(j.view)

JobsFit == \A p \in Procs : JobFits(job[p])

ExecsFit ==
  /\ \A e \in execs : RowFits(e)
  /\ \A e, f \in execs : e.key = f.key => e = f

\* The inductive invariant.
PlanningInv ==
  PlanningTypeOK /\ ChainHolds /\ StatusFits /\ QuestionsFit /\ JobsFit /\ ExecsFit

-----------------------------------------------------------------------------
(* What one step does to the status and the evidence.                      *)

\* The questions with one more, open.
Asked(type, policy, about) ==
  Append(clars, [type |-> type, status |-> "OPEN", yes |-> FALSE,
                 policy |-> policy, about |-> about])

\* No evidence: a stage is taken, given back or fails.
Quiet ==
  /\ UNCHANGED evidence
  /\ \/ status' = status
     \/ /\ status \in {"NONE", "RECEIVED", "ANALYZING", "RETRIEVING"}
        /\ status' \in {"RECEIVED", "ANALYZING", "SELECTING"}
     \/ status \in Stages \cup {"ANALYZING"} /\ status' = "FAILED"

NewDoc ==
  /\ status = "ANALYZING" /\ doc' \in Docs
  /\ status' = IF doc'.unclear THEN "WAITING_INPUT" ELSE "RETRIEVING"
  /\ UNCHANGED <<sels, builds, plans, vals, clars>>

\* A remapping may change what the request lacks.
Remapped == UNCHANGED doc \/ \E b \in BOOLEAN : doc' = [doc EXCEPT !.lacks = b]

NewSelection ==
  /\ status \in {"RETRIEVING", "SELECTING"}
  /\ Remapped /\ UNCHANGED <<builds, plans, vals>>
  /\ \/ /\ sels' = Append(sels, [decision |-> "AUTO_SELECT"])
        /\ status' = "BUILDING_PARAMETERS" /\ UNCHANGED clars
     \/ /\ sels' = Append(sels, [decision |-> "CONFIRM"])
        /\ status' = "WAITING_CONFIRMATION"
        /\ clars' = Asked("TOOL_CONFIRMATION", "NONE", Len(sels) + 1)
     \/ /\ sels' = Append(sels, [decision |-> "CLARIFY"])
        /\ status' = "WAITING_INPUT"
        /\ clars' = Asked("MISSING_PARAMETER", "NONE", Len(sels) + 1)
     \/ /\ sels' = Append(sels, [decision |-> "NO_MATCH"])
        /\ status' = "REJECTED" /\ UNCHANGED clars

NewBuild ==
  /\ status = "BUILDING_PARAMETERS"
  /\ UNCHANGED <<doc, sels, plans, vals>>
  /\ \E s \in DOMAIN sels :
       /\ SelectionSettled(s)
       /\ \/ /\ builds' = Append(builds, [sel |-> s, complete |-> TRUE])
             /\ status' = "PLANNING" /\ UNCHANGED clars
          \/ /\ builds' = Append(builds, [sel |-> s, complete |-> FALSE])
             /\ status' = "WAITING_INPUT"
             /\ clars' = Asked("MISSING_PARAMETER", "NONE", Len(builds) + 1)

NewPlan ==
  /\ status = "PLANNING" /\ status' = "VALIDATING"
  /\ UNCHANGED <<doc, sels, builds, vals, clars>>
  /\ \E b \in DOMAIN builds, two \in BOOLEAN :
       builds[b].complete /\ plans' = Append(plans, [build |-> b, pair |-> two])

NewValidation ==
  /\ status = "VALIDATING" /\ plans # <<>>
  /\ UNCHANGED <<doc, sels, builds, plans>>
  /\ \E policy \in Policies :
       \/ /\ status' \in {"FAILED", "REJECTED", "READY"}
          /\ vals' = Append(vals, [plan |-> Len(plans), decision |-> status',
                                   policy |-> policy, clar |-> 0])
          /\ UNCHANGED clars
       \/ /\ status' = "WAITING_CONFIRMATION"
          /\ vals' = Append(vals, [plan |-> Len(plans), decision |-> "WAITING_CONFIRMATION",
                                   policy |-> policy, clar |-> Len(clars) + 1])
          /\ clars' = Asked("PLAN_CONFIRMATION", policy, Len(plans))

NewAnswer ==
  /\ origin = "USER" /\ UNCHANGED <<sels, builds, plans, vals>>
  /\ \E i \in Open, yes \in BOOLEAN :
       /\ clars[i].type = "MISSING_PARAMETER" => yes
       /\ clars' = [clars EXCEPT ![i].status = "ANSWERED", ![i].yes = yes]
       /\ status' = AnswerTarget(clars[i].type, yes)
  /\ IF status' = "RETRIEVING" THEN \E b \in BOOLEAN : doc' = [doc EXCEPT !.lacks = b]
     ELSE UNCHANGED doc

Effect ==
  /\ UNCHANGED origin
  /\ \/ Quiet \/ NewDoc \/ NewSelection \/ NewBuild \/ NewPlan \/ NewValidation \/ NewAnswer

-----------------------------------------------------------------------------
(* Lemmas about the operators.                                             *)

\* A set of positions has a largest one.
LEMMA MaxIsMember ==
  ASSUME NEW n \in Nat, NEW W, W \subseteq 1..n, W # {}
  PROVE  Max(W) \in W
<1> DEFINE Above(x) == {y \in W : y > x}
           T == {U \in SUBSET W : \E x \in W : U = Above(x)}
           R == StrictSubsetOrdering(W)
<1>1. IsFiniteSet(W)
  <2>1. IsFiniteSet(1..n)
    BY FS_Interval
  <2> QED
    BY <2>1, FS_Subset
<1> \A x \in W : Above(x) \in T
  OBVIOUS
<1>2. T \subseteq FiniteSubsetsOf(W) /\ T # {}
  <2> HIDE DEF Above
  <2> QED
    BY <1>1, FS_FiniteSubsetsOfFinite
<1>3. PICK t \in T : \A u \in T : ~(<<u, t>> \in R)
  <2> HIDE DEF T, R
  <2>1. IsWellFoundedOn(R, FiniteSubsetsOf(W))
    BY FS_StrictSubsetOrderingWellFounded DEF R
  <2> QED
    BY <1>2, <2>1, WFMin
<1>4. PICK m \in W : t = Above(m)
  OBVIOUS
<1>5. ASSUME NEW y \in W PROVE m >= y
  <2>1. SUFFICES ASSUME y > m PROVE FALSE
    OBVIOUS
  <2>2. Above(y) \subseteq Above(m)
    <3> SUFFICES ASSUME NEW z \in Above(y) PROVE z > m
      OBVIOUS
    <3> y \in Nat /\ m \in Nat /\ z \in Nat /\ z > y
      OBVIOUS
    <3> QED
      BY <2>1
  <2>3. y \in Above(m) /\ y \notin Above(y)
    BY <2>1
  <2>4. <<Above(y), Above(m)>> \in R
    <3> HIDE DEF Above
    <3> Above(y) \in SUBSET W /\ Above(m) \in SUBSET W
      BY DEF Above
    <3> QED
      BY <2>2, <2>3 DEF StrictSubsetOrdering
  <2> QED
    BY <1>3, <1>4, <2>2, <2>4
<1> QED
  BY <1>4, <1>5 DEF Max

\* The latest row of evidence.
LEMMA LastRow ==
  ASSUME NEW S, NEW s \in Seq(S), s # <<>>
  PROVE  Last(s) = s[Len(s)] /\ Len(s) \in DOMAIN s
BY EmptySeq DEF Last

\* Whatever the scores, the selector decides one of four things.
LEMMA SelectFits ==
  ASSUME NEW lacks, NEW auto, NEW r \in SelectResults(lacks, auto)
  PROVE  r \in SelectOutcomes
BY DEF SelectResults, SelectOutcomes, SystemDecisions, Result

\* What the build, generate and validate calls decide on what they read.
LEMMA BuildFits ==
  ASSUME PlanningTypeOK, sels # <<>> => SelectionSettled(Len(sels)), NEW r \in BuildResults
  PROVE  ResultFits("BUILDING_PARAMETERS", r)
<1>1. CASE r = Failure
  BY <1>1 DEF ResultFits, Stages
<1>2. CASE r # Failure
  <2>1. sels # <<>> /\ r \in BuildOutcomes(Len(sels))
    BY <1>2 DEF BuildResults, BuildOutcomes, Complete, Docs, PlanningTypeOK, EvidenceTypeOK
  <2>2. Len(sels) \in DOMAIN sels
    BY <2>1, LastRow DEF PlanningTypeOK, EvidenceTypeOK
  <2> QED
    BY <2>1, <2>2 DEF ResultFits
<1> QED
  BY <1>1, <1>2

LEMMA GenerateFits ==
  ASSUME PlanningTypeOK, NEW r \in GenerateResults
  PROVE  ResultFits("PLANNING", r)
<1>1. CASE r = Failure
  BY <1>1 DEF ResultFits, Stages
<1>2. CASE r # Failure
  <2>1. /\ builds # <<>> /\ Last(builds).complete
        /\ \E two \in BOOLEAN : r = PlanOutcome(Len(builds), two)
    BY <1>2 DEF GenerateResults, PlanOutcome
  <2>2. Len(builds) \in DOMAIN builds /\ builds[Len(builds)].complete
    BY <2>1, LastRow DEF PlanningTypeOK, EvidenceTypeOK
  <2> QED
    BY <2>1, <2>2 DEF ResultFits
<1> QED
  BY <1>1, <1>2

LEMMA ValidateFits ==
  ASSUME PlanningTypeOK, NEW r \in ValidateResults
  PROVE  ResultFits("VALIDATING", r)
<1>1. CASE r = Failure
  BY <1>1 DEF ResultFits, Stages
<1>2. CASE r # Failure
  <2>1. plans # <<>> /\ \E d \in ValDecisions : r = ValOutcome(Len(plans), d, reg.policy)
    BY <1>2 DEF ValidateResults, ValOutcome, ValDecisions
  <2>2. reg.policy \in Policies
    BY DEF PlanningTypeOK, Registries
  <2> QED
    BY <2>1, <2>2 DEF ResultFits
<1> QED
  BY <1>1, <1>2

\* A commit, by what was decided; a miss of the compare-and-set changes nothing.
LEMMA CommitEffect ==
  ASSUME PlanningTypeOK, JobsFit, NEW p \in Procs, CommitStage(p)
  PROVE  Effect
<1> DEFINE r == job[p].result
           from == job[p].from
           remap == job[p].remap
<1>1. ResultFits(from, r) /\ RemapFits(r, remap) /\ UNCHANGED origin
  BY DEF CommitStage, JobsFit, JobFits
<1>2. CASE status # from
  BY <1>1, <1>2 DEF CommitStage, Effect, Quiet
<1>3. CASE status = from
  <2>1. status' = r.to /\ Persist(r, remap)
    BY <1>3 DEF CommitStage
  <2> HIDE DEF r, from, remap
  <2>7. Remapped /\ (r.table # "sels" => UNCHANGED doc)
    BY <1>1, <2>1 DEF Persist, RemapFits, Remapped
  <2>2. CASE from \in Stages /\ r \in {Failure, Outage}
    <3>1. UNCHANGED doc /\ status' = "FAILED"
      BY <2>1, <2>2, <2>7 DEF Failure, Outage, Result
    <3>2. UNCHANGED <<sels, builds, plans, vals, clars>>
      BY <2>1, <2>2 DEF Failure, Outage, Result, Persist
    <3> QED
      BY <1>1, <1>3, <2>2, <3>1, <3>2 DEF Effect, Quiet, evidence
  <2>3. CASE from \in {"RETRIEVING", "SELECTING"} /\ r \in SelectOutcomes
    <3> SUFFICES NewSelection
      BY <1>1 DEF Effect
    <3>1. CASE r = Result("BUILDING_PARAMETERS", "sels", [decision |-> "AUTO_SELECT"], "NONE")
      <4>1. /\ UNCHANGED <<builds, plans, vals>>
            /\ sels' = Append(sels, [decision |-> "AUTO_SELECT"])
        BY <2>1, <3>1 DEF Result, Persist
      <4>2. UNCHANGED clars
        BY <2>1, <3>1 DEF Result, Persist, Asked
      <4>3. status' = "BUILDING_PARAMETERS"
        BY <2>1, <3>1 DEF Result
      <4> QED
        BY <1>3, <2>3, <2>7, <4>1, <4>2, <4>3 DEF NewSelection
    <3>2. CASE r = Result("WAITING_CONFIRMATION", "sels", [decision |-> "CONFIRM"],
                         "TOOL_CONFIRMATION")
      <4>1. /\ UNCHANGED <<builds, plans, vals>>
            /\ sels' = Append(sels, [decision |-> "CONFIRM"])
        BY <2>1, <3>2 DEF Result, Persist
      <4>2. clars' = Asked("TOOL_CONFIRMATION", "NONE", Len(sels) + 1)
        BY <2>1, <3>2 DEF Result, Persist, Asked
      <4>3. status' = "WAITING_CONFIRMATION"
        BY <2>1, <3>2 DEF Result
      <4> QED
        BY <1>3, <2>3, <2>7, <4>1, <4>2, <4>3 DEF NewSelection
    <3>3. CASE r = Result("WAITING_INPUT", "sels", [decision |-> "CLARIFY"], "MISSING_PARAMETER")
      <4>1. /\ UNCHANGED <<builds, plans, vals>>
            /\ sels' = Append(sels, [decision |-> "CLARIFY"])
        BY <2>1, <3>3 DEF Result, Persist
      <4>2. clars' = Asked("MISSING_PARAMETER", "NONE", Len(sels) + 1)
        BY <2>1, <3>3 DEF Result, Persist, Asked
      <4>3. status' = "WAITING_INPUT"
        BY <2>1, <3>3 DEF Result
      <4> QED
        BY <1>3, <2>3, <2>7, <4>1, <4>2, <4>3 DEF NewSelection
    <3>4. CASE r = Result("REJECTED", "sels", [decision |-> "NO_MATCH"], "NONE")
      <4>1. /\ UNCHANGED <<builds, plans, vals>>
            /\ sels' = Append(sels, [decision |-> "NO_MATCH"])
        BY <2>1, <3>4 DEF Result, Persist
      <4>2. UNCHANGED clars
        BY <2>1, <3>4 DEF Result, Persist, Asked
      <4>3. status' = "REJECTED"
        BY <2>1, <3>4 DEF Result
      <4> QED
        BY <1>3, <2>3, <2>7, <4>1, <4>2, <4>3 DEF NewSelection
    <3> QED
      BY <2>3, <3>1, <3>2, <3>3, <3>4 DEF SelectOutcomes
  <2>4. ASSUME from = "BUILDING_PARAMETERS", NEW s \in DOMAIN sels, SelectionSettled(s),
               r \in BuildOutcomes(s)
        PROVE  Effect
    <3> SUFFICES NewBuild
      BY <1>1 DEF Effect
    <3>1. CASE r = Result("PLANNING", "builds", [sel |-> s, complete |-> TRUE], "NONE")
      <4>1. /\ UNCHANGED <<doc, sels, plans, vals>>
            /\ builds' = Append(builds, [sel |-> s, complete |-> TRUE])
        BY <2>1, <3>1, <2>7 DEF Result, Persist
      <4>2. UNCHANGED clars
        BY <2>1, <3>1 DEF Result, Persist, Asked
      <4>3. status' = "PLANNING"
        BY <2>1, <3>1 DEF Result
      <4> QED
        BY <1>3, <2>4, <4>1, <4>2, <4>3 DEF NewBuild
    <3>2. CASE r = Result("WAITING_INPUT", "builds", [sel |-> s, complete |-> FALSE],
                         "MISSING_PARAMETER")
      <4>1. /\ UNCHANGED <<doc, sels, plans, vals>>
            /\ builds' = Append(builds, [sel |-> s, complete |-> FALSE])
        BY <2>1, <3>2, <2>7 DEF Result, Persist
      <4>2. clars' = Asked("MISSING_PARAMETER", "NONE", Len(builds) + 1)
        BY <2>1, <3>2 DEF Result, Persist, Asked
      <4>3. status' = "WAITING_INPUT"
        BY <2>1, <3>2 DEF Result
      <4> QED
        BY <1>3, <2>4, <4>1, <4>2, <4>3 DEF NewBuild
    <3> QED
      BY <2>4, <3>1, <3>2 DEF BuildOutcomes
  <2>5. ASSUME from = "PLANNING", NEW b \in DOMAIN builds, NEW two \in BOOLEAN,
               builds[b].complete, r = PlanOutcome(b, two)
        PROVE  Effect
    <3>1. NewPlan
      BY <1>3, <2>1, <2>5, <2>7 DEF PlanOutcome, Result, Persist, NewPlan
    <3> QED
      BY <1>1, <3>1 DEF Effect
  <2>6. ASSUME from = "VALIDATING", plans # <<>>, NEW d \in ValDecisions,
               NEW policy \in Policies, r = ValOutcome(Len(plans), d, policy)
        PROVE  Effect
    <3>1. /\ status' = d /\ UNCHANGED <<doc, sels, builds, plans>>
          /\ vals' = Append(vals, [plan |-> Len(plans), decision |-> d, policy |-> policy,
                 clar |-> IF d = "WAITING_CONFIRMATION" THEN Len(clars) + 1 ELSE 0])
          /\ clars' = IF d = "WAITING_CONFIRMATION"
                      THEN Asked("PLAN_CONFIRMATION", policy, Len(plans)) ELSE clars
      <4>1. /\ r.to = d /\ r.table = "vals"
            /\ r.row = [plan |-> Len(plans), decision |-> d, policy |-> policy, clar |-> 0]
            /\ r.ask = IF d = "WAITING_CONFIRMATION" THEN "PLAN_CONFIRMATION" ELSE "NONE"
        BY <2>6 DEF ValOutcome, Result
      <4>2. UNCHANGED <<doc, sels, builds, plans>>
        BY <2>1, <2>7, <4>1 DEF Persist
      <4>3. CASE d = "WAITING_CONFIRMATION"
        BY <2>1, <4>1, <4>2, <4>3 DEF Persist, Asked
      <4>4. CASE d # "WAITING_CONFIRMATION"
        BY <2>1, <4>1, <4>2, <4>4 DEF Persist
      <4> QED
        BY <4>3, <4>4
    <3>2. NewValidation
      BY <1>3, <2>6, <3>1 DEF NewValidation, ValDecisions
    <3> QED
      BY <1>1, <3>2 DEF Effect
  <2> QED
    BY <1>1, <2>2, <2>3, <2>4, <2>5, <2>6 DEF ResultFits
<1> QED
  BY <1>2, <1>3

\* An answer, with the status it waited for or not at all.
LEMMA AnswerEffect ==
  ASSUME PlanningTypeOK, JobsFit, NEW p \in Procs, FinishAnswer(p)
  PROVE  Effect
<1> DEFINE a == job[p]
<1>1. AnswerFits(a) /\ UNCHANGED origin
  BY DEF FinishAnswer, JobsFit, JobFits
<1>2. CASE clars[a.clar].status = "OPEN" /\ status = a.from
  <2>1. /\ clars' = [clars EXCEPT ![a.clar].status = "ANSWERED", ![a.clar].yes = a.yes]
        /\ status' = a.to
        /\ IF a.to = "RETRIEVING" THEN \E b \in BOOLEAN : doc' = [doc EXCEPT !.lacks = b]
           ELSE UNCHANGED doc
        /\ UNCHANGED <<sels, builds, plans, vals>>
    BY <1>2 DEF FinishAnswer
  <2>2. a.clar \in Open
    BY <1>1, <1>2 DEF AnswerFits, Open
  <2>3. NewAnswer
    BY <1>1, <2>1, <2>2 DEF AnswerFits, NewAnswer
  <2> QED
    BY <1>1, <2>3 DEF Effect
<1>3. CASE ~(clars[a.clar].status = "OPEN" /\ status = a.from)
  BY <1>1, <1>3 DEF FinishAnswer, Effect, Quiet, evidence
<1> QED
  BY <1>2, <1>3

-----------------------------------------------------------------------------
(* Every action has one of these effects.                                  *)

\* Every step has one of the effects on status and evidence; most have none.
LEMMA StepEffect ==
  ASSUME PlanningTypeOK, JobsFit, [PlanningNext]_pvars
  PROVE  Effect
<1> USE DEF Effect, Quiet, evidence, Stages
<1>1. ASSUME NEW p \in Procs, StartAnalyze(p) PROVE Effect
  BY <1>1 DEF StartAnalyze
<1>2. ASSUME NEW p \in Procs, Analyzed(p) PROVE Effect
  BY <1>2 DEF Analyzed, NewDoc
<1>3. ASSUME NEW p \in Procs, AnalyzeFails(p) PROVE Effect
  BY <1>3 DEF AnalyzeFails
<1>4. ASSUME NEW p \in Procs, AnalyzeRetried(p) PROVE Effect
  BY <1>4 DEF AnalyzeRetried
<1>5. ASSUME NEW p \in Procs, StartSelect(p) PROVE Effect
  BY <1>5 DEF StartSelect
<1>6. ASSUME NEW p \in Procs, RetrievalFails(p) PROVE Effect
  BY <1>6 DEF RetrievalFails
<1>7. ASSUME NEW p \in Procs, NothingRetrieved(p) PROVE Effect
  BY <1>7 DEF NothingRetrieved
<1>8. ASSUME NEW p \in Procs, Retrieved(p) PROVE Effect
  BY <1>8 DEF Retrieved
<1>9. ASSUME NEW p \in Procs, Reranked(p) PROVE Effect
  BY <1>9 DEF Reranked
<1>10. ASSUME NEW p \in Procs, StartBuild(p) PROVE Effect
  BY <1>10 DEF StartBuild, StartStage
<1>11. ASSUME NEW p \in Procs, StartGenerate(p) PROVE Effect
  BY <1>11 DEF StartGenerate, StartStage
<1>12. ASSUME NEW p \in Procs, StartValidate(p) PROVE Effect
  BY <1>12 DEF StartValidate, StartStage
<1>13. ASSUME NEW p \in Procs, CommitStage(p) PROVE Effect
  BY <1>13, CommitEffect
<1>14. ASSUME NEW p \in Procs, ClaimPlan(p) PROVE Effect
  BY <1>14 DEF ClaimPlan
<1>15. ASSUME NEW p \in Procs, SkipPlan(p) PROVE Effect
  BY <1>15 DEF SkipPlan
<1>16. ASSUME NEW p \in Procs, RefusePlan(p) PROVE Effect
  BY <1>16 DEF RefusePlan
<1>17. ASSUME NEW p \in Procs, BeginPlan(p) PROVE Effect
  BY <1>17 DEF BeginPlan
<1>18. ASSUME NEW p \in Procs, LosePlan(p) PROVE Effect
  BY <1>18 DEF LosePlan
<1>19. ASSUME NEW p \in Procs, FinishPlan(p) PROVE Effect
  BY <1>19 DEF FinishPlan
<1>20. ASSUME NEW p \in Procs, FailPlan(p) PROVE Effect
  BY <1>20 DEF FailPlan
<1>21. ASSUME NEW p \in Procs, NEW i \in DOMAIN clars, NEW yes \in BOOLEAN, StartAnswer(p, i, yes)
      PROVE  Effect
  BY <1>21 DEF StartAnswer
<1>22. ASSUME NEW p \in Procs, FinishAnswer(p) PROVE Effect
  BY <1>22, AnswerEffect
<1>23. ASSUME NEW p \in Procs, NEW k \in Keys, StartCreate(p, k) PROVE Effect
  BY <1>23 DEF StartCreate
<1>24. ASSUME NEW p \in Procs, FinishCreate(p) PROVE Effect
  BY <1>24 DEF FinishCreate
<1>25. ASSUME NEW p \in Procs, LeaseLapses(p) PROVE Effect
  BY <1>25 DEF LeaseLapses
<1>26. ASSUME NEW p \in Procs, Crash(p) PROVE Effect
  BY <1>26 DEF Crash
<1>27. CASE ExhaustPlan
  BY <1>27 DEF ExhaustPlan
<1>28. ASSUME NEW r \in Registries, AdminEdit(r) PROVE Effect
  BY <1>28 DEF AdminEdit
<1>29. CASE UNCHANGED pvars
  BY <1>29 DEF pvars
<1> HIDE DEF Effect
<1> QED
  BY <1>1, <1>2, <1>3, <1>4, <1>5, <1>6, <1>7, <1>8, <1>9, <1>10, <1>11, <1>12, <1>13, <1>14,
     <1>15, <1>16, <1>17, <1>18, <1>19, <1>20, <1>21, <1>22, <1>23, <1>24, <1>25, <1>26, <1>27,
     <1>28, <1>29
  DEF PlanningNext, StageSteps, PlannerSteps

-----------------------------------------------------------------------------
(* What the effects preserve of the evidence.                              *)

\* A row is appended: what was there stays, the new row is the last.
LEMMA AppendRow ==
  ASSUME NEW S, NEW s \in Seq(S), NEW e \in S
  PROVE  /\ Append(s, e) \in Seq(S) /\ Append(s, e) # <<>>
         /\ Len(Append(s, e)) = Len(s) + 1 /\ Last(Append(s, e)) = e
         /\ DOMAIN Append(s, e) = DOMAIN s \cup {Len(s) + 1} /\ Len(s) + 1 \notin DOMAIN s
         /\ Append(s, e)[Len(s) + 1] = e /\ \A i \in DOMAIN s : Append(s, e)[i] = s[i]
<1>1. Append(s, e) \in Seq(S) /\ Len(Append(s, e)) = Len(s) + 1 /\ Len(s) \in Nat
  OBVIOUS
<1>2. Append(s, e)[Len(s) + 1] = e /\ \A i \in DOMAIN s : Append(s, e)[i] = s[i]
  OBVIOUS
<1>3. DOMAIN Append(s, e) = 1..(Len(s) + 1) /\ DOMAIN s = 1..Len(s)
  BY <1>1
<1>4. Append(s, e) # <<>> /\ Last(Append(s, e)) = e
  BY <1>1, <1>2 DEF Last
<1> QED
  BY <1>1, <1>2, <1>3, <1>4

\* The question that is asked is a row like the others.
LEMMA AskedRow ==
  ASSUME EvidenceTypeOK, NEW type \in Questions, NEW policy \in Policies \cup {"NONE"},
         NEW about \in Nat
  PROVE  /\ Asked(type, policy, about) \in Seq(Clarifications)
         /\ Asked(type, policy, about) # <<>>
         /\ DOMAIN Asked(type, policy, about) = DOMAIN clars \cup {Len(clars) + 1}
         /\ Len(clars) + 1 \notin DOMAIN clars /\ Len(clars) + 1 \in Nat
         /\ Asked(type, policy, about)[Len(clars) + 1] =
              [type |-> type, status |-> "OPEN", yes |-> FALSE, policy |-> policy, about |-> about]
         /\ \A i \in DOMAIN clars : Asked(type, policy, about)[i] = clars[i]
<1> DEFINE e == [type |-> type, status |-> "OPEN", yes |-> FALSE, policy |-> policy,
                 about |-> about]
<1>1. e \in Clarifications
  BY DEF Clarifications
<1>2. clars \in Seq(Clarifications) /\ Len(clars) \in Nat
  BY DEF EvidenceTypeOK
<1> HIDE DEF e
<1> QED
  BY <1>1, <1>2, AppendRow DEF Asked, e

\* Asking adds a question and changes none.
LEMMA AskedKeeps ==
  ASSUME EvidenceTypeOK, NEW type \in Questions, NEW policy \in Policies \cup {"NONE"},
         NEW about \in Nat, clars' = clars \/ clars' = Asked(type, policy, about)
  PROVE  /\ clars' \in Seq(Clarifications)
         /\ \A i \in DOMAIN clars : i \in DOMAIN clars' /\ clars'[i] = clars[i]
<1>1. CASE clars' = clars
  BY <1>1 DEF EvidenceTypeOK
<1>2. CASE clars' = Asked(type, policy, about)
  <2> DEFINE e == [type |-> type, status |-> "OPEN", yes |-> FALSE, policy |-> policy,
                   about |-> about]
  <2>1. e \in Clarifications /\ clars \in Seq(Clarifications) /\ clars' = Append(clars, e)
    BY <1>2 DEF Asked, Clarifications, EvidenceTypeOK
  <2> HIDE DEF e
  <2>2. /\ Append(clars, e) \in Seq(Clarifications)
        /\ DOMAIN Append(clars, e) = DOMAIN clars \cup {Len(clars) + 1}
        /\ \A i \in DOMAIN clars : Append(clars, e)[i] = clars[i]
    BY <2>1, AppendRow
  <2> QED
    BY <2>1, <2>2
<1> QED
  BY <1>1, <1>2

\* An answer changes the status and the answer of one question.
LEMMA AnsweredRow ==
  ASSUME NEW s \in Seq(Clarifications), NEW i \in DOMAIN s, NEW yes \in BOOLEAN
  PROVE  [s EXCEPT ![i].status = "ANSWERED", ![i].yes = yes] \in Seq(Clarifications)
<1> DEFINE e == [s[i] EXCEPT !.status = "ANSWERED", !.yes = yes]
<1>1. s[i] \in Clarifications
  OBVIOUS
<1>2. e \in Clarifications
  BY <1>1 DEF Clarifications
<1>3. [s EXCEPT ![i].status = "ANSWERED", ![i].yes = yes] = [s EXCEPT ![i] = e]
  OBVIOUS
<1> HIDE DEF e
<1> QED
  BY <1>2, <1>3

\* Evidence rows keep their types.
LEMMA EvidenceTypeStep ==
  ASSUME EvidenceTypeOK, Effect
  PROVE  EvidenceTypeOK'
<1>1. CASE Quiet
  BY <1>1 DEF Effect, Quiet, evidence, EvidenceTypeOK, Statuses
<1>2. CASE NewDoc
  BY <1>2 DEF Effect, NewDoc, EvidenceTypeOK, Statuses
<1>3. CASE NewSelection
  <2>1. PICK d \in Decisions : sels' = Append(sels, [decision |-> d])
    BY <1>3 DEF NewSelection, Decisions
  <2>2. [decision |-> d] \in Selections /\ Len(sels) + 1 \in Nat
    BY DEF Selections, EvidenceTypeOK
  <2>3. sels' \in Seq(Selections)
    BY <2>1, <2>2, AppendRow DEF EvidenceTypeOK
  <2>4. clars' \in Seq(Clarifications)
    BY <1>3, <2>2, AskedRow DEF NewSelection, Questions, EvidenceTypeOK
  <2> QED
    BY <1>3, <2>3, <2>4 DEF Effect, NewSelection, Remapped, EvidenceTypeOK, Statuses, Docs
<1>4. CASE NewBuild
  <2>1. PICK s \in DOMAIN sels, c \in BOOLEAN :
          builds' = Append(builds, [sel |-> s, complete |-> c])
    BY <1>4 DEF NewBuild
  <2>2. [sel |-> s, complete |-> c] \in Builds /\ Len(builds) + 1 \in Nat
    BY DEF Builds, EvidenceTypeOK
  <2>3. builds' \in Seq(Builds)
    BY <2>1, <2>2, AppendRow DEF EvidenceTypeOK
  <2>4. clars' \in Seq(Clarifications)
    BY <1>4, <2>2, AskedRow DEF NewBuild, Questions, EvidenceTypeOK
  <2> QED
    BY <1>4, <2>3, <2>4 DEF Effect, NewBuild, EvidenceTypeOK, Statuses
<1>5. CASE NewPlan
  <2>1. PICK b \in DOMAIN builds, two \in BOOLEAN :
          plans' = Append(plans, [build |-> b, pair |-> two])
    BY <1>5 DEF NewPlan
  <2>2. [build |-> b, pair |-> two] \in Plans
    BY DEF Plans, EvidenceTypeOK
  <2>3. plans' \in Seq(Plans)
    BY <2>1, <2>2, AppendRow DEF EvidenceTypeOK
  <2> QED
    BY <1>5, <2>3 DEF Effect, NewPlan, EvidenceTypeOK, Statuses
<1>6. CASE NewValidation
  <2>1. PICK d \in ValDecisions, policy \in Policies, c \in {0, Len(clars) + 1} :
          /\ vals' = Append(vals, [plan |-> Len(plans), decision |-> d, policy |-> policy,
                                   clar |-> c])
          /\ clars' = clars \/ clars' = Asked("PLAN_CONFIRMATION", policy, Len(plans))
    BY <1>6 DEF NewValidation, ValDecisions
  <2>2. Len(plans) \in Nat /\ Len(clars) \in Nat
    BY DEF EvidenceTypeOK
  <2>3. [plan |-> Len(plans), decision |-> d, policy |-> policy, clar |-> c] \in Validations
    BY <2>2 DEF Validations
  <2>4. vals' \in Seq(Validations)
    BY <2>1, <2>3, AppendRow DEF EvidenceTypeOK
  <2>5. clars' \in Seq(Clarifications)
    BY <2>1, <2>2, AskedRow DEF Questions, EvidenceTypeOK
  <2> QED
    BY <1>6, <2>4, <2>5 DEF Effect, NewValidation, EvidenceTypeOK, Statuses
<1>7. CASE NewAnswer
  <2>1. PICK i \in Open, yes \in BOOLEAN :
          /\ clars' = [clars EXCEPT ![i].status = "ANSWERED", ![i].yes = yes]
          /\ status' = AnswerTarget(clars[i].type, yes)
    BY <1>7 DEF NewAnswer
  <2>2. clars \in Seq(Clarifications) /\ i \in DOMAIN clars /\ clars[i] \in Clarifications
    BY DEF EvidenceTypeOK, Open
  <2>3. clars' \in Seq(Clarifications)
    BY <2>1, <2>2, AnsweredRow
  <2>4. status' \in Statuses
    BY <2>1, <2>2 DEF AnswerTarget, Clarifications, Questions, Statuses
  <2>5. doc' \in Docs
    BY <1>7 DEF NewAnswer, EvidenceTypeOK, Docs
  <2> QED
    BY <1>7, <2>3, <2>4, <2>5 DEF Effect, NewAnswer, EvidenceTypeOK
<1> QED
  BY <1>1, <1>2, <1>3, <1>4, <1>5, <1>6, <1>7 DEF Effect

\* What a decision in flight refers to stays: evidence only grows, there is one plan,
\* a question keeps what it asks, and an answer is final.
Grows ==
  /\ \A s \in DOMAIN sels : s \in DOMAIN sels' /\ sels'[s] = sels[s]
  /\ \A b \in DOMAIN builds : b \in DOMAIN builds' /\ builds'[b] = builds[b]
  /\ plans # <<>> => plans' = plans
  /\ \A i \in DOMAIN clars :
       /\ i \in DOMAIN clars' /\ clars'[i].type = clars[i].type
       /\ clars'[i].about = clars[i].about /\ clars'[i].policy = clars[i].policy
       /\ clars[i].status = "ANSWERED" => clars'[i] = clars[i]

LEMMA GrowStep ==
  ASSUME EvidenceTypeOK, StatusFits, Effect
  PROVE  Grows
<1>1. CASE Quiet
  BY <1>1 DEF Quiet, evidence, Grows
<1>2. CASE NewDoc
  BY <1>2 DEF NewDoc, Grows
<1>3. CASE NewSelection
  <2>1. PICK d \in Decisions : sels' = Append(sels, [decision |-> d])
    BY <1>3 DEF NewSelection, Decisions
  <2>2. [decision |-> d] \in Selections /\ Len(sels) + 1 \in Nat
    BY DEF Selections, EvidenceTypeOK
  <2>3. \A s \in DOMAIN sels : s \in DOMAIN sels' /\ sels'[s] = sels[s]
    BY <2>1, <2>2, AppendRow DEF EvidenceTypeOK
  <2>4. \A i \in DOMAIN clars : i \in DOMAIN clars' /\ clars'[i] = clars[i]
    <3>1. PICK type \in Questions :
            clars' = clars \/ clars' = Asked(type, "NONE", Len(sels) + 1)
      BY <1>3 DEF NewSelection, Questions
    <3> QED
      BY <2>2, <3>1, AskedKeeps
  <2> QED
    BY <1>3, <2>3, <2>4 DEF NewSelection, Grows
<1>4. CASE NewBuild
  <2>1. PICK s \in DOMAIN sels, c \in BOOLEAN :
          builds' = Append(builds, [sel |-> s, complete |-> c])
    BY <1>4 DEF NewBuild
  <2>2. [sel |-> s, complete |-> c] \in Builds /\ Len(builds) + 1 \in Nat
    BY DEF Builds, EvidenceTypeOK
  <2>3. \A b \in DOMAIN builds : b \in DOMAIN builds' /\ builds'[b] = builds[b]
    BY <2>1, <2>2, AppendRow DEF EvidenceTypeOK
  <2>4. \A i \in DOMAIN clars : i \in DOMAIN clars' /\ clars'[i] = clars[i]
    <3>1. PICK type \in Questions :
            clars' = clars \/ clars' = Asked(type, "NONE", Len(builds) + 1)
      BY <1>4 DEF NewBuild, Questions
    <3> QED
      BY <2>2, <3>1, AskedKeeps
  <2> QED
    BY <1>4, <2>3, <2>4 DEF NewBuild, Grows
<1>5. CASE NewPlan
  BY <1>5 DEF NewPlan, Grows, StatusFits, AfterPlan
<1>6. CASE NewValidation
  <2>1. Len(plans) \in Nat
    BY DEF EvidenceTypeOK
  <2>2. \A i \in DOMAIN clars : i \in DOMAIN clars' /\ clars'[i] = clars[i]
    <3>1. PICK policy \in Policies :
            clars' = clars \/ clars' = Asked("PLAN_CONFIRMATION", policy, Len(plans))
      BY <1>6 DEF NewValidation
    <3>2. "PLAN_CONFIRMATION" \in Questions
      BY DEF Questions
    <3> QED
      BY <2>1, <3>1, <3>2, AskedKeeps
  <2> QED
    BY <1>6, <2>2 DEF NewValidation, Grows
<1>7. CASE NewAnswer
  <2>1. PICK i \in Open, yes \in BOOLEAN :
          clars' = [clars EXCEPT ![i].status = "ANSWERED", ![i].yes = yes]
    BY <1>7 DEF NewAnswer
  <2>2. \A j \in DOMAIN clars :
          /\ j \in DOMAIN clars' /\ clars'[j].type = clars[j].type
          /\ clars'[j].about = clars[j].about /\ clars'[j].policy = clars[j].policy
          /\ clars[j].status = "ANSWERED" => clars'[j] = clars[j]
    BY <2>1 DEF EvidenceTypeOK, Clarifications, Open
  <2> QED
    BY <1>7, <2>2 DEF NewAnswer, Grows
<1> QED
  BY <1>1, <1>2, <1>3, <1>4, <1>5, <1>6, <1>7 DEF Effect

\* A settled selection stays settled.
LEMMA SettledStays ==
  ASSUME Grows, NEW s \in DOMAIN sels, SelectionSettled(s)
  PROVE  s \in DOMAIN sels' /\ SelectionSettled(s)'
BY DEF Grows, SelectionSettled, Confirmed

\* Where each kind of answer sends the request.
LEMMA AnswerTargets ==
  /\ \A yes : AnswerTarget("MISSING_PARAMETER", yes) = "RETRIEVING"
  /\ AnswerTarget("TOOL_CONFIRMATION", FALSE) = "CANCELLED"
  /\ AnswerTarget("PLAN_CONFIRMATION", FALSE) = "CANCELLED"
  /\ AnswerTarget("TOOL_CONFIRMATION", TRUE) = "BUILDING_PARAMETERS"
  /\ AnswerTarget("PLAN_CONFIRMATION", TRUE) = "VALIDATING"
<1>1. \A yes : AnswerTarget("MISSING_PARAMETER", yes) = "RETRIEVING"
  BY DEF AnswerTarget
<1>2. AnswerTarget("TOOL_CONFIRMATION", FALSE) = "CANCELLED"
  BY DEF AnswerTarget
<1>3. AnswerTarget("PLAN_CONFIRMATION", FALSE) = "CANCELLED"
  BY DEF AnswerTarget
<1>4. AnswerTarget("TOOL_CONFIRMATION", TRUE) = "BUILDING_PARAMETERS"
  BY DEF AnswerTarget
<1>5. AnswerTarget("PLAN_CONFIRMATION", TRUE) = "VALIDATING"
  BY DEF AnswerTarget
<1> QED
  BY <1>1, <1>2, <1>3, <1>4, <1>5

\* Evidence keeps referring to the rows it was made from.
LEMMA ChainStep ==
  ASSUME EvidenceTypeOK, ChainHolds, StatusFits, Effect
  PROVE  ChainHolds'
<1>1. Grows
  BY GrowStep
<1>2. ASSUME NEW b \in DOMAIN builds'
      PROVE  (builds[b].sel \in DOMAIN sels /\ SelectionSettled(builds[b].sel))'
  <2>1. CASE b \in DOMAIN builds
    <3>1. builds'[b] = builds[b]
      BY <1>1, <2>1 DEF Grows
    <3>2. PICK s \in DOMAIN sels : s = builds[b].sel /\ SelectionSettled(s)
      BY <2>1 DEF ChainHolds
    <3>3. s \in DOMAIN sels' /\ SelectionSettled(s)'
      BY <1>1, <3>2, SettledStays
    <3> QED
      BY <3>1, <3>2, <3>3 DEF SelectionSettled, Confirmed
  <2>2. CASE b \notin DOMAIN builds
    <3>1. NewBuild
      BY <2>2 DEF Effect, Quiet, evidence, NewDoc, NewSelection, NewPlan, NewValidation, NewAnswer
    <3>2. PICK s \in DOMAIN sels, c \in BOOLEAN :
            builds' = Append(builds, [sel |-> s, complete |-> c]) /\ SelectionSettled(s)
      BY <3>1 DEF NewBuild
    <3>3. [sel |-> s, complete |-> c] \in Builds
      BY DEF Builds, EvidenceTypeOK
    <3>4. builds'[b] = [sel |-> s, complete |-> c]
      BY <2>2, <3>2, <3>3, AppendRow DEF EvidenceTypeOK
    <3>5. s \in DOMAIN sels' /\ SelectionSettled(s)'
      BY <1>1, <3>2, SettledStays
    <3> QED
      BY <3>4, <3>5 DEF SelectionSettled, Confirmed
  <2> QED
    BY <2>1, <2>2
<1>3. ASSUME NEW n \in DOMAIN plans'
      PROVE  plans'[n].build \in DOMAIN builds' /\ builds'[plans'[n].build].complete
  <2>1. CASE plans' = plans
    BY <1>1, <2>1 DEF ChainHolds, Grows
  <2>2. CASE plans' # plans
    <3>1. NewPlan
      BY <2>2 DEF Effect, Quiet, evidence, NewDoc, NewSelection, NewBuild, NewValidation, NewAnswer
    <3>2. PICK b \in DOMAIN builds, two \in BOOLEAN :
            plans' = Append(plans, [build |-> b, pair |-> two]) /\ builds[b].complete
      BY <3>1 DEF NewPlan
    <3>3. [build |-> b, pair |-> two] \in Plans
      BY DEF Plans, EvidenceTypeOK
    <3>4. n \in DOMAIN plans \/ plans'[n] = [build |-> b, pair |-> two]
      BY <3>2, <3>3, AppendRow DEF EvidenceTypeOK
    <3>5. n \in DOMAIN plans => plans'[n] = plans[n]
      BY <3>2, <3>3, AppendRow DEF EvidenceTypeOK
    <3>6. builds' = builds
      BY <3>1 DEF NewPlan
    <3> QED
      BY <3>2, <3>4, <3>5, <3>6 DEF ChainHolds
  <2> QED
    BY <2>1, <2>2
<1>4. ASSUME NEW i \in DOMAIN vals'
      PROVE  /\ plans' # <<>> /\ vals'[i].plan = Len(plans')
             /\ vals'[i].decision = "WAITING_CONFIRMATION" =>
                  /\ vals'[i].clar \in DOMAIN clars'
                  /\ clars'[vals'[i].clar].type = "PLAN_CONFIRMATION"
                  /\ clars'[vals'[i].clar].about = vals'[i].plan
                  /\ clars'[vals'[i].clar].policy = vals'[i].policy
  <2>1. CASE i \in DOMAIN vals /\ vals'[i] = vals[i]
    BY <1>1, <2>1 DEF ChainHolds, Grows
  <2>2. CASE ~(i \in DOMAIN vals /\ vals'[i] = vals[i])
    <3>1. NewValidation
      BY <2>2 DEF Effect, Quiet, evidence, NewDoc, NewSelection, NewBuild, NewPlan, NewAnswer
    <3>2. PICK d \in ValDecisions, policy \in Policies, c \in {0, Len(clars) + 1} :
            /\ vals' = Append(vals, [plan |-> Len(plans), decision |-> d, policy |-> policy,
                                     clar |-> c])
            /\ d = "WAITING_CONFIRMATION" =>
                 /\ c = Len(clars) + 1
                 /\ clars' = Asked("PLAN_CONFIRMATION", policy, Len(plans))
      BY <3>1 DEF NewValidation, ValDecisions
    <3>3. Len(plans) \in Nat /\ Len(clars) \in Nat
      BY DEF EvidenceTypeOK
    <3>4. [plan |-> Len(plans), decision |-> d, policy |-> policy, clar |-> c] \in Validations
      BY <3>3 DEF Validations
    <3>5. vals'[i] = [plan |-> Len(plans), decision |-> d, policy |-> policy, clar |-> c]
      BY <2>2, <3>2, <3>4, AppendRow DEF EvidenceTypeOK
    <3>6. plans' = plans /\ plans # <<>>
      BY <3>1 DEF NewValidation
    <3>7. ASSUME d = "WAITING_CONFIRMATION"
          PROVE  /\ c \in DOMAIN clars' /\ clars'[c].type = "PLAN_CONFIRMATION"
                 /\ clars'[c].about = Len(plans) /\ clars'[c].policy = policy
      <4>1. "PLAN_CONFIRMATION" \in Questions
        BY DEF Questions
      <4>2. c \in DOMAIN Asked("PLAN_CONFIRMATION", policy, Len(plans))
        BY <3>2, <3>3, <3>7, <4>1, AskedRow
      <4>3. Asked("PLAN_CONFIRMATION", policy, Len(plans))[c] =
              [type |-> "PLAN_CONFIRMATION", status |-> "OPEN", yes |-> FALSE, policy |-> policy,
               about |-> Len(plans)]
        BY <3>2, <3>3, <3>7, <4>1, AskedRow
      <4> QED
        BY <3>2, <3>7, <4>2, <4>3
    <3> QED
      BY <3>5, <3>6, <3>7
  <2> QED
    BY <2>1, <2>2
<1> QED
  BY <1>2, <1>3, <1>4 DEF ChainHolds

\* What the status says of the evidence stays true; an answered confirmation settles the
\* selection it was asked about.
LEMMA StatusStep ==
  ASSUME EvidenceTypeOK, ChainHolds, StatusFits, QuestionsFit, Effect
  PROVE  StatusFits'
<1>1. CASE Quiet
  BY <1>1 DEF Quiet, evidence, Stages, StatusFits, AfterPlan, SelectionSettled, Confirmed
<1>2. CASE NewDoc
  BY <1>2 DEF NewDoc, StatusFits, AfterPlan
<1>3. CASE NewSelection
  <2>1. plans' = <<>> /\ ~doc'.unclear /\ status' # "READY"
    BY <1>3 DEF NewSelection, Remapped, StatusFits, AfterPlan, EvidenceTypeOK, Docs
  <2>2. ASSUME status' = "BUILDING_PARAMETERS" PROVE (sels # <<>> /\ SelectionSettled(Len(sels)))'
    <3>1. sels' = Append(sels, [decision |-> "AUTO_SELECT"])
      BY <1>3, <2>2 DEF NewSelection
    <3>2. [decision |-> "AUTO_SELECT"] \in Selections
      BY DEF Selections, Decisions
    <3>3. sels' # <<>> /\ sels'[Len(sels')] = [decision |-> "AUTO_SELECT"]
      BY <3>1, <3>2, AppendRow DEF EvidenceTypeOK
    <3> QED
      BY <3>3 DEF SelectionSettled
  <2> QED
    BY <2>1, <2>2 DEF StatusFits
<1>4. CASE NewBuild
  BY <1>4 DEF NewBuild, StatusFits, AfterPlan
<1>5. CASE NewPlan
  BY <1>5 DEF NewPlan, StatusFits, AfterPlan
<1>6. CASE NewValidation
  <2>1. ~doc'.unclear /\ status' \in AfterPlan /\ status' # "BUILDING_PARAMETERS"
    BY <1>6 DEF NewValidation, StatusFits, AfterPlan
  <2>2. ASSUME status' = "READY" PROVE (vals # <<>> /\ Last(vals).decision = "READY")'
    <3>1. PICK policy \in Policies :
            vals' = Append(vals, [plan |-> Len(plans), decision |-> "READY", policy |-> policy,
                                  clar |-> 0])
      BY <1>6, <2>2 DEF NewValidation
    <3>2. [plan |-> Len(plans), decision |-> "READY", policy |-> policy, clar |-> 0]
            \in Validations
      BY DEF Validations, ValDecisions, EvidenceTypeOK
    <3>3. vals' # <<>> /\ Last(vals') = [plan |-> Len(plans), decision |-> "READY",
                                         policy |-> policy, clar |-> 0]
      BY <3>1, <3>2, AppendRow DEF EvidenceTypeOK
    <3> QED
      BY <3>3
  <2> QED
    BY <2>1, <2>2 DEF StatusFits
<1>7. CASE NewAnswer
  <2>1. PICK i \in Open, yes \in BOOLEAN :
          /\ clars' = [clars EXCEPT ![i].status = "ANSWERED", ![i].yes = yes]
          /\ clars[i].type = "MISSING_PARAMETER" => yes
          /\ status' = AnswerTarget(clars[i].type, yes)
    BY <1>7 DEF NewAnswer
  <2>2. /\ i \in DOMAIN clars /\ clars \in Seq(Clarifications)
        /\ clars[i].type \in Questions /\ QuestionFits(i)
    <3>1. i \in DOMAIN clars /\ clars \in Seq(Clarifications) /\ QuestionFits(i)
      BY DEF QuestionsFit, Open, EvidenceTypeOK
    <3>2. clars[i] \in Clarifications
      BY <3>1
    <3> QED
      BY <3>1, <3>2 DEF Clarifications
  <2>3. ~doc'.unclear
    BY <1>7, <2>2 DEF NewAnswer, QuestionFits, StatusFits, EvidenceTypeOK, Docs
  <2>4. status' # "READY" /\ (plans # <<>> => status' \in AfterPlan)
    BY <2>1, <2>2 DEF AnswerTarget, Questions, QuestionFits, StatusFits, AfterPlan
  <2>5. ASSUME status' = "BUILDING_PARAMETERS" PROVE (sels # <<>> /\ SelectionSettled(Len(sels)))'
    <3>1. clars[i].type = "TOOL_CONFIRMATION" /\ yes
      <4>1. CASE clars[i].type = "MISSING_PARAMETER"
        BY <2>1, <2>5, <4>1 DEF AnswerTarget
      <4>2. CASE clars[i].type = "PLAN_CONFIRMATION"
        BY <2>1, <2>5, <4>2 DEF AnswerTarget
      <4>3. CASE clars[i].type = "TOOL_CONFIRMATION"
        BY <2>1, <2>5, <4>3, AnswerTargets
      <4> QED
        BY <2>2, <4>1, <4>2, <4>3 DEF Questions
    <3>2. sels # <<>> /\ clars[i].about = Len(sels) /\ Last(sels).decision = "CONFIRM"
      BY <2>2, <3>1 DEF QuestionFits
    <3>3. sels' = sels /\ sels[Len(sels)].decision = "CONFIRM"
      BY <1>7, <3>2, LastRow DEF NewAnswer, EvidenceTypeOK
    <3>4. /\ i \in DOMAIN clars' /\ clars'[i].type = "TOOL_CONFIRMATION"
          /\ clars'[i].about = Len(sels)
          /\ clars'[i].status = "ANSWERED" /\ clars'[i].yes
      <4>1. clars[i] \in Clarifications
        BY <2>2
      <4>2. /\ i \in DOMAIN clars'
            /\ clars'[i] = [clars[i] EXCEPT !.status = "ANSWERED", !.yes = yes]
        BY <2>1, <2>2
      <4> QED
        BY <3>1, <3>2, <4>1, <4>2 DEF Clarifications
    <3> QED
      BY <3>2, <3>3, <3>4 DEF SelectionSettled, Confirmed
  <2> QED
    BY <1>7, <2>3, <2>4, <2>5 DEF StatusFits, NewAnswer
<1> QED
  BY <1>1, <1>2, <1>3, <1>4, <1>5, <1>6, <1>7 DEF Effect

\* Only a waiting request has an open question.
LEMMA NothingOpen ==
  ASSUME QuestionsFit, status \notin {"WAITING_INPUT", "WAITING_CONFIRMATION"}
  PROVE  Open = {}
BY DEF QuestionsFit, QuestionFits

\* The one question that is asked is the open one.
LEMMA AskedOpen ==
  ASSUME EvidenceTypeOK, Open = {}, NEW type \in Questions,
         NEW policy \in Policies \cup {"NONE"}, NEW about \in Nat,
         clars' = Asked(type, policy, about)
  PROVE  /\ Open' = {Len(clars) + 1}
         /\ clars'[Len(clars) + 1].type = type /\ clars'[Len(clars) + 1].about = about
<1>1. DOMAIN clars' = DOMAIN clars \cup {Len(clars) + 1}
  BY AskedRow
<1>2. \A i \in DOMAIN clars : clars'[i].status # "OPEN"
  <2>1. \A i \in DOMAIN clars : clars'[i] = clars[i]
    BY AskedKeeps
  <2> QED
    BY <2>1 DEF Open
<1>3. clars'[Len(clars) + 1] = [type |-> type, status |-> "OPEN", yes |-> FALSE,
                                policy |-> policy, about |-> about]
  <2>1. Asked(type, policy, about)[Len(clars) + 1] =
          [type |-> type, status |-> "OPEN", yes |-> FALSE, policy |-> policy, about |-> about]
    BY AskedRow
  <2> QED
    BY <2>1
<1> QED
  BY <1>1, <1>2, <1>3 DEF Open

\* At most one question is open, and it fits the status.
LEMMA QuestionsStep ==
  ASSUME EvidenceTypeOK, ChainHolds, StatusFits, QuestionsFit, Effect
  PROVE  QuestionsFit'
<1>1. CASE Quiet
  <2>1. UNCHANGED <<doc, sels, plans, clars>> /\ Open' = Open
    BY <1>1 DEF Quiet, evidence, Open
  <2>2. CASE status' = status
    BY <2>1, <2>2 DEF QuestionsFit, QuestionFits
  <2>3. CASE status' # status
    <3>1. Open = {}
      BY <1>1, <2>3, NothingOpen DEF Quiet, Stages
    <3> QED
      BY <1>1, <2>1, <2>3, <3>1 DEF Quiet, QuestionsFit
  <2> QED
    BY <2>2, <2>3
<1>2. CASE NewDoc
  <2>1. Open' = {}
    BY <1>2, NothingOpen DEF NewDoc, Open
  <2> QED
    BY <1>2, <2>1 DEF NewDoc, QuestionsFit
<1>3. CASE NewSelection
  <2>1. Open = {} /\ plans' = <<>> /\ ~doc'.unclear /\ Len(sels) + 1 \in Nat
    <3>1. ~doc'.unclear
      BY <1>3 DEF NewSelection, Remapped, StatusFits, EvidenceTypeOK, Docs
    <3> QED
      BY <1>3, <3>1, NothingOpen DEF NewSelection, StatusFits, AfterPlan, EvidenceTypeOK
  <2>2. CASE status' \in {"BUILDING_PARAMETERS", "REJECTED"} /\ UNCHANGED clars
    BY <2>1, <2>2 DEF Open, QuestionsFit
  <2>3. CASE /\ sels' = Append(sels, [decision |-> "CONFIRM"])
             /\ status' = "WAITING_CONFIRMATION"
             /\ clars' = Asked("TOOL_CONFIRMATION", "NONE", Len(sels) + 1)
    <3>1. "TOOL_CONFIRMATION" \in Questions /\ [decision |-> "CONFIRM"] \in Selections
      BY DEF Questions, Selections, Decisions
    <3>2. /\ Open' = {Len(clars) + 1}
          /\ clars'[Len(clars) + 1].type = "TOOL_CONFIRMATION"
          /\ clars'[Len(clars) + 1].about = Len(sels) + 1
      BY <2>1, <2>3, <3>1, AskedOpen
    <3>3. sels' # <<>> /\ Len(sels') = Len(sels) + 1 /\ Last(sels') = [decision |-> "CONFIRM"]
      BY <2>3, <3>1, AppendRow DEF EvidenceTypeOK
    <3> QED
      BY <2>1, <2>3, <3>2, <3>3 DEF QuestionsFit, QuestionFits
  <2>4. CASE /\ status' = "WAITING_INPUT"
             /\ clars' = Asked("MISSING_PARAMETER", "NONE", Len(sels) + 1)
    <3>1. "MISSING_PARAMETER" \in Questions
      BY DEF Questions
    <3>2. Open' = {Len(clars) + 1} /\ clars'[Len(clars) + 1].type = "MISSING_PARAMETER"
      BY <2>1, <2>4, <3>1, AskedOpen
    <3> QED
      BY <2>1, <2>4, <3>2 DEF QuestionsFit, QuestionFits
  <2> QED
    BY <1>3, <2>2, <2>3, <2>4 DEF NewSelection
<1>4. CASE NewBuild
  <2>1. Open = {} /\ ~doc'.unclear /\ Len(builds) + 1 \in Nat
    BY <1>4, NothingOpen DEF NewBuild, StatusFits, EvidenceTypeOK
  <2>2. CASE status' = "PLANNING" /\ UNCHANGED clars
    BY <2>1, <2>2 DEF Open, QuestionsFit
  <2>3. CASE /\ status' = "WAITING_INPUT"
             /\ clars' = Asked("MISSING_PARAMETER", "NONE", Len(builds) + 1)
    <3>1. "MISSING_PARAMETER" \in Questions
      BY DEF Questions
    <3>2. Open' = {Len(clars) + 1} /\ clars'[Len(clars) + 1].type = "MISSING_PARAMETER"
      BY <2>1, <2>3, <3>1, AskedOpen
    <3> QED
      BY <2>1, <2>3, <3>2 DEF QuestionsFit, QuestionFits
  <2> QED
    BY <1>4, <2>2, <2>3 DEF NewBuild
<1>5. CASE NewPlan
  <2>1. Open' = {}
    BY <1>5, NothingOpen DEF NewPlan, Open
  <2> QED
    BY <1>5, <2>1 DEF NewPlan, QuestionsFit
<1>6. CASE NewValidation
  <2>1. Open = {} /\ Len(plans) \in Nat
    BY <1>6, NothingOpen DEF NewValidation, EvidenceTypeOK
  <2>2. CASE status' \in {"FAILED", "REJECTED", "READY"} /\ UNCHANGED clars
    BY <2>1, <2>2 DEF Open, QuestionsFit
  <2>3. ASSUME NEW policy \in Policies, status' = "WAITING_CONFIRMATION",
               clars' = Asked("PLAN_CONFIRMATION", policy, Len(plans))
        PROVE  QuestionsFit'
    <3>1. "PLAN_CONFIRMATION" \in Questions
      BY DEF Questions
    <3>2. Open' = {Len(clars) + 1} /\ clars'[Len(clars) + 1].type = "PLAN_CONFIRMATION"
      BY <2>1, <2>3, <3>1, AskedOpen
    <3> QED
      BY <2>3, <3>2 DEF QuestionsFit, QuestionFits
  <2> QED
    BY <1>6, <2>2, <2>3 DEF NewValidation
<1>7. CASE NewAnswer
  <2>1. PICK i \in Open, yes \in BOOLEAN :
          /\ clars' = [clars EXCEPT ![i].status = "ANSWERED", ![i].yes = yes]
          /\ status' = AnswerTarget(clars[i].type, yes)
    BY <1>7 DEF NewAnswer
  <2>2. /\ i \in DOMAIN clars /\ clars \in Seq(Clarifications)
        /\ clars[i].type \in Questions
    <3>1. i \in DOMAIN clars /\ clars \in Seq(Clarifications)
      BY DEF Open, EvidenceTypeOK
    <3>2. clars[i] \in Clarifications
      BY <3>1
    <3> QED
      BY <3>1, <3>2 DEF Clarifications
  <2>3. clars'[i].status = "ANSWERED"
    <3>1. clars[i] \in Clarifications
      BY <2>2
    <3>2. clars'[i] = [clars[i] EXCEPT !.status = "ANSWERED", !.yes = yes]
      BY <2>1, <2>2
    <3> QED
      BY <3>1, <3>2 DEF Clarifications
  <2>4. \A j \in DOMAIN clars' : j \in DOMAIN clars /\ (j # i => clars'[j] = clars[j])
    BY <2>1, <2>2
  <2>5. Open' = {}
    BY <2>3, <2>4 DEF Open, QuestionsFit
  <2>6. status' \notin {"WAITING_INPUT", "WAITING_CONFIRMATION"}
    BY <2>1, <2>2, AnswerTargets DEF Questions
  <2> QED
    BY <2>5, <2>6 DEF QuestionsFit
<1> QED
  BY <1>1, <1>2, <1>3, <1>4, <1>5, <1>6, <1>7 DEF Effect

-----------------------------------------------------------------------------
(* What the effects preserve of the decisions in flight.                   *)

\* A decision stays fit to be committed, whatever is committed before it.
LEMMA ResultStays ==
  ASSUME Grows, NEW from, NEW r, ResultFits(from, r)
  PROVE  ResultFits(from, r)'
<1>1. CASE from \in Stages /\ r \in {Failure, Outage}
  BY <1>1 DEF ResultFits
<1>2. CASE from \in {"RETRIEVING", "SELECTING"} /\ r \in SelectOutcomes
  BY <1>2 DEF ResultFits
<1>3. ASSUME from = "BUILDING_PARAMETERS", NEW s \in DOMAIN sels, SelectionSettled(s),
             r \in BuildOutcomes(s)
      PROVE  ResultFits(from, r)'
  <2>1. s \in DOMAIN sels' /\ SelectionSettled(s)'
    BY <1>3, SettledStays
  <2> QED
    BY <1>3, <2>1 DEF ResultFits
<1>4. ASSUME from = "PLANNING", NEW b \in DOMAIN builds, NEW two \in BOOLEAN,
             builds[b].complete, r = PlanOutcome(b, two)
      PROVE  ResultFits(from, r)'
  BY <1>4 DEF ResultFits, Grows
<1>5. ASSUME from = "VALIDATING", plans # <<>>, NEW d \in ValDecisions,
             NEW policy \in Policies, r = ValOutcome(Len(plans), d, policy)
      PROVE  ResultFits(from, r)'
  BY <1>5 DEF ResultFits, Grows
<1> QED
  BY <1>1, <1>2, <1>3, <1>4, <1>5 DEF ResultFits

\* So does an Execution's row.
LEMMA RowStays ==
  ASSUME EvidenceTypeOK, Grows, NEW e, RowFits(e)
  PROVE  RowFits(e)'
<1>1. plans # <<>> /\ plans' = plans
  BY EmptySeq DEF RowFits, Grows, EvidenceTypeOK
<1> QED
  BY <1>1 DEF RowFits, Grows, Confirmed

\* An answer keeps its question.
LEMMA AnswerStays ==
  ASSUME Grows, UNCHANGED origin, NEW a, AnswerFits(a)
  PROVE  AnswerFits(a)'
BY DEF AnswerFits, Grows

\* What a planner's session saw stays true of the selections: only an answer, which a
\* schedule's request never gets, brings a request back before its selection.
LEMMA ViewStays ==
  ASSUME EvidenceTypeOK, StatusFits, Effect, NEW view, ViewFits(view)
  PROVE  ViewFits(view)'
<1>1. Grows /\ UNCHANGED origin
  BY GrowStep DEF Effect
<1>2. CASE view # "BUILDING_PARAMETERS"
  BY <1>1, <1>2 DEF ViewFits
<1>3. CASE view = "BUILDING_PARAMETERS"
  <2>1. /\ origin = "SCHEDULE" /\ sels # <<>> /\ SelectionSettled(Len(sels))
        /\ status \notin BeforeSelection
    BY <1>3 DEF ViewFits
  <2>2. sels' = sels /\ status' \notin BeforeSelection
    BY <2>1 DEF Effect, Quiet, evidence, NewDoc, NewSelection, NewBuild, NewPlan, NewValidation,
                NewAnswer, BeforeSelection, Stages
  <2>3. Len(sels) \in DOMAIN sels
    BY <2>1, LastRow DEF EvidenceTypeOK
  <2>4. SelectionSettled(Len(sels))'
    BY <1>1, <2>1, <2>2, <2>3, SettledStays DEF SelectionSettled, Confirmed
  <2> QED
    BY <1>1, <1>3, <2>1, <2>2, <2>4 DEF ViewFits
<1> QED
  BY <1>2, <1>3

\* Together: what a process is doing stays justified while others work.
LEMMA JobStays ==
  ASSUME EvidenceTypeOK, StatusFits, Effect, NEW j, JobFits(j)
  PROVE  JobFits(j)'
<1>1. Grows /\ UNCHANGED origin
  BY GrowStep DEF Effect
<1>2. j.op = "COMMITTING" => ResultFits(j.from, j.result)'
  BY <1>1, ResultStays DEF JobFits
<1>3. j.op = "ANSWERING" => AnswerFits(j)'
  BY <1>1, AnswerStays DEF JobFits
<1>4. j.op = "CREATING" => j.row.key \in Keys /\ RowFits(j.row)'
  BY <1>1, RowStays DEF JobFits
<1>5. j.op = "CLAIMED" => origin' = "SCHEDULE"
  BY <1>1 DEF JobFits
<1>6. j.op = "NEXT" => ViewFits(j.view)'
  BY <1>1, ViewStays DEF JobFits
<1> QED
  BY <1>2, <1>3, <1>4, <1>5, <1>6 DEF JobFits

\* One process goes on to j; the others stay where they are.
LEMMA OneJob ==
  ASSUME PlanningInv, Effect, NEW p \in Procs, NEW j, Goes(p, j), JobFits(j)'
  PROVE  JobsFit'
<1> SUFFICES ASSUME NEW q \in Procs PROVE JobFits(job[q])'
  BY DEF JobsFit
<1>1. job = [x \in Procs |-> job[x]] /\ JobFits(job[q])
  BY DEF PlanningInv, PlanningTypeOK, JobsFit
<1>2. PICK k : k = job'[q] /\ (k = j \/ k = job[q])
  BY <1>1 DEF Goes
<1>3. JobFits(k)'
  BY <1>1, <1>2, JobStays DEF PlanningInv, PlanningTypeOK
<1> QED
  BY <1>2, <1>3

\* No process moves.
LEMMA SameJobs ==
  ASSUME PlanningInv, Effect, UNCHANGED job
  PROVE  JobsFit'
<1> SUFFICES ASSUME NEW q \in Procs PROVE JobFits(job[q])'
  BY DEF JobsFit
<1>1. PICK k : k = job[q] /\ JobFits(k)
  BY DEF PlanningInv, JobsFit
<1>2. JobFits(k)'
  BY <1>1, JobStays DEF PlanningInv, PlanningTypeOK
<1> QED
  BY <1>1, <1>2

\* An activity that carries nothing of the evidence.
LEMMA PlainJob ==
  ASSUME NEW j, j.op \notin {"COMMITTING", "ANSWERING", "CREATING", "CLAIMED", "NEXT"}
  PROVE  JobFits(j)'
BY DEF JobFits

\* A stage is over; a planner goes on with the status it has written.
LEMMA DoneFits ==
  ASSUME UNCHANGED origin, origin \in {"USER", "SCHEDULE"}, NEW to, NEW j, j = Done(to),
         to = "BUILDING_PARAMETERS" =>
           (sels # <<>> /\ SelectionSettled(Len(sels)) /\ status \notin BeforeSelection)'
  PROVE  JobFits(j)'
<1>1. CASE j.op # "NEXT"
  BY <1>1, PlainJob DEF Done, Idle
<1>2. CASE j.op = "NEXT"
  <2>1. origin' = "SCHEDULE" /\ j.view = to
    BY <1>2 DEF Done, Idle
  <2> QED
    BY <1>2, <2>1 DEF JobFits, ViewFits
<1> QED
  BY <1>1, <1>2

\* A stage that has decided holds a decision fit to be committed.
LEMMA DecidedFits ==
  ASSUME PlanningInv, Effect, NEW from, NEW r, NEW remap, ResultFits(from, r),
         RemapFits(r, remap), NEW j, j = Decided(from, r, remap)
  PROVE  JobFits(j)'
<1>1. ResultFits(from, r)'
  BY GrowStep, ResultStays DEF PlanningInv, PlanningTypeOK
<1> QED
  BY <1>1 DEF JobFits, Decided, RemapFits

\* An Execution that passes the preflight is of the latest plan, which is confirmed when
\* the policy asks for it.
LEMMA PreflightFits ==
  ASSUME PlanningInv, Preflight, NEW k, k = "OCC" => SafeReadonly(reg.policy)
  PROVE  RowFits([key |-> k, plan |-> Last(vals).plan, policy |-> reg.policy])
<1> DEFINE v == Last(vals)
<1>1. EvidenceTypeOK /\ ChainHolds
  BY DEF PlanningInv, PlanningTypeOK
<1>2. v = vals[Len(vals)] /\ Len(vals) \in DOMAIN vals
  BY <1>1, LastRow DEF Preflight, EvidenceTypeOK
<1>3. v.plan = Len(plans) /\ plans # <<>>
  BY <1>1, <1>2 DEF ChainHolds
<1>4. v.plan \in DOMAIN plans
  BY <1>1, <1>3, LastRow DEF EvidenceTypeOK
<1>5. ASSUME reg.policy = "CONFIRM"
      PROVE  \E i \in DOMAIN clars : /\ clars[i].type = "PLAN_CONFIRMATION" /\ Confirmed(i)
                                     /\ clars[i].about = v.plan /\ clars[i].policy = "CONFIRM"
  <2> DEFINE W == {i \in DOMAIN vals : /\ vals[i].decision = "WAITING_CONFIRMATION"
                                       /\ vals[i].plan = v.plan}
  <2>1. W # {} /\ vals[Max(W)].policy = "CONFIRM" /\ Confirmed(vals[Max(W)].clar)
    BY <1>5 DEF Preflight, AnsweredPlanConfirmation
  <2>2. W \subseteq 1..Len(vals) /\ Len(vals) \in Nat
    BY <1>1 DEF EvidenceTypeOK
  <2>3. PICK m \in W : m = Max(W)
    BY <2>1, <2>2, MaxIsMember
  <2>4. /\ vals[m].clar \in DOMAIN clars
        /\ clars[vals[m].clar].type = "PLAN_CONFIRMATION"
        /\ clars[vals[m].clar].about = v.plan
        /\ clars[vals[m].clar].policy = vals[m].policy
    BY <1>1, <2>3 DEF ChainHolds
  <2> HIDE DEF W
  <2> QED
    BY <2>1, <2>3, <2>4
<1> QED
  BY <1>4, <1>5 DEF RowFits

-----------------------------------------------------------------------------
(* One step per action for the rest of the invariant.                      *)

\* What every process is doing stays justified.
LEMMA JobsStep ==
  ASSUME PlanningInv, [PlanningNext]_pvars
  PROVE  JobsFit'
<1> Effect /\ PlanningTypeOK /\ EvidenceTypeOK
  BY StepEffect DEF PlanningInv, PlanningTypeOK
<1> ChainHolds /\ StatusFits /\ QuestionsFit /\ JobsFit
  BY DEF PlanningInv
<1>1. ASSUME NEW p \in Procs, StartAnalyze(p) PROVE JobsFit'
  <2>1. PICK j : j = [op |-> "ANALYZING"] /\ Goes(p, j)
    BY <1>1 DEF StartAnalyze
  <2> QED
    BY <2>1, OneJob, PlainJob DEF Idle
<1>2. ASSUME NEW p \in Procs, Analyzed(p) PROVE JobsFit'
  <2>1. PICK to, j : to \in {"WAITING_INPUT", "RETRIEVING"} /\ j = Done(to) /\ Goes(p, j)
    BY <1>2 DEF Analyzed
  <2>2. JobFits(j)'
    BY <2>1, DoneFits DEF EvidenceTypeOK, Effect
  <2> QED
    BY <2>1, <2>2, OneJob
<1>3. ASSUME NEW p \in Procs, AnalyzeFails(p) PROVE JobsFit'
  <2>1. PICK j : j = Done("ERROR") /\ Goes(p, j)
    BY <1>3 DEF AnalyzeFails
  <2>2. JobFits(j)'
    BY <2>1, DoneFits DEF EvidenceTypeOK, Effect
  <2> QED
    BY <2>1, <2>2, OneJob
<1>4. ASSUME NEW p \in Procs, AnalyzeRetried(p) PROVE JobsFit'
  <2>1. PICK j : j = Done("TRANSIENT") /\ Goes(p, j)
    BY <1>4 DEF AnalyzeRetried
  <2>2. JobFits(j)'
    BY <2>1, DoneFits DEF EvidenceTypeOK, Effect
  <2> QED
    BY <2>1, <2>2, OneJob
<1>5. ASSUME NEW p \in Procs, StartSelect(p) PROVE JobsFit'
  <2>1. PICK j : j = [op |-> "RETRIEVING", doc |-> doc] /\ Goes(p, j)
    BY <1>5 DEF StartSelect
  <2> QED
    BY <2>1, OneJob, PlainJob DEF Idle
<1>6. ASSUME NEW p \in Procs, RetrievalFails(p) PROVE JobsFit'
  <2>1. PICK to, j : to \in {"ERROR", "TRANSIENT"} /\ j = Done(to) /\ Goes(p, j)
    BY <1>6 DEF RetrievalFails
  <2>2. JobFits(j)'
    BY <2>1, DoneFits DEF EvidenceTypeOK, Effect
  <2> QED
    BY <2>1, <2>2, OneJob
<1>7. ASSUME NEW p \in Procs, NothingRetrieved(p) PROVE JobsFit'
  <2> DEFINE r == Result("REJECTED", "sels", [decision |-> "NO_MATCH"], "NONE")
  <2>1. PICK j : j = Decided("RETRIEVING", r, {}) /\ Goes(p, j)
    BY <1>7 DEF NothingRetrieved
  <2>2. ResultFits("RETRIEVING", r) /\ RemapFits(r, {})
    BY DEF ResultFits, SelectOutcomes, RemapFits
  <2> HIDE DEF r
  <2>3. JobFits(j)'
    BY <2>1, <2>2, DecidedFits
  <2> QED
    BY <2>1, <2>3, OneJob
<1>8. ASSUME NEW p \in Procs, Retrieved(p) PROVE JobsFit'
  <2>1. CASE status = "RETRIEVING"
    <3>1. PICK j : j.op = "SELECTING" /\ Goes(p, j)
      BY <1>8, <2>1 DEF Retrieved
    <3> QED
      BY <3>1, OneJob, PlainJob
  <2>2. CASE status # "RETRIEVING"
    <3>1. PICK j : j = Done("ERROR") /\ Goes(p, j)
      BY <1>8, <2>2 DEF Retrieved
    <3>2. JobFits(j)'
      BY <3>1, DoneFits DEF EvidenceTypeOK, Effect
    <3> QED
      BY <3>1, <3>2, OneJob
  <2> QED
    BY <2>1, <2>2
<1>9. ASSUME NEW p \in Procs, Reranked(p) PROVE JobsFit'
  <2>1. PICK r, remap, j : /\ \/ r \in {Failure, Outage} /\ remap = {}
                              \/ /\ remap \in Aligned(job[p].doc)
                                 /\ r \in SelectResults(Lacks(job[p].doc, remap), job[p].auto)
                           /\ j = Decided("SELECTING", r, remap) /\ Goes(p, j)
    BY <1>9 DEF Reranked
  <2>2. \/ r \in {Failure, Outage} /\ remap = {}
        \/ r \in SelectOutcomes /\ remap \in {{}, {TRUE}, {FALSE}}
    BY <2>1, SelectFits DEF Aligned
  <2>3. ResultFits("SELECTING", r)
    BY <2>2 DEF ResultFits, Stages
  <2>4. RemapFits(r, remap)
    <3>1. r \in SelectOutcomes => r.table = "sels"
      BY DEF SelectOutcomes, Result
    <3> QED
      BY <2>2, <3>1 DEF RemapFits
  <2>5. JobFits(j)'
    BY <2>1, <2>3, <2>4, DecidedFits
  <2> QED
    BY <2>1, <2>5, OneJob
<1>10. ASSUME NEW p \in Procs, StartBuild(p) PROVE JobsFit'
  <2>1. PICK r, j :
          /\ r \in BuildResults \cup {Outage}
          /\ j = Decided("BUILDING_PARAMETERS", r, {})
          /\ Goes(p, j)
    BY <1>10 DEF StartBuild, StartStage
  <2>2. sels # <<>> => SelectionSettled(Len(sels))
    <3>1. CASE origin = "USER" /\ status = "BUILDING_PARAMETERS"
      BY <3>1 DEF StatusFits
    <3>2. CASE job[p] = [op |-> "NEXT", view |-> "BUILDING_PARAMETERS"]
      BY <3>2 DEF JobsFit, JobFits, ViewFits
    <3> QED
      BY <1>10, <3>1, <3>2 DEF StartBuild, StartStage, Sees
  <2>3. ResultFits("BUILDING_PARAMETERS", r) /\ RemapFits(r, {})
    BY <2>1, <2>2, BuildFits DEF ResultFits, RemapFits, Stages
  <2>4. JobFits(j)'
    BY <2>1, <2>3, DecidedFits
  <2> QED
    BY <2>1, <2>4, OneJob
<1>11. ASSUME NEW p \in Procs, StartGenerate(p) PROVE JobsFit'
  <2>1. PICK r, j :
          /\ r \in GenerateResults \cup {Outage}
          /\ j = Decided("PLANNING", r, {})
          /\ Goes(p, j)
    BY <1>11 DEF StartGenerate, StartStage
  <2>3. ResultFits("PLANNING", r) /\ RemapFits(r, {})
    BY <2>1, GenerateFits DEF ResultFits, RemapFits, Stages
  <2>4. JobFits(j)'
    BY <2>1, <2>3, DecidedFits
  <2> QED
    BY <2>1, <2>4, OneJob
<1>12. ASSUME NEW p \in Procs, StartValidate(p) PROVE JobsFit'
  <2>1. PICK r, j :
          /\ r \in ValidateResults \cup {Outage}
          /\ j = Decided("VALIDATING", r, {})
          /\ Goes(p, j)
    BY <1>12 DEF StartValidate, StartStage
  <2>3. ResultFits("VALIDATING", r) /\ RemapFits(r, {})
    BY <2>1, ValidateFits DEF ResultFits, RemapFits, Stages
  <2>4. JobFits(j)'
    BY <2>1, <2>3, DecidedFits
  <2> QED
    BY <2>1, <2>4, OneJob
<1>13. ASSUME NEW p \in Procs, CommitStage(p) PROVE JobsFit'
  <2> DEFINE r == job[p].result
             from == job[p].from
  <2>1. CASE status # from
    <3>1. PICK j : j = Done("TRANSIENT") /\ Goes(p, j)
      BY <1>13, <2>1 DEF CommitStage
    <3>2. JobFits(j)'
      BY <3>1, DoneFits DEF EvidenceTypeOK, Effect
    <3> QED
      BY <3>1, <3>2, OneJob
  <2>2. CASE status = from
    <3>1. PICK to, j : to \in {"ERROR", "TRANSIENT", status'} /\ j = Done(to) /\ Goes(p, j)
      BY <1>13, <2>2 DEF CommitStage, Outcome
    <3>2. StatusFits'
      BY StatusStep
    <3>3. to = "BUILDING_PARAMETERS" =>
            (sels # <<>> /\ SelectionSettled(Len(sels)) /\ status \notin BeforeSelection)'
      BY <3>1, <3>2 DEF StatusFits, BeforeSelection
    <3>4. JobFits(j)'
      BY <3>1, <3>3, DoneFits DEF EvidenceTypeOK, Effect
    <3> QED
      BY <3>1, <3>4, OneJob
  <2> QED
    BY <2>1, <2>2
<1>14. ASSUME NEW p \in Procs, ClaimPlan(p) PROVE JobsFit'
  <2>1. PICK j : j = [op |-> "CLAIMED"] /\ Goes(p, j)
    BY <1>14 DEF ClaimPlan
  <2>2. JobFits(j)'
    BY <1>14, <2>1 DEF ClaimPlan, JobFits
  <2> QED
    BY <2>1, <2>2, OneJob
<1>15. ASSUME NEW p \in Procs, SkipPlan(p) PROVE JobsFit'
  <2>1. PICK j : j = Idle /\ Goes(p, j)
    BY <1>15 DEF SkipPlan
  <2> QED
    BY <2>1, OneJob, PlainJob DEF Idle
<1>16. ASSUME NEW p \in Procs, RefusePlan(p) PROVE JobsFit'
  <2>1. PICK j : j = Idle /\ Goes(p, j)
    BY <1>16 DEF RefusePlan
  <2> QED
    BY <2>1, OneJob, PlainJob DEF Idle
<1>17. ASSUME NEW p \in Procs, BeginPlan(p) PROVE JobsFit'
  <2>1. CASE status \in {"NONE", "RECEIVED"}
    <3>1. PICK j : j = [op |-> "ANALYZING"] /\ Goes(p, j)
      BY <1>17, <2>1 DEF BeginPlan
    <3> QED
      BY <3>1, OneJob, PlainJob
  <2>2. CASE status \notin {"NONE", "RECEIVED"}
    <3>1. PICK j : j = [op |-> "NEXT", view |-> status] /\ Goes(p, j)
      BY <1>17, <2>2 DEF BeginPlan
    <3>2. origin = "SCHEDULE" /\ status' = status /\ UNCHANGED <<origin, evidence>>
      BY <1>17, <2>2 DEF BeginPlan, Plannable, JobsFit, JobFits
    <3>3. StatusFits'
      BY StatusStep
    <3>4. ViewFits(j.view)'
      BY <3>1, <3>2, <3>3 DEF ViewFits, StatusFits, BeforeSelection
    <3>5. JobFits(j)'
      BY <3>1, <3>4 DEF JobFits
    <3> QED
      BY <3>1, <3>5, OneJob
  <2> QED
    BY <2>1, <2>2
<1>18. ASSUME NEW p \in Procs, LosePlan(p) PROVE JobsFit'
  <2>1. PICK j : j = Idle /\ Goes(p, j)
    BY <1>18 DEF LosePlan
  <2> QED
    BY <2>1, OneJob, PlainJob DEF Idle
<1>19. ASSUME NEW p \in Procs, FinishPlan(p) PROVE JobsFit'
  <2>1. PICK j : j = Idle /\ Goes(p, j)
    BY <1>19 DEF FinishPlan
  <2> QED
    BY <2>1, OneJob, PlainJob DEF Idle
<1>20. ASSUME NEW p \in Procs, FailPlan(p) PROVE JobsFit'
  <2>1. PICK j : j = Idle /\ Goes(p, j)
    BY <1>20 DEF FailPlan
  <2> QED
    BY <2>1, OneJob, PlainJob DEF Idle
<1>21. ASSUME NEW p \in Procs, NEW i \in DOMAIN clars, NEW yes \in BOOLEAN, StartAnswer(p, i, yes)
      PROVE  JobsFit'
  <2>1. PICK j : /\ j = [op |-> "ANSWERING", clar |-> i, yes |-> yes, from |-> status,
                          to |-> AnswerTarget(clars[i].type, yes)]
                 /\ Goes(p, j)
    BY <1>21 DEF StartAnswer
  <2>2. origin = "USER" /\ (clars[i].type = "MISSING_PARAMETER" => yes)
    BY <1>21 DEF StartAnswer, InputAnswerable, ToolAnswerable, PlanAnswerable
  <2>3. AnswerFits(j)
    BY <2>1, <2>2 DEF AnswerFits
  <2>4. AnswerFits(j)'
    BY <2>3, GrowStep, AnswerStays DEF Effect
  <2>5. JobFits(j)'
    BY <2>1, <2>4 DEF JobFits
  <2> QED
    BY <2>1, <2>5, OneJob
<1>22. ASSUME NEW p \in Procs, FinishAnswer(p) PROVE JobsFit'
  <2>1. PICK j : j = Idle /\ Goes(p, j)
    BY <1>22 DEF FinishAnswer
  <2> QED
    BY <2>1, OneJob, PlainJob DEF Idle
<1>23. ASSUME NEW p \in Procs, NEW k \in Keys, StartCreate(p, k) PROVE JobsFit'
  <2> DEFINE row == [key |-> k, plan |-> Last(vals).plan, policy |-> reg.policy]
  <2>1. PICK j : j = [op |-> "CREATING", row |-> row] /\ Goes(p, j)
    BY <1>23 DEF StartCreate
  <2>2. k # "OCC"
    BY PlanningAssumption
  <2>3. RowFits(row)
    BY <1>23, <2>2, PreflightFits DEF StartCreate
  <2>4. row.key \in Keys
    OBVIOUS
  <2> HIDE DEF row
  <2>5. RowFits(j.row) /\ j.row.key \in Keys /\ j.op = "CREATING"
    BY <2>1, <2>3, <2>4
  <2>6. RowFits(j.row)'
    BY <2>5, GrowStep, RowStays
  <2>7. JobFits(j)'
    BY <2>5, <2>6 DEF JobFits
  <2> QED
    BY <2>1, <2>7, OneJob
<1>24. ASSUME NEW p \in Procs, FinishCreate(p) PROVE JobsFit'
  <2>1. PICK j : j = Idle /\ Goes(p, j)
    BY <1>24 DEF FinishCreate
  <2> QED
    BY <2>1, OneJob, PlainJob DEF Idle
<1>25. ASSUME NEW p \in Procs, LeaseLapses(p) PROVE JobsFit'
  BY <1>25, SameJobs DEF LeaseLapses
<1>26. ASSUME NEW p \in Procs, Crash(p) PROVE JobsFit'
  <2>1. PICK j : j = Idle /\ Goes(p, j)
    BY <1>26 DEF Crash
  <2> QED
    BY <2>1, OneJob, PlainJob DEF Idle
<1>27. CASE ExhaustPlan
  BY <1>27, SameJobs DEF ExhaustPlan
<1>28. ASSUME NEW r \in Registries, AdminEdit(r) PROVE JobsFit'
  BY <1>28, SameJobs DEF AdminEdit
<1>29. CASE UNCHANGED pvars
  BY <1>29, SameJobs DEF pvars
<1> QED
  BY <1>1, <1>2, <1>3, <1>4, <1>5, <1>6, <1>7, <1>8, <1>9, <1>10, <1>11, <1>12, <1>13, <1>14,
     <1>15, <1>16, <1>17, <1>18, <1>19, <1>20, <1>21, <1>22, <1>23, <1>24, <1>25, <1>26, <1>27,
     <1>28, <1>29
  DEF PlanningNext, StageSteps, PlannerSteps

\* Executions that are there keep their plan and their confirmation.
LEMMA SameExecs ==
  ASSUME PlanningInv, Effect, UNCHANGED execs
  PROVE  ExecsFit'
<1>1. EvidenceTypeOK /\ Grows /\ ExecsFit
  BY GrowStep DEF PlanningInv, PlanningTypeOK
<1>2. \A e \in execs : RowFits(e)'
  BY <1>1, RowStays DEF ExecsFit
<1> QED
  BY <1>1, <1>2 DEF ExecsFit

\* Every Execution has its plan and its confirmation, and a key has one.
LEMMA ExecsStep ==
  ASSUME PlanningInv, [PlanningNext]_pvars
  PROVE  ExecsFit'
<1> Effect /\ EvidenceTypeOK /\ Grows
  BY StepEffect, GrowStep DEF PlanningInv, PlanningTypeOK
<1> ExecsFit /\ JobsFit
  BY DEF PlanningInv
<1>1. ASSUME NEW p \in Procs, StartAnalyze(p) PROVE ExecsFit'
  BY <1>1, SameExecs DEF StartAnalyze
<1>2. ASSUME NEW p \in Procs, Analyzed(p) PROVE ExecsFit'
  BY <1>2, SameExecs DEF Analyzed
<1>3. ASSUME NEW p \in Procs, AnalyzeFails(p) PROVE ExecsFit'
  BY <1>3, SameExecs DEF AnalyzeFails
<1>4. ASSUME NEW p \in Procs, AnalyzeRetried(p) PROVE ExecsFit'
  BY <1>4, SameExecs DEF AnalyzeRetried
<1>5. ASSUME NEW p \in Procs, StartSelect(p) PROVE ExecsFit'
  BY <1>5, SameExecs DEF StartSelect
<1>6. ASSUME NEW p \in Procs, RetrievalFails(p) PROVE ExecsFit'
  BY <1>6, SameExecs DEF RetrievalFails
<1>7. ASSUME NEW p \in Procs, NothingRetrieved(p) PROVE ExecsFit'
  BY <1>7, SameExecs DEF NothingRetrieved
<1>8. ASSUME NEW p \in Procs, Retrieved(p) PROVE ExecsFit'
  BY <1>8, SameExecs DEF Retrieved
<1>9. ASSUME NEW p \in Procs, Reranked(p) PROVE ExecsFit'
  BY <1>9, SameExecs DEF Reranked
<1>10. ASSUME NEW p \in Procs, StartBuild(p) PROVE ExecsFit'
  BY <1>10, SameExecs DEF StartBuild, StartStage
<1>11. ASSUME NEW p \in Procs, StartGenerate(p) PROVE ExecsFit'
  BY <1>11, SameExecs DEF StartGenerate, StartStage
<1>12. ASSUME NEW p \in Procs, StartValidate(p) PROVE ExecsFit'
  BY <1>12, SameExecs DEF StartValidate, StartStage
<1>13. ASSUME NEW p \in Procs, CommitStage(p) PROVE ExecsFit'
  BY <1>13, SameExecs DEF CommitStage
<1>14. ASSUME NEW p \in Procs, ClaimPlan(p) PROVE ExecsFit'
  BY <1>14, SameExecs DEF ClaimPlan
<1>15. ASSUME NEW p \in Procs, SkipPlan(p) PROVE ExecsFit'
  BY <1>15, SameExecs DEF SkipPlan
<1>16. ASSUME NEW p \in Procs, RefusePlan(p) PROVE ExecsFit'
  BY <1>16, SameExecs DEF RefusePlan
<1>17. ASSUME NEW p \in Procs, BeginPlan(p) PROVE ExecsFit'
  BY <1>17, SameExecs DEF BeginPlan
<1>18. ASSUME NEW p \in Procs, LosePlan(p) PROVE ExecsFit'
  BY <1>18, SameExecs DEF LosePlan
<1>19. ASSUME NEW p \in Procs, FinishPlan(p) PROVE ExecsFit'
  <2>1. CASE UNCHANGED execs
    BY <2>1, SameExecs
  <2>2. CASE execs' # execs
    <3>1. PICK row : row = [key |-> "OCC", plan |-> Last(vals).plan, policy |-> reg.policy]
      OBVIOUS
    <3>2. execs' = {row} /\ SafeAutoExecute(p)
      BY <1>19, <2>2, <3>1 DEF FinishPlan
    <3>3. Preflight /\ SafeReadonly(reg.policy)
      BY <3>2 DEF SafeAutoExecute, Preflight
    <3>4. RowFits(row)
      BY <3>1, <3>3, PreflightFits
    <3>5. RowFits(row)'
      BY <3>4, RowStays
    <3> QED
      BY <3>2, <3>5 DEF ExecsFit
  <2> QED
    BY <2>1, <2>2
<1>20. ASSUME NEW p \in Procs, FailPlan(p) PROVE ExecsFit'
  BY <1>20, SameExecs DEF FailPlan
<1>21. ASSUME NEW p \in Procs, NEW i \in DOMAIN clars, NEW yes \in BOOLEAN, StartAnswer(p, i, yes)
      PROVE  ExecsFit'
  BY <1>21, SameExecs DEF StartAnswer
<1>22. ASSUME NEW p \in Procs, FinishAnswer(p) PROVE ExecsFit'
  BY <1>22, SameExecs DEF FinishAnswer
<1>23. ASSUME NEW p \in Procs, NEW k \in Keys, StartCreate(p, k) PROVE ExecsFit'
  BY <1>23, SameExecs DEF StartCreate
<1>24. ASSUME NEW p \in Procs, FinishCreate(p) PROVE ExecsFit'
  <2>1. PICK row : row = job[p].row
    OBVIOUS
  <2>2. row.key \in Keys /\ RowFits(row)'
    BY <1>24, <2>1, RowStays DEF FinishCreate, JobsFit, JobFits
  <2>3. CASE \E e \in execs : e.key = row.key
    BY <1>24, <2>1, <2>3, SameExecs DEF FinishCreate
  <2>4. CASE ~\E e \in execs : e.key = row.key
    <3>1. execs' = execs \cup {row}
      BY <1>24, <2>1, <2>4 DEF FinishCreate
    <3>2. \A e \in execs : RowFits(e)'
      BY RowStays DEF ExecsFit
    <3> QED
      BY <2>2, <2>4, <3>1, <3>2 DEF ExecsFit
  <2> QED
    BY <2>3, <2>4
<1>25. ASSUME NEW p \in Procs, LeaseLapses(p) PROVE ExecsFit'
  BY <1>25, SameExecs DEF LeaseLapses
<1>26. ASSUME NEW p \in Procs, Crash(p) PROVE ExecsFit'
  BY <1>26, SameExecs DEF Crash
<1>27. CASE ExhaustPlan
  BY <1>27, SameExecs DEF ExhaustPlan
<1>28. ASSUME NEW r \in Registries, AdminEdit(r) PROVE ExecsFit'
  BY <1>28, SameExecs DEF AdminEdit
<1>29. CASE UNCHANGED pvars
  BY <1>29, SameExecs DEF pvars
<1> QED
  BY <1>1, <1>2, <1>3, <1>4, <1>5, <1>6, <1>7, <1>8, <1>9, <1>10, <1>11, <1>12, <1>13, <1>14,
     <1>15, <1>16, <1>17, <1>18, <1>19, <1>20, <1>21, <1>22, <1>23, <1>24, <1>25, <1>26, <1>27,
     <1>28, <1>29
  DEF PlanningNext, StageSteps, PlannerSteps

\* The registry and the table of processes keep their types.
LEMMA TypeStep ==
  ASSUME PlanningTypeOK, JobsFit, [PlanningNext]_pvars
  PROVE  PlanningTypeOK'
<1> EvidenceTypeOK'
  BY StepEffect, EvidenceTypeStep DEF PlanningTypeOK
<1>1. ASSUME NEW p \in Procs, StartAnalyze(p) PROVE PlanningTypeOK'
  BY <1>1 DEF PlanningTypeOK, Goes, StartAnalyze
<1>2. ASSUME NEW p \in Procs, Analyzed(p) PROVE PlanningTypeOK'
  BY <1>2 DEF PlanningTypeOK, Goes, Analyzed
<1>3. ASSUME NEW p \in Procs, AnalyzeFails(p) PROVE PlanningTypeOK'
  BY <1>3 DEF PlanningTypeOK, Goes, AnalyzeFails
<1>4. ASSUME NEW p \in Procs, AnalyzeRetried(p) PROVE PlanningTypeOK'
  BY <1>4 DEF PlanningTypeOK, Goes, AnalyzeRetried
<1>5. ASSUME NEW p \in Procs, StartSelect(p) PROVE PlanningTypeOK'
  BY <1>5 DEF PlanningTypeOK, Goes, StartSelect
<1>6. ASSUME NEW p \in Procs, RetrievalFails(p) PROVE PlanningTypeOK'
  BY <1>6 DEF PlanningTypeOK, Goes, RetrievalFails
<1>7. ASSUME NEW p \in Procs, NothingRetrieved(p) PROVE PlanningTypeOK'
  BY <1>7 DEF PlanningTypeOK, Goes, NothingRetrieved
<1>8. ASSUME NEW p \in Procs, Retrieved(p) PROVE PlanningTypeOK'
  BY <1>8 DEF PlanningTypeOK, Goes, Retrieved
<1>9. ASSUME NEW p \in Procs, Reranked(p) PROVE PlanningTypeOK'
  BY <1>9 DEF PlanningTypeOK, Goes, Reranked
<1>10. ASSUME NEW p \in Procs, StartBuild(p) PROVE PlanningTypeOK'
  BY <1>10 DEF PlanningTypeOK, Goes, StartBuild, StartStage
<1>11. ASSUME NEW p \in Procs, StartGenerate(p) PROVE PlanningTypeOK'
  BY <1>11 DEF PlanningTypeOK, Goes, StartGenerate, StartStage
<1>12. ASSUME NEW p \in Procs, StartValidate(p) PROVE PlanningTypeOK'
  BY <1>12 DEF PlanningTypeOK, Goes, StartValidate, StartStage
<1>13. ASSUME NEW p \in Procs, CommitStage(p) PROVE PlanningTypeOK'
  BY <1>13 DEF PlanningTypeOK, Goes, CommitStage
<1>14. ASSUME NEW p \in Procs, ClaimPlan(p) PROVE PlanningTypeOK'
  BY <1>14 DEF PlanningTypeOK, Goes, ClaimPlan
<1>15. ASSUME NEW p \in Procs, SkipPlan(p) PROVE PlanningTypeOK'
  BY <1>15 DEF PlanningTypeOK, Goes, SkipPlan
<1>16. ASSUME NEW p \in Procs, RefusePlan(p) PROVE PlanningTypeOK'
  BY <1>16 DEF PlanningTypeOK, Goes, RefusePlan
<1>17. ASSUME NEW p \in Procs, BeginPlan(p) PROVE PlanningTypeOK'
  BY <1>17 DEF PlanningTypeOK, Goes, BeginPlan
<1>18. ASSUME NEW p \in Procs, LosePlan(p) PROVE PlanningTypeOK'
  BY <1>18 DEF PlanningTypeOK, Goes, LosePlan
<1>19. ASSUME NEW p \in Procs, FinishPlan(p) PROVE PlanningTypeOK'
  BY <1>19 DEF PlanningTypeOK, Goes, FinishPlan
<1>20. ASSUME NEW p \in Procs, FailPlan(p) PROVE PlanningTypeOK'
  BY <1>20 DEF PlanningTypeOK, Goes, FailPlan
<1>21. ASSUME NEW p \in Procs, NEW i \in DOMAIN clars, NEW yes \in BOOLEAN, StartAnswer(p, i, yes)
      PROVE  PlanningTypeOK'
  BY <1>21 DEF PlanningTypeOK, Goes, StartAnswer
<1>22. ASSUME NEW p \in Procs, FinishAnswer(p) PROVE PlanningTypeOK'
  BY <1>22 DEF PlanningTypeOK, Goes, FinishAnswer
<1>23. ASSUME NEW p \in Procs, NEW k \in Keys, StartCreate(p, k) PROVE PlanningTypeOK'
  BY <1>23 DEF PlanningTypeOK, Goes, StartCreate
<1>24. ASSUME NEW p \in Procs, FinishCreate(p) PROVE PlanningTypeOK'
  BY <1>24 DEF PlanningTypeOK, Goes, FinishCreate
<1>25. ASSUME NEW p \in Procs, LeaseLapses(p) PROVE PlanningTypeOK'
  BY <1>25 DEF PlanningTypeOK, Goes, LeaseLapses
<1>26. ASSUME NEW p \in Procs, Crash(p) PROVE PlanningTypeOK'
  BY <1>26 DEF PlanningTypeOK, Goes, Crash
<1>27. CASE ExhaustPlan
  BY <1>27 DEF PlanningTypeOK, Goes, ExhaustPlan
<1>28. ASSUME NEW r \in Registries, AdminEdit(r) PROVE PlanningTypeOK'
  BY <1>28 DEF PlanningTypeOK, Goes, AdminEdit
<1>29. CASE UNCHANGED pvars
  BY <1>29 DEF PlanningTypeOK, Goes, pvars
<1> QED
  BY <1>1, <1>2, <1>3, <1>4, <1>5, <1>6, <1>7, <1>8, <1>9, <1>10, <1>11, <1>12, <1>13, <1>14,
     <1>15, <1>16, <1>17, <1>18, <1>19, <1>20, <1>21, <1>22, <1>23, <1>24, <1>25, <1>26, <1>27,
     <1>28, <1>29
  DEF PlanningNext, StageSteps, PlannerSteps

-----------------------------------------------------------------------------
(* The theorems.                                                           *)

\* A fresh request has no evidence, no question and no Execution.
LEMMA InitInvariant == PlanningInit => PlanningInv
<1> SUFFICES ASSUME PlanningInit PROVE PlanningInv
  OBVIOUS
<1>1. /\ sels = <<>> /\ builds = <<>> /\ plans = <<>> /\ vals = <<>> /\ clars = <<>>
      /\ execs = {} /\ job = [p \in Procs |-> Idle] /\ ~doc.unclear
      /\ status \in {"NONE", "RECEIVED"}
  BY DEF PlanningInit
<1>2. EvidenceTypeOK
  BY PlanningAssumption DEF PlanningInit, EvidenceTypeOK, Statuses, Docs
<1>3. PlanningTypeOK
  BY <1>2, PlanningAssumption DEF PlanningInit, PlanningTypeOK, Registries
<1>4. ChainHolds
  BY <1>1 DEF ChainHolds
<1>5. StatusFits
  BY <1>1 DEF StatusFits
<1>6. QuestionsFit
  BY <1>1 DEF QuestionsFit, Open
<1>7. JobsFit
  BY <1>1 DEF JobsFit, JobFits, Idle
<1>8. ExecsFit
  BY <1>1 DEF ExecsFit
<1> QED
  BY <1>3, <1>4, <1>5, <1>6, <1>7, <1>8 DEF PlanningInv

\* The invariant is inductive.
LEMMA InvariantStep == PlanningInv /\ [PlanningNext]_pvars => PlanningInv'
<1> SUFFICES ASSUME PlanningInv, [PlanningNext]_pvars PROVE PlanningInv'
  OBVIOUS
<1>1. /\ PlanningTypeOK /\ EvidenceTypeOK /\ ChainHolds /\ StatusFits
      /\ QuestionsFit /\ JobsFit /\ ExecsFit
  BY DEF PlanningInv, PlanningTypeOK
<1>2. Effect
  BY <1>1, StepEffect
<1> QED
  BY <1>1, <1>2, TypeStep, ChainStep, StatusStep, QuestionsStep, JobsStep, ExecsStep
  DEF PlanningInv

\* The invariant always holds; fairness is not needed for it.
THEOREM InvariantHolds == PlanningSpec => []PlanningInv
BY InitInvariant, InvariantStep, PTL DEF PlanningSpec

\* The request, its evidence, the registry and the processes keep their types.
THEOREM PlanningTypeCorrect == PlanningSpec => []PlanningTypeOK
<1>1. PlanningInv => PlanningTypeOK
  BY DEF PlanningInv
<1> QED
  BY <1>1, InvariantHolds, PTL

\* However stage calls, answers, edits and crashes interleave: a READY request's latest
\* validation is of its latest plan, from a complete build of a settled selection, and
\* nothing is left to answer.
THEOREM ReadyRequestsAreBacked == PlanningSpec => []ReadyIsBacked
<1>1. PlanningInv => ReadyIsBacked
  <2> SUFFICES ASSUME PlanningInv, status = "READY" PROVE ReadyIsBacked
    BY DEF ReadyIsBacked
  <2>1. EvidenceTypeOK /\ ChainHolds /\ StatusFits /\ QuestionsFit
    BY DEF PlanningInv, PlanningTypeOK
  <2>2. Open = {}
    BY <2>1, NothingOpen
  <2>3. vals # <<>> /\ Last(vals).decision = "READY"
    BY <2>1 DEF StatusFits
  <2>4. Last(vals) = vals[Len(vals)] /\ Len(vals) \in DOMAIN vals
    BY <2>1, <2>3, LastRow DEF EvidenceTypeOK
  <2>5. plans # <<>> /\ Last(vals).plan = Len(plans)
    BY <2>1, <2>4 DEF ChainHolds
  <2>6. Last(plans) = plans[Len(plans)] /\ Len(plans) \in DOMAIN plans
    BY <2>1, <2>5, LastRow DEF EvidenceTypeOK
  <2>7. Last(plans).build \in DOMAIN builds /\ builds[Last(plans).build].complete
    BY <2>1, <2>6 DEF ChainHolds
  <2>8. SelectionSettled(builds[Last(plans).build].sel)
    BY <2>1, <2>7 DEF ChainHolds
  <2> QED
    BY <2>2, <2>3, <2>5, <2>7, <2>8 DEF ReadyIsBacked
<1> QED
  BY <1>1, InvariantHolds, PTL

\* A waiting request has exactly one question, of the kind its status waits for, and no
\* other request has any.
THEOREM WaitingRequestsAreAnswerable == PlanningSpec => []WaitingIsAnswerable
<1>1. PlanningInv => WaitingIsAnswerable
  <2> SUFFICES ASSUME PlanningInv PROVE WaitingIsAnswerable
    OBVIOUS
  <2>1. QuestionsFit
    BY DEF PlanningInv
  <2>2. Cardinality(Open) <= 1
    <3>1. CASE Open = {}
      BY <3>1, FS_EmptySet
    <3>2. CASE Open # {}
      <4>1. PICK i : Open = {i}
        BY <2>1, <3>2 DEF QuestionsFit
      <4>2. Cardinality({i}) = 1
        BY FS_Singleton
      <4> QED
        BY <4>1, <4>2
    <3> QED
      BY <3>1, <3>2
  <2>3. ASSUME status = "WAITING_CONFIRMATION"
        PROVE  {clars[i].type : i \in Open} \in {{"TOOL_CONFIRMATION"}, {"PLAN_CONFIRMATION"}}
    <3>1. PICK i \in Open : Open = {i}
      BY <2>1, <2>3 DEF QuestionsFit
    <3>2. clars[i].type \in {"TOOL_CONFIRMATION", "PLAN_CONFIRMATION"}
      BY <2>1, <2>3 DEF QuestionsFit, QuestionFits
    <3> QED
      BY <3>1, <3>2
  <2>4. ASSUME status = "WAITING_INPUT"
        PROVE  {clars[i].type : i \in Open} = IF doc.unclear THEN {} ELSE {"MISSING_PARAMETER"}
    <3>1. \A i \in Open : clars[i].type = "MISSING_PARAMETER" /\ ~doc.unclear
      BY <2>1, <2>4 DEF QuestionsFit, QuestionFits
    <3>2. ~doc.unclear => Open # {}
      BY <2>1, <2>4 DEF QuestionsFit
    <3> QED
      BY <3>1, <3>2
  <2>5. status \notin {"WAITING_CONFIRMATION", "WAITING_INPUT"} => Open = {}
    BY <2>1, NothingOpen
  <2> QED
    BY <2>2, <2>3, <2>4, <2>5 DEF WaitingIsAnswerable
<1> QED
  BY <1>1, InvariantHolds, PTL

\* Every Execution has a plan from a complete build of a settled selection and, if its
\* policy asks for it, a confirmation of this plan under this policy; a key has one
\* Execution, and a schedule's Execution needed neither confirmation nor approval.
THEOREM ExecutionsAreConfirmed == PlanningSpec => []ExecutionConfirmed
<1>1. PlanningInv => ExecutionConfirmed
  <2> SUFFICES ASSUME PlanningInv PROVE ExecutionConfirmed
    OBVIOUS
  <2>1. ChainHolds /\ ExecsFit
    BY DEF PlanningInv
  <2>2. ASSUME NEW e \in execs
        PROVE  /\ builds[plans[e.plan].build].complete
               /\ SelectionSettled(builds[plans[e.plan].build].sel)
    <3>1. e.plan \in DOMAIN plans
      BY <2>1 DEF ExecsFit, RowFits
    <3>2. plans[e.plan].build \in DOMAIN builds /\ builds[plans[e.plan].build].complete
      BY <2>1, <3>1 DEF ChainHolds
    <3>3. SelectionSettled(builds[plans[e.plan].build].sel)
      BY <2>1, <3>2 DEF ChainHolds
    <3> QED
      BY <3>2, <3>3
  <2> QED
    BY <2>1, <2>2 DEF ExecutionConfirmed, ExecsFit, RowFits
<1> QED
  BY <1>1, InvariantHolds, PTL

==============================================================================
