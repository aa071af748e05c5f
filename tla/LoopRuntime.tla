----------------------------- MODULE LoopRuntime -----------------------------
(***************************************************************************)
(* FOR_EACH and WHILE LOOP Steps of a Workflow Execution                   *)
(* (execution/loop_runtime.py, loop_reconcile.py, loop_recovery.py and     *)
(* _reconcile_loop_steps_locked of orchestrator.py).                       *)
(*                                                                         *)
(* A Plan is a sequence of top-level LOOP Steps without dependencies; the  *)
(* body of a LOOP is a chain of TOOL templates, each depending on the one  *)
(* before.  An iteration is a row per template.  What the orchestrator     *)
(* does in one transaction is one action.  Waves, leases and cancellation  *)
(* are WaveExecution's subject and appear here as far as they touch LOOPs: *)
(* the owner does not lose a live lease, and slots are not counted.        *)
(***************************************************************************)
EXTENDS Integers, Sequences, FiniteSets

CONSTANTS
  LoopPlans,      \* candidate Plans: their LOOPs and limits.max_steps
  MaxLoopFaults   \* bound: crashes of the task that drives the Execution

ASSUME LoopFaultsAssumption == MaxLoopFaults \in Nat

\* What the schema and the validator of a Plan (plan_validator.py:734) establish.
ASSUME LoopPlansAssumption ==
  \A p \in LoopPlans :
    /\ p.loops \in Seq({p.loops[l] : l \in DOMAIN p.loops})
    /\ p.maxSteps \in Nat /\ Len(p.loops) <= p.maxSteps
    /\ \A l \in DOMAIN p.loops :
         /\ p.loops[l].size \in Nat /\ p.loops[l].maxIterations \in Nat /\ p.loops[l].bodies \in Nat
         /\ p.loops[l].gate \in {"TRUE", "FALSE", "ERROR"}

VARIABLES
  lplan,       \* Execution.plan_snapshot
  lexec,       \* Execution.status; COMPLETED stands for every natural end
  llease,      \* Execution lease: none, live or expired
  driver,      \* the task: idle, prepare, run, or stop after a fatal outcome
  loop,        \* the LOOP rows and, in kids, the rows of their iterations
  loopFaults   \* crashes so far

loopVars == <<lplan, lexec, llease, driver, loop, loopFaults>>

RowTerminal == {"SUCCEEDED", "FAILED", "TIMED_OUT", "CANCELLED", "SKIPPED", "UNKNOWN_OUTCOME"}

LoopsOf(p) == DOMAIN p.loops

Cfg(l) == lplan.loops[l]

Body(l) == 1 .. Cfg(l).bodies

-----------------------------------------------------------------------------
(* Rows and limits.  A local state r is what one transaction may change.   *)

LoopLocal == [loop |-> loop, exec |-> lexec, raised |-> FALSE]

Put(r, l, x) == [r EXCEPT !.loop = [@ EXCEPT ![l] = x]]

\* The sum of a sequence of numbers.
Total(v) ==
  LET f[i \in 0 .. Len(v)] == IF i = 0 THEN 0 ELSE f[i - 1] + v[i] IN f[Len(v)]

\* active_iteration_no: iterations are materialized in order
Current(r, l) == Len(r.loop[l].kids)

\* iteration_complete
IterationComplete(r, l) ==
  \A b \in Body(l) : r.loop[l].kids[Current(r, l)][b] \in RowTerminal

\* Mutant: the rows of the current iteration only.
RowsNow(r) ==
  Len(r.loop) + Total([l \in DOMAIN r.loop |-> IF r.loop[l].kids = << >> THEN 0 ELSE Cfg(l).bodies])

Rows(r) == Len(r.loop) + Total([l \in DOMAIN r.loop |-> Current(r, l) * Cfg(l).bodies])

\* Children a RUNNING FOR_EACH has pinned and not materialized.
Reserved(r, l) ==
  IF r.loop[l].st = "RUNNING" /\ Cfg(l).mode = "FOR_EACH"
    THEN (r.loop[l].pin - Current(r, l)) * Cfg(l).bodies ELSE 0

Reservations(r) == Total([l \in DOMAIN r.loop |-> Reserved(r, l)])

\* assert_global_expanded_max_steps
FitsGlobally(r) == Rows(r) + Reservations(r) <= lplan.maxSteps

\* assert_while_next_iteration_max_steps: the next body and the reservations
\* are compared with the limit one after the other.
WhileNextFits(r, l) == Rows(r) + Cfg(l).bodies <= lplan.maxSteps /\ FitsGlobally(r)

-----------------------------------------------------------------------------
(* Stopping.                                                               *)

SetLoop(r, l, s, e) == Put(r, l, [r.loop[l] EXCEPT !.st = s, !.err = e])

SucceedLoop(r, l, n) ==
  Put(r, l, [r.loop[l] EXCEPT !.st = "SUCCEEDED", !.err = "NONE", !.completed = n])

\* Mutant: READY children are not stopped.
SkipPendingOnly(s) == IF s = "PENDING" THEN "SKIPPED" ELSE s

\* READY is a row without an Attempt; RETRY is READY after one.
Untouched(s) ==
  CASE s = "PENDING" -> "SKIPPED"
    [] s = "READY" -> "CANCELLED"
    [] OTHER -> s

StopRows(kids) == [n \in DOMAIN kids |-> [b \in DOMAIN kids[n] |-> Untouched(kids[n][b])]]

\* skip_all_pending and cancel_unused_ready_tools over every row, then the
\* Execution's terminal status; a RUNNING LOOP row stays as it is.
StopAll(r, status) ==
  [r EXCEPT !.exec = status,
            !.loop = [l \in DOMAIN r.loop |->
                        [r.loop[l] EXCEPT !.st = Untouched(@), !.kids = StopRows(@)]]]

\* _fail_closed_lineage_locked and _fail_closed_predicate
FailClosed(r) == StopAll(r, "FAILED")

\* stop_loop_owned_untouched_children
StopChildren(r, l) == Put(r, l, [r.loop[l] EXCEPT !.kids = StopRows(@)])

\* _apply_loop_error_policy: a child with an Attempt cannot be stopped.
ErrorPolicy(r, l) ==
  IF \E n \in DOMAIN r.loop[l].kids : \E b \in Body(l) :
       r.loop[l].kids[n][b] \in {"RUNNING", "RETRY"}
    THEN FailClosed(r)
  ELSE LET s == StopChildren(r, l)
       IN  IF Cfg(l).onError = "FAIL_EXECUTION" THEN StopAll(s, r.loop[l].st) ELSE s

-----------------------------------------------------------------------------
(* _reconcile_loop_steps_locked.                                           *)

\* materialize_iteration; the exception of a FOR_EACH escapes and rolls the
\* transaction back.
Materialize(r, l) ==
  IF Rows(r) + Cfg(l).bodies > lplan.maxSteps THEN [r EXCEPT !.raised = TRUE]
  ELSE Put(r, l, [r.loop[l] EXCEPT !.kids = Append(@, [b \in Body(l) |-> "PENDING"])])

\* Mutant: max_iterations is not enforced.
NoIterationLimit(r, l, n) == FALSE

BeyondMaxIterations(r, l, n) == n > Cfg(l).maxIterations

\* evaluate_while_gate over the evidence of candidate n; a recorded result is
\* what the same evidence gives again.
GateResults(r, l, n) == IF n > Len(r.loop[l].hist) THEN BOOLEAN ELSE {r.loop[l].hist[n]}

\* append_or_replay_while_history
Record(r, l, n, result) ==
  IF n > Len(r.loop[l].hist)
    THEN Put(r, l, [r.loop[l] EXCEPT !.hist = Append(@, result)]) ELSE r

\* The gate is false: succeed_while_loop.
WhileEnds(r, l, n) == SucceedLoop(r, l, n - 1)

\* The gate is true: max_iterations, max_steps, then the rows of iteration n.
WhileContinues(r, l, n) ==
  IF BeyondMaxIterations(r, l, n)
    THEN ErrorPolicy(SetLoop(r, l, "FAILED", "MAX_ITERATIONS"), l)
  ELSE IF ~WhileNextFits(r, l) THEN FailClosed(SetLoop(r, l, "FAILED", "OTHER"))
  ELSE Materialize(r, l)

\* One gate of a WHILE; one that cannot be evaluated fails the Execution.
WhileGate(r, l, n) ==
  {FailClosed(SetLoop(r, l, "FAILED", "OTHER"))}
    \union {IF b THEN WhileContinues(Record(r, l, n, b), l, n)
                 ELSE WhileEnds(Record(r, l, n, b), l, n) : b \in GateResults(r, l, n)}

\* resolve_foreach_collection and pin_collection_evidence
PinCollection(r, l) ==
  Put(r, l, [r.loop[l] EXCEPT !.st = "RUNNING", !.err = "NONE", !.pin = Cfg(l).size])

\* The pin, then the limits, then the first iteration.
StartForEach(r, l) ==
  LET s == PinCollection(r, l)
  IN  IF Cfg(l).size > Cfg(l).maxIterations
        THEN ErrorPolicy(SetLoop(s, l, "FAILED", "MAX_ITERATIONS"), l)
      ELSE IF ~FitsGlobally(s) THEN FailClosed(SetLoop(s, l, "FAILED", "OTHER"))
      ELSE IF Cfg(l).size = 0
        THEN SucceedLoop(s, l, 0)
      ELSE Materialize(s, l)

\* Step.when of a LOOP: skipped, or not evaluable.
StartLoop(r, l) ==
  CASE Cfg(l).gate = "FALSE" -> {SetLoop(r, l, "SKIPPED", "WHEN_FALSE")}
    [] Cfg(l).gate = "ERROR" -> {FailClosed(SetLoop(r, l, "FAILED", "OTHER"))}
    [] Cfg(l).gate = "TRUE" /\ Cfg(l).mode = "WHILE" ->
         WhileGate(SetLoop(r, l, "RUNNING", "NONE"), l, 1)
    [] OTHER -> {StartForEach(r, l)}

AdvanceForEach(r, l) ==
  IF Current(r, l) < r.loop[l].pin THEN Materialize(r, l)
  ELSE SucceedLoop(r, l, r.loop[l].pin)

\* Mutant: the timeout of a LOOP is looked at between iterations only.
TimeoutBetween(r, l) ==
  IF Current(r, l) > 0 /\ ~IterationComplete(r, l) THEN {r}
  ELSE IF r.loop[l].late THEN {ErrorPolicy(SetLoop(r, l, "TIMED_OUT", "TIMEOUT"), l)}
  ELSE IF Cfg(l).mode = "WHILE" THEN WhileGate(r, l, Current(r, l) + 1)
  ELSE {AdvanceForEach(r, l)}

\* A RUNNING LOOP: its timeout first, then its next iteration or its end.
AdvanceLoop(r, l) ==
  IF r.loop[l].late THEN {ErrorPolicy(SetLoop(r, l, "TIMED_OUT", "TIMEOUT"), l)}
  ELSE IF Current(r, l) > 0 /\ ~IterationComplete(r, l) THEN {r}
  ELSE IF Cfg(l).mode = "WHILE" THEN WhileGate(r, l, Current(r, l) + 1)
  ELSE {AdvanceForEach(r, l)}

\* One LOOP of the pass; nothing follows a stop or an exception.
ReconcileLoop(r, l) ==
  IF r.exec # "RUNNING" \/ r.raised THEN {r}
  ELSE IF r.loop[l].st = "PENDING" THEN StartLoop(r, l)
  ELSE IF r.loop[l].st = "RUNNING" THEN AdvanceLoop(r, l)
  ELSE {r}

\* The pass in scheduling order.  A second pass changes nothing: a LOOP that
\* moved has ended or has an open iteration.
ReconcileLoops ==
  LET pass[l \in 0 .. Len(loop)] ==
        IF l = 0 THEN {LoopLocal} ELSE UNION {ReconcileLoop(r, l) : r \in pass[l - 1]}
  IN  pass[Len(loop)]

-----------------------------------------------------------------------------
(* The durable checkpoints the code asserts about itself.                  *)

TrueGates(h, n) == n <= Len(h) /\ \A i \in 1 .. n : h[i]

AllTerminal(x) == \A n \in DOMAIN x.kids : \A b \in DOMAIN x.kids[n] : x.kids[n][b] \in RowTerminal

\* A SUCCEEDED WHILE: N finished iterations behind N true gates, then a false one.
SucceededWhile(x) ==
  /\ AllTerminal(x)
  /\ TrueGates(x.hist, Len(x.kids))
  /\ Len(x.hist) = Len(x.kids) + 1 /\ ~x.hist[Len(x.kids) + 1]
  /\ x.completed = Len(x.kids)

\* A WHILE that failed at max_iterations: its last gate was true and has no rows.
LimitedWhile(l) ==
  LET x == loop[l]
  IN  /\ Len(x.kids) = Cfg(l).maxIterations
      /\ AllTerminal(x)
      /\ TrueGates(x.hist, Len(x.kids) + 1) /\ Len(x.hist) = Len(x.kids) + 1

\* A RUNNING WHILE: at most one gate ahead of its rows, over finished ones.
RunningWhile(x) ==
  /\ TrueGates(x.hist, Len(x.kids))
  /\ Len(x.hist) <= Len(x.kids) + 1
  /\ Len(x.hist) = Len(x.kids) + 1 => AllTerminal(x)

\* assert_while_parent_control_state
WhileControlState(l) ==
  LET x == loop[l]
  IN  CASE x.st = "SKIPPED" /\ x.err = "WHEN_FALSE" -> x.kids = << >> /\ x.hist = << >>
        [] x.st = "SUCCEEDED" -> SucceededWhile(x)
        [] x.st = "FAILED" /\ x.err = "MAX_ITERATIONS" -> LimitedWhile(l)
        [] x.st = "RUNNING" -> RunningWhile(x)
        [] x.st = "TIMED_OUT" -> TrueGates(x.hist, Len(x.kids)) /\ Len(x.hist) <= Len(x.kids)
        [] OTHER -> TRUE

\* _validate_loop_iteration_shapes: only the last iteration is open
IterationShapes(l) ==
  LET x == loop[l]
  IN  /\ \A n \in DOMAIN x.kids :
           n < Len(x.kids) => \A b \in Body(l) : x.kids[n][b] \in RowTerminal
      /\ Len(x.kids) <= (IF Cfg(l).mode = "WHILE" THEN Cfg(l).maxIterations ELSE x.pin)
      /\ Cfg(l).mode = "WHILE" => TrueGates(x.hist, Len(x.kids))

\* What validate_tool_join_dag asserts before every preparation and settlement.
DagAccepts ==
  \A l \in DOMAIN loop :
    /\ loop[l].kids # << >> => IterationShapes(l)
    /\ Cfg(l).mode = "WHILE" => WhileControlState(l)

\* _assert_iteration_topology
Topology(l) ==
  LET x == loop[l]
  IN  /\ IterationShapes(l)
      /\ x.st \in RowTerminal => AllTerminal(x)
      /\ \A n \in DOMAIN x.kids : n < Len(x.kids) =>
           \A b \in Body(l) : x.kids[n][b] # "UNKNOWN_OUTCOME"

\* _assert_foreach_recovery_checkpoint
ForEachCheckpoint(l) ==
  LET x == loop[l]
  IN  /\ x.kids # << >> => Topology(l)
      /\ x.st = "RUNNING" => x.pin \in 0 .. Cfg(l).maxIterations
      /\ x.st = "SUCCEEDED" => Len(x.kids) = x.pin /\ x.completed = x.pin /\ AllTerminal(x)

\* _assert_while_recovery_checkpoint
WhileCheckpoint(l) ==
  LET x == loop[l]
  IN  IF x.st = "RUNNING"
        THEN IF x.kids = << >> THEN Len(x.hist) = 1
             ELSE /\ Topology(l)
                  /\ TrueGates(x.hist, Len(x.kids))
                  /\ Len(x.hist) > Len(x.kids) => AllTerminal(x)
      ELSE x.st \in RowTerminal => WhileControlState(l)

\* assert_execution_loop_recovery_checkpoints
RecoveryAccepts ==
  \A l \in DOMAIN loop :
    IF Cfg(l).mode = "WHILE" THEN WhileCheckpoint(l) ELSE ForEachCheckpoint(l)

-----------------------------------------------------------------------------
(* Actions.                                                                *)

\* build_loop_body_ownership and assert_flat_foreach_runtime_compatible: flat
\* LOOPs with TOOL bodies only.
FlatPlan(p) ==
  \A l \in LoopsOf(p) : p.loops[l].mode \in {"FOR_EACH", "WHILE"} /\ p.loops[l].bodies >= 1

LoopInit ==
  /\ lplan \in {p \in LoopPlans : FlatPlan(p)}
  /\ lexec = "RUNNING"
  /\ llease = "live"
  /\ driver = "prepare"
  /\ loop = [l \in LoopsOf(lplan) |->
               [st |-> "PENDING", err |-> "NONE", pin |-> -1, hist |-> << >>, kids |-> << >>,
                late |-> FALSE, completed |-> -1]]
  /\ loopFaults = 0

Kids(status) ==
  UNION {UNION {{<<l, n, b>> : b \in {i \in Body(l) : loop[l].kids[n][i] \in status}} :
                  n \in DOMAIN loop[l].kids} : l \in DOMAIN loop}

SetKid(x, k, s) == [x EXCEPT ![k[1]].kids[k[2]][k[3]] = s]

\* dependency_progression_complete for a chain, and _parent_loop_running_if_body
KidEligible(r, l, n, b) ==
  /\ r.loop[l].st = "RUNNING"
  /\ r.loop[l].kids[n][b] = "PENDING"
  /\ b > 1 => \/ r.loop[l].kids[n][b - 1] = "SUCCEEDED"
              \/ r.loop[l].kids[n][b - 1] = "FAILED" /\ Cfg(l).bodyOnError = "CONTINUE"

Reserve(r) ==
  [l \in DOMAIN r.loop |->
     [r.loop[l] EXCEPT !.kids =
        [n \in DOMAIN @ |-> [b \in DOMAIN @[n] |-> IF KidEligible(r, l, n, b) THEN "READY" ELSE @[n][b]]]]]

HasReady(x) == \E l \in DOMAIN x : \E n \in DOMAIN x[l].kids : \E b \in DOMAIN x[l].kids[n] :
                     x[l].kids[n][b] \in {"READY", "RETRY"}

Ended(r) == \A l \in DOMAIN r.loop : r.loop[l].st \in RowTerminal

\* The transaction of a preparation: LOOPs, then the reservation of the wave, or
\* completion; with nothing READY, or rolled back, it leaves the lease to expire.
LoopPrepare ==
  /\ driver = "prepare"
  /\ lexec = "RUNNING"
  /\ \E r \in (IF DagAccepts THEN ReconcileLoops ELSE {FailClosed(LoopLocal)}) :
       /\ loop' = IF r.raised THEN loop ELSE IF r.exec = "RUNNING" THEN Reserve(r) ELSE r.loop
       /\ lexec' = IF r.raised THEN lexec
                   ELSE IF r.exec = "RUNNING" /\ Ended(r) THEN "COMPLETED" ELSE r.exec
       /\ llease' = IF lexec' = "RUNNING" THEN llease ELSE "none"
       /\ driver' = IF r.raised \/ lexec' # "RUNNING" \/ ~HasReady(loop') THEN "idle" ELSE "run"
  /\ UNCHANGED <<lplan, loopFaults>>

\* Phase A of a body TOOL, with revalidate_foreach_collection_pin and
\* revalidate_while_predicate_gate: the gate of its iteration was true.
StartKid(k) ==
  /\ driver \in {"run", "stop"}
  /\ lexec = "RUNNING"
  /\ k \in Kids({"READY", "RETRY"})
  /\ loop' = SetKid(loop, k, "RUNNING")
  /\ UNCHANGED <<lplan, lexec, llease, driver, loopFaults>>

Stopped(l, o) == o = "UNKNOWN_OUTCOME" \/ (o = "FAILED" /\ Cfg(l).bodyOnError = "FAIL_EXECUTION")

\* Every row that is not terminal gets status s, but for a call in flight.
EndRows(x, s) ==
  [l \in DOMAIN x |->
     [x[l] EXCEPT !.st = IF @ \in RowTerminal THEN @ ELSE s,
                  !.kids = [n \in DOMAIN @ |-> [b \in DOMAIN @[n] |->
                              IF @[n][b] \in RowTerminal \union {"RUNNING"} THEN @[n][b] ELSE s]]]]

\* Phase C of a body TOOL; the last one of a cancelled Execution ends it.
EndKid(k, o) ==
  /\ driver \in {"run", "stop"}
  /\ k \in Kids({"RUNNING"})
  /\ o = "UNKNOWN_OUTCOME" => ~Cfg(k[1]).safe
  /\ loop' = SetKid(loop, k, o)
  /\ IF lexec = "RUNNING"
       THEN /\ driver' = IF Stopped(k[1], o) THEN "stop" ELSE driver
            /\ UNCHANGED <<lexec, llease>>
     ELSE IF Cardinality(Kids({"RUNNING"})) > 1
       THEN UNCHANGED <<lexec, llease, driver>>
     ELSE /\ lexec' = IF o = "UNKNOWN_OUTCOME" THEN "FAILED" ELSE "CANCELLED"
          /\ llease' = "none"
          /\ driver' = "idle"
  /\ UNCHANGED <<lplan, loopFaults>>

\* _settle_wave: the wave is over; a fatal outcome stops everything.
LoopSettle ==
  /\ driver \in {"run", "stop"}
  /\ lexec = "RUNNING"
  /\ Kids({"READY", "RETRY", "RUNNING"}) = {}
  /\ IF driver = "stop"
       THEN /\ loop' = StopAll(LoopLocal, "FAILED").loop
            /\ lexec' = "FAILED" /\ llease' = "none" /\ driver' = "idle"
       ELSE driver' = "prepare" /\ UNCHANGED <<loop, lexec, llease>>
  /\ UNCHANGED <<lplan, loopFaults>>

\* loop_timeout_exceeded
LoopTimeout(l) ==
  /\ loop[l].st = "RUNNING"
  /\ ~loop[l].late
  /\ loop' = [loop EXCEPT ![l].late = TRUE]
  /\ UNCHANGED <<lplan, lexec, llease, driver, loopFaults>>

LoopCancel ==
  /\ lexec = "RUNNING"
  /\ loop' = EndRows(loop, "CANCELLED")
  /\ lexec' = IF Kids({"RUNNING"}) = {} THEN "CANCELLED" ELSE "CANCEL_REQUESTED"
  /\ llease' = IF Kids({"RUNNING"}) = {} THEN "none" ELSE llease
  /\ driver' = IF Kids({"RUNNING"}) = {} THEN "idle" ELSE driver
  /\ UNCHANGED <<lplan, loopFaults>>

LoopCrash ==
  /\ driver # "idle"
  /\ loopFaults < MaxLoopFaults
  /\ loopFaults' = loopFaults + 1
  /\ driver' = "idle"
  /\ UNCHANGED <<lplan, lexec, llease, loop>>

LoopLeaseExpires ==
  /\ driver = "idle"
  /\ llease = "live"
  /\ llease' = "expired"
  /\ UNCHANGED <<lplan, lexec, driver, loop, loopFaults>>

UnsafeInFlight == {k \in Kids({"RUNNING"}) : ~Cfg(k[1]).safe} \union Kids({"UNKNOWN_OUTCOME"})

Replace(x, from, to) ==
  [l \in DOMAIN x |-> [x[l] EXCEPT !.kids =
     [n \in DOMAIN @ |-> [b \in DOMAIN @[n] |-> IF @[n][b] = from THEN to ELSE @[n][b]]]]]

\* WorkflowDagRecovery.recover: the checkpoints first, then the body TOOLs.
LoopRecover ==
  /\ llease = "expired"
  /\ IF lexec = "RUNNING" /\ RecoveryAccepts /\ UnsafeInFlight = {}
       THEN /\ loop' = Replace(loop, "RUNNING", "RETRY")
            /\ driver' = "prepare" /\ llease' = "live" /\ UNCHANGED lexec
       ELSE /\ loop' = Replace(EndRows(loop, "FAILED"), "RUNNING", "UNKNOWN_OUTCOME")
            /\ lexec' = "FAILED" /\ llease' = "none" /\ UNCHANGED driver
  /\ UNCHANGED <<lplan, loopFaults>>

LoopNext ==
  \/ LoopPrepare
  \/ \E k \in Kids({"READY", "RETRY"}) : StartKid(k)
  \/ \E k \in Kids({"RUNNING"}), o \in {"SUCCEEDED", "FAILED", "UNKNOWN_OUTCOME"} : EndKid(k, o)
  \/ LoopSettle
  \/ \E l \in DOMAIN loop : LoopTimeout(l)
  \/ LoopCancel
  \/ LoopCrash
  \/ LoopLeaseExpires
  \/ LoopRecover

LoopSpec == LoopInit /\ [][LoopNext]_loopVars

-----------------------------------------------------------------------------
(* Properties.                                                             *)

\* The LOOP rows, their control evidence and their children have their types.
LoopTypeOK ==
  /\ lplan \in LoopPlans
  /\ lexec \in {"RUNNING", "CANCEL_REQUESTED", "COMPLETED", "FAILED", "TIMED_OUT", "CANCELLED"}
  /\ llease \in {"none", "live", "expired"}
  /\ driver \in {"idle", "prepare", "run", "stop"}
  /\ DOMAIN loop = LoopsOf(lplan)
  /\ \A l \in DOMAIN loop :
       /\ loop[l].st \in RowTerminal \union {"PENDING", "RUNNING"}
       /\ loop[l].hist \in Seq(BOOLEAN)
       /\ \A n \in DOMAIN loop[l].kids :
            loop[l].kids[n] \in [Body(l) -> RowTerminal \union {"PENDING", "READY", "RETRY", "RUNNING"}]
  /\ loopFaults \in 0 .. MaxLoopFaults

\* The code's own assertions hold whenever they are evaluated: no interleaving
\* of iterations, timeouts, failed bodies and crashes makes the DAG validation
\* or the recovery of a RUNNING Execution refuse its own checkpoints.
CheckpointsHold == lexec = "RUNNING" => DagAccepts /\ (llease = "expired" => RecoveryAccepts)

\* Materialization never goes beyond limits.max_steps, whatever several LOOPs
\* do side by side.
StepBudget ==
  Len(loop) + Cardinality(Kids(RowTerminal \union {"PENDING", "READY", "RETRY", "RUNNING"}))
    <= lplan.maxSteps

\* loop_reconcile.py: "Also enforce global FOR_EACH reservations remain valid."
\* What a RUNNING FOR_EACH has reserved is there when it needs it.
ReservationsValid == lexec = "RUNNING" => FitsGlobally(LoopLocal)

\* Once a LOOP row is terminal none of its children starts.
EndedLoopIsQuiet ==
  [][\A k \in Kids({"READY", "RETRY", "PENDING"}) :
       loop[k[1]].st \in RowTerminal => loop'[k[1]].kids[k[2]][k[3]] # "RUNNING"]_loopVars

\* The task goes on, calls end, time passes, an expired lease is recovered.
LoopFairness ==
  /\ WF_loopVars(LoopPrepare \/ LoopSettle)
  /\ WF_loopVars(\E k \in Kids({"READY", "RETRY"}) : StartKid(k))
  /\ WF_loopVars(\E k \in Kids({"RUNNING"}), o \in {"SUCCEEDED", "FAILED"} : EndKid(k, o))
  /\ WF_loopVars(\E l \in DOMAIN loop : LoopTimeout(l))
  /\ WF_loopVars(LoopLeaseExpires)
  /\ WF_loopVars(LoopRecover)

LoopFairSpec == LoopSpec /\ LoopFairness

\* A WHILE whose Predicate stays true, a FOR_EACH, their timeouts and crashes:
\* the Execution ends.
LoopsEnd == <>(lexec \notin {"RUNNING", "CANCEL_REQUESTED"})
=============================================================================
