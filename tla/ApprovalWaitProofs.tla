-------------------------- MODULE ApprovalWaitProofs --------------------------
(***************************************************************************)
(* Proofs about ApprovalWait, for any number of users and workers, any     *)
(* decision mode and all stale reads.  Each part of the inductive          *)
(* invariant has one lemma with one step per action; the counting of       *)
(* decisions enters only through the first lemmas.                         *)
(***************************************************************************)
EXTENDS ApprovalWait, FiniteSetTheorems, TLAPS

\* The number of users with a given decision is a natural number.
LEMMA CountType == \A d, v : Count(d, v) \in Nat
<1> TAKE d, v
<1>1. IsFiniteSet({u \in Approvers : d[u] = v})
  BY ApproversAssumption, FS_Subset
<1> QED
  BY <1>1, FS_CardinalityType DEF Count

\* A further decision of a user who had none takes no approval away.
LEMMA ApprovalsGrow ==
  ASSUME TypeOK, NEW u \in Approvers, NEW v \in Verdicts, decisions[u] = "NONE"
  PROVE  Count([decisions EXCEPT ![u] = v], "APPROVE") >= Count(decisions, "APPROVE")
<1> DEFINE d == [decisions EXCEPT ![u] = v]
<1> DEFINE Before == {x \in Approvers : decisions[x] = "APPROVE"}
<1> DEFINE After == {x \in Approvers : d[x] = "APPROVE"}
<1>1. IsFiniteSet(After)
  BY ApproversAssumption, FS_Subset
<1>2. Before \subseteq After
  BY DEF TypeOK
<1>3. Cardinality(Before) <= Cardinality(After)
  BY <1>1, <1>2, FS_Subset
<1>4. Cardinality(Before) \in Nat /\ Cardinality(After) \in Nat
  BY <1>1, <1>2, FS_Subset, FS_CardinalityType
<1> QED
  BY <1>3, <1>4 DEF Count

\* aggregate_decision approves only what decision_mode allows, and lets no
\* rejection pass under ALL.
LEMMA AggregateSound ==
  \A d : /\ AggregateDecision(d) = "APPROVED" => EnoughApproved(d)
         /\ AggregateDecision(d) = "PENDING" /\ Mode = "ALL" => Count(d, "REJECT") = 0
BY CountType, PolicyAssumption DEF AggregateDecision, EnoughApproved, Modes


\* Every step keeps the types.
LEMMA TypeStep ==
  TypeOK /\ [Next]_vars => TypeOK'
<1> SUFFICES ASSUME TypeOK, [Next]_vars PROVE TypeOK'
  OBVIOUS
<1> USE BoundsAssumption
<1> USE DEF TypeOK, ExecutionStatus, TerminalExecution, StepStatus, CallStatus, CallTerminal,
    ApprovalStatus, Refused, Verdicts, Phases, execVars, approvalVars, pendingVars, workerVars,
    vars
<1>1. ASSUME NEW w \in Workers, PrepareStale(w) PROVE TypeOK'
  BY <1>1 DEF PrepareStale, Leave, Goto
<1>2. ASSUME NEW w \in Workers, PrepareWaits(w) PROVE TypeOK'
  BY <1>2 DEF PrepareWaits, MayPrepare, OwnsLease, ValidEvidence, DropLease, ClearLease, Goto
<1>3. ASSUME NEW w \in Workers, PrepareRefused(w) PROVE TypeOK'
  BY <1>3 DEF PrepareRefused, MayPrepare, OwnsLease, Fail, ClearLease, Goto
<1>4. ASSUME NEW w \in Workers, PrepareStarts(w) PROVE TypeOK'
  BY <1>4 DEF PrepareStarts, MayPrepare, OwnsLease, ValidEvidence, Goto
<1>5. ASSUME NEW w \in Workers, GateStale(w) PROVE TypeOK'
  BY <1>5 DEF GateStale, Leave, Goto
<1>6. ASSUME NEW w \in Workers, GateCancels(w) PROVE TypeOK'
  BY <1>6 DEF GateCancels, OwnsLease, ClearLease, Goto
<1>7. ASSUME NEW w \in Workers, GateDrifts(w) PROVE TypeOK'
  BY <1>7 DEF GateDrifts, OwnsLease, Goto
<1>8. ASSUME NEW w \in Workers, GatePasses(w) PROVE TypeOK'
  BY <1>8 DEF GatePasses, OwnsLease, ValidEvidence, Goto
<1>9. ASSUME NEW w \in Workers, FinalizeStale(w) PROVE TypeOK'
  BY <1>9 DEF FinalizeStale, Leave, Goto
<1>10. ASSUME NEW w \in Workers, NEW o \in {"SUCCEEDED", "FAILED", "UNKNOWN_OUTCOME"},
            Finalize(w, o)
     PROVE  TypeOK'
  BY <1>10 DEF Finalize, OwnsLease, ClearLease, Goto
<1>11. ASSUME NEW w \in Workers, SettleStops(w) PROVE TypeOK'
  BY <1>11 DEF SettleStops, ClearLease, Goto
<1>12. ASSUME NEW w \in Workers, SettleFenced(w) PROVE TypeOK'
  BY <1>12 DEF SettleFenced, Leave, Goto
<1>13. ASSUME NEW w \in Workers, SettleSucceeds(w) PROVE TypeOK'
  BY <1>13 DEF SettleSucceeds, OwnsLease, ClearLease, Goto
<1>14. ASSUME NEW w \in Workers, ResumeClaim(w) PROVE TypeOK'
  BY <1>14 DEF ResumeClaim, MayResume, NotStale, AssignLease, Goto
<1>15. ASSUME NEW w \in Workers, ResumeFails(w) PROVE TypeOK'
  BY <1>15 DEF ResumeFails, MayResume, NotStale, Fail, ClearLease
<1>16. ASSUME NEW w \in Workers, RecoverReady(w) PROVE TypeOK'
  BY <1>16 DEF RecoverReady, MayRecover, AssignLease, Goto
<1>17. ASSUME NEW w \in Workers, RecoverUnknown(w) PROVE TypeOK'
  BY <1>17 DEF RecoverUnknown, MayRecover, InFlightCall, ClearLease
<1>18. ASSUME NEW w \in Workers, RecoverSettled(w) PROVE TypeOK'
  BY <1>18 DEF RecoverSettled, MayRecover, ClearLease
<1>19. ASSUME NEW w \in Workers, Crash(w) PROVE TypeOK'
  BY <1>19 DEF Crash, Goto
<1>20. ASSUME NEW u \in Approvers, BeginDecide(u) PROVE TypeOK'
  BY <1>20 DEF BeginDecide
<1>21. ASSUME NEW u \in Approvers, DecideRefused(u) PROVE TypeOK'
  BY <1>21 DEF DecideRefused, EndDecide
<1>22. ASSUME NEW u \in Approvers, DecideTooLate(u) PROVE TypeOK'
  BY <1>22 DEF DecideTooLate, EndDecide, Fail, ClearLease
<1>23. ASSUME NEW u \in Approvers, NEW v \in Verdicts, Decide(u, v) PROVE TypeOK'
  BY <1>23 DEF Decide, EndDecide, RowsStillWait, ResumeIsNew, Fail, ClearLease
<1>24. CASE SweepProbe
  BY <1>24 DEF SweepProbe
<1>25. CASE SweepExpires
  BY <1>25 DEF SweepExpires, RowsStillWait, Fail, ClearLease
<1>26. CASE SweepSkips
  BY <1>26 DEF SweepSkips
<1>27. CASE RelayPublish
  BY <1>27 DEF RelayPublish
<1>28. CASE RelayCommit
  BY <1>28 DEF RelayCommit
<1>29. CASE CancelImmediate
  BY <1>29 DEF CancelImmediate, InFlightCall, CancelledRequest, ClearLease
<1>30. CASE CancelCooperative
  BY <1>30 DEF CancelCooperative, InFlightCall, CancelledRequest
<1>31. CASE ExpiryPasses
  BY <1>31 DEF ExpiryPasses
<1>32. CASE LeaseLapses
  BY <1>32 DEF LeaseLapses
<1>33. CASE UNCHANGED vars
  BY <1>33
<1> QED
  BY <1>1, <1>2, <1>3, <1>4, <1>5, <1>6, <1>7, <1>8, <1>9, <1>10, <1>11, <1>12, <1>13, <1>14,
     <1>15, <1>16, <1>17, <1>18, <1>19, <1>20, <1>21, <1>22, <1>23, <1>24, <1>25, <1>26, <1>27,
     <1>28, <1>29, <1>30, <1>31, <1>32, <1>33
  DEF Next, TaskStep, Prepare, Gate, Finish, Resume, Recover, UserStep, Sweep, Relay

\* The Execution's, the Step's and the request's rows move together.
LEMMA RowsStep ==
  TypeOK /\ WaitIsConsistent /\ OneRequest /\ RequestInv /\ CallInv /\ LeaseInv /\ OrphanInv /\ [Next]_vars => (WaitIsConsistent /\ OneRequest /\ RequestInv /\ OrphanInv)'
<1> SUFFICES ASSUME TypeOK, WaitIsConsistent, OneRequest, RequestInv, CallInv, LeaseInv, OrphanInv, [Next]_vars PROVE (WaitIsConsistent /\ OneRequest /\ RequestInv /\ OrphanInv)'
  OBVIOUS
<1> USE BoundsAssumption
<1> USE DEF TypeOK, CallInv, LeaseInv, InTransit, CallTerminal, Refused, WaitIsConsistent,
    OneRequest, RequestInv, OrphanInv, NoOrphanedCall, Waiting, execVars, approvalVars,
    pendingVars, workerVars, vars
<1>1. ASSUME NEW w \in Workers, PrepareStale(w) PROVE (WaitIsConsistent /\ OneRequest /\ RequestInv /\ OrphanInv)'
  BY <1>1 DEF PrepareStale, Leave, Goto
<1>2. ASSUME NEW w \in Workers, PrepareWaits(w) PROVE (WaitIsConsistent /\ OneRequest /\ RequestInv /\ OrphanInv)'
  BY <1>2 DEF PrepareWaits, MayPrepare, OwnsLease, ValidEvidence, DropLease, ClearLease, Goto
<1>3. ASSUME NEW w \in Workers, PrepareRefused(w) PROVE (WaitIsConsistent /\ OneRequest /\ RequestInv /\ OrphanInv)'
  BY <1>3 DEF PrepareRefused, MayPrepare, OwnsLease, Fail, ClearLease, Goto
<1>4. ASSUME NEW w \in Workers, PrepareStarts(w) PROVE (WaitIsConsistent /\ OneRequest /\ RequestInv /\ OrphanInv)'
  BY <1>4 DEF PrepareStarts, MayPrepare, OwnsLease, ValidEvidence, Goto
<1>5. ASSUME NEW w \in Workers, GateStale(w) PROVE (WaitIsConsistent /\ OneRequest /\ RequestInv /\ OrphanInv)'
  BY <1>5 DEF GateStale, Leave, Goto
<1>6. ASSUME NEW w \in Workers, GateCancels(w) PROVE (WaitIsConsistent /\ OneRequest /\ RequestInv /\ OrphanInv)'
  BY <1>6 DEF GateCancels, OwnsLease, ClearLease, Goto
<1>7. ASSUME NEW w \in Workers, GateDrifts(w) PROVE (WaitIsConsistent /\ OneRequest /\ RequestInv /\ OrphanInv)'
  BY <1>7 DEF GateDrifts, OwnsLease, Goto
<1>8. ASSUME NEW w \in Workers, GatePasses(w) PROVE (WaitIsConsistent /\ OneRequest /\ RequestInv /\ OrphanInv)'
  BY <1>8 DEF GatePasses, OwnsLease, ValidEvidence, Goto
<1>9. ASSUME NEW w \in Workers, FinalizeStale(w) PROVE (WaitIsConsistent /\ OneRequest /\ RequestInv /\ OrphanInv)'
  BY <1>9 DEF FinalizeStale, Leave, Goto
<1>10. ASSUME NEW w \in Workers, NEW o \in {"SUCCEEDED", "FAILED", "UNKNOWN_OUTCOME"},
            Finalize(w, o)
     PROVE  (WaitIsConsistent /\ OneRequest /\ RequestInv /\ OrphanInv)'
  BY <1>10 DEF Finalize, OwnsLease, ClearLease, Goto
<1>11. ASSUME NEW w \in Workers, SettleStops(w) PROVE (WaitIsConsistent /\ OneRequest /\ RequestInv /\ OrphanInv)'
  BY <1>11 DEF SettleStops, ClearLease, Goto
<1>12. ASSUME NEW w \in Workers, SettleFenced(w) PROVE (WaitIsConsistent /\ OneRequest /\ RequestInv /\ OrphanInv)'
  BY <1>12 DEF SettleFenced, Leave, Goto
<1>13. ASSUME NEW w \in Workers, SettleSucceeds(w) PROVE (WaitIsConsistent /\ OneRequest /\ RequestInv /\ OrphanInv)'
  BY <1>13 DEF SettleSucceeds, OwnsLease, ClearLease, Goto
<1>14. ASSUME NEW w \in Workers, ResumeClaim(w) PROVE (WaitIsConsistent /\ OneRequest /\ RequestInv /\ OrphanInv)'
  BY <1>14 DEF ResumeClaim, MayResume, NotStale, AssignLease, Goto
<1>15. ASSUME NEW w \in Workers, ResumeFails(w) PROVE (WaitIsConsistent /\ OneRequest /\ RequestInv /\ OrphanInv)'
  BY <1>15 DEF ResumeFails, MayResume, NotStale, Fail, ClearLease
<1>16. ASSUME NEW w \in Workers, RecoverReady(w) PROVE (WaitIsConsistent /\ OneRequest /\ RequestInv /\ OrphanInv)'
  BY <1>16 DEF RecoverReady, MayRecover, AssignLease, Goto
<1>17. ASSUME NEW w \in Workers, RecoverUnknown(w) PROVE (WaitIsConsistent /\ OneRequest /\ RequestInv /\ OrphanInv)'
  BY <1>17 DEF RecoverUnknown, MayRecover, InFlightCall, ClearLease
<1>18. ASSUME NEW w \in Workers, RecoverSettled(w) PROVE (WaitIsConsistent /\ OneRequest /\ RequestInv /\ OrphanInv)'
  BY <1>18 DEF RecoverSettled, MayRecover, ClearLease
<1>19. ASSUME NEW w \in Workers, Crash(w) PROVE (WaitIsConsistent /\ OneRequest /\ RequestInv /\ OrphanInv)'
  BY <1>19 DEF Crash, Goto
<1>20. ASSUME NEW u \in Approvers, BeginDecide(u) PROVE (WaitIsConsistent /\ OneRequest /\ RequestInv /\ OrphanInv)'
  BY <1>20 DEF BeginDecide
<1>21. ASSUME NEW u \in Approvers, DecideRefused(u) PROVE (WaitIsConsistent /\ OneRequest /\ RequestInv /\ OrphanInv)'
  BY <1>21 DEF DecideRefused, EndDecide
<1>22. ASSUME NEW u \in Approvers, DecideTooLate(u) PROVE (WaitIsConsistent /\ OneRequest /\ RequestInv /\ OrphanInv)'
  BY <1>22 DEF DecideTooLate, EndDecide, Fail, ClearLease
<1>23. ASSUME NEW u \in Approvers, NEW v \in Verdicts, Decide(u, v) PROVE (WaitIsConsistent /\ OneRequest /\ RequestInv /\ OrphanInv)'
  BY <1>23 DEF Decide, EndDecide, RowsStillWait, ResumeIsNew, Fail, ClearLease
<1>24. CASE SweepProbe
  BY <1>24 DEF SweepProbe
<1>25. CASE SweepExpires
  BY <1>25 DEF SweepExpires, RowsStillWait, Fail, ClearLease
<1>26. CASE SweepSkips
  BY <1>26 DEF SweepSkips
<1>27. CASE RelayPublish
  BY <1>27 DEF RelayPublish
<1>28. CASE RelayCommit
  BY <1>28 DEF RelayCommit
<1>29. CASE CancelImmediate
  BY <1>29 DEF CancelImmediate, InFlightCall, CancelledRequest, ClearLease
<1>30. CASE CancelCooperative
  BY <1>30 DEF CancelCooperative, InFlightCall, CancelledRequest
<1>31. CASE ExpiryPasses
  BY <1>31 DEF ExpiryPasses
<1>32. CASE LeaseLapses
  BY <1>32 DEF LeaseLapses
<1>33. CASE UNCHANGED vars
  BY <1>33
<1> QED
  BY <1>1, <1>2, <1>3, <1>4, <1>5, <1>6, <1>7, <1>8, <1>9, <1>10, <1>11, <1>12, <1>13, <1>14,
     <1>15, <1>16, <1>17, <1>18, <1>19, <1>20, <1>21, <1>22, <1>23, <1>24, <1>25, <1>26, <1>27,
     <1>28, <1>29, <1>30, <1>31, <1>32, <1>33
  DEF Next, TaskStep, Prepare, Gate, Finish, Resume, Recover, UserStep, Sweep, Relay

\* An approval rests on its decisions, which change only while the rows wait.
LEMMA ApprovedStep ==
  TypeOK /\ WaitIsConsistent /\ RequestInv /\ EvidenceInv /\ CallInv /\ [Next]_vars => EvidenceInv'
<1> SUFFICES ASSUME TypeOK, WaitIsConsistent, RequestInv, EvidenceInv, CallInv, [Next]_vars PROVE EvidenceInv'
  OBVIOUS
<1> USE DEF EvidenceInv, CallNeedsApproval, execVars, approvalVars, pendingVars, workerVars,
    vars
<1>1. ASSUME NEW w \in Workers, PrepareStale(w) PROVE EvidenceInv'
  BY <1>1 DEF PrepareStale, Leave, Goto
<1>2. ASSUME NEW w \in Workers, PrepareWaits(w) PROVE EvidenceInv'
  BY <1>2 DEF PrepareWaits, MayPrepare, OwnsLease, ValidEvidence, DropLease, ClearLease, Goto,
     CallInv, TypeOK
<1>3. ASSUME NEW w \in Workers, PrepareRefused(w) PROVE EvidenceInv'
  BY <1>3 DEF PrepareRefused, MayPrepare, OwnsLease, Fail, ClearLease, Goto
<1>4. ASSUME NEW w \in Workers, PrepareStarts(w) PROVE EvidenceInv'
  BY <1>4 DEF PrepareStarts, MayPrepare, OwnsLease, ValidEvidence, Goto
<1>5. ASSUME NEW w \in Workers, GateStale(w) PROVE EvidenceInv'
  BY <1>5 DEF GateStale, Leave, Goto
<1>6. ASSUME NEW w \in Workers, GateCancels(w) PROVE EvidenceInv'
  BY <1>6 DEF GateCancels, OwnsLease, ClearLease, Goto
<1>7. ASSUME NEW w \in Workers, GateDrifts(w) PROVE EvidenceInv'
  BY <1>7 DEF GateDrifts, OwnsLease, Goto
<1>8. ASSUME NEW w \in Workers, GatePasses(w) PROVE EvidenceInv'
  BY <1>8 DEF GatePasses, OwnsLease, ValidEvidence, Goto
<1>9. ASSUME NEW w \in Workers, FinalizeStale(w) PROVE EvidenceInv'
  BY <1>9 DEF FinalizeStale, Leave, Goto
<1>10. ASSUME NEW w \in Workers, NEW o \in {"SUCCEEDED", "FAILED", "UNKNOWN_OUTCOME"},
            Finalize(w, o)
     PROVE  EvidenceInv'
  BY <1>10 DEF Finalize, OwnsLease, ClearLease, Goto
<1>11. ASSUME NEW w \in Workers, SettleStops(w) PROVE EvidenceInv'
  BY <1>11 DEF SettleStops, ClearLease, Goto
<1>12. ASSUME NEW w \in Workers, SettleFenced(w) PROVE EvidenceInv'
  BY <1>12 DEF SettleFenced, Leave, Goto
<1>13. ASSUME NEW w \in Workers, SettleSucceeds(w) PROVE EvidenceInv'
  BY <1>13 DEF SettleSucceeds, OwnsLease, ClearLease, Goto
<1>14. ASSUME NEW w \in Workers, ResumeClaim(w) PROVE EvidenceInv'
  BY <1>14 DEF ResumeClaim, MayResume, NotStale, AssignLease, Goto, RequestInv
<1>15. ASSUME NEW w \in Workers, ResumeFails(w) PROVE EvidenceInv'
  BY <1>15 DEF ResumeFails, MayResume, NotStale, Fail, ClearLease
<1>16. ASSUME NEW w \in Workers, RecoverReady(w) PROVE EvidenceInv'
  BY <1>16 DEF RecoverReady, MayRecover, AssignLease, Goto
<1>17. ASSUME NEW w \in Workers, RecoverUnknown(w) PROVE EvidenceInv'
  BY <1>17 DEF RecoverUnknown, MayRecover, InFlightCall, ClearLease
<1>18. ASSUME NEW w \in Workers, RecoverSettled(w) PROVE EvidenceInv'
  BY <1>18 DEF RecoverSettled, MayRecover, ClearLease
<1>19. ASSUME NEW w \in Workers, Crash(w) PROVE EvidenceInv'
  BY <1>19 DEF Crash, Goto
<1>20. ASSUME NEW u \in Approvers, BeginDecide(u) PROVE EvidenceInv'
  BY <1>20 DEF BeginDecide
<1>21. ASSUME NEW u \in Approvers, DecideRefused(u) PROVE EvidenceInv'
  BY <1>21 DEF DecideRefused, EndDecide
<1>22. ASSUME NEW u \in Approvers, DecideTooLate(u) PROVE EvidenceInv'
  BY <1>22 DEF DecideTooLate, EndDecide, Fail, ClearLease
<1>23. ASSUME NEW u \in Approvers, NEW v \in Verdicts, Decide(u, v) PROVE EvidenceInv'
  <2>1. sends = 0 /\ sends' = sends
    BY <1>23 DEF Decide, RowsStillWait, Waiting, CallInv
  <2>2. decisions' = [decisions EXCEPT ![u] = v] /\ decisions[u] = "NONE"
    BY <1>23 DEF Decide
  <2>3. CASE AggregateDecision(decisions') = "APPROVED" /\ resume' = "UNPUBLISHED"
    BY <2>1, <2>3, AggregateSound
  <2>4. CASE reqStatus' = "REJECTED"
    BY <2>1, <2>4
  <2>5. CASE AggregateDecision(decisions') = "PENDING" /\ UNCHANGED <<reqStatus, resume>>
    <3>1. Count(decisions', "APPROVE") >= Count(decisions, "APPROVE")
      BY <2>2, ApprovalsGrow
    <3>2. Mode = "ALL" => Count(decisions', "REJECT") = 0
      BY <2>5, AggregateSound
    <3>3. EnoughApproved(decisions) => EnoughApproved(decisions')
      BY <3>1, <3>2, CountType, PolicyAssumption DEF EnoughApproved
    <3> QED
      BY <2>1, <2>5, <3>3
  <2> QED
    BY <1>23, <2>3, <2>4, <2>5 DEF Decide
<1>24. CASE SweepProbe
  BY <1>24 DEF SweepProbe
<1>25. CASE SweepExpires
  BY <1>25 DEF SweepExpires, RowsStillWait, Fail, ClearLease
<1>26. CASE SweepSkips
  BY <1>26 DEF SweepSkips
<1>27. CASE RelayPublish
  BY <1>27 DEF RelayPublish
<1>28. CASE RelayCommit
  BY <1>28 DEF RelayCommit
<1>29. CASE CancelImmediate
  BY <1>29 DEF CancelImmediate, InFlightCall, CancelledRequest, ClearLease
<1>30. CASE CancelCooperative
  BY <1>30 DEF CancelCooperative, InFlightCall, CancelledRequest
<1>31. CASE ExpiryPasses
  BY <1>31 DEF ExpiryPasses
<1>32. CASE LeaseLapses
  BY <1>32 DEF LeaseLapses
<1>33. CASE UNCHANGED vars
  BY <1>33
<1> QED
  BY <1>1, <1>2, <1>3, <1>4, <1>5, <1>6, <1>7, <1>8, <1>9, <1>10, <1>11, <1>12, <1>13, <1>14,
     <1>15, <1>16, <1>17, <1>18, <1>19, <1>20, <1>21, <1>22, <1>23, <1>24, <1>25, <1>26, <1>27,
     <1>28, <1>29, <1>30, <1>31, <1>32, <1>33
  DEF Next, TaskStep, Prepare, Gate, Finish, Resume, Recover, UserStep, Sweep, Relay

\* A call exists only behind an approval, and its Step is where its task is.
LEMMA CallStep ==
  TypeOK /\ WaitIsConsistent /\ OneRequest /\ RequestInv /\ CallInv /\ LeaseInv /\ [Next]_vars => CallInv'
<1> SUFFICES ASSUME TypeOK, WaitIsConsistent, OneRequest, RequestInv, CallInv, LeaseInv, [Next]_vars PROVE CallInv'
  OBVIOUS
<1> USE DEF TypeOK, CallInv, LeaseInv, InTransit, CallTerminal, WaitIsConsistent, Waiting,
    OneRequest, RequestInv, execVars, approvalVars, pendingVars, workerVars, vars
<1>1. ASSUME NEW w \in Workers, PrepareStale(w) PROVE CallInv'
  BY <1>1 DEF PrepareStale, Leave, Goto
<1>2. ASSUME NEW w \in Workers, PrepareWaits(w) PROVE CallInv'
  BY <1>2 DEF PrepareWaits, MayPrepare, OwnsLease, ValidEvidence, DropLease, ClearLease, Goto
<1>3. ASSUME NEW w \in Workers, PrepareRefused(w) PROVE CallInv'
  BY <1>3 DEF PrepareRefused, MayPrepare, OwnsLease, Fail, ClearLease, Goto
<1>4. ASSUME NEW w \in Workers, PrepareStarts(w) PROVE CallInv'
  BY <1>4 DEF PrepareStarts, MayPrepare, OwnsLease, ValidEvidence, Goto
<1>5. ASSUME NEW w \in Workers, GateStale(w) PROVE CallInv'
  BY <1>5 DEF GateStale, Leave, Goto
<1>6. ASSUME NEW w \in Workers, GateCancels(w) PROVE CallInv'
  BY <1>6 DEF GateCancels, OwnsLease, ClearLease, Goto
<1>7. ASSUME NEW w \in Workers, GateDrifts(w) PROVE CallInv'
  BY <1>7 DEF GateDrifts, OwnsLease, Goto
<1>8. ASSUME NEW w \in Workers, GatePasses(w) PROVE CallInv'
  BY <1>8 DEF GatePasses, OwnsLease, ValidEvidence, Goto
<1>9. ASSUME NEW w \in Workers, FinalizeStale(w) PROVE CallInv'
  BY <1>9 DEF FinalizeStale, Leave, Goto
<1>10. ASSUME NEW w \in Workers, NEW o \in {"SUCCEEDED", "FAILED", "UNKNOWN_OUTCOME"},
            Finalize(w, o)
     PROVE  CallInv'
  BY <1>10 DEF Finalize, OwnsLease, ClearLease, Goto
<1>11. ASSUME NEW w \in Workers, SettleStops(w) PROVE CallInv'
  BY <1>11 DEF SettleStops, ClearLease, Goto
<1>12. ASSUME NEW w \in Workers, SettleFenced(w) PROVE CallInv'
  BY <1>12 DEF SettleFenced, Leave, Goto
<1>13. ASSUME NEW w \in Workers, SettleSucceeds(w) PROVE CallInv'
  BY <1>13 DEF SettleSucceeds, OwnsLease, ClearLease, Goto
<1>14. ASSUME NEW w \in Workers, ResumeClaim(w) PROVE CallInv'
  BY <1>14 DEF ResumeClaim, MayResume, NotStale, AssignLease, Goto
<1>15. ASSUME NEW w \in Workers, ResumeFails(w) PROVE CallInv'
  BY <1>15 DEF ResumeFails, MayResume, NotStale, Fail, ClearLease
<1>16. ASSUME NEW w \in Workers, RecoverReady(w) PROVE CallInv'
  BY <1>16 DEF RecoverReady, MayRecover, AssignLease, Goto
<1>17. ASSUME NEW w \in Workers, RecoverUnknown(w) PROVE CallInv'
  BY <1>17 DEF RecoverUnknown, MayRecover, InFlightCall, ClearLease
<1>18. ASSUME NEW w \in Workers, RecoverSettled(w) PROVE CallInv'
  BY <1>18 DEF RecoverSettled, MayRecover, ClearLease
<1>19. ASSUME NEW w \in Workers, Crash(w) PROVE CallInv'
  BY <1>19 DEF Crash, Goto
<1>20. ASSUME NEW u \in Approvers, BeginDecide(u) PROVE CallInv'
  BY <1>20 DEF BeginDecide
<1>21. ASSUME NEW u \in Approvers, DecideRefused(u) PROVE CallInv'
  BY <1>21 DEF DecideRefused, EndDecide
<1>22. ASSUME NEW u \in Approvers, DecideTooLate(u) PROVE CallInv'
  BY <1>22 DEF DecideTooLate, EndDecide, Fail, ClearLease
<1>23. ASSUME NEW u \in Approvers, NEW v \in Verdicts, Decide(u, v) PROVE CallInv'
  BY <1>23 DEF Decide, EndDecide, RowsStillWait, ResumeIsNew, Fail, ClearLease
<1>24. CASE SweepProbe
  BY <1>24 DEF SweepProbe
<1>25. CASE SweepExpires
  BY <1>25 DEF SweepExpires, RowsStillWait, Fail, ClearLease
<1>26. CASE SweepSkips
  BY <1>26 DEF SweepSkips
<1>27. CASE RelayPublish
  BY <1>27 DEF RelayPublish
<1>28. CASE RelayCommit
  BY <1>28 DEF RelayCommit
<1>29. CASE CancelImmediate
  BY <1>29 DEF CancelImmediate, InFlightCall, CancelledRequest, ClearLease
<1>30. CASE CancelCooperative
  BY <1>30 DEF CancelCooperative, InFlightCall, CancelledRequest
<1>31. CASE ExpiryPasses
  BY <1>31 DEF ExpiryPasses
<1>32. CASE LeaseLapses
  BY <1>32 DEF LeaseLapses
<1>33. CASE UNCHANGED vars
  BY <1>33
<1> QED
  BY <1>1, <1>2, <1>3, <1>4, <1>5, <1>6, <1>7, <1>8, <1>9, <1>10, <1>11, <1>12, <1>13, <1>14,
     <1>15, <1>16, <1>17, <1>18, <1>19, <1>20, <1>21, <1>22, <1>23, <1>24, <1>25, <1>26, <1>27,
     <1>28, <1>29, <1>30, <1>31, <1>32, <1>33
  DEF Next, TaskStep, Prepare, Gate, Finish, Resume, Recover, UserStep, Sweep, Relay

\* Tokens are fresh, and the owner of the lease is the task of the RUNNING Step.
LEMMA LeaseStep ==
  TypeOK /\ WaitIsConsistent /\ OneRequest /\ RequestInv /\ CallInv /\ LeaseInv /\ [Next]_vars => LeaseInv'
<1> SUFFICES ASSUME TypeOK, WaitIsConsistent, OneRequest, RequestInv, CallInv, LeaseInv, [Next]_vars PROVE LeaseInv'
  OBVIOUS
<1> USE DEF TypeOK, CallInv, LeaseInv, InTransit, CallTerminal, WaitIsConsistent, Waiting,
    OneRequest, RequestInv, execVars, approvalVars, pendingVars, workerVars, vars
<1>1. ASSUME NEW w \in Workers, PrepareStale(w) PROVE LeaseInv'
  BY <1>1 DEF PrepareStale, Leave, Goto
<1>2. ASSUME NEW w \in Workers, PrepareWaits(w) PROVE LeaseInv'
  BY <1>2 DEF PrepareWaits, MayPrepare, OwnsLease, ValidEvidence, DropLease, ClearLease, Goto
<1>3. ASSUME NEW w \in Workers, PrepareRefused(w) PROVE LeaseInv'
  BY <1>3 DEF PrepareRefused, MayPrepare, OwnsLease, Fail, ClearLease, Goto
<1>4. ASSUME NEW w \in Workers, PrepareStarts(w) PROVE LeaseInv'
  BY <1>4 DEF PrepareStarts, MayPrepare, OwnsLease, ValidEvidence, Goto
<1>5. ASSUME NEW w \in Workers, GateStale(w) PROVE LeaseInv'
  BY <1>5 DEF GateStale, Leave, Goto
<1>6. ASSUME NEW w \in Workers, GateCancels(w) PROVE LeaseInv'
  BY <1>6 DEF GateCancels, OwnsLease, ClearLease, Goto
<1>7. ASSUME NEW w \in Workers, GateDrifts(w) PROVE LeaseInv'
  BY <1>7 DEF GateDrifts, OwnsLease, Goto
<1>8. ASSUME NEW w \in Workers, GatePasses(w) PROVE LeaseInv'
  BY <1>8 DEF GatePasses, OwnsLease, ValidEvidence, Goto
<1>9. ASSUME NEW w \in Workers, FinalizeStale(w) PROVE LeaseInv'
  BY <1>9 DEF FinalizeStale, Leave, Goto
<1>10. ASSUME NEW w \in Workers, NEW o \in {"SUCCEEDED", "FAILED", "UNKNOWN_OUTCOME"},
            Finalize(w, o)
     PROVE  LeaseInv'
  BY <1>10 DEF Finalize, OwnsLease, ClearLease, Goto
<1>11. ASSUME NEW w \in Workers, SettleStops(w) PROVE LeaseInv'
  BY <1>11 DEF SettleStops, ClearLease, Goto
<1>12. ASSUME NEW w \in Workers, SettleFenced(w) PROVE LeaseInv'
  BY <1>12 DEF SettleFenced, Leave, Goto
<1>13. ASSUME NEW w \in Workers, SettleSucceeds(w) PROVE LeaseInv'
  BY <1>13 DEF SettleSucceeds, OwnsLease, ClearLease, Goto
<1>14. ASSUME NEW w \in Workers, ResumeClaim(w) PROVE LeaseInv'
  BY <1>14 DEF ResumeClaim, MayResume, NotStale, AssignLease, Goto
<1>15. ASSUME NEW w \in Workers, ResumeFails(w) PROVE LeaseInv'
  BY <1>15 DEF ResumeFails, MayResume, NotStale, Fail, ClearLease
<1>16. ASSUME NEW w \in Workers, RecoverReady(w) PROVE LeaseInv'
  BY <1>16 DEF RecoverReady, MayRecover, AssignLease, Goto
<1>17. ASSUME NEW w \in Workers, RecoverUnknown(w) PROVE LeaseInv'
  BY <1>17 DEF RecoverUnknown, MayRecover, InFlightCall, ClearLease
<1>18. ASSUME NEW w \in Workers, RecoverSettled(w) PROVE LeaseInv'
  BY <1>18 DEF RecoverSettled, MayRecover, ClearLease
<1>19. ASSUME NEW w \in Workers, Crash(w) PROVE LeaseInv'
  BY <1>19 DEF Crash, Goto
<1>20. ASSUME NEW u \in Approvers, BeginDecide(u) PROVE LeaseInv'
  BY <1>20 DEF BeginDecide
<1>21. ASSUME NEW u \in Approvers, DecideRefused(u) PROVE LeaseInv'
  BY <1>21 DEF DecideRefused, EndDecide
<1>22. ASSUME NEW u \in Approvers, DecideTooLate(u) PROVE LeaseInv'
  BY <1>22 DEF DecideTooLate, EndDecide, Fail, ClearLease
<1>23. ASSUME NEW u \in Approvers, NEW v \in Verdicts, Decide(u, v) PROVE LeaseInv'
  BY <1>23 DEF Decide, EndDecide, RowsStillWait, ResumeIsNew, Fail, ClearLease
<1>24. CASE SweepProbe
  BY <1>24 DEF SweepProbe
<1>25. CASE SweepExpires
  BY <1>25 DEF SweepExpires, RowsStillWait, Fail, ClearLease
<1>26. CASE SweepSkips
  BY <1>26 DEF SweepSkips
<1>27. CASE RelayPublish
  BY <1>27 DEF RelayPublish
<1>28. CASE RelayCommit
  BY <1>28 DEF RelayCommit
<1>29. CASE CancelImmediate
  BY <1>29 DEF CancelImmediate, InFlightCall, CancelledRequest, ClearLease
<1>30. CASE CancelCooperative
  BY <1>30 DEF CancelCooperative, InFlightCall, CancelledRequest
<1>31. CASE ExpiryPasses
  BY <1>31 DEF ExpiryPasses
<1>32. CASE LeaseLapses
  BY <1>32 DEF LeaseLapses
<1>33. CASE UNCHANGED vars
  BY <1>33
<1> QED
  BY <1>1, <1>2, <1>3, <1>4, <1>5, <1>6, <1>7, <1>8, <1>9, <1>10, <1>11, <1>12, <1>13, <1>14,
     <1>15, <1>16, <1>17, <1>18, <1>19, <1>20, <1>21, <1>22, <1>23, <1>24, <1>25, <1>26, <1>27,
     <1>28, <1>29, <1>30, <1>31, <1>32, <1>33
  DEF Next, TaskStep, Prepare, Gate, Finish, Resume, Recover, UserStep, Sweep, Relay

\* The invariant holds initially.
LEMMA InitInvariant == Init => Invariant
<1> SUFFICES ASSUME Init PROVE Invariant
  OBVIOUS
<1> USE DEF Init
<1>1. TypeOK
  BY BoundsAssumption DEF TypeOK, ExecutionStatus, StepStatus, CallStatus, Phases
<1>2. WaitIsConsistent /\ OneRequest /\ RequestInv /\ EvidenceInv
  BY DEF WaitIsConsistent, Waiting, OneRequest, RequestInv, EvidenceInv, CallNeedsApproval
<1>3. CallInv /\ LeaseInv /\ OrphanInv
  BY DEF CallInv, LeaseInv, InTransit, OrphanInv, NoOrphanedCall
<1> QED
  BY <1>1, <1>2, <1>3 DEF Invariant

\* Every step keeps the invariant: the lemmas above, put together.
LEMMA InvariantStep == Invariant /\ [Next]_vars => Invariant'
BY TypeStep, RowsStep, ApprovedStep, CallStep, LeaseStep DEF Invariant

\* The inductive invariant holds in every reachable state.
THEOREM InvariantHolds == Spec => []Invariant
<1> QED
  BY InitInvariant, InvariantStep, PTL DEF Spec

\* The state stays well typed.
THEOREM ApprovalTypeCorrect == Spec => []TypeOK
<1>1. Invariant => TypeOK
  BY DEF Invariant
<1> QED
  BY <1>1, InvariantHolds, PTL

\* A call that requires approval leaves only after enough users approved it.
THEOREM CallsAreApproved == Spec => []CallNeedsApproval
<1>1. Invariant => CallNeedsApproval
  BY DEF Invariant, EvidenceInv
<1> QED
  BY <1>1, InvariantHolds, PTL

\* Execution and Step wait together, without a lease, for a live request.
THEOREM WaitsAreConsistent == Spec => []WaitIsConsistent
<1>1. Invariant => WaitIsConsistent
  BY DEF Invariant
<1> QED
  BY <1>1, InvariantHolds, PTL

\* Resume and recovery never ask for a second approval.
THEOREM AskedOnce == Spec => []OneRequest
<1>1. Invariant => OneRequest
  BY DEF Invariant
<1> QED
  BY <1>1, InvariantHolds, PTL

\* One approval never sends the request twice.
THEOREM CallsAreNotRepeated == Spec => []OneCallPerApproval
<1>1. Invariant => OneCallPerApproval
  BY DEF Invariant, CallInv, OneCallPerApproval
<1> QED
  BY <1>1, InvariantHolds, PTL

\* A call in flight has a lease, or its approval was expired by a late decision.
THEOREM CallsAreOwned == Spec => []NoOrphanedCall
<1>1. Invariant => NoOrphanedCall
  BY DEF Invariant, OrphanInv
<1> QED
  BY <1>1, InvariantHolds, PTL

\* A refused request belongs to a closed Execution.
LEMMA RefusalStep ==
  TypeOK /\ WaitIsConsistent /\ RequestInv /\ [Next]_vars => RefusalKept
<1> SUFFICES ASSUME TypeOK, WaitIsConsistent, RequestInv, [Next]_vars PROVE RefusalKept
  OBVIOUS
<1> USE DEF TypeOK, WaitIsConsistent, RequestInv, RefusalKept, Refused, Waiting, execVars,
    approvalVars, pendingVars, workerVars, vars
<1>1. ASSUME NEW w \in Workers, PrepareStale(w) PROVE RefusalKept
  BY <1>1 DEF PrepareStale, Leave, Goto
<1>2. ASSUME NEW w \in Workers, PrepareWaits(w) PROVE RefusalKept
  BY <1>2 DEF PrepareWaits, MayPrepare, OwnsLease, ValidEvidence, DropLease, ClearLease, Goto
<1>3. ASSUME NEW w \in Workers, PrepareRefused(w) PROVE RefusalKept
  BY <1>3 DEF PrepareRefused, MayPrepare, OwnsLease, Fail, ClearLease, Goto
<1>4. ASSUME NEW w \in Workers, PrepareStarts(w) PROVE RefusalKept
  BY <1>4 DEF PrepareStarts, MayPrepare, OwnsLease, ValidEvidence, Goto
<1>5. ASSUME NEW w \in Workers, GateStale(w) PROVE RefusalKept
  BY <1>5 DEF GateStale, Leave, Goto
<1>6. ASSUME NEW w \in Workers, GateCancels(w) PROVE RefusalKept
  BY <1>6 DEF GateCancels, OwnsLease, ClearLease, Goto
<1>7. ASSUME NEW w \in Workers, GateDrifts(w) PROVE RefusalKept
  BY <1>7 DEF GateDrifts, OwnsLease, Goto
<1>8. ASSUME NEW w \in Workers, GatePasses(w) PROVE RefusalKept
  BY <1>8 DEF GatePasses, OwnsLease, ValidEvidence, Goto
<1>9. ASSUME NEW w \in Workers, FinalizeStale(w) PROVE RefusalKept
  BY <1>9 DEF FinalizeStale, Leave, Goto
<1>10. ASSUME NEW w \in Workers, NEW o \in {"SUCCEEDED", "FAILED", "UNKNOWN_OUTCOME"},
            Finalize(w, o)
     PROVE  RefusalKept
  BY <1>10 DEF Finalize, OwnsLease, ClearLease, Goto
<1>11. ASSUME NEW w \in Workers, SettleStops(w) PROVE RefusalKept
  BY <1>11 DEF SettleStops, ClearLease, Goto
<1>12. ASSUME NEW w \in Workers, SettleFenced(w) PROVE RefusalKept
  BY <1>12 DEF SettleFenced, Leave, Goto
<1>13. ASSUME NEW w \in Workers, SettleSucceeds(w) PROVE RefusalKept
  BY <1>13 DEF SettleSucceeds, OwnsLease, ClearLease, Goto
<1>14. ASSUME NEW w \in Workers, ResumeClaim(w) PROVE RefusalKept
  BY <1>14 DEF ResumeClaim, MayResume, NotStale, AssignLease, Goto
<1>15. ASSUME NEW w \in Workers, ResumeFails(w) PROVE RefusalKept
  BY <1>15 DEF ResumeFails, MayResume, NotStale, Fail, ClearLease
<1>16. ASSUME NEW w \in Workers, RecoverReady(w) PROVE RefusalKept
  BY <1>16 DEF RecoverReady, MayRecover, AssignLease, Goto
<1>17. ASSUME NEW w \in Workers, RecoverUnknown(w) PROVE RefusalKept
  BY <1>17 DEF RecoverUnknown, MayRecover, InFlightCall, ClearLease
<1>18. ASSUME NEW w \in Workers, RecoverSettled(w) PROVE RefusalKept
  BY <1>18 DEF RecoverSettled, MayRecover, ClearLease
<1>19. ASSUME NEW w \in Workers, Crash(w) PROVE RefusalKept
  BY <1>19 DEF Crash, Goto
<1>20. ASSUME NEW u \in Approvers, BeginDecide(u) PROVE RefusalKept
  BY <1>20 DEF BeginDecide
<1>21. ASSUME NEW u \in Approvers, DecideRefused(u) PROVE RefusalKept
  BY <1>21 DEF DecideRefused, EndDecide
<1>22. ASSUME NEW u \in Approvers, DecideTooLate(u) PROVE RefusalKept
  BY <1>22 DEF DecideTooLate, EndDecide, Fail, ClearLease
<1>23. ASSUME NEW u \in Approvers, NEW v \in Verdicts, Decide(u, v) PROVE RefusalKept
  BY <1>23 DEF Decide, EndDecide, RowsStillWait, ResumeIsNew, Fail, ClearLease
<1>24. CASE SweepProbe
  BY <1>24 DEF SweepProbe
<1>25. CASE SweepExpires
  BY <1>25 DEF SweepExpires, RowsStillWait, Fail, ClearLease
<1>26. CASE SweepSkips
  BY <1>26 DEF SweepSkips
<1>27. CASE RelayPublish
  BY <1>27 DEF RelayPublish
<1>28. CASE RelayCommit
  BY <1>28 DEF RelayCommit
<1>29. CASE CancelImmediate
  BY <1>29 DEF CancelImmediate, InFlightCall, CancelledRequest, ClearLease
<1>30. CASE CancelCooperative
  BY <1>30 DEF CancelCooperative, InFlightCall, CancelledRequest
<1>31. CASE ExpiryPasses
  BY <1>31 DEF ExpiryPasses
<1>32. CASE LeaseLapses
  BY <1>32 DEF LeaseLapses
<1>33. CASE UNCHANGED vars
  BY <1>33
<1> QED
  BY <1>1, <1>2, <1>3, <1>4, <1>5, <1>6, <1>7, <1>8, <1>9, <1>10, <1>11, <1>12, <1>13, <1>14,
     <1>15, <1>16, <1>17, <1>18, <1>19, <1>20, <1>21, <1>22, <1>23, <1>24, <1>25, <1>26, <1>27,
     <1>28, <1>29, <1>30, <1>31, <1>32, <1>33
  DEF Next, TaskStep, Prepare, Gate, Finish, Resume, Recover, UserStep, Sweep, Relay

\* A resolved request changes only by what was read before it was resolved.
LEMMA DecisionStep ==
  TypeOK /\ WaitIsConsistent /\ RequestInv /\ EvidenceInv /\ [Next]_vars => OnlyRefusedLater
<1> SUFFICES ASSUME TypeOK, WaitIsConsistent, RequestInv, EvidenceInv, [Next]_vars PROVE OnlyRefusedLater
  OBVIOUS
<1> USE DEF TypeOK, WaitIsConsistent, RequestInv, OnlyRefusedLater, Refused, Waiting, execVars,
    approvalVars, pendingVars, workerVars, vars
<1>1. ASSUME NEW w \in Workers, PrepareStale(w) PROVE OnlyRefusedLater
  BY <1>1 DEF PrepareStale, Leave, Goto
<1>2. ASSUME NEW w \in Workers, PrepareWaits(w) PROVE OnlyRefusedLater
  BY <1>2 DEF PrepareWaits, MayPrepare, OwnsLease, ValidEvidence, DropLease, ClearLease, Goto
<1>3. ASSUME NEW w \in Workers, PrepareRefused(w) PROVE OnlyRefusedLater
  BY <1>3 DEF PrepareRefused, MayPrepare, OwnsLease, Fail, ClearLease, Goto
<1>4. ASSUME NEW w \in Workers, PrepareStarts(w) PROVE OnlyRefusedLater
  BY <1>4 DEF PrepareStarts, MayPrepare, OwnsLease, ValidEvidence, Goto
<1>5. ASSUME NEW w \in Workers, GateStale(w) PROVE OnlyRefusedLater
  BY <1>5 DEF GateStale, Leave, Goto
<1>6. ASSUME NEW w \in Workers, GateCancels(w) PROVE OnlyRefusedLater
  BY <1>6 DEF GateCancels, OwnsLease, ClearLease, Goto
<1>7. ASSUME NEW w \in Workers, GateDrifts(w) PROVE OnlyRefusedLater
  BY <1>7 DEF GateDrifts, OwnsLease, Goto
<1>8. ASSUME NEW w \in Workers, GatePasses(w) PROVE OnlyRefusedLater
  BY <1>8 DEF GatePasses, OwnsLease, ValidEvidence, Goto
<1>9. ASSUME NEW w \in Workers, FinalizeStale(w) PROVE OnlyRefusedLater
  BY <1>9 DEF FinalizeStale, Leave, Goto
<1>10. ASSUME NEW w \in Workers, NEW o \in {"SUCCEEDED", "FAILED", "UNKNOWN_OUTCOME"},
            Finalize(w, o)
     PROVE  OnlyRefusedLater
  BY <1>10 DEF Finalize, OwnsLease, ClearLease, Goto
<1>11. ASSUME NEW w \in Workers, SettleStops(w) PROVE OnlyRefusedLater
  BY <1>11 DEF SettleStops, ClearLease, Goto
<1>12. ASSUME NEW w \in Workers, SettleFenced(w) PROVE OnlyRefusedLater
  BY <1>12 DEF SettleFenced, Leave, Goto
<1>13. ASSUME NEW w \in Workers, SettleSucceeds(w) PROVE OnlyRefusedLater
  BY <1>13 DEF SettleSucceeds, OwnsLease, ClearLease, Goto
<1>14. ASSUME NEW w \in Workers, ResumeClaim(w) PROVE OnlyRefusedLater
  BY <1>14 DEF ResumeClaim, MayResume, NotStale, AssignLease, Goto
<1>15. ASSUME NEW w \in Workers, ResumeFails(w) PROVE OnlyRefusedLater
  BY <1>15 DEF ResumeFails, MayResume, NotStale, Fail, ClearLease
<1>16. ASSUME NEW w \in Workers, RecoverReady(w) PROVE OnlyRefusedLater
  BY <1>16 DEF RecoverReady, MayRecover, AssignLease, Goto
<1>17. ASSUME NEW w \in Workers, RecoverUnknown(w) PROVE OnlyRefusedLater
  BY <1>17 DEF RecoverUnknown, MayRecover, InFlightCall, ClearLease
<1>18. ASSUME NEW w \in Workers, RecoverSettled(w) PROVE OnlyRefusedLater
  BY <1>18 DEF RecoverSettled, MayRecover, ClearLease
<1>19. ASSUME NEW w \in Workers, Crash(w) PROVE OnlyRefusedLater
  BY <1>19 DEF Crash, Goto
<1>20. ASSUME NEW u \in Approvers, BeginDecide(u) PROVE OnlyRefusedLater
  BY <1>20 DEF BeginDecide
<1>21. ASSUME NEW u \in Approvers, DecideRefused(u) PROVE OnlyRefusedLater
  BY <1>21 DEF DecideRefused, EndDecide
<1>22. ASSUME NEW u \in Approvers, DecideTooLate(u) PROVE OnlyRefusedLater
  BY <1>22 DEF DecideTooLate, EndDecide, Fail, ClearLease
<1>23. ASSUME NEW u \in Approvers, NEW v \in Verdicts, Decide(u, v) PROVE OnlyRefusedLater
  <2>1. decisions' = [decisions EXCEPT ![u] = v] /\ decisions[u] = "NONE"
    BY <1>23 DEF Decide
  <2>2. Count(decisions', "APPROVE") >= Count(decisions, "APPROVE")
    BY <2>1, ApprovalsGrow
  <2>3. ASSUME reqStatus = "APPROVED", Mode # "ALL" PROVE AggregateDecision(decisions') = "APPROVED"
    <3>1. EnoughApproved(decisions)
      BY <2>3 DEF EvidenceInv
    <3>2. Mode \in {"ANY", "QUORUM"}
      BY <2>3, PolicyAssumption DEF Modes
    <3>3. /\ Count(decisions, "APPROVE") \in Nat
          /\ Count(decisions', "APPROVE") \in Nat
          /\ Required \in Nat
      BY CountType, PolicyAssumption
    <3> QED
      BY <2>2, <3>1, <3>2, <3>3 DEF AggregateDecision, EnoughApproved
  <2>4. resume # "NONE" => AggregateDecision(decisions') # "APPROVED"
    BY <1>23 DEF Decide, ResumeIsNew
  <2>5. reqStatus = "APPROVED" => resume # "NONE"
    BY DEF EvidenceInv
  <2>6. reqStatus = "APPROVED" => Mode = "ALL"
    BY <2>3, <2>4, <2>5
  <2> QED
    BY <1>23, <2>4, <2>5, <2>6
    DEF Decide, EndDecide, RowsStillWait, Fail
<1>24. CASE SweepProbe
  BY <1>24 DEF SweepProbe
<1>25. CASE SweepExpires
  BY <1>25 DEF SweepExpires, RowsStillWait, Fail, ClearLease
<1>26. CASE SweepSkips
  BY <1>26 DEF SweepSkips
<1>27. CASE RelayPublish
  BY <1>27 DEF RelayPublish
<1>28. CASE RelayCommit
  BY <1>28 DEF RelayCommit
<1>29. CASE CancelImmediate
  BY <1>29 DEF CancelImmediate, InFlightCall, CancelledRequest, ClearLease
<1>30. CASE CancelCooperative
  BY <1>30 DEF CancelCooperative, InFlightCall, CancelledRequest
<1>31. CASE ExpiryPasses
  BY <1>31 DEF ExpiryPasses
<1>32. CASE LeaseLapses
  BY <1>32 DEF LeaseLapses
<1>33. CASE UNCHANGED vars
  BY <1>33
<1> QED
  BY <1>1, <1>2, <1>3, <1>4, <1>5, <1>6, <1>7, <1>8, <1>9, <1>10, <1>11, <1>12, <1>13, <1>14,
     <1>15, <1>16, <1>17, <1>18, <1>19, <1>20, <1>21, <1>22, <1>23, <1>24, <1>25, <1>26, <1>27,
     <1>28, <1>29, <1>30, <1>31, <1>32, <1>33
  DEF Next, TaskStep, Prepare, Gate, Finish, Resume, Recover, UserStep, Sweep, Relay

\* A refused approval is never revived and starts no call, stale reads or not.
THEOREM RefusalsAreFinal == Spec => RefusalIsFinal
<1>1. Invariant /\ [Next]_vars => [RefusalKept]_vars
  BY RefusalStep DEF Invariant
<1> QED
  BY <1>1, InvariantHolds, PTL DEF Spec, RefusalIsFinal

\* A resolved approval changes only into a refusal that fails the Execution, and
\* only by what was read before it was resolved.
THEOREM DecisionsOnlyHarden == Spec => DecisionOnlyHardens
<1>1. Invariant /\ [Next]_vars => [OnlyRefusedLater]_vars
  BY DecisionStep DEF Invariant
<1> QED
  BY <1>1, InvariantHolds, PTL DEF Spec, DecisionOnlyHardens
=============================================================================
