------------------------- MODULE ToolExecutionProofs -------------------------
(***************************************************************************)
(* Proofs about ToolExecution.  The inductive invariant is the conjunction *)
(* Invariant of that module; each of its parts has one lemma, with one     *)
(* step per action.  The parts lean on each other: the attempt limit on    *)
(* the evidence (an owner's Step is RUNNING), the evidence on fresh lease  *)
(* tokens, the verdict on both.  The theorems at the end read the          *)
(* properties off it.                                                      *)
(***************************************************************************)
EXTENDS ToolExecution, TLAPS

\* The risk class is pinned when the Execution is created.
LEMMA KindIsPinned ==
  ASSUME [Next]_vars
  PROVE  kind' = kind /\ (UnsafeRisk' <=> UnsafeRisk)
<1>1. kind' = kind
  BY DEF Next, TaskStep, Prepare, Invoke, Finalize, Settle, Recover, Stage, RelayPublish,
     RelayCommit, CancelImmediate, CancelCooperative, Tick, PublishRecovery, Claim, Renew, Crash,
     WaveStops, WaveReserves, PrepareStale, PrepareTimeout, PrepareRefused, PreparePreSendFails,
     PrepareStarts, SecretsFail, GateStale, GateCancels, GateDrifts, GatePasses, Send,
     ConnectFails, RemoteEnds, FinalizeStale, FinalizeRetries, FinalizeTerminal, SettleStops,
     SettleFenced, SettleSucceeds, RecoverCancel, RecoverReady, RecoverSafeRetry,
     RecoverExhausted, RecoverUnknown, RecoverInconsistent, Leave, dbVars, vars
<1> QED
  BY <1>1 DEF UnsafeRisk

\* Phase C only ever records a terminal status.
LEMMA TerminalTypes ==
  \A o, risk : TerminalOf(o, risk) \in CallTerminal
BY DEF TerminalOf, ClassifyMcpFailure, CallTerminal

\* Writing a status into one Attempt and its ToolCall keeps both tables well typed.
LEMMA TerminalizeType ==
  ASSUME TypeOK, NEW n, NEW s \in CallStatus, Terminalize(n, s)
  PROVE  call' \in [AttemptNos -> CallStatus] /\ attempt' \in [AttemptNos -> CallStatus]
BY DEF TypeOK, Terminalize

\* Every step keeps the types.  The attempt limit is what keeps attempt_no inside
\* the table, and a prepared call's attempt_no is always one that exists.
LEMMA TypeStep ==
  TypeOK /\ CountInv /\ SendInv /\ [Next]_vars => TypeOK'
<1> SUFFICES ASSUME TypeOK, CountInv, SendInv, [Next]_vars PROVE TypeOK'
  OBVIOUS
<1> USE AttemptsAssumption, BoundsAssumption
<1> USE DEF TypeOK, ExecutionStatus, StepStatus, CallStatus, CallTerminal, Phases, dbVars,
    queueVars, workerVars, remoteVars, vars
<1>1. CASE Stage
  BY <1>1 DEF Stage
<1>2. CASE RelayPublish
  BY <1>2 DEF RelayPublish
<1>3. CASE RelayCommit
  BY <1>3 DEF RelayCommit
<1>4. CASE CancelImmediate
  BY <1>4 DEF CancelImmediate, ClearLease, InFlightCall
<1>5. CASE CancelCooperative
  BY <1>5 DEF CancelCooperative, InFlightCall
<1>6. CASE Tick
  BY <1>6 DEF Tick
<1>7. CASE PublishRecovery
  BY <1>7 DEF PublishRecovery
<1>8. ASSUME NEW w \in Workers, Claim(w) PROVE TypeOK'
  BY <1>8 DEF Claim, AssignLease, Goto, Claimable
<1>9. ASSUME NEW w \in Workers, WaveStops(w) PROVE TypeOK'
  BY <1>9 DEF WaveStops, Leave, Goto
<1>10. ASSUME NEW w \in Workers, WaveReserves(w) PROVE TypeOK'
  BY <1>10 DEF WaveReserves, Goto
<1>11. ASSUME NEW w \in Workers, PrepareStale(w) PROVE TypeOK'
  BY <1>11 DEF PrepareStale, Leave, Goto
<1>12. ASSUME NEW w \in Workers, PrepareTimeout(w) PROVE TypeOK'
  BY <1>12 DEF PrepareTimeout, MayPrepare, Goto, Outcomes, TransportErrors
<1>13. ASSUME NEW w \in Workers, PrepareRefused(w) PROVE TypeOK'
  BY <1>13 DEF PrepareRefused, MayPrepare, ClearLease, Goto, Outcomes, TransportErrors
<1>14. ASSUME NEW w \in Workers, PreparePreSendFails(w) PROVE TypeOK'
  BY <1>14, TerminalizeType DEF PreparePreSendFails, MayPrepare, ClearLease, Goto, CountInv,
     Outcomes, TransportErrors
<1>15. ASSUME NEW w \in Workers, PrepareStarts(w) PROVE TypeOK'
  BY <1>15, TerminalizeType DEF PrepareStarts, MayPrepare, Goto, CountInv
<1>16. ASSUME NEW w \in Workers, SecretsFail(w) PROVE TypeOK'
  BY <1>16 DEF SecretsFail, Goto, Outcomes, TransportErrors
<1>17. ASSUME NEW w \in Workers, GateStale(w) PROVE TypeOK'
  BY <1>17 DEF GateStale, Leave, Goto
<1>18. ASSUME NEW w \in Workers, GateCancels(w) PROVE TypeOK'
  BY <1>18, TerminalizeType DEF GateCancels, ClearLease, Goto
<1>19. ASSUME NEW w \in Workers, GateDrifts(w) PROVE TypeOK'
  BY <1>19 DEF GateDrifts, Goto, Outcomes, TransportErrors
<1>20. ASSUME NEW w \in Workers, GatePasses(w) PROVE TypeOK'
  BY <1>20 DEF GatePasses, Goto
<1>21. ASSUME NEW w \in Workers, Send(w) PROVE TypeOK'
  BY <1>21 DEF Send, Goto, SendInv, InTransit, AttemptNos
<1>22. ASSUME NEW w \in Workers, ConnectFails(w) PROVE TypeOK'
  BY <1>22 DEF ConnectFails, Goto, Outcomes, TransportErrors
<1>23. ASSUME NEW w \in Workers, RemoteEnds(w) PROVE TypeOK'
  <2>1. cur[w] \in AttemptNos
    BY <1>23 DEF RemoteEnds, SendInv, InTransit, AttemptNos
  <2>2. RemoteOutcomes \subseteq Outcomes
    BY DEF RemoteOutcomes, Outcomes, Replies, TransportErrors
  <2> QED
    BY <1>23, <2>1, <2>2 DEF RemoteEnds, Goto
<1>24. ASSUME NEW w \in Workers, FinalizeStale(w) PROVE TypeOK'
  BY <1>24 DEF FinalizeStale, Leave, Goto
<1>25. ASSUME NEW w \in Workers, FinalizeRetries(w) PROVE TypeOK'
  BY <1>25, TerminalizeType, TerminalTypes DEF FinalizeRetries, Goto, SafeTransientRetry
<1>26. ASSUME NEW w \in Workers, FinalizeTerminal(w) PROVE TypeOK'
  BY <1>26, TerminalizeType, TerminalTypes DEF FinalizeTerminal, ClearLease, Goto
<1>27. ASSUME NEW w \in Workers, SettleStops(w) PROVE TypeOK'
  BY <1>27 DEF SettleStops, ClearLease, Goto
<1>28. ASSUME NEW w \in Workers, SettleFenced(w) PROVE TypeOK'
  BY <1>28 DEF SettleFenced, Goto
<1>29. ASSUME NEW w \in Workers, SettleSucceeds(w) PROVE TypeOK'
  BY <1>29 DEF SettleSucceeds, ClearLease, Goto
<1>30. ASSUME NEW w \in Workers, Renew(w) PROVE TypeOK'
  BY <1>30 DEF Renew
<1>31. ASSUME NEW w \in Workers, Crash(w) PROVE TypeOK'
  BY <1>31 DEF Crash, Goto
<1>32. ASSUME NEW w \in Workers, RecoverCancel(w) PROVE TypeOK'
  BY <1>32, TerminalizeType DEF RecoverCancel, MayRecover, ClearLease
<1>33. ASSUME NEW w \in Workers, RecoverReady(w) PROVE TypeOK'
  BY <1>33 DEF RecoverReady, MayRecover, AssignLease, Goto, ReadyCheckpoint, CanSafeRetry
<1>34. ASSUME NEW w \in Workers, RecoverSafeRetry(w) PROVE TypeOK'
  BY <1>34, TerminalizeType DEF RecoverSafeRetry, MayRecover, AssignLease, Goto, CanSafeRetry
<1>35. ASSUME NEW w \in Workers, RecoverExhausted(w) PROVE TypeOK'
  BY <1>35, TerminalizeType DEF RecoverExhausted, MayRecover, ClearLease
<1>36. ASSUME NEW w \in Workers, RecoverUnknown(w) PROVE TypeOK'
  BY <1>36, TerminalizeType DEF RecoverUnknown, MayRecover, ClearLease
<1>37. ASSUME NEW w \in Workers, RecoverInconsistent(w) PROVE TypeOK'
  BY <1>37, TerminalizeType DEF RecoverInconsistent, MayRecover, ClearLease, ReadyCheckpoint,
     InFlightCall
<1>38. CASE UNCHANGED vars
  BY <1>38
<1> QED
  BY <1>1, <1>2, <1>3, <1>4, <1>5, <1>6, <1>7, <1>8, <1>9, <1>10, <1>11, <1>12, <1>13, <1>14,
     <1>15, <1>16,
     <1>17, <1>18, <1>19, <1>20, <1>21, <1>22, <1>23, <1>24, <1>25, <1>26, <1>27, <1>28, <1>29,
     <1>30, <1>31, <1>32, <1>33, <1>34, <1>35, <1>36, <1>37, <1>38
  DEF Next, TaskStep, Prepare, Invoke, Finalize, Settle, Recover

\* Every step keeps the attempt limit: the guards of the inline retry and of both
\* recovery branches are read while the row is locked.
LEMMA CountStep ==
  TypeOK /\ CountInv /\ SendInv /\ CallInv /\ [Next]_vars => CountInv'
<1> SUFFICES ASSUME TypeOK, CountInv, SendInv, CallInv, [Next]_vars PROVE CountInv'
  OBVIOUS
<1> USE AttemptsAssumption
<1> USE DEF TypeOK, CountInv, CallTerminal, dbVars, queueVars, workerVars, remoteVars, vars
<1>0. kind' = kind /\ (UnsafeRisk' <=> UnsafeRisk)
  BY KindIsPinned
<1> USE <1>0
<1>1. CASE Stage
  BY <1>1 DEF Stage
<1>2. CASE RelayPublish
  BY <1>2 DEF RelayPublish
<1>3. CASE RelayCommit
  BY <1>3 DEF RelayCommit
<1>4. CASE CancelImmediate
  BY <1>4 DEF CancelImmediate, ClearLease, InFlightCall
<1>5. CASE CancelCooperative
  BY <1>5 DEF CancelCooperative, InFlightCall
<1>6. CASE Tick
  BY <1>6 DEF Tick
<1>7. CASE PublishRecovery
  BY <1>7 DEF PublishRecovery
<1>8. ASSUME NEW w \in Workers, Claim(w) PROVE CountInv'
  BY <1>8 DEF Claim, AssignLease, Goto, Claimable
<1>9. ASSUME NEW w \in Workers, WaveStops(w) PROVE CountInv'
  BY <1>9 DEF WaveStops, Leave, Goto
<1>10. ASSUME NEW w \in Workers, WaveReserves(w) PROVE CountInv'
  BY <1>10 DEF WaveReserves, Goto
<1>11. ASSUME NEW w \in Workers, PrepareStale(w) PROVE CountInv'
  BY <1>11 DEF PrepareStale, Leave, Goto
<1>12. ASSUME NEW w \in Workers, PrepareTimeout(w) PROVE CountInv'
  BY <1>12 DEF PrepareTimeout, MayPrepare, Goto
<1>13. ASSUME NEW w \in Workers, PrepareRefused(w) PROVE CountInv'
  BY <1>13 DEF PrepareRefused, MayPrepare, ClearLease, Goto
<1>14. ASSUME NEW w \in Workers, PreparePreSendFails(w) PROVE CountInv'
  BY <1>14 DEF PreparePreSendFails, MayPrepare, ClearLease, Goto
<1>15. ASSUME NEW w \in Workers, PrepareStarts(w) PROVE CountInv'
  BY <1>15 DEF PrepareStarts, MayPrepare, Goto
<1>16. ASSUME NEW w \in Workers, SecretsFail(w) PROVE CountInv'
  BY <1>16 DEF SecretsFail, Goto
<1>17. ASSUME NEW w \in Workers, GateStale(w) PROVE CountInv'
  BY <1>17 DEF GateStale, Leave, Goto
<1>18. ASSUME NEW w \in Workers, GateCancels(w) PROVE CountInv'
  BY <1>18 DEF GateCancels, ClearLease, Goto, OwnsLease
<1>19. ASSUME NEW w \in Workers, GateDrifts(w) PROVE CountInv'
  BY <1>19 DEF GateDrifts, Goto
<1>20. ASSUME NEW w \in Workers, GatePasses(w) PROVE CountInv'
  BY <1>20 DEF GatePasses, Goto
<1>21. ASSUME NEW w \in Workers, Send(w) PROVE CountInv'
  BY <1>21 DEF Send, Goto
<1>22. ASSUME NEW w \in Workers, ConnectFails(w) PROVE CountInv'
  BY <1>22 DEF ConnectFails, Goto
<1>23. ASSUME NEW w \in Workers, RemoteEnds(w) PROVE CountInv'
  BY <1>23 DEF RemoteEnds, Goto, RemoteOutcomes
<1>24. ASSUME NEW w \in Workers, FinalizeStale(w) PROVE CountInv'
  BY <1>24 DEF FinalizeStale, Leave, Goto
<1>25. ASSUME NEW w \in Workers, FinalizeRetries(w) PROVE CountInv'
  BY <1>25 DEF FinalizeRetries, Goto, SafeTransientRetry, UnsafeRisk, OwnsLease
<1>26. ASSUME NEW w \in Workers, FinalizeTerminal(w) PROVE CountInv'
  BY <1>26, TerminalTypes DEF FinalizeTerminal, ClearLease, Goto, OwnsLease
<1>27. ASSUME NEW w \in Workers, SettleStops(w) PROVE CountInv'
  BY <1>27 DEF SettleStops, ClearLease, Goto
<1>28. ASSUME NEW w \in Workers, SettleFenced(w) PROVE CountInv'
  BY <1>28 DEF SettleFenced, Goto
<1>29. ASSUME NEW w \in Workers, SettleSucceeds(w) PROVE CountInv'
  BY <1>29 DEF SettleSucceeds, ClearLease, Goto
<1>30. ASSUME NEW w \in Workers, Renew(w) PROVE CountInv'
  BY <1>30 DEF Renew
<1>31. ASSUME NEW w \in Workers, Crash(w) PROVE CountInv'
  BY <1>31 DEF Crash, Goto
<1>32. ASSUME NEW w \in Workers, RecoverCancel(w) PROVE CountInv'
  BY <1>32 DEF RecoverCancel, MayRecover, ClearLease
<1>33. ASSUME NEW w \in Workers, RecoverReady(w) PROVE CountInv'
  BY <1>33 DEF RecoverReady, MayRecover, AssignLease, Goto, ReadyCheckpoint, CanSafeRetry
<1>34. ASSUME NEW w \in Workers, RecoverSafeRetry(w) PROVE CountInv'
  BY <1>34 DEF RecoverSafeRetry, MayRecover, AssignLease, Goto, CanSafeRetry, SafeRisk,
     SafeRetryRisks, UnsafeRisk
<1>35. ASSUME NEW w \in Workers, RecoverExhausted(w) PROVE CountInv'
  BY <1>35 DEF RecoverExhausted, MayRecover, ClearLease
<1>36. ASSUME NEW w \in Workers, RecoverUnknown(w) PROVE CountInv'
  BY <1>36 DEF RecoverUnknown, MayRecover, ClearLease
<1>37. ASSUME NEW w \in Workers, RecoverInconsistent(w) PROVE CountInv'
  BY <1>37 DEF RecoverInconsistent, MayRecover, ClearLease, ReadyCheckpoint, InFlightCall
<1>38. CASE UNCHANGED vars
  BY <1>38
<1> QED
  BY <1>1, <1>2, <1>3, <1>4, <1>5, <1>6, <1>7, <1>8, <1>9, <1>10, <1>11, <1>12, <1>13, <1>14,
     <1>15, <1>16,
     <1>17, <1>18, <1>19, <1>20, <1>21, <1>22, <1>23, <1>24, <1>25, <1>26, <1>27, <1>28, <1>29,
     <1>30, <1>31, <1>32, <1>33, <1>34, <1>35, <1>36, <1>37, <1>38
  DEF Next, TaskStep, Prepare, Invoke, Finalize, Settle, Recover

\* Lease tokens stay fresh: a new one is larger than every token still held.
LEMMA TokenStep ==
  TypeOK /\ TokenInv /\ [Next]_vars => TokenInv'
<1> SUFFICES ASSUME TypeOK, TokenInv, [Next]_vars PROVE TokenInv'
  OBVIOUS
<1> USE DEF TypeOK, TokenInv, dbVars, queueVars, workerVars, remoteVars, vars
<1>1. CASE Stage
  BY <1>1 DEF Stage
<1>2. CASE RelayPublish
  BY <1>2 DEF RelayPublish
<1>3. CASE RelayCommit
  BY <1>3 DEF RelayCommit
<1>4. CASE CancelImmediate
  BY <1>4 DEF CancelImmediate, ClearLease, InFlightCall
<1>5. CASE CancelCooperative
  BY <1>5 DEF CancelCooperative, InFlightCall
<1>6. CASE Tick
  BY <1>6 DEF Tick
<1>7. CASE PublishRecovery
  BY <1>7 DEF PublishRecovery
<1>8. ASSUME NEW w \in Workers, Claim(w) PROVE TokenInv'
  BY <1>8 DEF Claim, AssignLease, Goto, Claimable
<1>9. ASSUME NEW w \in Workers, WaveStops(w) PROVE TokenInv'
  BY <1>9 DEF WaveStops, Leave, Goto
<1>10. ASSUME NEW w \in Workers, WaveReserves(w) PROVE TokenInv'
  BY <1>10 DEF WaveReserves, Goto
<1>11. ASSUME NEW w \in Workers, PrepareStale(w) PROVE TokenInv'
  BY <1>11 DEF PrepareStale, Leave, Goto
<1>12. ASSUME NEW w \in Workers, PrepareTimeout(w) PROVE TokenInv'
  BY <1>12 DEF PrepareTimeout, MayPrepare, Goto
<1>13. ASSUME NEW w \in Workers, PrepareRefused(w) PROVE TokenInv'
  BY <1>13 DEF PrepareRefused, MayPrepare, ClearLease, Goto
<1>14. ASSUME NEW w \in Workers, PreparePreSendFails(w) PROVE TokenInv'
  BY <1>14 DEF PreparePreSendFails, MayPrepare, ClearLease, Goto
<1>15. ASSUME NEW w \in Workers, PrepareStarts(w) PROVE TokenInv'
  BY <1>15 DEF PrepareStarts, MayPrepare, Goto
<1>16. ASSUME NEW w \in Workers, SecretsFail(w) PROVE TokenInv'
  BY <1>16 DEF SecretsFail, Goto
<1>17. ASSUME NEW w \in Workers, GateStale(w) PROVE TokenInv'
  BY <1>17 DEF GateStale, Leave, Goto
<1>18. ASSUME NEW w \in Workers, GateCancels(w) PROVE TokenInv'
  BY <1>18 DEF GateCancels, ClearLease, Goto
<1>19. ASSUME NEW w \in Workers, GateDrifts(w) PROVE TokenInv'
  BY <1>19 DEF GateDrifts, Goto
<1>20. ASSUME NEW w \in Workers, GatePasses(w) PROVE TokenInv'
  BY <1>20 DEF GatePasses, Goto
<1>21. ASSUME NEW w \in Workers, Send(w) PROVE TokenInv'
  BY <1>21 DEF Send, Goto
<1>22. ASSUME NEW w \in Workers, ConnectFails(w) PROVE TokenInv'
  BY <1>22 DEF ConnectFails, Goto
<1>23. ASSUME NEW w \in Workers, RemoteEnds(w) PROVE TokenInv'
  BY <1>23 DEF RemoteEnds, Goto, RemoteOutcomes
<1>24. ASSUME NEW w \in Workers, FinalizeStale(w) PROVE TokenInv'
  BY <1>24 DEF FinalizeStale, Leave, Goto
<1>25. ASSUME NEW w \in Workers, FinalizeRetries(w) PROVE TokenInv'
  BY <1>25 DEF FinalizeRetries, Goto, SafeTransientRetry
<1>26. ASSUME NEW w \in Workers, FinalizeTerminal(w) PROVE TokenInv'
  BY <1>26 DEF FinalizeTerminal, ClearLease, Goto
<1>27. ASSUME NEW w \in Workers, SettleStops(w) PROVE TokenInv'
  BY <1>27 DEF SettleStops, ClearLease, Goto
<1>28. ASSUME NEW w \in Workers, SettleFenced(w) PROVE TokenInv'
  BY <1>28 DEF SettleFenced, Goto
<1>29. ASSUME NEW w \in Workers, SettleSucceeds(w) PROVE TokenInv'
  BY <1>29 DEF SettleSucceeds, ClearLease, Goto
<1>30. ASSUME NEW w \in Workers, Renew(w) PROVE TokenInv'
  BY <1>30 DEF Renew
<1>31. ASSUME NEW w \in Workers, Crash(w) PROVE TokenInv'
  BY <1>31 DEF Crash, Goto
<1>32. ASSUME NEW w \in Workers, RecoverCancel(w) PROVE TokenInv'
  BY <1>32 DEF RecoverCancel, MayRecover, ClearLease
<1>33. ASSUME NEW w \in Workers, RecoverReady(w) PROVE TokenInv'
  BY <1>33 DEF RecoverReady, MayRecover, AssignLease, Goto, ReadyCheckpoint, CanSafeRetry
<1>34. ASSUME NEW w \in Workers, RecoverSafeRetry(w) PROVE TokenInv'
  BY <1>34 DEF RecoverSafeRetry, MayRecover, AssignLease, Goto, CanSafeRetry
<1>35. ASSUME NEW w \in Workers, RecoverExhausted(w) PROVE TokenInv'
  BY <1>35 DEF RecoverExhausted, MayRecover, ClearLease
<1>36. ASSUME NEW w \in Workers, RecoverUnknown(w) PROVE TokenInv'
  BY <1>36 DEF RecoverUnknown, MayRecover, ClearLease
<1>37. ASSUME NEW w \in Workers, RecoverInconsistent(w) PROVE TokenInv'
  BY <1>37 DEF RecoverInconsistent, MayRecover, ClearLease, ReadyCheckpoint, InFlightCall
<1>38. CASE UNCHANGED vars
  BY <1>38
<1> QED
  BY <1>1, <1>2, <1>3, <1>4, <1>5, <1>6, <1>7, <1>8, <1>9, <1>10, <1>11, <1>12, <1>13, <1>14,
     <1>15, <1>16,
     <1>17, <1>18, <1>19, <1>20, <1>21, <1>22, <1>23, <1>24, <1>25, <1>26, <1>27, <1>28, <1>29,
     <1>30, <1>31, <1>32, <1>33, <1>34, <1>35, <1>36, <1>37, <1>38
  DEF Next, TaskStep, Prepare, Invoke, Finalize, Settle, Recover

\* Every transaction that leaves RUNNING or CANCEL_REQUESTED clears the lease.
LEMMA LeaseStep ==
  TypeOK /\ LeaseDiscipline /\ [Next]_vars => LeaseDiscipline'
<1> SUFFICES ASSUME TypeOK, LeaseDiscipline, [Next]_vars PROVE LeaseDiscipline'
  OBVIOUS
<1> USE DEF TypeOK, LeaseDiscipline, dbVars, queueVars, workerVars, remoteVars, vars
<1>1. CASE Stage
  BY <1>1 DEF Stage
<1>2. CASE RelayPublish
  BY <1>2 DEF RelayPublish
<1>3. CASE RelayCommit
  BY <1>3 DEF RelayCommit
<1>4. CASE CancelImmediate
  BY <1>4 DEF CancelImmediate, ClearLease, InFlightCall
<1>5. CASE CancelCooperative
  BY <1>5 DEF CancelCooperative, InFlightCall
<1>6. CASE Tick
  BY <1>6 DEF Tick
<1>7. CASE PublishRecovery
  BY <1>7 DEF PublishRecovery
<1>8. ASSUME NEW w \in Workers, Claim(w) PROVE LeaseDiscipline'
  BY <1>8 DEF Claim, AssignLease, Goto, Claimable
<1>9. ASSUME NEW w \in Workers, WaveStops(w) PROVE LeaseDiscipline'
  BY <1>9 DEF WaveStops, Leave, Goto
<1>10. ASSUME NEW w \in Workers, WaveReserves(w) PROVE LeaseDiscipline'
  BY <1>10 DEF WaveReserves, Goto
<1>11. ASSUME NEW w \in Workers, PrepareStale(w) PROVE LeaseDiscipline'
  BY <1>11 DEF PrepareStale, Leave, Goto
<1>12. ASSUME NEW w \in Workers, PrepareTimeout(w) PROVE LeaseDiscipline'
  BY <1>12 DEF PrepareTimeout, MayPrepare, Goto
<1>13. ASSUME NEW w \in Workers, PrepareRefused(w) PROVE LeaseDiscipline'
  BY <1>13 DEF PrepareRefused, MayPrepare, ClearLease, Goto
<1>14. ASSUME NEW w \in Workers, PreparePreSendFails(w) PROVE LeaseDiscipline'
  BY <1>14 DEF PreparePreSendFails, MayPrepare, ClearLease, Goto
<1>15. ASSUME NEW w \in Workers, PrepareStarts(w) PROVE LeaseDiscipline'
  BY <1>15 DEF PrepareStarts, MayPrepare, Goto
<1>16. ASSUME NEW w \in Workers, SecretsFail(w) PROVE LeaseDiscipline'
  BY <1>16 DEF SecretsFail, Goto
<1>17. ASSUME NEW w \in Workers, GateStale(w) PROVE LeaseDiscipline'
  BY <1>17 DEF GateStale, Leave, Goto
<1>18. ASSUME NEW w \in Workers, GateCancels(w) PROVE LeaseDiscipline'
  BY <1>18 DEF GateCancels, ClearLease, Goto, OwnsLease
<1>19. ASSUME NEW w \in Workers, GateDrifts(w) PROVE LeaseDiscipline'
  BY <1>19 DEF GateDrifts, Goto
<1>20. ASSUME NEW w \in Workers, GatePasses(w) PROVE LeaseDiscipline'
  BY <1>20 DEF GatePasses, Goto
<1>21. ASSUME NEW w \in Workers, Send(w) PROVE LeaseDiscipline'
  BY <1>21 DEF Send, Goto
<1>22. ASSUME NEW w \in Workers, ConnectFails(w) PROVE LeaseDiscipline'
  BY <1>22 DEF ConnectFails, Goto
<1>23. ASSUME NEW w \in Workers, RemoteEnds(w) PROVE LeaseDiscipline'
  BY <1>23 DEF RemoteEnds, Goto, RemoteOutcomes
<1>24. ASSUME NEW w \in Workers, FinalizeStale(w) PROVE LeaseDiscipline'
  BY <1>24 DEF FinalizeStale, Leave, Goto
<1>25. ASSUME NEW w \in Workers, FinalizeRetries(w) PROVE LeaseDiscipline'
  BY <1>25 DEF FinalizeRetries, Goto, SafeTransientRetry, OwnsLease
<1>26. ASSUME NEW w \in Workers, FinalizeTerminal(w) PROVE LeaseDiscipline'
  BY <1>26 DEF FinalizeTerminal, ClearLease, Goto, OwnsLease
<1>27. ASSUME NEW w \in Workers, SettleStops(w) PROVE LeaseDiscipline'
  BY <1>27 DEF SettleStops, ClearLease, Goto
<1>28. ASSUME NEW w \in Workers, SettleFenced(w) PROVE LeaseDiscipline'
  BY <1>28 DEF SettleFenced, Goto
<1>29. ASSUME NEW w \in Workers, SettleSucceeds(w) PROVE LeaseDiscipline'
  BY <1>29 DEF SettleSucceeds, ClearLease, Goto
<1>30. ASSUME NEW w \in Workers, Renew(w) PROVE LeaseDiscipline'
  BY <1>30 DEF Renew
<1>31. ASSUME NEW w \in Workers, Crash(w) PROVE LeaseDiscipline'
  BY <1>31 DEF Crash, Goto
<1>32. ASSUME NEW w \in Workers, RecoverCancel(w) PROVE LeaseDiscipline'
  BY <1>32 DEF RecoverCancel, MayRecover, ClearLease
<1>33. ASSUME NEW w \in Workers, RecoverReady(w) PROVE LeaseDiscipline'
  BY <1>33 DEF RecoverReady, MayRecover, AssignLease, Goto, ReadyCheckpoint, CanSafeRetry
<1>34. ASSUME NEW w \in Workers, RecoverSafeRetry(w) PROVE LeaseDiscipline'
  BY <1>34 DEF RecoverSafeRetry, MayRecover, AssignLease, Goto, CanSafeRetry
<1>35. ASSUME NEW w \in Workers, RecoverExhausted(w) PROVE LeaseDiscipline'
  BY <1>35 DEF RecoverExhausted, MayRecover, ClearLease
<1>36. ASSUME NEW w \in Workers, RecoverUnknown(w) PROVE LeaseDiscipline'
  BY <1>36 DEF RecoverUnknown, MayRecover, ClearLease
<1>37. ASSUME NEW w \in Workers, RecoverInconsistent(w) PROVE LeaseDiscipline'
  BY <1>37 DEF RecoverInconsistent, MayRecover, ClearLease, ReadyCheckpoint, InFlightCall
<1>38. CASE UNCHANGED vars
  BY <1>38
<1> QED
  BY <1>1, <1>2, <1>3, <1>4, <1>5, <1>6, <1>7, <1>8, <1>9, <1>10, <1>11, <1>12, <1>13, <1>14,
     <1>15, <1>16,
     <1>17, <1>18, <1>19, <1>20, <1>21, <1>22, <1>23, <1>24, <1>25, <1>26, <1>27, <1>28, <1>29,
     <1>30, <1>31, <1>32, <1>33, <1>34, <1>35, <1>36, <1>37, <1>38
  DEF Next, TaskStep, Prepare, Invoke, Finalize, Settle, Recover

\* A prepared call is sent by the one task that prepared it, once.
LEMMA SendStep ==
  TypeOK /\ CountInv /\ SendInv /\ [Next]_vars => SendInv'
<1> SUFFICES ASSUME TypeOK, CountInv, SendInv, [Next]_vars PROVE SendInv'
  OBVIOUS
<1> USE AttemptsAssumption
<1> USE DEF TypeOK, SendInv, InTransit, dbVars, queueVars, workerVars, remoteVars, vars
<1>1. CASE Stage
  BY <1>1 DEF Stage
<1>2. CASE RelayPublish
  BY <1>2 DEF RelayPublish
<1>3. CASE RelayCommit
  BY <1>3 DEF RelayCommit
<1>4. CASE CancelImmediate
  BY <1>4 DEF CancelImmediate, ClearLease, InFlightCall
<1>5. CASE CancelCooperative
  BY <1>5 DEF CancelCooperative, InFlightCall
<1>6. CASE Tick
  BY <1>6 DEF Tick
<1>7. CASE PublishRecovery
  BY <1>7 DEF PublishRecovery
<1>8. ASSUME NEW w \in Workers, Claim(w) PROVE SendInv'
  BY <1>8 DEF Claim, AssignLease, Goto, Claimable
<1>9. ASSUME NEW w \in Workers, WaveStops(w) PROVE SendInv'
  BY <1>9 DEF WaveStops, Leave, Goto
<1>10. ASSUME NEW w \in Workers, WaveReserves(w) PROVE SendInv'
  BY <1>10 DEF WaveReserves, Goto
<1>11. ASSUME NEW w \in Workers, PrepareStale(w) PROVE SendInv'
  BY <1>11 DEF PrepareStale, Leave, Goto
<1>12. ASSUME NEW w \in Workers, PrepareTimeout(w) PROVE SendInv'
  BY <1>12 DEF PrepareTimeout, MayPrepare, Goto
<1>13. ASSUME NEW w \in Workers, PrepareRefused(w) PROVE SendInv'
  BY <1>13 DEF PrepareRefused, MayPrepare, ClearLease, Goto
<1>14. ASSUME NEW w \in Workers, PreparePreSendFails(w) PROVE SendInv'
  BY <1>14 DEF PreparePreSendFails, MayPrepare, ClearLease, Goto, AttemptNos, CountInv
<1>15. ASSUME NEW w \in Workers, PrepareStarts(w) PROVE SendInv'
  BY <1>15 DEF PrepareStarts, MayPrepare, Goto, AttemptNos, CountInv
<1>16. ASSUME NEW w \in Workers, SecretsFail(w) PROVE SendInv'
  BY <1>16 DEF SecretsFail, Goto
<1>17. ASSUME NEW w \in Workers, GateStale(w) PROVE SendInv'
  BY <1>17 DEF GateStale, Leave, Goto
<1>18. ASSUME NEW w \in Workers, GateCancels(w) PROVE SendInv'
  BY <1>18 DEF GateCancels, ClearLease, Goto
<1>19. ASSUME NEW w \in Workers, GateDrifts(w) PROVE SendInv'
  BY <1>19 DEF GateDrifts, Goto
<1>20. ASSUME NEW w \in Workers, GatePasses(w) PROVE SendInv'
  BY <1>20 DEF GatePasses, Goto
<1>21. ASSUME NEW w \in Workers, Send(w) PROVE SendInv'
  <2>1. cur[w] \in AttemptNos /\ cur[w] \in 1 .. attemptCount
    BY <1>21 DEF Send, CountInv, AttemptNos
  <2>2. sends[cur[w]] = 0 /\ sends'[cur[w]] = 1
    BY <1>21, <2>1 DEF Send
  <2>3. \A n \in AttemptNos : n # cur[w] => sends'[n] = sends[n]
    BY <1>21, <2>1 DEF Send
  <2>4. \A v \in Workers : v # w /\ InTransit(v) => cur[v] \in AttemptNos /\ cur[v] # cur[w]
    BY <1>21 DEF Send, CountInv, AttemptNos
  <2> QED
    BY <1>21, <2>1, <2>2, <2>3, <2>4 DEF Send, Goto
<1>22. ASSUME NEW w \in Workers, ConnectFails(w) PROVE SendInv'
  BY <1>22 DEF ConnectFails, Goto
<1>23. ASSUME NEW w \in Workers, RemoteEnds(w) PROVE SendInv'
  BY <1>23 DEF RemoteEnds, Goto, RemoteOutcomes
<1>24. ASSUME NEW w \in Workers, FinalizeStale(w) PROVE SendInv'
  BY <1>24 DEF FinalizeStale, Leave, Goto
<1>25. ASSUME NEW w \in Workers, FinalizeRetries(w) PROVE SendInv'
  BY <1>25 DEF FinalizeRetries, Goto, SafeTransientRetry
<1>26. ASSUME NEW w \in Workers, FinalizeTerminal(w) PROVE SendInv'
  BY <1>26 DEF FinalizeTerminal, ClearLease, Goto
<1>27. ASSUME NEW w \in Workers, SettleStops(w) PROVE SendInv'
  BY <1>27 DEF SettleStops, ClearLease, Goto
<1>28. ASSUME NEW w \in Workers, SettleFenced(w) PROVE SendInv'
  BY <1>28 DEF SettleFenced, Goto
<1>29. ASSUME NEW w \in Workers, SettleSucceeds(w) PROVE SendInv'
  BY <1>29 DEF SettleSucceeds, ClearLease, Goto
<1>30. ASSUME NEW w \in Workers, Renew(w) PROVE SendInv'
  BY <1>30 DEF Renew
<1>31. ASSUME NEW w \in Workers, Crash(w) PROVE SendInv'
  BY <1>31 DEF Crash, Goto
<1>32. ASSUME NEW w \in Workers, RecoverCancel(w) PROVE SendInv'
  BY <1>32 DEF RecoverCancel, MayRecover, ClearLease
<1>33. ASSUME NEW w \in Workers, RecoverReady(w) PROVE SendInv'
  BY <1>33 DEF RecoverReady, MayRecover, AssignLease, Goto, ReadyCheckpoint, CanSafeRetry
<1>34. ASSUME NEW w \in Workers, RecoverSafeRetry(w) PROVE SendInv'
  BY <1>34 DEF RecoverSafeRetry, MayRecover, AssignLease, Goto, CanSafeRetry
<1>35. ASSUME NEW w \in Workers, RecoverExhausted(w) PROVE SendInv'
  BY <1>35 DEF RecoverExhausted, MayRecover, ClearLease
<1>36. ASSUME NEW w \in Workers, RecoverUnknown(w) PROVE SendInv'
  BY <1>36 DEF RecoverUnknown, MayRecover, ClearLease
<1>37. ASSUME NEW w \in Workers, RecoverInconsistent(w) PROVE SendInv'
  BY <1>37 DEF RecoverInconsistent, MayRecover, ClearLease, ReadyCheckpoint, InFlightCall
<1>38. CASE UNCHANGED vars
  BY <1>38
<1> QED
  BY <1>1, <1>2, <1>3, <1>4, <1>5, <1>6, <1>7, <1>8, <1>9, <1>10, <1>11, <1>12, <1>13, <1>14,
     <1>15, <1>16,
     <1>17, <1>18, <1>19, <1>20, <1>21, <1>22, <1>23, <1>24, <1>25, <1>26, <1>27, <1>28, <1>29,
     <1>30, <1>31, <1>32, <1>33, <1>34, <1>35, <1>36, <1>37, <1>38
  DEF Next, TaskStep, Prepare, Invoke, Finalize, Settle, Recover

\* STARTED evidence stays with the newest Attempt and with the lease token under
\* which it was created.
LEMMA CallStep ==
  TypeOK /\ CountInv /\ SendInv /\ TokenInv /\ LeaseDiscipline /\ CallInv /\ [Next]_vars => CallInv'
<1> SUFFICES ASSUME TypeOK, CountInv, SendInv, TokenInv, LeaseDiscipline, CallInv, [Next]_vars PROVE CallInv'
  OBVIOUS
<1> USE AttemptsAssumption
<1> USE DEF TypeOK, CallInv, CallTerminal, AttemptNos, dbVars, queueVars, workerVars, remoteVars,
    vars
<1>1. CASE Stage
  BY <1>1 DEF Stage, RunningHasCall, OnlyNewestStarted, SettlesTerminal, OwnerPrepared,
     InTransit, CountInv, TokenInv, LeaseDiscipline
<1>2. CASE RelayPublish
  BY <1>2 DEF RelayPublish, RunningHasCall, OnlyNewestStarted, SettlesTerminal, OwnerPrepared,
     InTransit, CountInv, TokenInv, LeaseDiscipline
<1>3. CASE RelayCommit
  BY <1>3 DEF RelayCommit, RunningHasCall, OnlyNewestStarted, SettlesTerminal, OwnerPrepared,
     InTransit, CountInv, TokenInv, LeaseDiscipline
<1>4. CASE CancelImmediate
  BY <1>4 DEF CancelImmediate, ClearLease, InFlightCall, RunningHasCall, OnlyNewestStarted,
     SettlesTerminal, OwnerPrepared, InTransit, CountInv, TokenInv, LeaseDiscipline
<1>5. CASE CancelCooperative
  BY <1>5 DEF CancelCooperative, InFlightCall, RunningHasCall, OnlyNewestStarted,
     SettlesTerminal, OwnerPrepared, InTransit, CountInv, TokenInv, LeaseDiscipline
<1>6. CASE Tick
  BY <1>6 DEF Tick, RunningHasCall, OnlyNewestStarted, SettlesTerminal, OwnerPrepared, InTransit,
     CountInv, TokenInv, LeaseDiscipline
<1>7. CASE PublishRecovery
  BY <1>7 DEF PublishRecovery, RunningHasCall, OnlyNewestStarted, SettlesTerminal, OwnerPrepared,
     InTransit, CountInv, TokenInv, LeaseDiscipline
<1>8. ASSUME NEW w \in Workers, Claim(w) PROVE CallInv'
  <2>1. RunningHasCall' /\ OnlyNewestStarted'
    BY <1>8 DEF Claim, Claimable, RunningHasCall, OnlyNewestStarted, CountInv
  <2>2. SettlesTerminal'
    BY <1>8 DEF Claim, Claimable, Goto, SettlesTerminal, CountInv
  <2>3. OwnerPrepared'
    <3> SUFFICES ASSUME NEW v \in Workers, InTransit(v)', held'[v] = leaseToken' PROVE FALSE
      BY DEF OwnerPrepared
    <3>1. v # w
      BY <1>8 DEF Claim, AssignLease, Goto, InTransit
    <3>2. pc[v] # "idle" /\ held'[v] = held[v]
      BY <1>8, <3>1 DEF Claim, AssignLease, Goto, InTransit
    <3> QED
      BY <1>8, <3>2 DEF Claim, AssignLease, TokenInv
  <2> QED
    BY <2>1, <2>2, <2>3
<1>9. ASSUME NEW w \in Workers, WaveStops(w) PROVE CallInv'
  BY <1>9 DEF WaveStops, Leave, Goto, RunningHasCall, OnlyNewestStarted, SettlesTerminal,
     OwnerPrepared, InTransit, CountInv, TokenInv, LeaseDiscipline
<1>10. ASSUME NEW w \in Workers, WaveReserves(w) PROVE CallInv'
  BY <1>10 DEF WaveReserves, Goto, RunningHasCall, OnlyNewestStarted, SettlesTerminal,
     OwnerPrepared, InTransit, CountInv, TokenInv, LeaseDiscipline
<1>11. ASSUME NEW w \in Workers, PrepareStale(w) PROVE CallInv'
  BY <1>11 DEF PrepareStale, Leave, Goto, RunningHasCall, OnlyNewestStarted, SettlesTerminal,
     OwnerPrepared, InTransit, CountInv, TokenInv, LeaseDiscipline
<1>12. ASSUME NEW w \in Workers, PrepareTimeout(w) PROVE CallInv'
  BY <1>12 DEF PrepareTimeout, MayPrepare, Goto, OwnsLease, SendInv, RunningHasCall,
     OnlyNewestStarted, SettlesTerminal, OwnerPrepared, InTransit, CountInv, TokenInv,
     LeaseDiscipline
<1>13. ASSUME NEW w \in Workers, PrepareRefused(w) PROVE CallInv'
  BY <1>13 DEF PrepareRefused, MayPrepare, ClearLease, Goto, OwnsLease, SendInv, RunningHasCall,
     OnlyNewestStarted, SettlesTerminal, OwnerPrepared, InTransit, CountInv, TokenInv,
     LeaseDiscipline
<1>14. ASSUME NEW w \in Workers, PreparePreSendFails(w) PROVE CallInv'
  BY <1>14 DEF PreparePreSendFails, MayPrepare, ClearLease, Goto, Terminalize, OwnsLease,
     SendInv, RunningHasCall, OnlyNewestStarted, SettlesTerminal, OwnerPrepared, InTransit,
     CountInv, TokenInv, LeaseDiscipline
<1>15. ASSUME NEW w \in Workers, PrepareStarts(w) PROVE CallInv'
  BY <1>15 DEF PrepareStarts, MayPrepare, Goto, Terminalize, OwnsLease, SendInv, RunningHasCall,
     OnlyNewestStarted, SettlesTerminal, OwnerPrepared, InTransit, CountInv, TokenInv,
     LeaseDiscipline
<1>16. ASSUME NEW w \in Workers, SecretsFail(w) PROVE CallInv'
  BY <1>16 DEF SecretsFail, Goto, RunningHasCall, OnlyNewestStarted, SettlesTerminal,
     OwnerPrepared, InTransit, CountInv, TokenInv, LeaseDiscipline
<1>17. ASSUME NEW w \in Workers, GateStale(w) PROVE CallInv'
  BY <1>17 DEF GateStale, Leave, Goto, RunningHasCall, OnlyNewestStarted, SettlesTerminal,
     OwnerPrepared, InTransit, CountInv, TokenInv, LeaseDiscipline
<1>18. ASSUME NEW w \in Workers, GateCancels(w) PROVE CallInv'
  BY <1>18 DEF GateCancels, ClearLease, Goto, Terminalize, OwnsLease, SendInv, RunningHasCall,
     OnlyNewestStarted, SettlesTerminal, OwnerPrepared, InTransit, CountInv, TokenInv,
     LeaseDiscipline
<1>19. ASSUME NEW w \in Workers, GateDrifts(w) PROVE CallInv'
  BY <1>19 DEF GateDrifts, Goto, RunningHasCall, OnlyNewestStarted, SettlesTerminal,
     OwnerPrepared, InTransit, CountInv, TokenInv, LeaseDiscipline
<1>20. ASSUME NEW w \in Workers, GatePasses(w) PROVE CallInv'
  BY <1>20 DEF GatePasses, Goto, RunningHasCall, OnlyNewestStarted, SettlesTerminal,
     OwnerPrepared, InTransit, CountInv, TokenInv, LeaseDiscipline
<1>21. ASSUME NEW w \in Workers, Send(w) PROVE CallInv'
  BY <1>21 DEF Send, Goto, RunningHasCall, OnlyNewestStarted, SettlesTerminal, OwnerPrepared,
     InTransit, CountInv, TokenInv, LeaseDiscipline
<1>22. ASSUME NEW w \in Workers, ConnectFails(w) PROVE CallInv'
  BY <1>22 DEF ConnectFails, Goto, RunningHasCall, OnlyNewestStarted, SettlesTerminal,
     OwnerPrepared, InTransit, CountInv, TokenInv, LeaseDiscipline
<1>23. ASSUME NEW w \in Workers, RemoteEnds(w) PROVE CallInv'
  BY <1>23 DEF RemoteEnds, Goto, RemoteOutcomes, RunningHasCall, OnlyNewestStarted,
     SettlesTerminal, OwnerPrepared, InTransit, CountInv, TokenInv, LeaseDiscipline
<1>24. ASSUME NEW w \in Workers, FinalizeStale(w) PROVE CallInv'
  BY <1>24 DEF FinalizeStale, Leave, Goto, RunningHasCall, OnlyNewestStarted, SettlesTerminal,
     OwnerPrepared, InTransit, CountInv, TokenInv, LeaseDiscipline
<1>25. ASSUME NEW w \in Workers, FinalizeRetries(w) PROVE CallInv'
  <2>1. cur[w] = attemptCount /\ step = "RUNNING" /\ attemptCount \in AttemptNos /\ pc[w] # "idle"
    BY <1>25 DEF FinalizeRetries, OwnsLease, OwnerPrepared, RunningHasCall, CountInv, InTransit
  <2>2. TerminalOf(out[w], kind.risk) \in {"SUCCEEDED", "FAILED", "TIMED_OUT", "UNKNOWN_OUTCOME", "CANCELLED"}
    BY TerminalTypes
  <2>3. OnlyNewestStarted'
    BY <1>25, <2>1, <2>2 DEF FinalizeRetries, Terminalize, OnlyNewestStarted
  <2>4. RunningHasCall'
    BY <1>25, <2>1, <2>2 DEF FinalizeRetries, Terminalize, RunningHasCall, SafeTransientRetry,
       CancelIsRequested
  <2>5. SettlesTerminal'
    BY <1>25, <2>1, <2>2 DEF FinalizeRetries, Goto, SettlesTerminal
  <2>6. OwnerPrepared'
    <3> SUFFICES ASSUME NEW v \in Workers, InTransit(v)', held'[v] = leaseToken' PROVE FALSE
      BY DEF OwnerPrepared
    <3>1. v # w /\ pc'[v] = pc[v]
      BY <1>25 DEF FinalizeRetries, Goto, InTransit
    <3>2. held[v] # held[w] /\ held[v] # 0
      BY <3>1, <2>1 DEF TokenInv, InTransit
    <3> QED
      BY <1>25, <3>2 DEF FinalizeRetries, OwnsLease, ClearLease
  <2> QED
    BY <2>3, <2>4, <2>5, <2>6
<1>26. ASSUME NEW w \in Workers, FinalizeTerminal(w) PROVE CallInv'
  <2>1. cur[w] = attemptCount /\ step = "RUNNING" /\ attemptCount \in AttemptNos /\ pc[w] # "idle"
    BY <1>26 DEF FinalizeTerminal, OwnsLease, OwnerPrepared, RunningHasCall, CountInv, InTransit
  <2>2. TerminalOf(out[w], kind.risk) \in {"SUCCEEDED", "FAILED", "TIMED_OUT", "UNKNOWN_OUTCOME", "CANCELLED"}
    BY TerminalTypes
  <2>3. OnlyNewestStarted'
    BY <1>26, <2>1, <2>2 DEF FinalizeTerminal, Terminalize, OnlyNewestStarted
  <2>4. RunningHasCall'
    BY <1>26, <2>1, <2>2 DEF FinalizeTerminal, Terminalize, RunningHasCall, CancelIsRequested,
       OwnsLease
  <2>5. SettlesTerminal'
    BY <1>26, <2>1, <2>2 DEF FinalizeTerminal, Goto, SettlesTerminal
  <2>6. OwnerPrepared'
    <3> SUFFICES ASSUME NEW v \in Workers, InTransit(v)', held'[v] = leaseToken' PROVE FALSE
      BY DEF OwnerPrepared
    <3>1. v # w /\ pc'[v] = pc[v]
      BY <1>26 DEF FinalizeTerminal, Goto, InTransit
    <3>2. held[v] # held[w] /\ held[v] # 0
      BY <3>1, <2>1 DEF TokenInv, InTransit
    <3> QED
      BY <1>26, <3>2 DEF FinalizeTerminal, OwnsLease, ClearLease
  <2> QED
    BY <2>3, <2>4, <2>5, <2>6
<1>27. ASSUME NEW w \in Workers, SettleStops(w) PROVE CallInv'
  BY <1>27 DEF SettleStops, ClearLease, Goto, RunningHasCall, OnlyNewestStarted, SettlesTerminal,
     OwnerPrepared, InTransit, CountInv, TokenInv, LeaseDiscipline
<1>28. ASSUME NEW w \in Workers, SettleFenced(w) PROVE CallInv'
  BY <1>28 DEF SettleFenced, Goto, RunningHasCall, OnlyNewestStarted, SettlesTerminal,
     OwnerPrepared, InTransit, CountInv, TokenInv, LeaseDiscipline
<1>29. ASSUME NEW w \in Workers, SettleSucceeds(w) PROVE CallInv'
  BY <1>29 DEF SettleSucceeds, ClearLease, Goto, HasRunningLease, OwnsLease, RunningHasCall,
     OnlyNewestStarted, SettlesTerminal, OwnerPrepared, InTransit, CountInv, TokenInv,
     LeaseDiscipline
<1>30. ASSUME NEW w \in Workers, Renew(w) PROVE CallInv'
  BY <1>30 DEF Renew, RunningHasCall, OnlyNewestStarted, SettlesTerminal, OwnerPrepared,
     InTransit, CountInv, TokenInv, LeaseDiscipline
<1>31. ASSUME NEW w \in Workers, Crash(w) PROVE CallInv'
  BY <1>31 DEF Crash, Goto, RunningHasCall, OnlyNewestStarted, SettlesTerminal, OwnerPrepared,
     InTransit, CountInv, TokenInv, LeaseDiscipline
<1>32. ASSUME NEW w \in Workers, RecoverCancel(w) PROVE CallInv'
  BY <1>32 DEF RecoverCancel, MayRecover, ClearLease, Terminalize, RunningHasCall,
     OnlyNewestStarted, SettlesTerminal, OwnerPrepared, InTransit, CountInv, TokenInv,
     LeaseDiscipline
<1>33. ASSUME NEW w \in Workers, RecoverReady(w) PROVE CallInv'
  <2>1. RunningHasCall' /\ OnlyNewestStarted'
    BY <1>33 DEF RecoverReady, ReadyCheckpoint, MayRecover, RunningHasCall, OnlyNewestStarted,
       CountInv
  <2>2. SettlesTerminal'
    BY <1>33 DEF RecoverReady, ReadyCheckpoint, MayRecover, Goto, SettlesTerminal, CountInv
  <2>3. OwnerPrepared'
    <3> SUFFICES ASSUME NEW v \in Workers, InTransit(v)', held'[v] = leaseToken' PROVE FALSE
      BY DEF OwnerPrepared
    <3>1. v # w
      BY <1>33 DEF RecoverReady, AssignLease, Goto, InTransit
    <3>2. pc[v] # "idle" /\ held'[v] = held[v]
      BY <1>33, <3>1 DEF RecoverReady, AssignLease, Goto, InTransit
    <3> QED
      BY <1>33, <3>2 DEF RecoverReady, AssignLease, TokenInv
  <2> QED
    BY <2>1, <2>2, <2>3
<1>34. ASSUME NEW w \in Workers, RecoverSafeRetry(w) PROVE CallInv'
  <2>1. RunningHasCall' /\ OnlyNewestStarted'
    BY <1>34 DEF RecoverSafeRetry, MayRecover, Terminalize, RunningHasCall, OnlyNewestStarted,
       CountInv
  <2>2. SettlesTerminal'
    BY <1>34 DEF RecoverSafeRetry, MayRecover, Terminalize, Goto, SettlesTerminal, CountInv
  <2>3. OwnerPrepared'
    <3> SUFFICES ASSUME NEW v \in Workers, InTransit(v)', held'[v] = leaseToken' PROVE FALSE
      BY DEF OwnerPrepared
    <3>1. v # w
      BY <1>34 DEF RecoverSafeRetry, AssignLease, Goto, InTransit
    <3>2. pc[v] # "idle" /\ held'[v] = held[v]
      BY <1>34, <3>1 DEF RecoverSafeRetry, AssignLease, Goto, InTransit
    <3> QED
      BY <1>34, <3>2 DEF RecoverSafeRetry, AssignLease, TokenInv
  <2> QED
    BY <2>1, <2>2, <2>3
<1>35. ASSUME NEW w \in Workers, RecoverExhausted(w) PROVE CallInv'
  BY <1>35 DEF RecoverExhausted, MayRecover, ClearLease, Terminalize, RunningHasCall,
     OnlyNewestStarted, SettlesTerminal, OwnerPrepared, InTransit, CountInv, TokenInv,
     LeaseDiscipline
<1>36. ASSUME NEW w \in Workers, RecoverUnknown(w) PROVE CallInv'
  BY <1>36 DEF RecoverUnknown, MayRecover, ClearLease, Terminalize, RunningHasCall,
     OnlyNewestStarted, SettlesTerminal, OwnerPrepared, InTransit, CountInv, TokenInv,
     LeaseDiscipline
<1>37. ASSUME NEW w \in Workers, RecoverInconsistent(w) PROVE CallInv'
  BY <1>37 DEF RecoverInconsistent, MayRecover, ClearLease, ReadyCheckpoint, InFlightCall,
     Terminalize, RunningHasCall, OnlyNewestStarted, SettlesTerminal, OwnerPrepared, InTransit,
     CountInv, TokenInv, LeaseDiscipline
<1>38. CASE UNCHANGED vars
  BY <1>38 DEF RunningHasCall, OnlyNewestStarted, SettlesTerminal, OwnerPrepared, InTransit
<1> QED
  BY <1>1, <1>2, <1>3, <1>4, <1>5, <1>6, <1>7, <1>8, <1>9, <1>10, <1>11, <1>12, <1>13, <1>14,
     <1>15, <1>16,
     <1>17, <1>18, <1>19, <1>20, <1>21, <1>22, <1>23, <1>24, <1>25, <1>26, <1>27, <1>28, <1>29,
     <1>30, <1>31, <1>32, <1>33, <1>34, <1>35, <1>36, <1>37, <1>38
  DEF Next, TaskStep, Prepare, Invoke, Finalize, Settle, Recover

\* The outcome a task carries stays truthful, and an unsafe request in flight stays
\* recorded as STARTED or UNKNOWN_OUTCOME: the only writers of its row are its own
\* task (which then has an answer) and recovery (which writes UNKNOWN_OUTCOME).
LEMMA OutcomeStep ==
  TypeOK /\ CountInv /\ SendInv /\ CallInv /\ OutcomeInv /\ [Next]_vars => OutcomeInv'
<1> SUFFICES ASSUME TypeOK, CountInv, SendInv, CallInv, OutcomeInv, [Next]_vars PROVE OutcomeInv'
  OBVIOUS
<1> USE AttemptsAssumption
<1> USE DEF TypeOK, OutcomeInv, AmbiguityKept, Ambiguous, CallInv, dbVars, queueVars, workerVars,
    remoteVars, vars
<1>0. kind' = kind /\ (UnsafeRisk' <=> UnsafeRisk)
  BY KindIsPinned
<1> USE <1>0
<1>1. CASE Stage
  BY <1>1 DEF Stage
<1>2. CASE RelayPublish
  BY <1>2 DEF RelayPublish
<1>3. CASE RelayCommit
  BY <1>3 DEF RelayCommit
<1>4. CASE CancelImmediate
  BY <1>4 DEF CancelImmediate, ClearLease, InFlightCall
<1>5. CASE CancelCooperative
  BY <1>5 DEF CancelCooperative, InFlightCall
<1>6. CASE Tick
  BY <1>6 DEF Tick
<1>7. CASE PublishRecovery
  BY <1>7 DEF PublishRecovery
<1>8. ASSUME NEW w \in Workers, Claim(w) PROVE OutcomeInv'
  BY <1>8 DEF Claim, AssignLease, Goto, Claimable
<1>9. ASSUME NEW w \in Workers, WaveStops(w) PROVE OutcomeInv'
  BY <1>9 DEF WaveStops, Leave, Goto
<1>10. ASSUME NEW w \in Workers, WaveReserves(w) PROVE OutcomeInv'
  BY <1>10 DEF WaveReserves, Goto
<1>11. ASSUME NEW w \in Workers, PrepareStale(w) PROVE OutcomeInv'
  BY <1>11 DEF PrepareStale, Leave, Goto
<1>12. ASSUME NEW w \in Workers, PrepareTimeout(w) PROVE OutcomeInv'
  BY <1>12 DEF PrepareTimeout, MayPrepare, Goto
<1>13. ASSUME NEW w \in Workers, PrepareRefused(w) PROVE OutcomeInv'
  BY <1>13 DEF PrepareRefused, MayPrepare, ClearLease, Goto
<1>14. ASSUME NEW w \in Workers, PreparePreSendFails(w) PROVE OutcomeInv'
  BY <1>14 DEF PreparePreSendFails, MayPrepare, ClearLease, Goto, Terminalize, SendInv,
     InTransit, CountInv
<1>15. ASSUME NEW w \in Workers, PrepareStarts(w) PROVE OutcomeInv'
  BY <1>15 DEF PrepareStarts, MayPrepare, Goto, Terminalize, SendInv, InTransit, CountInv
<1>16. ASSUME NEW w \in Workers, SecretsFail(w) PROVE OutcomeInv'
  BY <1>16 DEF SecretsFail, Goto, SendInv, InTransit, Outcomes, TransportErrors, Replies
<1>17. ASSUME NEW w \in Workers, GateStale(w) PROVE OutcomeInv'
  BY <1>17 DEF GateStale, Leave, Goto
<1>18. ASSUME NEW w \in Workers, GateCancels(w) PROVE OutcomeInv'
  BY <1>18 DEF GateCancels, ClearLease, Goto, Terminalize, SendInv, InTransit
<1>19. ASSUME NEW w \in Workers, GateDrifts(w) PROVE OutcomeInv'
  BY <1>19 DEF GateDrifts, Goto, SendInv, InTransit, Outcomes, TransportErrors, Replies
<1>20. ASSUME NEW w \in Workers, GatePasses(w) PROVE OutcomeInv'
  <2>1. cur[w] = attemptCount /\ step = "RUNNING" /\ call[cur[w]] = "STARTED"
    BY <1>20 DEF GatePasses, OwnsLease, OwnerPrepared, RunningHasCall, InTransit
  <2> QED
    BY <1>20, <2>1 DEF GatePasses, Goto
<1>21. ASSUME NEW w \in Workers, Send(w) PROVE OutcomeInv'
  BY <1>21 DEF Send, Goto, SendInv, InTransit, AttemptNos
<1>22. ASSUME NEW w \in Workers, ConnectFails(w) PROVE OutcomeInv'
  BY <1>22 DEF ConnectFails, Goto, SendInv, InTransit, Outcomes, TransportErrors, Replies
<1>23. ASSUME NEW w \in Workers, RemoteEnds(w) PROVE OutcomeInv'
  <2>1. PICK o \in RemoteOutcomes :
         /\ out' = [out EXCEPT ![w] = o]
         /\ answered' = IF o \in Replies THEN answered \union {cur[w]} ELSE answered
         /\ dropped' = IF o = "DISCONNECT" THEN dropped \union {cur[w]} ELSE dropped
    BY <1>23 DEF RemoteEnds
  <2>2. o \in Outcomes \ {"STEP_TIMEOUT", "PRE_SEND", "CONNECT_TIMEOUT", "CONNECT_ERROR"}
    BY DEF RemoteOutcomes, Outcomes, TransportErrors, Replies
  <2> QED
    BY <1>23, <2>1, <2>2 DEF RemoteEnds, Goto
<1>24. ASSUME NEW w \in Workers, FinalizeStale(w) PROVE OutcomeInv'
  BY <1>24 DEF FinalizeStale, Leave, Goto
<1>25. ASSUME NEW w \in Workers, FinalizeRetries(w) PROVE OutcomeInv'
  BY <1>25 DEF FinalizeRetries, Goto, SafeTransientRetry, Terminalize, SendInv, InTransit,
     UnsafeRisk
<1>26. ASSUME NEW w \in Workers, FinalizeTerminal(w) PROVE OutcomeInv'
  <2>1. cur[w] \in AttemptNos
    BY <1>26 DEF FinalizeTerminal, SendInv, InTransit, AttemptNos
  <2>2. ASSUME Ambiguous(cur[w]), TerminalOf(out[w], kind.risk) # "UNKNOWN_OUTCOME"
        PROVE  cur[w] \in dropped /\ TerminalOf(out[w], kind.risk) = "FAILED"
    <3>1. out[w] \in {"READ_TIMEOUT", "READ_ERROR", "GARBLED", "DISCONNECT"}
      BY <1>26, <2>1, <2>2 DEF FinalizeTerminal, Outcomes, TransportErrors
    <3>2. ~SafeRisk(kind.risk)
      BY <2>2 DEF SafeRisk, SafeRetryRisks, UnsafeRisk
    <3>3. out[w] = "DISCONNECT"
      BY <2>2, <3>1, <3>2 DEF TerminalOf, ClassifyMcpFailure
    <3> QED
      BY <1>26, <3>3 DEF FinalizeTerminal, TerminalOf, ClassifyMcpFailure
  <2>3. AmbiguityKept'
    BY <1>26, <2>1, <2>2 DEF FinalizeTerminal, Terminalize
  <2> QED
    BY <1>26, <2>3 DEF FinalizeTerminal, Goto, Terminalize, SendInv, InTransit
<1>27. ASSUME NEW w \in Workers, SettleStops(w) PROVE OutcomeInv'
  BY <1>27 DEF SettleStops, ClearLease, Goto
<1>28. ASSUME NEW w \in Workers, SettleFenced(w) PROVE OutcomeInv'
  BY <1>28 DEF SettleFenced, Goto
<1>29. ASSUME NEW w \in Workers, SettleSucceeds(w) PROVE OutcomeInv'
  BY <1>29 DEF SettleSucceeds, ClearLease, Goto
<1>30. ASSUME NEW w \in Workers, Renew(w) PROVE OutcomeInv'
  BY <1>30 DEF Renew
<1>31. ASSUME NEW w \in Workers, Crash(w) PROVE OutcomeInv'
  BY <1>31 DEF Crash, Goto
<1>32. ASSUME NEW w \in Workers, RecoverCancel(w) PROVE OutcomeInv'
  BY <1>32 DEF RecoverCancel, MayRecover, ClearLease, Terminalize
<1>33. ASSUME NEW w \in Workers, RecoverReady(w) PROVE OutcomeInv'
  BY <1>33 DEF RecoverReady, MayRecover, AssignLease, Goto, ReadyCheckpoint, CanSafeRetry
<1>34. ASSUME NEW w \in Workers, RecoverSafeRetry(w) PROVE OutcomeInv'
  BY <1>34 DEF RecoverSafeRetry, MayRecover, AssignLease, Goto, CanSafeRetry, Terminalize,
     SafeRisk, SafeRetryRisks, UnsafeRisk
<1>35. ASSUME NEW w \in Workers, RecoverExhausted(w) PROVE OutcomeInv'
  BY <1>35 DEF RecoverExhausted, MayRecover, ClearLease, Terminalize, SafeRisk, SafeRetryRisks,
     UnsafeRisk
<1>36. ASSUME NEW w \in Workers, RecoverUnknown(w) PROVE OutcomeInv'
  BY <1>36 DEF RecoverUnknown, MayRecover, ClearLease, Terminalize
<1>37. ASSUME NEW w \in Workers, RecoverInconsistent(w) PROVE OutcomeInv'
  <2>1. CASE UNCHANGED <<attempt, call>>
    BY <1>37, <2>1 DEF RecoverInconsistent
  <2>2. CASE Terminalize(attemptCount, "UNKNOWN_OUTCOME")
    BY <1>37, <2>2 DEF RecoverInconsistent, Terminalize, AttemptNos, SendInv, InTransit
  <2> QED
    BY <1>37, <2>1, <2>2 DEF RecoverInconsistent
<1>38. CASE UNCHANGED vars
  BY <1>38
<1> QED
  BY <1>1, <1>2, <1>3, <1>4, <1>5, <1>6, <1>7, <1>8, <1>9, <1>10, <1>11, <1>12, <1>13, <1>14,
     <1>15, <1>16,
     <1>17, <1>18, <1>19, <1>20, <1>21, <1>22, <1>23, <1>24, <1>25, <1>26, <1>27, <1>28, <1>29,
     <1>30, <1>31, <1>32, <1>33, <1>34, <1>35, <1>36, <1>37, <1>38
  DEF Next, TaskStep, Prepare, Invoke, Finalize, Settle, Recover

\* The Step's verdict stays in agreement with its ToolCalls, with the Execution and
\* with the task that is about to settle it.
LEMMA VerdictStep ==
  TypeOK /\ CountInv /\ SendInv /\ CallInv /\ LeaseDiscipline /\ OutcomeInv /\ VerdictInv /\ [Next]_vars => VerdictInv'
<1> SUFFICES ASSUME TypeOK, CountInv, SendInv, CallInv, LeaseDiscipline, OutcomeInv, VerdictInv, [Next]_vars PROVE VerdictInv'
  OBVIOUS
<1> USE AttemptsAssumption
<1> USE DEF TypeOK, VerdictInv, CallInv, dbVars, queueVars, workerVars, remoteVars, vars
<1>0. kind' = kind /\ (UnsafeRisk' <=> UnsafeRisk)
  BY KindIsPinned
<1> USE <1>0
<1>1. CASE Stage
  BY <1>1 DEF Stage
<1>2. CASE RelayPublish
  BY <1>2 DEF RelayPublish
<1>3. CASE RelayCommit
  BY <1>3 DEF RelayCommit
<1>4. CASE CancelImmediate
  BY <1>4 DEF CancelImmediate, ClearLease, InFlightCall, SettlesTerminal, CallTerminal
<1>5. CASE CancelCooperative
  BY <1>5 DEF CancelCooperative, InFlightCall, SettlesTerminal, CallTerminal
<1>6. CASE Tick
  BY <1>6 DEF Tick
<1>7. CASE PublishRecovery
  BY <1>7 DEF PublishRecovery
<1>8. ASSUME NEW w \in Workers, Claim(w) PROVE VerdictInv'
  BY <1>8 DEF Claim, AssignLease, Goto, Claimable, CountInv, SettlesTerminal, CallTerminal
<1>9. ASSUME NEW w \in Workers, WaveStops(w) PROVE VerdictInv'
  BY <1>9 DEF WaveStops, Leave, Goto
<1>10. ASSUME NEW w \in Workers, WaveReserves(w) PROVE VerdictInv'
  BY <1>10 DEF WaveReserves, Goto
<1>11. ASSUME NEW w \in Workers, PrepareStale(w) PROVE VerdictInv'
  BY <1>11 DEF PrepareStale, Leave, Goto
<1>12. ASSUME NEW w \in Workers, PrepareTimeout(w) PROVE VerdictInv'
  BY <1>12 DEF PrepareTimeout, MayPrepare, Goto, SettlesTerminal, CallTerminal, OwnsLease,
     CancelIsRequested, AttemptNos, TerminalOf, ClassifyMcpFailure, Outcomes
<1>13. ASSUME NEW w \in Workers, PrepareRefused(w) PROVE VerdictInv'
  BY <1>13 DEF PrepareRefused, MayPrepare, ClearLease, Goto, SettlesTerminal, CallTerminal,
     OwnsLease, CancelIsRequested, AttemptNos, TerminalOf, ClassifyMcpFailure, Outcomes
<1>14. ASSUME NEW w \in Workers, PreparePreSendFails(w) PROVE VerdictInv'
  BY <1>14 DEF PreparePreSendFails, MayPrepare, ClearLease, Goto, Terminalize, SettlesTerminal,
     CallTerminal, OwnsLease, CancelIsRequested, AttemptNos, CountInv, TerminalOf,
     ClassifyMcpFailure, Outcomes
<1>15. ASSUME NEW w \in Workers, PrepareStarts(w) PROVE VerdictInv'
  BY <1>15 DEF PrepareStarts, MayPrepare, Goto, Terminalize, SettlesTerminal, CallTerminal,
     OwnsLease, CancelIsRequested, AttemptNos, CountInv, TerminalOf, ClassifyMcpFailure, Outcomes
<1>16. ASSUME NEW w \in Workers, SecretsFail(w) PROVE VerdictInv'
  BY <1>16 DEF SecretsFail, Goto
<1>17. ASSUME NEW w \in Workers, GateStale(w) PROVE VerdictInv'
  BY <1>17 DEF GateStale, Leave, Goto
<1>18. ASSUME NEW w \in Workers, GateCancels(w) PROVE VerdictInv'
  BY <1>18 DEF GateCancels, ClearLease, Goto, Terminalize, SettlesTerminal, CallTerminal,
     OwnsLease, OwnerPrepared, RunningHasCall, InTransit, AttemptNos
<1>19. ASSUME NEW w \in Workers, GateDrifts(w) PROVE VerdictInv'
  BY <1>19 DEF GateDrifts, Goto
<1>20. ASSUME NEW w \in Workers, GatePasses(w) PROVE VerdictInv'
  BY <1>20 DEF GatePasses, Goto
<1>21. ASSUME NEW w \in Workers, Send(w) PROVE VerdictInv'
  BY <1>21 DEF Send, Goto
<1>22. ASSUME NEW w \in Workers, ConnectFails(w) PROVE VerdictInv'
  BY <1>22 DEF ConnectFails, Goto
<1>23. ASSUME NEW w \in Workers, RemoteEnds(w) PROVE VerdictInv'
  BY <1>23 DEF RemoteEnds, Goto, RemoteOutcomes
<1>24. ASSUME NEW w \in Workers, FinalizeStale(w) PROVE VerdictInv'
  BY <1>24 DEF FinalizeStale, Leave, Goto
<1>25. ASSUME NEW w \in Workers, FinalizeRetries(w) PROVE VerdictInv'
  <2>1. cur[w] = attemptCount /\ step = "RUNNING" /\ attemptCount \in AttemptNos /\ call[cur[w]] = "STARTED"
    BY <1>25 DEF FinalizeRetries, OwnsLease, OwnerPrepared, RunningHasCall, CountInv, InTransit,
       AttemptNos
  <2>2. TerminalOf(out[w], kind.risk) # "UNKNOWN_OUTCOME"
    BY <1>25 DEF FinalizeRetries, SafeTransientRetry, TerminalOf, ClassifyMcpFailure, SafeRisk,
       SafeRetryRisks
  <2>3. \A v \in Workers : pc'[v] # "settle"
    BY <1>25, <2>1 DEF FinalizeRetries, Goto, SettlesTerminal, CallTerminal
  <2> QED
    BY <1>25, <2>1, <2>2, <2>3 DEF FinalizeRetries, Terminalize, AttemptNos
<1>26. ASSUME NEW w \in Workers, FinalizeTerminal(w) PROVE VerdictInv'
  <2>1. cur[w] = attemptCount /\ step = "RUNNING" /\ attemptCount \in AttemptNos /\ call[cur[w]] = "STARTED"
    BY <1>26 DEF FinalizeTerminal, OwnsLease, OwnerPrepared, RunningHasCall, CountInv, InTransit,
       AttemptNos
  <2>2. out[w] \in Outcomes /\ (TerminalOf(out[w], kind.risk) = "SUCCEEDED" => cur[w] \in answered)
    BY <1>26 DEF FinalizeTerminal, OutcomeInv, TerminalOf, ClassifyMcpFailure, Replies
  <2>3. \A n \in AttemptNos : call[n] # "UNKNOWN_OUTCOME"
    BY <2>1
  <2>4. TerminalOf(out[w], kind.risk) = "UNKNOWN_OUTCOME" => Fatal(out[w])
    BY DEF Fatal
  <2>5. \A v \in Workers : pc'[v] = "settle" => v = w
    BY <1>26, <2>1 DEF FinalizeTerminal, Goto, SettlesTerminal, CallTerminal
  <2> QED
    BY <1>26, <2>1, <2>2, <2>3, <2>4, <2>5 DEF FinalizeTerminal, Terminalize, CancelIsRequested
<1>27. ASSUME NEW w \in Workers, SettleStops(w) PROVE VerdictInv'
  BY <1>27 DEF SettleStops, ClearLease, Goto
<1>28. ASSUME NEW w \in Workers, SettleFenced(w) PROVE VerdictInv'
  BY <1>28 DEF SettleFenced, Goto
<1>29. ASSUME NEW w \in Workers, SettleSucceeds(w) PROVE VerdictInv'
  BY <1>29 DEF SettleSucceeds, ClearLease, Goto, HasRunningLease, OwnsLease, TerminalOf
<1>30. ASSUME NEW w \in Workers, Renew(w) PROVE VerdictInv'
  BY <1>30 DEF Renew
<1>31. ASSUME NEW w \in Workers, Crash(w) PROVE VerdictInv'
  BY <1>31 DEF Crash, Goto
<1>32. ASSUME NEW w \in Workers, RecoverCancel(w) PROVE VerdictInv'
  BY <1>32 DEF RecoverCancel, MayRecover, ClearLease, Terminalize, SettlesTerminal, CallTerminal,
     RunningHasCall, AttemptNos
<1>33. ASSUME NEW w \in Workers, RecoverReady(w) PROVE VerdictInv'
  BY <1>33 DEF RecoverReady, MayRecover, AssignLease, Goto, ReadyCheckpoint, CanSafeRetry,
     SettlesTerminal, CallTerminal
<1>34. ASSUME NEW w \in Workers, RecoverSafeRetry(w) PROVE VerdictInv'
  BY <1>34 DEF RecoverSafeRetry, MayRecover, AssignLease, Goto, CanSafeRetry, Terminalize,
     SettlesTerminal, CallTerminal, RunningHasCall, AttemptNos
<1>35. ASSUME NEW w \in Workers, RecoverExhausted(w) PROVE VerdictInv'
  BY <1>35 DEF RecoverExhausted, MayRecover, ClearLease, Terminalize, SettlesTerminal,
     CallTerminal, RunningHasCall, AttemptNos
<1>36. ASSUME NEW w \in Workers, RecoverUnknown(w) PROVE VerdictInv'
  BY <1>36 DEF RecoverUnknown, MayRecover, ClearLease, Terminalize, SettlesTerminal,
     CallTerminal, RunningHasCall, AttemptNos
<1>37. ASSUME NEW w \in Workers, RecoverInconsistent(w) PROVE VerdictInv'
  <2>1. CASE InFlightCall
    <3>1. step = "RUNNING" /\ attemptCount \in AttemptNos
      BY <2>1 DEF InFlightCall, OnlyNewestStarted
    <3> QED
      BY <1>37, <2>1, <3>1 DEF RecoverInconsistent, MayRecover, Terminalize, CallTerminal,
         SettlesTerminal
  <2>2. CASE ~InFlightCall
    BY <1>37, <2>2 DEF RecoverInconsistent, MayRecover, CallTerminal, SettlesTerminal
  <2> QED
    BY <2>1, <2>2
<1>38. CASE UNCHANGED vars
  BY <1>38
<1> QED
  BY <1>1, <1>2, <1>3, <1>4, <1>5, <1>6, <1>7, <1>8, <1>9, <1>10, <1>11, <1>12, <1>13, <1>14,
     <1>15, <1>16,
     <1>17, <1>18, <1>19, <1>20, <1>21, <1>22, <1>23, <1>24, <1>25, <1>26, <1>27, <1>28, <1>29,
     <1>30, <1>31, <1>32, <1>33, <1>34, <1>35, <1>36, <1>37, <1>38
  DEF Next, TaskStep, Prepare, Invoke, Finalize, Settle, Recover

\* At CREATED nothing is leased, counted, prepared or decided.
LEMMA InitInvariant == Init => Invariant
<1> SUFFICES ASSUME Init PROVE Invariant
  OBVIOUS
<1> USE AttemptsAssumption, BoundsAssumption
<1> USE DEF Init
<1>1. TypeOK
  <2>1. /\ attempt \in [AttemptNos -> CallStatus]
        /\ call \in [AttemptNos -> CallStatus]
        /\ pc \in [Workers -> Phases]
        /\ out \in [Workers -> Outcomes \union {NoOutcome}]
    BY DEF CallStatus, Phases
  <2>2. /\ held \in [Workers -> Nat]
        /\ cur \in [Workers -> 0 .. (MaxAttempts + 1)]
        /\ sends \in [AttemptNos -> Nat]
    OBVIOUS
  <2>3. /\ kind \in Kinds /\ cancelAt \in BOOLEAN /\ broker \in SUBSET {"CLAIM", "RECOVER"}
        /\ answered \in SUBSET AttemptNos /\ dropped \in SUBSET AttemptNos
    OBVIOUS
  <2>4. /\ leaseToken \in Nat
        /\ leaseLeft \in 0 .. LeaseTicks
        /\ nextToken \in Nat \ {0}
        /\ attemptCount \in 0 .. (MaxAttempts + 1)
        /\ faults \in 0 .. MaxFaults
    OBVIOUS
  <2>5. status \in ExecutionStatus /\ step \in StepStatus /\ outbox \in {"NONE", "UNPUBLISHED", "PUBLISHED"}
    BY DEF ExecutionStatus, StepStatus
  <2> HIDE DEF Init
  <2> QED
    BY <2>1, <2>2, <2>3, <2>4, <2>5 DEF TypeOK
<1>2. CountInv /\ SendInv /\ TokenInv /\ LeaseDiscipline
  BY DEF CountInv, SendInv, TokenInv, LeaseDiscipline, InTransit
<1>3. CallInv
  BY DEF CallInv, RunningHasCall, OnlyNewestStarted, SettlesTerminal, OwnerPrepared, InTransit
<1>4. OutcomeInv /\ VerdictInv
  BY DEF OutcomeInv, VerdictInv, AmbiguityKept, Ambiguous
<1> QED
  BY <1>1, <1>2, <1>3, <1>4 DEF Invariant

\* All parts of the invariant together are preserved by every step.
LEMMA InvariantStep == Invariant /\ [Next]_vars => Invariant'
BY TypeStep, CountStep, SendStep, TokenStep, LeaseStep, CallStep, OutcomeStep,
   VerdictStep DEF Invariant

\* The inductive invariant of the tool execution, for any number of workers, any
\* attempt limit, any lease length and any number of faults.
THEOREM InvariantHolds == Spec => []Invariant
<1>1. Init => Invariant
  BY InitInvariant
<1>2. Invariant /\ [Next]_vars => Invariant'
  BY InvariantStep
<1> QED
  BY <1>1, <1>2, PTL DEF Spec

\* The type invariant of claim, runner, settlement, cancellation and recovery.
THEOREM TypeCorrect == Spec => []TypeOK
<1>1. Invariant => TypeOK
  BY DEF Invariant
<1> QED
  BY <1>1, InvariantHolds, PTL

\* Inline retries and recoveries together never start more Attempts than max_attempts.
THEOREM AttemptsNeverExceedLimit == Spec => []AttemptsBounded
<1>1. Invariant => AttemptsBounded
  BY DEF Invariant, CountInv, AttemptsBounded
<1> QED
  BY <1>1, InvariantHolds, PTL

\* An unsafe tools/call reaches the server at most once per Execution, and no Attempt
\* of any risk class is sent twice.
THEOREM AtMostOneUnsafeSend == Spec => []UnsafeSentAtMostOnce
<1>1. Invariant => UnsafeSentAtMostOnce
  <2> SUFFICES ASSUME Invariant PROVE UnsafeSentAtMostOnce
    OBVIOUS
  <2>1. \A n \in AttemptNos : sends[n] \in Nat /\ (sends[n] > 0 => n <= attemptCount)
    BY DEF Invariant, TypeOK, SendInv, AttemptNos
  <2> QED
    BY <2>1 DEF Invariant, TypeOK, SendInv, CountInv, AttemptNos, UnsafeSentAtMostOnce
<1> QED
  BY <1>1, InvariantHolds, PTL

\* The row carries a lease token exactly while it is RUNNING or CANCEL_REQUESTED.
THEOREM LeaseDisciplineHolds == Spec => []LeaseDiscipline
<1>1. Invariant => LeaseDiscipline
  BY DEF Invariant
<1> QED
  BY <1>1, InvariantHolds, PTL

\* A task whose fence holds between Phase A and Phase C finds the evidence it created.
THEOREM OwnerEvidenceHolds == Spec => []OwnerEvidenceIntact
<1>1. Invariant => OwnerEvidenceIntact
  BY DEF Invariant, CallInv, OwnerPrepared, RunningHasCall, OwnsLease, InTransit,
     OwnerEvidenceIntact
<1> QED
  BY <1>1, InvariantHolds, PTL

\* CANCEL_REQUESTED always has a STARTED call and a lease to wait for.
THEOREM CancelRequestedHolds == Spec => []CancelRequestedHasCall
<1>1. Invariant => CancelRequestedHasCall
  BY DEF Invariant, CallInv, RunningHasCall, LeaseDiscipline, CancelRequestedHasCall
<1> QED
  BY <1>1, InvariantHolds, PTL

\* An Execution with an UNKNOWN_OUTCOME call is FAILED, never CANCELLED or SUCCEEDED.
THEOREM UnknownIsNeverHidden == Spec => []UnknownNeverHidden
<1>1. Invariant => UnknownNeverHidden
  BY DEF Invariant, VerdictInv, UnknownNeverHidden
<1> QED
  BY <1>1, InvariantHolds, PTL

\* A SUCCEEDED Execution has an answered, SUCCEEDED call on its newest Attempt.
THEOREM SuccessIsTruthful == Spec => []TruthfulSuccess
<1>1. Invariant => TruthfulSuccess
  BY DEF Invariant, VerdictInv, TruthfulSuccess
<1> QED
  BY <1>1, InvariantHolds, PTL

\* No request of a CANCELLED unsafe Execution is on its way: its call would be STARTED,
\* so the Step RUNNING, or UNKNOWN_OUTCOME, so the Execution FAILED.
THEOREM CancelledIsQuiet == Spec => []CancelledMeansQuiet
<1>1. Invariant => CancelledMeansQuiet
  <2> SUFFICES ASSUME Invariant, status = "CANCELLED", UnsafeRisk,
                      NEW w \in Workers, pc[w] \in {"send", "remote"}
               PROVE  FALSE
    BY DEF CancelledMeansQuiet
  <2>1. cur[w] \in AttemptNos
    BY AttemptsAssumption DEF Invariant, TypeOK, SendInv, InTransit, AttemptNos
  <2>2. CASE call[cur[w]] = "STARTED"
    BY <2>1, <2>2 DEF Invariant, CallInv, OnlyNewestStarted, RunningHasCall
  <2>3. CASE call[cur[w]] = "UNKNOWN_OUTCOME"
    BY <2>1, <2>3 DEF Invariant, VerdictInv
  <2> QED
    BY <2>2, <2>3 DEF Invariant, OutcomeInv
<1> QED
  BY <1>1, InvariantHolds, PTL

\* A sent and unanswered unsafe call is on record as STARTED or UNKNOWN_OUTCOME, whatever
\* cancellation, recovery, gates and stale owners do; as FAILED only by its owner, after
\* the server closed the connection (which _map_transport_error takes for a known failure).
THEOREM AmbiguityIsKept == Spec => []AmbiguityKept
<1>1. Invariant => AmbiguityKept
  BY DEF Invariant, OutcomeInv
<1> QED
  BY <1>1, InvariantHolds, PTL

\* No transaction overwrites a terminal Step, Attempt or ToolCall.
LEMMA EvidenceStep ==
  TypeOK /\ CountInv /\ CallInv /\ [Next]_vars => EvidenceKept
<1> SUFFICES ASSUME TypeOK, CountInv, CallInv, [Next]_vars PROVE EvidenceKept
  OBVIOUS
<1> USE AttemptsAssumption
<1> USE DEF TypeOK, EvidenceKept, CallInv, CallTerminal, dbVars, queueVars, workerVars,
    remoteVars, vars
<1>1. CASE Stage
  BY <1>1 DEF Stage
<1>2. CASE RelayPublish
  BY <1>2 DEF RelayPublish
<1>3. CASE RelayCommit
  BY <1>3 DEF RelayCommit
<1>4. CASE CancelImmediate
  BY <1>4 DEF CancelImmediate, ClearLease, InFlightCall
<1>5. CASE CancelCooperative
  BY <1>5 DEF CancelCooperative, InFlightCall
<1>6. CASE Tick
  BY <1>6 DEF Tick
<1>7. CASE PublishRecovery
  BY <1>7 DEF PublishRecovery
<1>8. ASSUME NEW w \in Workers, Claim(w) PROVE EvidenceKept
  BY <1>8 DEF Claim, AssignLease, Goto, Claimable, CountInv
<1>9. ASSUME NEW w \in Workers, WaveStops(w) PROVE EvidenceKept
  BY <1>9 DEF WaveStops, Leave, Goto
<1>10. ASSUME NEW w \in Workers, WaveReserves(w) PROVE EvidenceKept
  BY <1>10 DEF WaveReserves, Goto
<1>11. ASSUME NEW w \in Workers, PrepareStale(w) PROVE EvidenceKept
  BY <1>11 DEF PrepareStale, Leave, Goto
<1>12. ASSUME NEW w \in Workers, PrepareTimeout(w) PROVE EvidenceKept
  BY <1>12 DEF PrepareTimeout, MayPrepare, Goto
<1>13. ASSUME NEW w \in Workers, PrepareRefused(w) PROVE EvidenceKept
  BY <1>13 DEF PrepareRefused, MayPrepare, ClearLease, Goto
<1>14. ASSUME NEW w \in Workers, PreparePreSendFails(w) PROVE EvidenceKept
  BY <1>14 DEF PreparePreSendFails, MayPrepare, ClearLease, Goto, Terminalize, OnlyNewestStarted,
     CountInv, AttemptNos
<1>15. ASSUME NEW w \in Workers, PrepareStarts(w) PROVE EvidenceKept
  BY <1>15 DEF PrepareStarts, MayPrepare, Goto, Terminalize, OnlyNewestStarted, CountInv, AttemptNos
<1>16. ASSUME NEW w \in Workers, SecretsFail(w) PROVE EvidenceKept
  BY <1>16 DEF SecretsFail, Goto
<1>17. ASSUME NEW w \in Workers, GateStale(w) PROVE EvidenceKept
  BY <1>17 DEF GateStale, Leave, Goto
<1>18. ASSUME NEW w \in Workers, GateCancels(w) PROVE EvidenceKept
  BY <1>18 DEF GateCancels, ClearLease, Goto, Terminalize, OwnsLease, OwnerPrepared,
     RunningHasCall, InTransit
<1>19. ASSUME NEW w \in Workers, GateDrifts(w) PROVE EvidenceKept
  BY <1>19 DEF GateDrifts, Goto
<1>20. ASSUME NEW w \in Workers, GatePasses(w) PROVE EvidenceKept
  BY <1>20 DEF GatePasses, Goto
<1>21. ASSUME NEW w \in Workers, Send(w) PROVE EvidenceKept
  BY <1>21 DEF Send, Goto
<1>22. ASSUME NEW w \in Workers, ConnectFails(w) PROVE EvidenceKept
  BY <1>22 DEF ConnectFails, Goto
<1>23. ASSUME NEW w \in Workers, RemoteEnds(w) PROVE EvidenceKept
  BY <1>23 DEF RemoteEnds, Goto, RemoteOutcomes
<1>24. ASSUME NEW w \in Workers, FinalizeStale(w) PROVE EvidenceKept
  BY <1>24 DEF FinalizeStale, Leave, Goto
<1>25. ASSUME NEW w \in Workers, FinalizeRetries(w) PROVE EvidenceKept
  BY <1>25 DEF FinalizeRetries, Goto, SafeTransientRetry, Terminalize, OwnsLease, OwnerPrepared,
     RunningHasCall, InTransit
<1>26. ASSUME NEW w \in Workers, FinalizeTerminal(w) PROVE EvidenceKept
  BY <1>26 DEF FinalizeTerminal, ClearLease, Goto, Terminalize, OwnsLease, OwnerPrepared,
     RunningHasCall, InTransit
<1>27. ASSUME NEW w \in Workers, SettleStops(w) PROVE EvidenceKept
  BY <1>27 DEF SettleStops, ClearLease, Goto
<1>28. ASSUME NEW w \in Workers, SettleFenced(w) PROVE EvidenceKept
  BY <1>28 DEF SettleFenced, Goto
<1>29. ASSUME NEW w \in Workers, SettleSucceeds(w) PROVE EvidenceKept
  BY <1>29 DEF SettleSucceeds, ClearLease, Goto
<1>30. ASSUME NEW w \in Workers, Renew(w) PROVE EvidenceKept
  BY <1>30 DEF Renew
<1>31. ASSUME NEW w \in Workers, Crash(w) PROVE EvidenceKept
  BY <1>31 DEF Crash, Goto
<1>32. ASSUME NEW w \in Workers, RecoverCancel(w) PROVE EvidenceKept
  BY <1>32 DEF RecoverCancel, MayRecover, ClearLease, Terminalize, RunningHasCall
<1>33. ASSUME NEW w \in Workers, RecoverReady(w) PROVE EvidenceKept
  BY <1>33 DEF RecoverReady, MayRecover, AssignLease, Goto, ReadyCheckpoint, CanSafeRetry
<1>34. ASSUME NEW w \in Workers, RecoverSafeRetry(w) PROVE EvidenceKept
  BY <1>34 DEF RecoverSafeRetry, MayRecover, AssignLease, Goto, CanSafeRetry, Terminalize,
     RunningHasCall
<1>35. ASSUME NEW w \in Workers, RecoverExhausted(w) PROVE EvidenceKept
  BY <1>35 DEF RecoverExhausted, MayRecover, ClearLease, Terminalize, RunningHasCall
<1>36. ASSUME NEW w \in Workers, RecoverUnknown(w) PROVE EvidenceKept
  BY <1>36 DEF RecoverUnknown, MayRecover, ClearLease, Terminalize, RunningHasCall
<1>37. ASSUME NEW w \in Workers, RecoverInconsistent(w) PROVE EvidenceKept
  BY <1>37 DEF RecoverInconsistent, MayRecover, ClearLease, ReadyCheckpoint, InFlightCall,
     Terminalize, RunningHasCall, OnlyNewestStarted
<1>38. CASE UNCHANGED vars
  BY <1>38
<1> QED
  BY <1>1, <1>2, <1>3, <1>4, <1>5, <1>6, <1>7, <1>8, <1>9, <1>10, <1>11, <1>12, <1>13, <1>14,
     <1>15, <1>16,
     <1>17, <1>18, <1>19, <1>20, <1>21, <1>22, <1>23, <1>24, <1>25, <1>26, <1>27, <1>28, <1>29,
     <1>30, <1>31, <1>32, <1>33, <1>34, <1>35, <1>36, <1>37, <1>38
  DEF Next, TaskStep, Prepare, Invoke, Finalize, Settle, Recover

\* No transaction starts an Attempt or assigns a lease once cancel_requested_at is set.
LEMMA CancelStep ==
  VerdictInv /\ [Next]_vars => NothingNewOnceCancelled
<1> SUFFICES ASSUME VerdictInv, [Next]_vars PROVE NothingNewOnceCancelled
  OBVIOUS
<1> USE DEF VerdictInv, NothingNewOnceCancelled, dbVars, queueVars, workerVars, remoteVars, vars
<1>1. CASE Stage
  BY <1>1 DEF Stage
<1>2. CASE RelayPublish
  BY <1>2 DEF RelayPublish
<1>3. CASE RelayCommit
  BY <1>3 DEF RelayCommit
<1>4. CASE CancelImmediate
  BY <1>4 DEF CancelImmediate, ClearLease, InFlightCall
<1>5. CASE CancelCooperative
  BY <1>5 DEF CancelCooperative, InFlightCall
<1>6. CASE Tick
  BY <1>6 DEF Tick
<1>7. CASE PublishRecovery
  BY <1>7 DEF PublishRecovery
<1>8. ASSUME NEW w \in Workers, Claim(w) PROVE NothingNewOnceCancelled
  BY <1>8 DEF Claim, AssignLease, Goto, Claimable
<1>9. ASSUME NEW w \in Workers, WaveStops(w) PROVE NothingNewOnceCancelled
  BY <1>9 DEF WaveStops, Leave, Goto
<1>10. ASSUME NEW w \in Workers, WaveReserves(w) PROVE NothingNewOnceCancelled
  BY <1>10 DEF WaveReserves, Goto
<1>11. ASSUME NEW w \in Workers, PrepareStale(w) PROVE NothingNewOnceCancelled
  BY <1>11 DEF PrepareStale, Leave, Goto
<1>12. ASSUME NEW w \in Workers, PrepareTimeout(w) PROVE NothingNewOnceCancelled
  BY <1>12 DEF PrepareTimeout, MayPrepare, Goto, CancelIsRequested
<1>13. ASSUME NEW w \in Workers, PrepareRefused(w) PROVE NothingNewOnceCancelled
  BY <1>13 DEF PrepareRefused, MayPrepare, ClearLease, Goto, CancelIsRequested
<1>14. ASSUME NEW w \in Workers, PreparePreSendFails(w) PROVE NothingNewOnceCancelled
  BY <1>14 DEF PreparePreSendFails, MayPrepare, ClearLease, Goto, Terminalize, CancelIsRequested
<1>15. ASSUME NEW w \in Workers, PrepareStarts(w) PROVE NothingNewOnceCancelled
  BY <1>15 DEF PrepareStarts, MayPrepare, Goto, Terminalize, CancelIsRequested
<1>16. ASSUME NEW w \in Workers, SecretsFail(w) PROVE NothingNewOnceCancelled
  BY <1>16 DEF SecretsFail, Goto
<1>17. ASSUME NEW w \in Workers, GateStale(w) PROVE NothingNewOnceCancelled
  BY <1>17 DEF GateStale, Leave, Goto
<1>18. ASSUME NEW w \in Workers, GateCancels(w) PROVE NothingNewOnceCancelled
  BY <1>18 DEF GateCancels, ClearLease, Goto, Terminalize
<1>19. ASSUME NEW w \in Workers, GateDrifts(w) PROVE NothingNewOnceCancelled
  BY <1>19 DEF GateDrifts, Goto
<1>20. ASSUME NEW w \in Workers, GatePasses(w) PROVE NothingNewOnceCancelled
  BY <1>20 DEF GatePasses, Goto
<1>21. ASSUME NEW w \in Workers, Send(w) PROVE NothingNewOnceCancelled
  BY <1>21 DEF Send, Goto
<1>22. ASSUME NEW w \in Workers, ConnectFails(w) PROVE NothingNewOnceCancelled
  BY <1>22 DEF ConnectFails, Goto
<1>23. ASSUME NEW w \in Workers, RemoteEnds(w) PROVE NothingNewOnceCancelled
  BY <1>23 DEF RemoteEnds, Goto, RemoteOutcomes
<1>24. ASSUME NEW w \in Workers, FinalizeStale(w) PROVE NothingNewOnceCancelled
  BY <1>24 DEF FinalizeStale, Leave, Goto
<1>25. ASSUME NEW w \in Workers, FinalizeRetries(w) PROVE NothingNewOnceCancelled
  BY <1>25 DEF FinalizeRetries, Goto, SafeTransientRetry, Terminalize
<1>26. ASSUME NEW w \in Workers, FinalizeTerminal(w) PROVE NothingNewOnceCancelled
  BY <1>26 DEF FinalizeTerminal, ClearLease, Goto, Terminalize
<1>27. ASSUME NEW w \in Workers, SettleStops(w) PROVE NothingNewOnceCancelled
  BY <1>27 DEF SettleStops, ClearLease, Goto
<1>28. ASSUME NEW w \in Workers, SettleFenced(w) PROVE NothingNewOnceCancelled
  BY <1>28 DEF SettleFenced, Goto
<1>29. ASSUME NEW w \in Workers, SettleSucceeds(w) PROVE NothingNewOnceCancelled
  BY <1>29 DEF SettleSucceeds, ClearLease, Goto
<1>30. ASSUME NEW w \in Workers, Renew(w) PROVE NothingNewOnceCancelled
  BY <1>30 DEF Renew
<1>31. ASSUME NEW w \in Workers, Crash(w) PROVE NothingNewOnceCancelled
  BY <1>31 DEF Crash, Goto
<1>32. ASSUME NEW w \in Workers, RecoverCancel(w) PROVE NothingNewOnceCancelled
  BY <1>32 DEF RecoverCancel, MayRecover, ClearLease, Terminalize
<1>33. ASSUME NEW w \in Workers, RecoverReady(w) PROVE NothingNewOnceCancelled
  BY <1>33 DEF RecoverReady, MayRecover, AssignLease, Goto, ReadyCheckpoint, CanSafeRetry
<1>34. ASSUME NEW w \in Workers, RecoverSafeRetry(w) PROVE NothingNewOnceCancelled
  BY <1>34 DEF RecoverSafeRetry, MayRecover, AssignLease, Goto, CanSafeRetry, Terminalize
<1>35. ASSUME NEW w \in Workers, RecoverExhausted(w) PROVE NothingNewOnceCancelled
  BY <1>35 DEF RecoverExhausted, MayRecover, ClearLease, Terminalize
<1>36. ASSUME NEW w \in Workers, RecoverUnknown(w) PROVE NothingNewOnceCancelled
  BY <1>36 DEF RecoverUnknown, MayRecover, ClearLease, Terminalize
<1>37. ASSUME NEW w \in Workers, RecoverInconsistent(w) PROVE NothingNewOnceCancelled
  BY <1>37 DEF RecoverInconsistent, MayRecover, ClearLease, ReadyCheckpoint, InFlightCall,
     Terminalize
<1>38. CASE UNCHANGED vars
  BY <1>38
<1> QED
  BY <1>1, <1>2, <1>3, <1>4, <1>5, <1>6, <1>7, <1>8, <1>9, <1>10, <1>11, <1>12, <1>13, <1>14,
     <1>15, <1>16,
     <1>17, <1>18, <1>19, <1>20, <1>21, <1>22, <1>23, <1>24, <1>25, <1>26, <1>27, <1>28, <1>29,
     <1>30, <1>31, <1>32, <1>33, <1>34, <1>35, <1>36, <1>37, <1>38
  DEF Next, TaskStep, Prepare, Invoke, Finalize, Settle, Recover

\* No transaction gives a terminal Execution a lease.
LEMMA ClosedStep ==
  LeaseDiscipline /\ [Next]_vars => StaysClosed
<1> SUFFICES ASSUME LeaseDiscipline, [Next]_vars PROVE StaysClosed
  OBVIOUS
<1> USE DEF LeaseDiscipline, StaysClosed, TerminalExecution, dbVars, queueVars, workerVars,
    remoteVars, vars
<1>1. CASE Stage
  BY <1>1 DEF Stage
<1>2. CASE RelayPublish
  BY <1>2 DEF RelayPublish
<1>3. CASE RelayCommit
  BY <1>3 DEF RelayCommit
<1>4. CASE CancelImmediate
  BY <1>4 DEF CancelImmediate, ClearLease, InFlightCall
<1>5. CASE CancelCooperative
  BY <1>5 DEF CancelCooperative, InFlightCall
<1>6. CASE Tick
  BY <1>6 DEF Tick
<1>7. CASE PublishRecovery
  BY <1>7 DEF PublishRecovery
<1>8. ASSUME NEW w \in Workers, Claim(w) PROVE StaysClosed
  BY <1>8 DEF Claim, AssignLease, Goto, Claimable
<1>9. ASSUME NEW w \in Workers, WaveStops(w) PROVE StaysClosed
  BY <1>9 DEF WaveStops, Leave, Goto
<1>10. ASSUME NEW w \in Workers, WaveReserves(w) PROVE StaysClosed
  BY <1>10 DEF WaveReserves, Goto
<1>11. ASSUME NEW w \in Workers, PrepareStale(w) PROVE StaysClosed
  BY <1>11 DEF PrepareStale, Leave, Goto
<1>12. ASSUME NEW w \in Workers, PrepareTimeout(w) PROVE StaysClosed
  BY <1>12 DEF PrepareTimeout, MayPrepare, Goto, OwnsLease
<1>13. ASSUME NEW w \in Workers, PrepareRefused(w) PROVE StaysClosed
  BY <1>13 DEF PrepareRefused, MayPrepare, ClearLease, Goto, OwnsLease
<1>14. ASSUME NEW w \in Workers, PreparePreSendFails(w) PROVE StaysClosed
  BY <1>14 DEF PreparePreSendFails, MayPrepare, ClearLease, Goto, Terminalize, OwnsLease
<1>15. ASSUME NEW w \in Workers, PrepareStarts(w) PROVE StaysClosed
  BY <1>15 DEF PrepareStarts, MayPrepare, Goto, Terminalize, OwnsLease
<1>16. ASSUME NEW w \in Workers, SecretsFail(w) PROVE StaysClosed
  BY <1>16 DEF SecretsFail, Goto
<1>17. ASSUME NEW w \in Workers, GateStale(w) PROVE StaysClosed
  BY <1>17 DEF GateStale, Leave, Goto
<1>18. ASSUME NEW w \in Workers, GateCancels(w) PROVE StaysClosed
  BY <1>18 DEF GateCancels, ClearLease, Goto, Terminalize, OwnsLease
<1>19. ASSUME NEW w \in Workers, GateDrifts(w) PROVE StaysClosed
  BY <1>19 DEF GateDrifts, Goto
<1>20. ASSUME NEW w \in Workers, GatePasses(w) PROVE StaysClosed
  BY <1>20 DEF GatePasses, Goto
<1>21. ASSUME NEW w \in Workers, Send(w) PROVE StaysClosed
  BY <1>21 DEF Send, Goto
<1>22. ASSUME NEW w \in Workers, ConnectFails(w) PROVE StaysClosed
  BY <1>22 DEF ConnectFails, Goto
<1>23. ASSUME NEW w \in Workers, RemoteEnds(w) PROVE StaysClosed
  BY <1>23 DEF RemoteEnds, Goto, RemoteOutcomes
<1>24. ASSUME NEW w \in Workers, FinalizeStale(w) PROVE StaysClosed
  BY <1>24 DEF FinalizeStale, Leave, Goto
<1>25. ASSUME NEW w \in Workers, FinalizeRetries(w) PROVE StaysClosed
  BY <1>25 DEF FinalizeRetries, Goto, SafeTransientRetry, Terminalize, OwnsLease
<1>26. ASSUME NEW w \in Workers, FinalizeTerminal(w) PROVE StaysClosed
  BY <1>26 DEF FinalizeTerminal, ClearLease, Goto, Terminalize, OwnsLease
<1>27. ASSUME NEW w \in Workers, SettleStops(w) PROVE StaysClosed
  BY <1>27 DEF SettleStops, ClearLease, Goto
<1>28. ASSUME NEW w \in Workers, SettleFenced(w) PROVE StaysClosed
  BY <1>28 DEF SettleFenced, Goto
<1>29. ASSUME NEW w \in Workers, SettleSucceeds(w) PROVE StaysClosed
  BY <1>29 DEF SettleSucceeds, ClearLease, Goto
<1>30. ASSUME NEW w \in Workers, Renew(w) PROVE StaysClosed
  BY <1>30 DEF Renew
<1>31. ASSUME NEW w \in Workers, Crash(w) PROVE StaysClosed
  BY <1>31 DEF Crash, Goto
<1>32. ASSUME NEW w \in Workers, RecoverCancel(w) PROVE StaysClosed
  BY <1>32 DEF RecoverCancel, MayRecover, ClearLease, Terminalize
<1>33. ASSUME NEW w \in Workers, RecoverReady(w) PROVE StaysClosed
  BY <1>33 DEF RecoverReady, MayRecover, AssignLease, Goto, ReadyCheckpoint, CanSafeRetry
<1>34. ASSUME NEW w \in Workers, RecoverSafeRetry(w) PROVE StaysClosed
  BY <1>34 DEF RecoverSafeRetry, MayRecover, AssignLease, Goto, CanSafeRetry, Terminalize
<1>35. ASSUME NEW w \in Workers, RecoverExhausted(w) PROVE StaysClosed
  BY <1>35 DEF RecoverExhausted, MayRecover, ClearLease, Terminalize
<1>36. ASSUME NEW w \in Workers, RecoverUnknown(w) PROVE StaysClosed
  BY <1>36 DEF RecoverUnknown, MayRecover, ClearLease, Terminalize
<1>37. ASSUME NEW w \in Workers, RecoverInconsistent(w) PROVE StaysClosed
  BY <1>37 DEF RecoverInconsistent, MayRecover, ClearLease, ReadyCheckpoint, InFlightCall,
     Terminalize
<1>38. CASE UNCHANGED vars
  BY <1>38
<1> QED
  BY <1>1, <1>2, <1>3, <1>4, <1>5, <1>6, <1>7, <1>8, <1>9, <1>10, <1>11, <1>12, <1>13, <1>14,
     <1>15, <1>16,
     <1>17, <1>18, <1>19, <1>20, <1>21, <1>22, <1>23, <1>24, <1>25, <1>26, <1>27, <1>28, <1>29,
     <1>30, <1>31, <1>32, <1>33, <1>34, <1>35, <1>36, <1>37, <1>38
  DEF Next, TaskStep, Prepare, Invoke, Finalize, Settle, Recover

\* Terminal Step, Attempt and ToolCall rows are never rewritten.
THEOREM EvidenceIsImmutable == Spec => EvidenceImmutable
<1>1. Invariant /\ [Next]_vars => [EvidenceKept]_vars
  BY EvidenceStep DEF Invariant
<1> QED
  BY <1>1, InvariantHolds, PTL DEF Spec, EvidenceImmutable

\* After a cancellation request no Attempt is started and no lease is assigned.
THEOREM NothingStartsAfterCancel == Spec => NoAttemptAfterCancel
<1>1. Invariant /\ [Next]_vars => [NothingNewOnceCancelled]_vars
  BY CancelStep DEF Invariant
<1> QED
  BY <1>1, InvariantHolds, PTL DEF Spec, NoAttemptAfterCancel

\* A terminal Execution is never leased or run again.
THEOREM TerminalIsNeverReopened == Spec => TerminalNeverReopened
<1>1. Invariant /\ [Next]_vars => [StaysClosed]_vars
  BY ClosedStep DEF Invariant
<1> QED
  BY <1>1, InvariantHolds, PTL DEF Spec, TerminalNeverReopened

-----------------------------------------------------------------------------
(* ToolExecution implements InvocationContract: the refinement behind the    *)
(* ImplementsContract property, from the same invariant.                     *)

\* Before an unsafe Step is RUNNING for the first time nothing was sent.
LEMMA UnsentWhenUnissued ==
  ASSUME Invariant, UnsafeRisk, step \in {"PENDING", "READY"}
  PROVE  {n \in AttemptNos : sends[n] > 0} = {}
BY AttemptsAssumption DEF Invariant, TypeOK, CountInv, SendInv, AttemptNos

\* A READY Step has an invocation left in the contract.
LEMMA IssuedWithinLimit ==
  ASSUME Invariant, step = "READY"
  PROVE  attemptCount < (IF UnsafeRisk THEN 1 ELSE MaxAttempts)
BY AttemptsAssumption DEF Invariant, TypeOK, CountInv

\* An unsafe request on the wire belongs to the first and only Attempt.
LEMMA OnlyOneUnsafe ==
  ASSUME Invariant, UnsafeRisk, NEW n \in AttemptNos, sends[n] > 0
  PROVE  n = 1 /\ attemptCount = 1
BY AttemptsAssumption DEF Invariant, TypeOK, CountInv, SendInv, AttemptNos

\* Every step of the tool execution is a step of the contract or leaves its state alone.
LEMMA ContractStep ==
  ASSUME Invariant, [Next]_vars
  PROVE  [Contract!ContractNext]_(Contract!contractVars)
<1> USE DEF dbVars, queueVars, workerVars, remoteVars, vars
<1>0. kind' = kind /\ (UnsafeRisk' <=> UnsafeRisk)
  BY KindIsPinned
<1> USE <1>0
<1>1. CASE Stage
  BY <1>1 DEF Stage, Contract!contractVars
<1>2. CASE RelayPublish
  BY <1>2 DEF RelayPublish, Contract!contractVars
<1>3. CASE RelayCommit
  BY <1>3 DEF RelayCommit, Contract!contractVars
<1>4. CASE CancelImmediate
  <2>1. CASE step \in CallTerminal
    BY <1>4, <2>1 DEF CancelImmediate, Contract!contractVars
  <2>2. CASE step \notin CallTerminal
    <3>1. UnsafeRisk => {n \in AttemptNos : sends[n] > 0} \subseteq answered
      <4> SUFFICES ASSUME UnsafeRisk, NEW n \in AttemptNos, sends[n] > 0, n \notin answered
                   PROVE  FALSE
        OBVIOUS
      <4>1. attemptCount = 1 /\ step = "RUNNING"
        BY <2>2, OnlyOneUnsafe, UnsentWhenUnissued DEF Invariant, TypeOK, StepStatus
      <4>2. call[1] = "STARTED" /\ 1 \in AttemptNos
        BY <4>1, AttemptsAssumption DEF Invariant, CallInv, RunningHasCall, AttemptNos
      <4> QED
        BY <1>4, <4>2 DEF CancelImmediate, InFlightCall
    <3>2. Contract!Conclude("CANCELLED")
      BY <1>4, <2>2, <3>1 DEF CancelImmediate, CallTerminal, Contract!Conclude, Contract!Truthful
    <3> QED
      BY <3>2 DEF Contract!ContractNext, Contract!KnownVerdicts
  <2> QED
    BY <2>1, <2>2
<1>5. CASE CancelCooperative
  BY <1>5 DEF CancelCooperative, Contract!contractVars
<1>6. CASE Tick
  BY <1>6 DEF Tick, Contract!contractVars
<1>7. CASE PublishRecovery
  BY <1>7 DEF PublishRecovery, Contract!contractVars
<1>8. ASSUME NEW w \in Workers, Claim(w) PROVE [Contract!ContractNext]_(Contract!contractVars)
  BY <1>8 DEF Claim, Claimable, Invariant, CountInv, CallTerminal, Contract!contractVars
<1>9. ASSUME NEW w \in Workers, WaveStops(w) PROVE [Contract!ContractNext]_(Contract!contractVars)
  BY <1>9 DEF WaveStops, Leave, Contract!contractVars
<1>10. ASSUME NEW w \in Workers,
WaveReserves(w) PROVE [Contract!ContractNext]_(Contract!contractVars)
  BY <1>10 DEF WaveReserves, Contract!contractVars
<1>11. ASSUME NEW w \in Workers,
PrepareStale(w) PROVE [Contract!ContractNext]_(Contract!contractVars)
  BY <1>11 DEF PrepareStale, Leave, Contract!contractVars
<1>12. ASSUME NEW w \in Workers,
PrepareTimeout(w) PROVE [Contract!ContractNext]_(Contract!contractVars)
  <2>1. ~UnsafeRisk
    BY <1>12 DEF PrepareTimeout, MayPrepare, Invariant, CountInv, TypeOK
  <2>2. Contract!Conclude("TIMED_OUT")
    BY <1>12, <2>1 DEF PrepareTimeout, MayPrepare, remoteVars, CallTerminal, Contract!Conclude,
       Contract!Truthful
  <2> QED
    BY <2>2 DEF Contract!ContractNext, Contract!KnownVerdicts
<1>13. ASSUME NEW w \in Workers,
PrepareRefused(w) PROVE [Contract!ContractNext]_(Contract!contractVars)
  <2>1. UnsafeRisk => {n \in AttemptNos : sends[n] > 0} = {}
    BY <1>13, UnsentWhenUnissued DEF PrepareRefused, MayPrepare
  <2>2. Contract!Conclude("FAILED")
    BY <1>13, <2>1 DEF PrepareRefused, MayPrepare, remoteVars, CallTerminal, Contract!Conclude,
       Contract!Truthful
  <2> QED
    BY <2>2 DEF Contract!ContractNext, Contract!KnownVerdicts
<1>14. ASSUME NEW w \in Workers,
PreparePreSendFails(w) PROVE [Contract!ContractNext]_(Contract!contractVars)
  <2>1. UnsafeRisk => {n \in AttemptNos : sends[n] > 0} = {}
    BY <1>14, UnsentWhenUnissued DEF PreparePreSendFails, MayPrepare
  <2>2. attemptCount < (IF UnsafeRisk THEN 1 ELSE MaxAttempts)
    BY <1>14, IssuedWithinLimit DEF PreparePreSendFails, MayPrepare
  <2>3. Contract!Refuse
    BY <1>14, <2>1, <2>2 DEF PreparePreSendFails, MayPrepare, remoteVars, CallTerminal,
       Contract!Refuse, Contract!Truthful
  <2> QED
    BY <2>3 DEF Contract!ContractNext
<1>15. ASSUME NEW w \in Workers,
PrepareStarts(w) PROVE [Contract!ContractNext]_(Contract!contractVars)
  <2>1. attemptCount < (IF UnsafeRisk THEN 1 ELSE MaxAttempts)
    BY <1>15, IssuedWithinLimit DEF PrepareStarts, MayPrepare
  <2>2. Contract!Issue
    BY <1>15, <2>1 DEF PrepareStarts, MayPrepare, remoteVars, CallTerminal, Contract!Issue
  <2> QED
    BY <2>2 DEF Contract!ContractNext
<1>16. ASSUME NEW w \in Workers,
SecretsFail(w) PROVE [Contract!ContractNext]_(Contract!contractVars)
  BY <1>16 DEF SecretsFail, Contract!contractVars
<1>17. ASSUME NEW w \in Workers, GateStale(w) PROVE [Contract!ContractNext]_(Contract!contractVars)
  BY <1>17 DEF GateStale, Leave, Contract!contractVars
<1>18. ASSUME NEW w \in Workers,
GateCancels(w) PROVE [Contract!ContractNext]_(Contract!contractVars)
  <2>1. cur[w] = attemptCount /\ step = "RUNNING" /\ sends[cur[w]] = 0
    BY <1>18 DEF GateCancels, OwnsLease, Invariant, CallInv, OwnerPrepared, InTransit, SendInv
  <2>2. UnsafeRisk => {n \in AttemptNos : sends[n] > 0} = {}
    BY <2>1, OnlyOneUnsafe
  <2>3. Contract!Conclude("CANCELLED")
    BY <1>18, <2>1, <2>2 DEF GateCancels, remoteVars, CallTerminal, Contract!Conclude,
       Contract!Truthful
  <2> QED
    BY <2>3 DEF Contract!ContractNext, Contract!KnownVerdicts
<1>19. ASSUME NEW w \in Workers, GateDrifts(w) PROVE [Contract!ContractNext]_(Contract!contractVars)
  BY <1>19 DEF GateDrifts, Contract!contractVars
<1>20. ASSUME NEW w \in Workers, GatePasses(w) PROVE [Contract!ContractNext]_(Contract!contractVars)
  BY <1>20 DEF GatePasses, Contract!contractVars
<1>21. ASSUME NEW w \in Workers, Send(w) PROVE [Contract!ContractNext]_(Contract!contractVars)
  <2>1. /\ cur[w] \in AttemptNos /\ cur[w] \in 1 .. attemptCount
        /\ sends[cur[w]] = 0
        /\ sends \in [AttemptNos -> Nat]
    BY <1>21, AttemptsAssumption DEF Send, Invariant, TypeOK, CountInv, SendInv, InTransit,
       AttemptNos
  <2>2. cur[w] \in 1 .. (IF UnsafeRisk THEN 1 ELSE MaxAttempts)
    BY <2>1, AttemptsAssumption DEF Invariant, TypeOK, CountInv
  <2>3. UnsafeRisk => step \notin CallTerminal \/ step = "UNKNOWN_OUTCOME"
    BY <1>21, <2>1 DEF Send, Invariant, OutcomeInv, CallInv, OnlyNewestStarted, VerdictInv,
       CallTerminal
  <2>4. {n \in AttemptNos : sends'[n] > 0} = {n \in AttemptNos : sends[n] > 0} \union {cur[w]}
    BY <1>21, <2>1 DEF Send
  <2> DEFINE n == cur[w]
  <2>5. Contract!Transmit(n)
    BY <1>21, <2>1, <2>3, <2>4 DEF Send, dbVars, CallTerminal, Contract!Transmit
  <2>6. n \in 1 .. (IF UnsafeRisk THEN 1 ELSE MaxAttempts)
    BY <2>2
  <2> HIDE DEF n
  <2> QED
    BY <2>5, <2>6 DEF Contract!ContractNext, Contract!Transmit
<1>22. ASSUME NEW w \in Workers, ConnectFails(w) PROVE [Contract!ContractNext]_(Contract!contractVars)
  BY <1>22 DEF ConnectFails, Contract!contractVars
<1>23. ASSUME NEW w \in Workers, RemoteEnds(w) PROVE [Contract!ContractNext]_(Contract!contractVars)
  <2>1. /\ cur[w] \in AttemptNos
        /\ sends[cur[w]] = 1
        /\ cur[w] \in 1 .. (IF UnsafeRisk THEN 1 ELSE MaxAttempts)
    BY <1>23, AttemptsAssumption DEF RemoteEnds, Invariant, TypeOK, CountInv, SendInv, InTransit,
       AttemptNos
  <2>2. UNCHANGED <<attemptCount, step, sends>>
    BY <1>23 DEF RemoteEnds, dbVars
  <2>3. cur[w] \in {n \in AttemptNos : sends[n] > 0}
    BY <2>1
  <2>4. cur[w] \notin answered \union dropped
    BY <1>23 DEF RemoteEnds, Invariant, SendInv
  <2>5. CASE answered' = answered /\ dropped' = dropped
    BY <2>2, <2>5 DEF Contract!contractVars
  <2>6. CASE answered' # answered
    <3>1. Contract!Answer(cur[w])
      BY <1>23, <2>2, <2>3, <2>4, <2>6 DEF RemoteEnds, Replies, Contract!Answer
    <3> QED
      BY <2>1, <3>1 DEF Contract!ContractNext
  <2>7. CASE dropped' # dropped
    <3>1. Contract!Drop(cur[w])
      BY <1>23, <2>2, <2>3, <2>4, <2>7 DEF RemoteEnds, Replies, Contract!Drop
    <3> QED
      BY <2>1, <3>1 DEF Contract!ContractNext
  <2> QED
    BY <2>5, <2>6, <2>7
<1>24. ASSUME NEW w \in Workers, FinalizeStale(w) PROVE [Contract!ContractNext]_(Contract!contractVars)
  BY <1>24 DEF FinalizeStale, Leave, Contract!contractVars
<1>25. ASSUME NEW w \in Workers, FinalizeRetries(w) PROVE [Contract!ContractNext]_(Contract!contractVars)
  <2>1. step = "RUNNING"
    BY <1>25 DEF FinalizeRetries, OwnsLease, Invariant, CallInv, OwnerPrepared, InTransit
  <2> QED
    BY <1>25, <2>1 DEF FinalizeRetries, remoteVars, CallTerminal, Contract!contractVars
<1>26. ASSUME NEW w \in Workers, FinalizeTerminal(w) PROVE [Contract!ContractNext]_(Contract!contractVars)
  <2>1. cur[w] = attemptCount /\ step = "RUNNING" /\ cur[w] \in AttemptNos
    BY <1>26, AttemptsAssumption DEF FinalizeTerminal, OwnsLease, Invariant, TypeOK, CountInv,
       CallInv,
       OwnerPrepared, RunningHasCall, InTransit, AttemptNos
  <2>2. TerminalOf(out[w], kind.risk) = "SUCCEEDED" => attemptCount \in answered
    BY <1>26, <2>1 DEF FinalizeTerminal, Invariant, OutcomeInv, TerminalOf, ClassifyMcpFailure,
       Replies
  <2>3. UnsafeRisk /\ TerminalOf(out[w], kind.risk) # "UNKNOWN_OUTCOME"
          => {n \in AttemptNos : sends[n] > 0} \subseteq
               (answered \union IF TerminalOf(out[w], kind.risk) = "FAILED" THEN dropped ELSE {})
    <3> SUFFICES ASSUME UnsafeRisk, NEW n \in AttemptNos, sends[n] > 0, n \notin answered,
                        TerminalOf(out[w], kind.risk) # "UNKNOWN_OUTCOME"
                 PROVE  n \in dropped /\ TerminalOf(out[w], kind.risk) = "FAILED"
      OBVIOUS
    <3>1. n = cur[w]
      BY <2>1, OnlyOneUnsafe
    <3>2. out[w] \in {"READ_TIMEOUT", "READ_ERROR", "GARBLED", "DISCONNECT"}
      BY <1>26, <3>1 DEF FinalizeTerminal, Invariant, OutcomeInv, Outcomes, TransportErrors
    <3>3. ~SafeRisk(kind.risk)
      BY DEF SafeRisk, SafeRetryRisks, UnsafeRisk
    <3>4. out[w] = "DISCONNECT"
      BY <3>2, <3>3 DEF TerminalOf, ClassifyMcpFailure
    <3> QED
      BY <1>26, <3>1, <3>4 DEF FinalizeTerminal, Invariant, OutcomeInv, TerminalOf,
         ClassifyMcpFailure
  <2>4. TerminalOf(out[w], kind.risk) \in CallTerminal
    BY TerminalTypes
  <2>5. Contract!Conclude(TerminalOf(out[w], kind.risk))
    BY <1>26, <2>1, <2>2, <2>3, <2>4 DEF FinalizeTerminal, remoteVars, CallTerminal,
       Contract!Conclude, Contract!Truthful, Contract!KnownVerdicts
  <2> QED
    BY <2>4, <2>5 DEF Contract!ContractNext, Contract!KnownVerdicts, CallTerminal
<1>27. ASSUME NEW w \in Workers, SettleStops(w) PROVE [Contract!ContractNext]_(Contract!contractVars)
  BY <1>27 DEF SettleStops, Contract!contractVars
<1>28. ASSUME NEW w \in Workers, SettleFenced(w) PROVE [Contract!ContractNext]_(Contract!contractVars)
  BY <1>28 DEF SettleFenced, Contract!contractVars
<1>29. ASSUME NEW w \in Workers, SettleSucceeds(w) PROVE [Contract!ContractNext]_(Contract!contractVars)
  BY <1>29 DEF SettleSucceeds, Contract!contractVars
<1>30. ASSUME NEW w \in Workers, Renew(w) PROVE [Contract!ContractNext]_(Contract!contractVars)
  BY <1>30 DEF Renew, Contract!contractVars
<1>31. ASSUME NEW w \in Workers, Crash(w) PROVE [Contract!ContractNext]_(Contract!contractVars)
  BY <1>31 DEF Crash, Contract!contractVars
<1>32. ASSUME NEW w \in Workers, RecoverCancel(w) PROVE [Contract!ContractNext]_(Contract!contractVars)
  <2>1. step = "RUNNING"
    BY <1>32 DEF RecoverCancel, MayRecover, Invariant, CallInv, RunningHasCall
  <2>2. Contract!Conclude("UNKNOWN_OUTCOME")
    BY <1>32, <2>1 DEF RecoverCancel, remoteVars, CallTerminal, Contract!Conclude,
       Contract!Truthful, Contract!KnownVerdicts
  <2> QED
    BY <2>2 DEF Contract!ContractNext
<1>33. ASSUME NEW w \in Workers, RecoverReady(w) PROVE [Contract!ContractNext]_(Contract!contractVars)
  BY <1>33 DEF RecoverReady, Contract!contractVars
<1>34. ASSUME NEW w \in Workers, RecoverSafeRetry(w) PROVE [Contract!ContractNext]_(Contract!contractVars)
  BY <1>34 DEF RecoverSafeRetry, CallTerminal, Contract!contractVars
<1>35. ASSUME NEW w \in Workers, RecoverExhausted(w) PROVE [Contract!ContractNext]_(Contract!contractVars)
  <2>1. ~UnsafeRisk
    BY <1>35 DEF RecoverExhausted, SafeRisk, SafeRetryRisks, UnsafeRisk
  <2>2. Contract!Conclude("FAILED")
    BY <1>35, <2>1 DEF RecoverExhausted, remoteVars, CallTerminal, Contract!Conclude,
       Contract!Truthful
  <2> QED
    BY <2>2 DEF Contract!ContractNext, Contract!KnownVerdicts
<1>36. ASSUME NEW w \in Workers, RecoverUnknown(w) PROVE [Contract!ContractNext]_(Contract!contractVars)
  <2>1. step = "RUNNING"
    BY <1>36 DEF RecoverUnknown
  <2>2. Contract!Conclude("UNKNOWN_OUTCOME")
    BY <1>36, <2>1 DEF RecoverUnknown, remoteVars, CallTerminal, Contract!Conclude,
       Contract!Truthful, Contract!KnownVerdicts
  <2> QED
    BY <2>2 DEF Contract!ContractNext
<1>37. ASSUME NEW w \in Workers, RecoverInconsistent(w) PROVE [Contract!ContractNext]_(Contract!contractVars)
  <2>1. CASE InFlightCall
    <3>1. step = "RUNNING"
      BY <2>1 DEF InFlightCall, Invariant, CallInv, OnlyNewestStarted
    <3>2. Contract!Conclude("UNKNOWN_OUTCOME")
      BY <1>37, <2>1, <3>1 DEF RecoverInconsistent, remoteVars, CallTerminal,
         Contract!Conclude, Contract!Truthful, Contract!KnownVerdicts
    <3> QED
      BY <3>2 DEF Contract!ContractNext
  <2>2. CASE ~InFlightCall /\ step \in CallTerminal
    BY <1>37, <2>2 DEF RecoverInconsistent, remoteVars, Contract!contractVars
  <2>3. CASE ~InFlightCall /\ step \notin CallTerminal
    <3>1. step \in {"PENDING", "READY"}
      BY <2>3, AttemptsAssumption DEF InFlightCall, Invariant, TypeOK, StepStatus, CallInv,
         RunningHasCall, AttemptNos
    <3>2. UnsafeRisk => {n \in AttemptNos : sends[n] > 0} = {}
      BY <3>1, UnsentWhenUnissued
    <3>3. Contract!Conclude("FAILED")
      BY <1>37, <2>3, <3>2 DEF RecoverInconsistent, remoteVars, CallTerminal, Contract!Conclude,
         Contract!Truthful
    <3> QED
      BY <3>3 DEF Contract!ContractNext, Contract!KnownVerdicts
  <2> QED
    BY <2>1, <2>2, <2>3
<1>38. CASE UNCHANGED vars
  BY <1>38 DEF Contract!contractVars
<1> QED
  BY <1>1, <1>2, <1>3, <1>4, <1>5, <1>6, <1>7, <1>8, <1>9, <1>10, <1>11, <1>12, <1>13, <1>14,
     <1>15, <1>16,
     <1>17, <1>18, <1>19, <1>20, <1>21, <1>22, <1>23, <1>24, <1>25, <1>26, <1>27, <1>28, <1>29,
     <1>30, <1>31, <1>32, <1>33, <1>34, <1>35, <1>36, <1>37, <1>38
  DEF Next, TaskStep, Prepare, Invoke, Finalize, Settle, Recover

\* The tool execution implements the invocation contract for every number of workers,
\* attempts, lease ticks and faults, and for Executions of every source and risk class.
THEOREM ContractImplemented == Spec => ImplementsContract
<1>1. Init => Contract!ContractInit
  BY AttemptsAssumption DEF Init, Contract!ContractInit, CallTerminal
<1>2. Invariant /\ [Next]_vars => [Contract!ContractNext]_(Contract!contractVars)
  BY ContractStep
<1> QED
  BY <1>1, <1>2, InvariantHolds, PTL DEF Spec, ImplementsContract, Contract!ContractSpec

=============================================================================
