--------------------------- MODULE InputWaitProofs ---------------------------
(***************************************************************************)
(* Proofs about InputWait, for any number of workers, rounds, Attempts and *)
(* faults.  The argument: a lease token belongs to one task, so the rows   *)
(* cannot move under a task that passes the fence; rounds and Attempts are *)
(* used in order, so the request a round opens and the answer a call       *)
(* carries are new.  Each part of the invariant has one lemma with one     *)
(* step per action.                                                        *)
(***************************************************************************)
EXTENDS InputWait, TLAPS

(* The inductive invariant, part by part.                                  *)

\* Tokens are handed out in order; every task that runs was given one, and only a
\* set token is unexpired.
TokensFresh ==
  /\ leaseToken < nextToken
  /\ \A w \in Workers : held[w] < nextToken
  /\ \A w \in Workers : pc[w] # "idle" => held[w] # 0
  /\ leaseLeft = 1 => leaseToken # 0

\* A lease token is that of one running task.
SingleHolder ==
  \A v, w \in Workers : pc[v] # "idle" /\ pc[w] # "idle" /\ held[v] = held[w] => v = w

\* The lease, the Execution, its Step, the newest Attempt and its last ToolCall
\* agree.  A Step that is RUNNING without a call in flight is a resumed one.
RowsAgree ==
  /\ leaseToken # 0 <=> status \in {"RUNNING", "CANCEL_REQUESTED"}
  /\ status = "WAITING_INPUT" <=> step = "WAITING_INPUT"
  /\ status = "CANCEL_REQUESTED" => call = "STARTED"
  /\ call = "STARTED" => step = "RUNNING"
  /\ step = "RUNNING" =>
       /\ status \in {"RUNNING", "CANCEL_REQUESTED"}
       /\ attStatus = "STARTED"
       /\ attempt > 0
       /\ call # "STARTED" => call = "NONE" /\ rounds > 0
  /\ step = "READY" => status = "RUNNING" /\ attempt < MaxAttempts

\* What a task knows of the rows: for ever that it has ended the Step, and while its
\* token is the lease's (expired or not) whether a call is in flight.
TaskPlace ==
  \A w \in Workers :
    /\ pc[w] \in {"stopped", "succeeded"} => step \in Terminal
    /\ held[w] = leaseToken =>
         /\ pc[w] = "prepare" => step \in {"READY", "RUNNING"} /\ call # "STARTED"
         /\ pc[w] \in {"gate", "remote", "refused"} => call = "STARTED"

\* Only the last round of a waiting Step is open; it is that, or answered with its
\* resume event.
WaitShape ==
  /\ \A r \in Requests : requests[r] = "OPEN" => step = "WAITING_INPUT" /\ r = <<attempt, rounds>>
  /\ step = "WAITING_INPUT" =>
       /\ attempt > 0 /\ rounds > 0
       /\ attStatus = "STARTED" /\ call = "NONE"
       /\ \/ requests[<<attempt, rounds>>] = "OPEN"
          \/ requests[<<attempt, rounds>>] = "ANSWERED" /\ events[<<attempt, rounds>>] # "NONE"

\* A Step that runs after a round has the answer to it.
AnswerInHand == step = "RUNNING" /\ rounds > 0 => requests[<<attempt, rounds>>] = "ANSWERED"

\* The rounds an Execution has come to, in the order of Attempts and rounds.
Used(a, n) == a < attempt \/ (a = attempt /\ n <= rounds)

\* Until the Step ends, no request is ahead of them.
RequestsUsed ==
  step \notin Terminal =>
    \A r \in Requests : requests[r] # "NONE" => Used(r[1], r[2])

\* No call is, and the call of the current round has not left before the gate.
SendingsUsed ==
  /\ \A k \in Sendings : sent[k] > 0 => Used(k[1], k[2])
  /\ step = "WAITING_INPUT" => sent[<<attempt, rounds>>] = 0
  /\ step = "RUNNING" /\ call # "STARTED" => sent[<<attempt, rounds>>] = 0
  /\ \A w \in Workers : pc[w] = "gate" /\ held[w] = leaseToken => sent[<<attempt, rounds>>] = 0

\* A step leaves an ended Step and an ended request as they are.
EndedStays ==
  /\ step \in Terminal => step' = step
  /\ \A r \in Requests :
       requests[r] \in {"ANSWERED", "REJECTED", "EXPIRED"} => requests'[r] = requests[r]

\* The inductive invariant.
InputInv ==
  /\ InputWaitTypeOK
  /\ TokensFresh
  /\ SingleHolder
  /\ RowsAgree
  /\ TaskPlace
  /\ WaitShape
  /\ AnswerInHand
  /\ RequestsUsed
  /\ SendingsUsed
  /\ AnswerSentOnce

-----------------------------------------------------------------------------
(* Lemmas about the model's operators.                                     *)

\* A request is the pair of its Attempt and its round.
LEMMA RequestPairs ==
  /\ \A r \in Requests : /\ r = <<r[1], r[2]>>
                         /\ r[1] \in 1 .. MaxAttempts
                         /\ r[2] \in 1 .. MaxRounds + 1
  /\ \A a \in 1 .. MaxAttempts, n \in 1 .. MaxRounds + 1 : <<a, n>> \in Requests
BY DEF Requests, Attempts

\* So is a sending, whose round may be 0; with a round it answers a request.
LEMMA SendingPairs ==
  /\ \A k \in Sendings : /\ k = <<k[1], k[2]>>
                         /\ k[1] \in 1 .. MaxAttempts
                         /\ k[2] \in 0 .. MaxRounds + 1
                         /\ k[2] > 0 => k \in Requests
  /\ \A a \in 1 .. MaxAttempts, n \in 0 .. MaxRounds + 1 : <<a, n>> \in Sendings
  /\ Requests \subseteq Sendings
BY RoundsAssumption DEF Requests, Sendings, Attempts

-----------------------------------------------------------------------------
(* Every step keeps each part of the invariant.                            *)

\* Every step keeps the types; a new Attempt needs a READY Step, which has one
\* left, and a new round is below the limit.
LEMMA TypeStep ==
  ASSUME InputWaitTypeOK, RowsAgree, [Next]_vars
  PROVE  InputWaitTypeOK'
<1> USE RoundsAssumption, AttemptsAssumption, FaultsAssumption
<1> USE DEF InputWaitTypeOK, RowsAgree, ExecutionStatus, TerminalExecution, Terminal, callVars,
    leaseVars, inputVars, clockVars, vars
<1>1. ASSUME NEW w \in Workers, PrepareStale(w) PROVE InputWaitTypeOK'
  BY <1>1 DEF PrepareStale, OwnsLease, Leave, Goto
<1>2. ASSUME NEW w \in Workers, PrepareTimesOut(w) PROVE InputWaitTypeOK'
  BY <1>2 DEF PrepareTimesOut, MayPrepare, OwnsLease, InFlight, EndCall, Goto
<1>3. ASSUME NEW w \in Workers, PrepareRefused(w) PROVE InputWaitTypeOK'
  BY <1>3 DEF PrepareRefused, MayPrepare, OwnsLease, InFlight, EndCall, ClearLease, Goto
<1>4. ASSUME NEW w \in Workers, PrepareStarts(w) PROVE InputWaitTypeOK'
  BY <1>4 DEF PrepareStarts, MayPrepare, OwnsLease, Goto
<1>5. ASSUME NEW w \in Workers, PrepareReplays(w) PROVE InputWaitTypeOK'
  BY <1>5 DEF PrepareReplays, MayPrepare, OwnsLease, InFlight, AnsweredResume, Goto
<1>6. ASSUME NEW w \in Workers, GateStale(w) PROVE InputWaitTypeOK'
  BY <1>6 DEF GateStale, Leave, Goto
<1>7. ASSUME NEW w \in Workers, GateCancels(w) PROVE InputWaitTypeOK'
  BY <1>7 DEF GateCancels, OwnsLease, EndCall, ClearLease, Goto
<1>8. ASSUME NEW w \in Workers, GateRefuses(w) PROVE InputWaitTypeOK'
  BY <1>8 DEF GateRefuses, OwnsLease, Goto
<1>9. ASSUME NEW w \in Workers, GatePasses(w) PROVE InputWaitTypeOK'
  <2>1. PICK k \in Carried(rounds) : sent' = [sent EXCEPT ![k] = @ + 1]
    BY <1>9 DEF GatePasses
  <2>2. sent' = [x \in Sendings |-> IF x = k THEN sent[x] + 1 ELSE sent[x]]
    BY <2>1
  <2>3. sent' \in [Sendings -> Nat]
    BY <2>2
  <2> QED
    BY <1>9, <2>3 DEF GatePasses, Goto
<1>10. ASSUME NEW w \in Workers, FinalizeStale(w) PROVE InputWaitTypeOK'
  BY <1>10 DEF FinalizeStale, Leave, Goto
<1>11. ASSUME NEW w \in Workers, FinalizeFatal(w) PROVE InputWaitTypeOK'
  BY <1>11 DEF FinalizeFatal, OwnsLease, EndCall, ClearLease, Goto
<1>12. ASSUME NEW w \in Workers, NEW o \in {"SUCCEEDED", "FAILED", "TIMED_OUT"}, FinalizeKnown(w, o)
      PROVE  InputWaitTypeOK'
  BY <1>12 DEF FinalizeKnown, OwnsLease, EndCall, ClearLease, Goto
<1>13. ASSUME NEW w \in Workers, FinalizeRetries(w) PROVE InputWaitTypeOK'
  BY <1>13 DEF FinalizeRetries, OwnsLease, Goto
<1>14. ASSUME NEW w \in Workers, InputRefused(w) PROVE InputWaitTypeOK'
  BY <1>14 DEF InputRefused, InputRequired, OwnsLease, EndCall, ClearLease, Goto
<1>15. ASSUME NEW w \in Workers, InputCancelled(w) PROVE InputWaitTypeOK'
  BY <1>15 DEF InputCancelled, InputRequired, OwnsLease, ClearLease, Goto
<1>16. ASSUME NEW w \in Workers, InputTooLate(w) PROVE InputWaitTypeOK'
  BY <1>16 DEF InputTooLate, InputRequired, OwnsLease, Goto
<1>17. ASSUME NEW w \in Workers, InputOpens(w) PROVE InputWaitTypeOK'
  <2>1. rounds + 1 \in 0 .. MaxRounds
    BY <1>17 DEF InputOpens
  <2>2. requests' \in [Requests -> {"NONE", "OPEN", "ANSWERED", "REJECTED", "EXPIRED"}]
    BY <1>17 DEF InputOpens
  <2>3. pc' \in [Workers -> {"idle", "prepare", "gate", "remote", "refused", "succeeded", "stopped"}]
    BY <1>17 DEF InputOpens, Goto
  <2>4. rounds' = rounds + 1 /\ call' = "NONE" /\ step' = "WAITING_INPUT" /\ status' = "WAITING_INPUT"
    BY <1>17 DEF InputOpens
  <2>5. leaseToken' = 0 /\ leaseLeft' = 0 /\ UNCHANGED <<nextToken, readOnly, attempt, attStatus, events, clockVars, held, sent, faults>>
    BY <1>17 DEF InputOpens, ClearLease
  <2> QED
    BY <2>1, <2>2, <2>3, <2>4, <2>5
<1>18. ASSUME NEW w \in Workers, SettleStops(w) PROVE InputWaitTypeOK'
  BY <1>18 DEF SettleStops, ClearLease, Goto
<1>19. ASSUME NEW w \in Workers, SettleFenced(w) PROVE InputWaitTypeOK'
  BY <1>19 DEF SettleFenced, Leave, Goto
<1>20. ASSUME NEW w \in Workers, SettleSucceeds(w) PROVE InputWaitTypeOK'
  BY <1>20 DEF SettleSucceeds, OwnsLease, ClearLease, Goto
<1>21. ASSUME NEW w \in Workers, NEW r \in Requests, ResumeClaim(w, r) PROVE InputWaitTypeOK'
  BY <1>21 DEF ResumeClaim, MayResume, ResumesLastRound, InFlight, AssignLease, Goto
<1>22. ASSUME NEW w \in Workers, NEW r \in Requests, ResumeFails(w, r) PROVE InputWaitTypeOK'
  BY <1>22 DEF ResumeFails, MayResume, OpenRequests, ClearLease
<1>23. ASSUME NEW w \in Workers, RecoverTakesOver(w) PROVE InputWaitTypeOK'
  BY <1>23 DEF RecoverTakesOver, MayRecover, RoundEnded, InFlight, AssignLease, Goto
<1>24. ASSUME NEW w \in Workers, RecoverExhausted(w) PROVE InputWaitTypeOK'
  BY <1>24 DEF RecoverExhausted, MayRecover, RoundEnded, InFlight, EndCall, ClearLease
<1>25. ASSUME NEW w \in Workers, RecoverUnknown(w) PROVE InputWaitTypeOK'
  BY <1>25 DEF RecoverUnknown, MayRecover, InFlight, EndCall, ClearLease
<1>26. ASSUME NEW w \in Workers, RecoverInconsistent(w) PROVE InputWaitTypeOK'
  BY <1>26 DEF RecoverInconsistent, MayRecover, RoundEnded, InFlight, ClearLease
<1>27. ASSUME NEW w \in Workers, Crash(w) PROVE InputWaitTypeOK'
  BY <1>27 DEF Crash, Goto
<1>28. ASSUME NEW r \in Requests, Answer(r) PROVE InputWaitTypeOK'
  BY <1>28 DEF Answer, DurableWait, OpenRequests
<1>29. ASSUME NEW r \in Requests, Reject(r) PROVE InputWaitTypeOK'
  BY <1>29 DEF Reject, DurableWait, OpenRequests, ClearLease
<1>30. ASSUME NEW r \in Requests, RelayPublish(r) PROVE InputWaitTypeOK'
  BY <1>30 DEF RelayPublish
<1>31. ASSUME NEW r \in Requests, RelayCommit(r) PROVE InputWaitTypeOK'
  BY <1>31 DEF RelayCommit
<1>32. CASE CancelImmediate
  BY <1>32 DEF CancelImmediate, InFlight, RejectOpen, ClearLease
<1>33. CASE CancelCooperative
  BY <1>33 DEF CancelCooperative, InFlight, RejectOpen
<1>34. CASE BudgetRunsOut
  BY <1>34 DEF BudgetRunsOut
<1>35. CASE PolicyDrifts
  BY <1>35 DEF PolicyDrifts
<1>36. CASE LeaseLapses
  BY <1>36 DEF LeaseLapses
<1>37. CASE UNCHANGED vars
  BY <1>37
<1> HIDE DEF InputWaitTypeOK
<1> QED
  BY <1>1, <1>2, <1>3, <1>4, <1>5, <1>6, <1>7, <1>8, <1>9, <1>10, <1>11, <1>12, <1>13, <1>14,
     <1>15, <1>16, <1>17, <1>18, <1>19, <1>20, <1>21, <1>22, <1>23, <1>24, <1>25, <1>26, <1>27,
     <1>28, <1>29, <1>30, <1>31, <1>32, <1>33, <1>34, <1>35, <1>36, <1>37
  DEF Next, TaskStep, Prepare, Gate, Finalize, Settle, Resume, Recover, User, Relay

\* Lease tokens are never reused.
LEMMA TokensStep ==
  ASSUME InputWaitTypeOK, TokensFresh, [Next]_vars
  PROVE  TokensFresh'
<1> USE DEF InputWaitTypeOK, TokensFresh, callVars, leaseVars, inputVars, clockVars, vars
<1>1. ASSUME NEW w \in Workers, PrepareStale(w) PROVE TokensFresh'
  BY <1>1 DEF PrepareStale, OwnsLease, Leave, Goto
<1>2. ASSUME NEW w \in Workers, PrepareTimesOut(w) PROVE TokensFresh'
  BY <1>2 DEF PrepareTimesOut, MayPrepare, OwnsLease, InFlight, EndCall, Goto
<1>3. ASSUME NEW w \in Workers, PrepareRefused(w) PROVE TokensFresh'
  BY <1>3 DEF PrepareRefused, MayPrepare, OwnsLease, InFlight, EndCall, ClearLease, Goto
<1>4. ASSUME NEW w \in Workers, PrepareStarts(w) PROVE TokensFresh'
  BY <1>4 DEF PrepareStarts, MayPrepare, OwnsLease, Goto
<1>5. ASSUME NEW w \in Workers, PrepareReplays(w) PROVE TokensFresh'
  BY <1>5 DEF PrepareReplays, MayPrepare, OwnsLease, InFlight, AnsweredResume, Goto
<1>6. ASSUME NEW w \in Workers, GateStale(w) PROVE TokensFresh'
  BY <1>6 DEF GateStale, Leave, Goto
<1>7. ASSUME NEW w \in Workers, GateCancels(w) PROVE TokensFresh'
  BY <1>7 DEF GateCancels, OwnsLease, EndCall, ClearLease, Goto
<1>8. ASSUME NEW w \in Workers, GateRefuses(w) PROVE TokensFresh'
  BY <1>8 DEF GateRefuses, OwnsLease, Goto
<1>9. ASSUME NEW w \in Workers, GatePasses(w) PROVE TokensFresh'
  BY <1>9 DEF GatePasses, OwnsLease, Carried, AnsweredResume, Goto
<1>10. ASSUME NEW w \in Workers, FinalizeStale(w) PROVE TokensFresh'
  BY <1>10 DEF FinalizeStale, Leave, Goto
<1>11. ASSUME NEW w \in Workers, FinalizeFatal(w) PROVE TokensFresh'
  BY <1>11 DEF FinalizeFatal, OwnsLease, EndCall, ClearLease, Goto
<1>12. ASSUME NEW w \in Workers, NEW o \in {"SUCCEEDED", "FAILED", "TIMED_OUT"}, FinalizeKnown(w, o)
      PROVE  TokensFresh'
  BY <1>12 DEF FinalizeKnown, OwnsLease, EndCall, ClearLease, Goto
<1>13. ASSUME NEW w \in Workers, FinalizeRetries(w) PROVE TokensFresh'
  BY <1>13 DEF FinalizeRetries, OwnsLease, Goto
<1>14. ASSUME NEW w \in Workers, InputRefused(w) PROVE TokensFresh'
  BY <1>14 DEF InputRefused, InputRequired, OwnsLease, EndCall, ClearLease, Goto
<1>15. ASSUME NEW w \in Workers, InputCancelled(w) PROVE TokensFresh'
  BY <1>15 DEF InputCancelled, InputRequired, OwnsLease, ClearLease, Goto
<1>16. ASSUME NEW w \in Workers, InputTooLate(w) PROVE TokensFresh'
  BY <1>16 DEF InputTooLate, InputRequired, OwnsLease, Goto
<1>17. ASSUME NEW w \in Workers, InputOpens(w) PROVE TokensFresh'
  BY <1>17 DEF InputOpens, InputRequired, OwnsLease, RoundNo, OpenRequests, ClearLease, Goto
<1>18. ASSUME NEW w \in Workers, SettleStops(w) PROVE TokensFresh'
  BY <1>18 DEF SettleStops, ClearLease, Goto
<1>19. ASSUME NEW w \in Workers, SettleFenced(w) PROVE TokensFresh'
  BY <1>19 DEF SettleFenced, Leave, Goto
<1>20. ASSUME NEW w \in Workers, SettleSucceeds(w) PROVE TokensFresh'
  BY <1>20 DEF SettleSucceeds, OwnsLease, ClearLease, Goto
<1>21. ASSUME NEW w \in Workers, NEW r \in Requests, ResumeClaim(w, r) PROVE TokensFresh'
  BY <1>21 DEF ResumeClaim, MayResume, ResumesLastRound, InFlight, AssignLease, Goto
<1>22. ASSUME NEW w \in Workers, NEW r \in Requests, ResumeFails(w, r) PROVE TokensFresh'
  BY <1>22 DEF ResumeFails, MayResume, OpenRequests, ClearLease
<1>23. ASSUME NEW w \in Workers, RecoverTakesOver(w) PROVE TokensFresh'
  BY <1>23 DEF RecoverTakesOver, MayRecover, RoundEnded, InFlight, AssignLease, Goto
<1>24. ASSUME NEW w \in Workers, RecoverExhausted(w) PROVE TokensFresh'
  BY <1>24 DEF RecoverExhausted, MayRecover, RoundEnded, InFlight, EndCall, ClearLease
<1>25. ASSUME NEW w \in Workers, RecoverUnknown(w) PROVE TokensFresh'
  BY <1>25 DEF RecoverUnknown, MayRecover, InFlight, EndCall, ClearLease
<1>26. ASSUME NEW w \in Workers, RecoverInconsistent(w) PROVE TokensFresh'
  BY <1>26 DEF RecoverInconsistent, MayRecover, RoundEnded, InFlight, ClearLease
<1>27. ASSUME NEW w \in Workers, Crash(w) PROVE TokensFresh'
  BY <1>27 DEF Crash, Goto
<1>28. ASSUME NEW r \in Requests, Answer(r) PROVE TokensFresh'
  BY <1>28 DEF Answer, DurableWait, OpenRequests
<1>29. ASSUME NEW r \in Requests, Reject(r) PROVE TokensFresh'
  BY <1>29 DEF Reject, DurableWait, OpenRequests, ClearLease
<1>30. ASSUME NEW r \in Requests, RelayPublish(r) PROVE TokensFresh'
  BY <1>30 DEF RelayPublish
<1>31. ASSUME NEW r \in Requests, RelayCommit(r) PROVE TokensFresh'
  BY <1>31 DEF RelayCommit
<1>32. CASE CancelImmediate
  BY <1>32 DEF CancelImmediate, InFlight, RejectOpen, ClearLease
<1>33. CASE CancelCooperative
  BY <1>33 DEF CancelCooperative, InFlight, RejectOpen
<1>34. CASE BudgetRunsOut
  BY <1>34 DEF BudgetRunsOut
<1>35. CASE PolicyDrifts
  BY <1>35 DEF PolicyDrifts
<1>36. CASE LeaseLapses
  BY <1>36 DEF LeaseLapses
<1>37. CASE UNCHANGED vars
  BY <1>37
<1> HIDE DEF TokensFresh
<1> QED
  BY <1>1, <1>2, <1>3, <1>4, <1>5, <1>6, <1>7, <1>8, <1>9, <1>10, <1>11, <1>12, <1>13, <1>14,
     <1>15, <1>16, <1>17, <1>18, <1>19, <1>20, <1>21, <1>22, <1>23, <1>24, <1>25, <1>26, <1>27,
     <1>28, <1>29, <1>30, <1>31, <1>32, <1>33, <1>34, <1>35, <1>36, <1>37
  DEF Next, TaskStep, Prepare, Gate, Finalize, Settle, Resume, Recover, User, Relay

\* No two tasks run under the same lease token.
LEMMA HolderStep ==
  ASSUME InputWaitTypeOK, TokensFresh, SingleHolder, [Next]_vars
  PROVE  SingleHolder'
<1> USE DEF InputWaitTypeOK, TokensFresh, SingleHolder, callVars, leaseVars, inputVars,
    clockVars, vars
<1>1. ASSUME NEW w \in Workers, PrepareStale(w) PROVE SingleHolder'
  BY <1>1 DEF PrepareStale, OwnsLease, Leave, Goto
<1>2. ASSUME NEW w \in Workers, PrepareTimesOut(w) PROVE SingleHolder'
  BY <1>2 DEF PrepareTimesOut, MayPrepare, OwnsLease, InFlight, EndCall, Goto
<1>3. ASSUME NEW w \in Workers, PrepareRefused(w) PROVE SingleHolder'
  BY <1>3 DEF PrepareRefused, MayPrepare, OwnsLease, InFlight, EndCall, ClearLease, Goto
<1>4. ASSUME NEW w \in Workers, PrepareStarts(w) PROVE SingleHolder'
  BY <1>4 DEF PrepareStarts, MayPrepare, OwnsLease, Goto
<1>5. ASSUME NEW w \in Workers, PrepareReplays(w) PROVE SingleHolder'
  BY <1>5 DEF PrepareReplays, MayPrepare, OwnsLease, InFlight, AnsweredResume, Goto
<1>6. ASSUME NEW w \in Workers, GateStale(w) PROVE SingleHolder'
  BY <1>6 DEF GateStale, Leave, Goto
<1>7. ASSUME NEW w \in Workers, GateCancels(w) PROVE SingleHolder'
  BY <1>7 DEF GateCancels, OwnsLease, EndCall, ClearLease, Goto
<1>8. ASSUME NEW w \in Workers, GateRefuses(w) PROVE SingleHolder'
  BY <1>8 DEF GateRefuses, OwnsLease, Goto
<1>9. ASSUME NEW w \in Workers, GatePasses(w) PROVE SingleHolder'
  BY <1>9 DEF GatePasses, OwnsLease, Carried, AnsweredResume, Goto
<1>10. ASSUME NEW w \in Workers, FinalizeStale(w) PROVE SingleHolder'
  BY <1>10 DEF FinalizeStale, Leave, Goto
<1>11. ASSUME NEW w \in Workers, FinalizeFatal(w) PROVE SingleHolder'
  BY <1>11 DEF FinalizeFatal, OwnsLease, EndCall, ClearLease, Goto
<1>12. ASSUME NEW w \in Workers, NEW o \in {"SUCCEEDED", "FAILED", "TIMED_OUT"}, FinalizeKnown(w, o)
      PROVE  SingleHolder'
  BY <1>12 DEF FinalizeKnown, OwnsLease, EndCall, ClearLease, Goto
<1>13. ASSUME NEW w \in Workers, FinalizeRetries(w) PROVE SingleHolder'
  BY <1>13 DEF FinalizeRetries, OwnsLease, Goto
<1>14. ASSUME NEW w \in Workers, InputRefused(w) PROVE SingleHolder'
  BY <1>14 DEF InputRefused, InputRequired, OwnsLease, EndCall, ClearLease, Goto
<1>15. ASSUME NEW w \in Workers, InputCancelled(w) PROVE SingleHolder'
  BY <1>15 DEF InputCancelled, InputRequired, OwnsLease, ClearLease, Goto
<1>16. ASSUME NEW w \in Workers, InputTooLate(w) PROVE SingleHolder'
  BY <1>16 DEF InputTooLate, InputRequired, OwnsLease, Goto
<1>17. ASSUME NEW w \in Workers, InputOpens(w) PROVE SingleHolder'
  BY <1>17 DEF InputOpens, InputRequired, OwnsLease, RoundNo, OpenRequests, ClearLease, Goto
<1>18. ASSUME NEW w \in Workers, SettleStops(w) PROVE SingleHolder'
  BY <1>18 DEF SettleStops, ClearLease, Goto
<1>19. ASSUME NEW w \in Workers, SettleFenced(w) PROVE SingleHolder'
  BY <1>19 DEF SettleFenced, Leave, Goto
<1>20. ASSUME NEW w \in Workers, SettleSucceeds(w) PROVE SingleHolder'
  BY <1>20 DEF SettleSucceeds, OwnsLease, ClearLease, Goto
<1>21. ASSUME NEW w \in Workers, NEW r \in Requests, ResumeClaim(w, r) PROVE SingleHolder'
  BY <1>21 DEF ResumeClaim, MayResume, ResumesLastRound, InFlight, AssignLease, Goto
<1>22. ASSUME NEW w \in Workers, NEW r \in Requests, ResumeFails(w, r) PROVE SingleHolder'
  BY <1>22 DEF ResumeFails, MayResume, OpenRequests, ClearLease
<1>23. ASSUME NEW w \in Workers, RecoverTakesOver(w) PROVE SingleHolder'
  BY <1>23 DEF RecoverTakesOver, MayRecover, RoundEnded, InFlight, AssignLease, Goto
<1>24. ASSUME NEW w \in Workers, RecoverExhausted(w) PROVE SingleHolder'
  BY <1>24 DEF RecoverExhausted, MayRecover, RoundEnded, InFlight, EndCall, ClearLease
<1>25. ASSUME NEW w \in Workers, RecoverUnknown(w) PROVE SingleHolder'
  BY <1>25 DEF RecoverUnknown, MayRecover, InFlight, EndCall, ClearLease
<1>26. ASSUME NEW w \in Workers, RecoverInconsistent(w) PROVE SingleHolder'
  BY <1>26 DEF RecoverInconsistent, MayRecover, RoundEnded, InFlight, ClearLease
<1>27. ASSUME NEW w \in Workers, Crash(w) PROVE SingleHolder'
  BY <1>27 DEF Crash, Goto
<1>28. ASSUME NEW r \in Requests, Answer(r) PROVE SingleHolder'
  BY <1>28 DEF Answer, DurableWait, OpenRequests
<1>29. ASSUME NEW r \in Requests, Reject(r) PROVE SingleHolder'
  BY <1>29 DEF Reject, DurableWait, OpenRequests, ClearLease
<1>30. ASSUME NEW r \in Requests, RelayPublish(r) PROVE SingleHolder'
  BY <1>30 DEF RelayPublish
<1>31. ASSUME NEW r \in Requests, RelayCommit(r) PROVE SingleHolder'
  BY <1>31 DEF RelayCommit
<1>32. CASE CancelImmediate
  BY <1>32 DEF CancelImmediate, InFlight, RejectOpen, ClearLease
<1>33. CASE CancelCooperative
  BY <1>33 DEF CancelCooperative, InFlight, RejectOpen
<1>34. CASE BudgetRunsOut
  BY <1>34 DEF BudgetRunsOut
<1>35. CASE PolicyDrifts
  BY <1>35 DEF PolicyDrifts
<1>36. CASE LeaseLapses
  BY <1>36 DEF LeaseLapses
<1>37. CASE UNCHANGED vars
  BY <1>37
<1> HIDE DEF SingleHolder
<1> QED
  BY <1>1, <1>2, <1>3, <1>4, <1>5, <1>6, <1>7, <1>8, <1>9, <1>10, <1>11, <1>12, <1>13, <1>14,
     <1>15, <1>16, <1>17, <1>18, <1>19, <1>20, <1>21, <1>22, <1>23, <1>24, <1>25, <1>26, <1>27,
     <1>28, <1>29, <1>30, <1>31, <1>32, <1>33, <1>34, <1>35, <1>36, <1>37
  DEF Next, TaskStep, Prepare, Gate, Finalize, Settle, Resume, Recover, User, Relay

\* Execution, Step, Attempt and ToolCall move together.
LEMMA RowsStep ==
  ASSUME InputWaitTypeOK, TokensFresh, RowsAgree, TaskPlace, WaitShape, [Next]_vars
  PROVE  RowsAgree'
<1> USE RequestPairs, RoundsAssumption, AttemptsAssumption, FaultsAssumption
<1> USE DEF InputWaitTypeOK, TokensFresh, RowsAgree, TaskPlace, WaitShape, ExecutionStatus,
    TerminalExecution, Terminal, callVars, leaseVars, inputVars, clockVars, vars
<1>1. ASSUME NEW w \in Workers, PrepareStale(w) PROVE RowsAgree'
  BY <1>1 DEF PrepareStale, OwnsLease, Leave, Goto
<1>2. ASSUME NEW w \in Workers, PrepareTimesOut(w) PROVE RowsAgree'
  BY <1>2 DEF PrepareTimesOut, MayPrepare, OwnsLease, InFlight, EndCall, Goto
<1>3. ASSUME NEW w \in Workers, PrepareRefused(w) PROVE RowsAgree'
  BY <1>3 DEF PrepareRefused, MayPrepare, OwnsLease, InFlight, EndCall, ClearLease, Goto
<1>4. ASSUME NEW w \in Workers, PrepareStarts(w) PROVE RowsAgree'
  BY <1>4 DEF PrepareStarts, MayPrepare, OwnsLease, Goto
<1>5. ASSUME NEW w \in Workers, PrepareReplays(w) PROVE RowsAgree'
  BY <1>5 DEF PrepareReplays, MayPrepare, OwnsLease, InFlight, AnsweredResume, Goto
<1>6. ASSUME NEW w \in Workers, GateStale(w) PROVE RowsAgree'
  BY <1>6 DEF GateStale, Leave, Goto
<1>7. ASSUME NEW w \in Workers, GateCancels(w) PROVE RowsAgree'
  BY <1>7 DEF GateCancels, OwnsLease, EndCall, ClearLease, Goto
<1>8. ASSUME NEW w \in Workers, GateRefuses(w) PROVE RowsAgree'
  BY <1>8 DEF GateRefuses, OwnsLease, Goto
<1>9. ASSUME NEW w \in Workers, GatePasses(w) PROVE RowsAgree'
  BY <1>9 DEF GatePasses, OwnsLease, Carried, AnsweredResume, Goto
<1>10. ASSUME NEW w \in Workers, FinalizeStale(w) PROVE RowsAgree'
  BY <1>10 DEF FinalizeStale, Leave, Goto
<1>11. ASSUME NEW w \in Workers, FinalizeFatal(w) PROVE RowsAgree'
  BY <1>11 DEF FinalizeFatal, OwnsLease, EndCall, ClearLease, Goto
<1>12. ASSUME NEW w \in Workers, NEW o \in {"SUCCEEDED", "FAILED", "TIMED_OUT"}, FinalizeKnown(w, o)
      PROVE  RowsAgree'
  BY <1>12 DEF FinalizeKnown, OwnsLease, EndCall, ClearLease, Goto
<1>13. ASSUME NEW w \in Workers, FinalizeRetries(w) PROVE RowsAgree'
  BY <1>13 DEF FinalizeRetries, OwnsLease, Goto
<1>14. ASSUME NEW w \in Workers, InputRefused(w) PROVE RowsAgree'
  BY <1>14 DEF InputRefused, InputRequired, OwnsLease, EndCall, ClearLease, Goto
<1>15. ASSUME NEW w \in Workers, InputCancelled(w) PROVE RowsAgree'
  BY <1>15 DEF InputCancelled, InputRequired, OwnsLease, ClearLease, Goto
<1>16. ASSUME NEW w \in Workers, InputTooLate(w) PROVE RowsAgree'
  BY <1>16 DEF InputTooLate, InputRequired, OwnsLease, Goto
<1>17. ASSUME NEW w \in Workers, InputOpens(w) PROVE RowsAgree'
  BY <1>17 DEF InputOpens, InputRequired, OwnsLease, RoundNo, OpenRequests, ClearLease, Goto
<1>18. ASSUME NEW w \in Workers, SettleStops(w) PROVE RowsAgree'
  BY <1>18 DEF SettleStops, ClearLease, Goto
<1>19. ASSUME NEW w \in Workers, SettleFenced(w) PROVE RowsAgree'
  BY <1>19 DEF SettleFenced, Leave, Goto
<1>20. ASSUME NEW w \in Workers, SettleSucceeds(w) PROVE RowsAgree'
  BY <1>20 DEF SettleSucceeds, OwnsLease, ClearLease, Goto
<1>21. ASSUME NEW w \in Workers, NEW r \in Requests, ResumeClaim(w, r) PROVE RowsAgree'
  BY <1>21 DEF ResumeClaim, MayResume, ResumesLastRound, InFlight, AssignLease, Goto
<1>22. ASSUME NEW w \in Workers, NEW r \in Requests, ResumeFails(w, r) PROVE RowsAgree'
  BY <1>22 DEF ResumeFails, MayResume, OpenRequests, ClearLease
<1>23. ASSUME NEW w \in Workers, RecoverTakesOver(w) PROVE RowsAgree'
  BY <1>23 DEF RecoverTakesOver, MayRecover, RoundEnded, InFlight, AssignLease, Goto
<1>24. ASSUME NEW w \in Workers, RecoverExhausted(w) PROVE RowsAgree'
  BY <1>24 DEF RecoverExhausted, MayRecover, RoundEnded, InFlight, EndCall, ClearLease
<1>25. ASSUME NEW w \in Workers, RecoverUnknown(w) PROVE RowsAgree'
  BY <1>25 DEF RecoverUnknown, MayRecover, InFlight, EndCall, ClearLease
<1>26. ASSUME NEW w \in Workers, RecoverInconsistent(w) PROVE RowsAgree'
  BY <1>26 DEF RecoverInconsistent, MayRecover, RoundEnded, InFlight, ClearLease
<1>27. ASSUME NEW w \in Workers, Crash(w) PROVE RowsAgree'
  BY <1>27 DEF Crash, Goto
<1>28. ASSUME NEW r \in Requests, Answer(r) PROVE RowsAgree'
  BY <1>28 DEF Answer, DurableWait, OpenRequests
<1>29. ASSUME NEW r \in Requests, Reject(r) PROVE RowsAgree'
  BY <1>29 DEF Reject, DurableWait, OpenRequests, ClearLease
<1>30. ASSUME NEW r \in Requests, RelayPublish(r) PROVE RowsAgree'
  BY <1>30 DEF RelayPublish
<1>31. ASSUME NEW r \in Requests, RelayCommit(r) PROVE RowsAgree'
  BY <1>31 DEF RelayCommit
<1>32. CASE CancelImmediate
  BY <1>32 DEF CancelImmediate, InFlight, RejectOpen, ClearLease
<1>33. CASE CancelCooperative
  BY <1>33 DEF CancelCooperative, InFlight, RejectOpen
<1>34. CASE BudgetRunsOut
  BY <1>34 DEF BudgetRunsOut
<1>35. CASE PolicyDrifts
  BY <1>35 DEF PolicyDrifts
<1>36. CASE LeaseLapses
  BY <1>36 DEF LeaseLapses
<1>37. CASE UNCHANGED vars
  BY <1>37
<1> HIDE DEF RowsAgree
<1> QED
  BY <1>1, <1>2, <1>3, <1>4, <1>5, <1>6, <1>7, <1>8, <1>9, <1>10, <1>11, <1>12, <1>13, <1>14,
     <1>15, <1>16, <1>17, <1>18, <1>19, <1>20, <1>21, <1>22, <1>23, <1>24, <1>25, <1>26, <1>27,
     <1>28, <1>29, <1>30, <1>31, <1>32, <1>33, <1>34, <1>35, <1>36, <1>37
  DEF Next, TaskStep, Prepare, Gate, Finalize, Settle, Resume, Recover, User, Relay

\* A task that holds the lease is where the rows say, and a task that stops
\* left a terminal Step.
LEMMA PlaceStep ==
  ASSUME InputWaitTypeOK, TokensFresh, SingleHolder, RowsAgree, TaskPlace, [Next]_vars
  PROVE  TaskPlace'
<1> USE DEF InputWaitTypeOK, TokensFresh, SingleHolder, RowsAgree, TaskPlace, ExecutionStatus,
    TerminalExecution, Terminal, callVars, leaseVars, inputVars, clockVars, vars
<1>1. ASSUME NEW w \in Workers, PrepareStale(w) PROVE TaskPlace'
  BY <1>1 DEF PrepareStale, OwnsLease, Leave, Goto
<1>2. ASSUME NEW w \in Workers, PrepareTimesOut(w) PROVE TaskPlace'
  BY <1>2 DEF PrepareTimesOut, MayPrepare, OwnsLease, InFlight, EndCall, Goto
<1>3. ASSUME NEW w \in Workers, PrepareRefused(w) PROVE TaskPlace'
  BY <1>3 DEF PrepareRefused, MayPrepare, OwnsLease, InFlight, EndCall, ClearLease, Goto
<1>4. ASSUME NEW w \in Workers, PrepareStarts(w) PROVE TaskPlace'
  BY <1>4 DEF PrepareStarts, MayPrepare, OwnsLease, Goto
<1>5. ASSUME NEW w \in Workers, PrepareReplays(w) PROVE TaskPlace'
  BY <1>5 DEF PrepareReplays, MayPrepare, OwnsLease, InFlight, AnsweredResume, Goto
<1>6. ASSUME NEW w \in Workers, GateStale(w) PROVE TaskPlace'
  BY <1>6 DEF GateStale, Leave, Goto
<1>7. ASSUME NEW w \in Workers, GateCancels(w) PROVE TaskPlace'
  BY <1>7 DEF GateCancels, OwnsLease, EndCall, ClearLease, Goto
<1>8. ASSUME NEW w \in Workers, GateRefuses(w) PROVE TaskPlace'
  BY <1>8 DEF GateRefuses, OwnsLease, Goto
<1>9. ASSUME NEW w \in Workers, GatePasses(w) PROVE TaskPlace'
  BY <1>9 DEF GatePasses, OwnsLease, Carried, AnsweredResume, Goto
<1>10. ASSUME NEW w \in Workers, FinalizeStale(w) PROVE TaskPlace'
  BY <1>10 DEF FinalizeStale, Leave, Goto
<1>11. ASSUME NEW w \in Workers, FinalizeFatal(w) PROVE TaskPlace'
  BY <1>11 DEF FinalizeFatal, OwnsLease, EndCall, ClearLease, Goto
<1>12. ASSUME NEW w \in Workers, NEW o \in {"SUCCEEDED", "FAILED", "TIMED_OUT"}, FinalizeKnown(w, o)
      PROVE  TaskPlace'
  BY <1>12 DEF FinalizeKnown, OwnsLease, EndCall, ClearLease, Goto
<1>13. ASSUME NEW w \in Workers, FinalizeRetries(w) PROVE TaskPlace'
  BY <1>13 DEF FinalizeRetries, OwnsLease, Goto
<1>14. ASSUME NEW w \in Workers, InputRefused(w) PROVE TaskPlace'
  BY <1>14 DEF InputRefused, InputRequired, OwnsLease, EndCall, ClearLease, Goto
<1>15. ASSUME NEW w \in Workers, InputCancelled(w) PROVE TaskPlace'
  BY <1>15 DEF InputCancelled, InputRequired, OwnsLease, ClearLease, Goto
<1>16. ASSUME NEW w \in Workers, InputTooLate(w) PROVE TaskPlace'
  BY <1>16 DEF InputTooLate, InputRequired, OwnsLease, Goto
<1>17. ASSUME NEW w \in Workers, InputOpens(w) PROVE TaskPlace'
  BY <1>17 DEF InputOpens, InputRequired, OwnsLease, RoundNo, OpenRequests, ClearLease, Goto
<1>18. ASSUME NEW w \in Workers, SettleStops(w) PROVE TaskPlace'
  BY <1>18 DEF SettleStops, ClearLease, Goto
<1>19. ASSUME NEW w \in Workers, SettleFenced(w) PROVE TaskPlace'
  BY <1>19 DEF SettleFenced, Leave, Goto
<1>20. ASSUME NEW w \in Workers, SettleSucceeds(w) PROVE TaskPlace'
  BY <1>20 DEF SettleSucceeds, OwnsLease, ClearLease, Goto
<1>21. ASSUME NEW w \in Workers, NEW r \in Requests, ResumeClaim(w, r) PROVE TaskPlace'
  BY <1>21 DEF ResumeClaim, MayResume, ResumesLastRound, InFlight, AssignLease, Goto
<1>22. ASSUME NEW w \in Workers, NEW r \in Requests, ResumeFails(w, r) PROVE TaskPlace'
  BY <1>22 DEF ResumeFails, MayResume, OpenRequests, ClearLease
<1>23. ASSUME NEW w \in Workers, RecoverTakesOver(w) PROVE TaskPlace'
  BY <1>23 DEF RecoverTakesOver, MayRecover, RoundEnded, InFlight, AssignLease, Goto
<1>24. ASSUME NEW w \in Workers, RecoverExhausted(w) PROVE TaskPlace'
  BY <1>24 DEF RecoverExhausted, MayRecover, RoundEnded, InFlight, EndCall, ClearLease
<1>25. ASSUME NEW w \in Workers, RecoverUnknown(w) PROVE TaskPlace'
  BY <1>25 DEF RecoverUnknown, MayRecover, InFlight, EndCall, ClearLease
<1>26. ASSUME NEW w \in Workers, RecoverInconsistent(w) PROVE TaskPlace'
  BY <1>26 DEF RecoverInconsistent, MayRecover, RoundEnded, InFlight, ClearLease
<1>27. ASSUME NEW w \in Workers, Crash(w) PROVE TaskPlace'
  BY <1>27 DEF Crash, Goto
<1>28. ASSUME NEW r \in Requests, Answer(r) PROVE TaskPlace'
  BY <1>28 DEF Answer, DurableWait, OpenRequests
<1>29. ASSUME NEW r \in Requests, Reject(r) PROVE TaskPlace'
  BY <1>29 DEF Reject, DurableWait, OpenRequests, ClearLease
<1>30. ASSUME NEW r \in Requests, RelayPublish(r) PROVE TaskPlace'
  BY <1>30 DEF RelayPublish
<1>31. ASSUME NEW r \in Requests, RelayCommit(r) PROVE TaskPlace'
  BY <1>31 DEF RelayCommit
<1>32. CASE CancelImmediate
  BY <1>32 DEF CancelImmediate, InFlight, RejectOpen, ClearLease
<1>33. CASE CancelCooperative
  BY <1>33 DEF CancelCooperative, InFlight, RejectOpen
<1>34. CASE BudgetRunsOut
  BY <1>34 DEF BudgetRunsOut
<1>35. CASE PolicyDrifts
  BY <1>35 DEF PolicyDrifts
<1>36. CASE LeaseLapses
  BY <1>36 DEF LeaseLapses
<1>37. CASE UNCHANGED vars
  BY <1>37
<1> HIDE DEF TaskPlace
<1> QED
  BY <1>1, <1>2, <1>3, <1>4, <1>5, <1>6, <1>7, <1>8, <1>9, <1>10, <1>11, <1>12, <1>13, <1>14,
     <1>15, <1>16, <1>17, <1>18, <1>19, <1>20, <1>21, <1>22, <1>23, <1>24, <1>25, <1>26, <1>27,
     <1>28, <1>29, <1>30, <1>31, <1>32, <1>33, <1>34, <1>35, <1>36, <1>37
  DEF Next, TaskStep, Prepare, Gate, Finalize, Settle, Resume, Recover, User, Relay

\* A wait keeps the request it waits for.
LEMMA WaitStep ==
  ASSUME InputWaitTypeOK, RowsAgree, TaskPlace, WaitShape, [Next]_vars
  PROVE  WaitShape'
<1> USE RequestPairs, RoundsAssumption, AttemptsAssumption, FaultsAssumption
<1> USE DEF InputWaitTypeOK, RowsAgree, TaskPlace, WaitShape, ExecutionStatus,
    TerminalExecution, Terminal, callVars, leaseVars, inputVars, clockVars, vars
<1>1. ASSUME NEW w \in Workers, PrepareStale(w) PROVE WaitShape'
  BY <1>1 DEF PrepareStale, OwnsLease, Leave, Goto
<1>2. ASSUME NEW w \in Workers, PrepareTimesOut(w) PROVE WaitShape'
  BY <1>2 DEF PrepareTimesOut, MayPrepare, OwnsLease, InFlight, EndCall, Goto
<1>3. ASSUME NEW w \in Workers, PrepareRefused(w) PROVE WaitShape'
  BY <1>3 DEF PrepareRefused, MayPrepare, OwnsLease, InFlight, EndCall, ClearLease, Goto
<1>4. ASSUME NEW w \in Workers, PrepareStarts(w) PROVE WaitShape'
  BY <1>4 DEF PrepareStarts, MayPrepare, OwnsLease, Goto
<1>5. ASSUME NEW w \in Workers, PrepareReplays(w) PROVE WaitShape'
  BY <1>5 DEF PrepareReplays, MayPrepare, OwnsLease, InFlight, AnsweredResume, Goto
<1>6. ASSUME NEW w \in Workers, GateStale(w) PROVE WaitShape'
  BY <1>6 DEF GateStale, Leave, Goto
<1>7. ASSUME NEW w \in Workers, GateCancels(w) PROVE WaitShape'
  BY <1>7 DEF GateCancels, OwnsLease, EndCall, ClearLease, Goto
<1>8. ASSUME NEW w \in Workers, GateRefuses(w) PROVE WaitShape'
  BY <1>8 DEF GateRefuses, OwnsLease, Goto
<1>9. ASSUME NEW w \in Workers, GatePasses(w) PROVE WaitShape'
  BY <1>9 DEF GatePasses, OwnsLease, Carried, AnsweredResume, Goto
<1>10. ASSUME NEW w \in Workers, FinalizeStale(w) PROVE WaitShape'
  BY <1>10 DEF FinalizeStale, Leave, Goto
<1>11. ASSUME NEW w \in Workers, FinalizeFatal(w) PROVE WaitShape'
  BY <1>11 DEF FinalizeFatal, OwnsLease, EndCall, ClearLease, Goto
<1>12. ASSUME NEW w \in Workers, NEW o \in {"SUCCEEDED", "FAILED", "TIMED_OUT"}, FinalizeKnown(w, o)
      PROVE  WaitShape'
  BY <1>12 DEF FinalizeKnown, OwnsLease, EndCall, ClearLease, Goto
<1>13. ASSUME NEW w \in Workers, FinalizeRetries(w) PROVE WaitShape'
  BY <1>13 DEF FinalizeRetries, OwnsLease, Goto
<1>14. ASSUME NEW w \in Workers, InputRefused(w) PROVE WaitShape'
  BY <1>14 DEF InputRefused, InputRequired, OwnsLease, EndCall, ClearLease, Goto
<1>15. ASSUME NEW w \in Workers, InputCancelled(w) PROVE WaitShape'
  BY <1>15 DEF InputCancelled, InputRequired, OwnsLease, ClearLease, Goto
<1>16. ASSUME NEW w \in Workers, InputTooLate(w) PROVE WaitShape'
  BY <1>16 DEF InputTooLate, InputRequired, OwnsLease, Goto
<1>17. ASSUME NEW w \in Workers, InputOpens(w) PROVE WaitShape'
  BY <1>17 DEF InputOpens, InputRequired, OwnsLease, RoundNo, OpenRequests, ClearLease, Goto
<1>18. ASSUME NEW w \in Workers, SettleStops(w) PROVE WaitShape'
  BY <1>18 DEF SettleStops, ClearLease, Goto
<1>19. ASSUME NEW w \in Workers, SettleFenced(w) PROVE WaitShape'
  BY <1>19 DEF SettleFenced, Leave, Goto
<1>20. ASSUME NEW w \in Workers, SettleSucceeds(w) PROVE WaitShape'
  BY <1>20 DEF SettleSucceeds, OwnsLease, ClearLease, Goto
<1>21. ASSUME NEW w \in Workers, NEW r \in Requests, ResumeClaim(w, r) PROVE WaitShape'
  BY <1>21 DEF ResumeClaim, MayResume, ResumesLastRound, InFlight, AssignLease, Goto
<1>22. ASSUME NEW w \in Workers, NEW r \in Requests, ResumeFails(w, r) PROVE WaitShape'
  BY <1>22 DEF ResumeFails, MayResume, OpenRequests, ClearLease
<1>23. ASSUME NEW w \in Workers, RecoverTakesOver(w) PROVE WaitShape'
  BY <1>23 DEF RecoverTakesOver, MayRecover, RoundEnded, InFlight, AssignLease, Goto
<1>24. ASSUME NEW w \in Workers, RecoverExhausted(w) PROVE WaitShape'
  BY <1>24 DEF RecoverExhausted, MayRecover, RoundEnded, InFlight, EndCall, ClearLease
<1>25. ASSUME NEW w \in Workers, RecoverUnknown(w) PROVE WaitShape'
  BY <1>25 DEF RecoverUnknown, MayRecover, InFlight, EndCall, ClearLease
<1>26. ASSUME NEW w \in Workers, RecoverInconsistent(w) PROVE WaitShape'
  BY <1>26 DEF RecoverInconsistent, MayRecover, RoundEnded, InFlight, ClearLease
<1>27. ASSUME NEW w \in Workers, Crash(w) PROVE WaitShape'
  BY <1>27 DEF Crash, Goto
<1>28. ASSUME NEW r \in Requests, Answer(r) PROVE WaitShape'
  BY <1>28 DEF Answer, DurableWait, OpenRequests
<1>29. ASSUME NEW r \in Requests, Reject(r) PROVE WaitShape'
  BY <1>29 DEF Reject, DurableWait, OpenRequests, ClearLease
<1>30. ASSUME NEW r \in Requests, RelayPublish(r) PROVE WaitShape'
  BY <1>30 DEF RelayPublish
<1>31. ASSUME NEW r \in Requests, RelayCommit(r) PROVE WaitShape'
  BY <1>31 DEF RelayCommit
<1>32. CASE CancelImmediate
  BY <1>32 DEF CancelImmediate, InFlight, RejectOpen, ClearLease
<1>33. CASE CancelCooperative
  BY <1>33 DEF CancelCooperative, InFlight, RejectOpen
<1>34. CASE BudgetRunsOut
  BY <1>34 DEF BudgetRunsOut
<1>35. CASE PolicyDrifts
  BY <1>35 DEF PolicyDrifts
<1>36. CASE LeaseLapses
  BY <1>36 DEF LeaseLapses
<1>37. CASE UNCHANGED vars
  BY <1>37
<1> HIDE DEF WaitShape
<1> QED
  BY <1>1, <1>2, <1>3, <1>4, <1>5, <1>6, <1>7, <1>8, <1>9, <1>10, <1>11, <1>12, <1>13, <1>14,
     <1>15, <1>16, <1>17, <1>18, <1>19, <1>20, <1>21, <1>22, <1>23, <1>24, <1>25, <1>26, <1>27,
     <1>28, <1>29, <1>30, <1>31, <1>32, <1>33, <1>34, <1>35, <1>36, <1>37
  DEF Next, TaskStep, Prepare, Gate, Finalize, Settle, Resume, Recover, User, Relay

\* The answer a round carries is kept until the round ends.
LEMMA AnswerStep ==
  ASSUME InputWaitTypeOK, RowsAgree, TaskPlace, WaitShape, AnswerInHand, [Next]_vars
  PROVE  AnswerInHand'
<1> USE RequestPairs, RoundsAssumption, AttemptsAssumption, FaultsAssumption
<1> USE DEF InputWaitTypeOK, RowsAgree, TaskPlace, WaitShape, AnswerInHand, ExecutionStatus,
    TerminalExecution, Terminal, callVars, leaseVars, inputVars, clockVars, vars
<1>1. ASSUME NEW w \in Workers, PrepareStale(w) PROVE AnswerInHand'
  BY <1>1 DEF PrepareStale, OwnsLease, Leave, Goto
<1>2. ASSUME NEW w \in Workers, PrepareTimesOut(w) PROVE AnswerInHand'
  BY <1>2 DEF PrepareTimesOut, MayPrepare, OwnsLease, InFlight, EndCall, Goto
<1>3. ASSUME NEW w \in Workers, PrepareRefused(w) PROVE AnswerInHand'
  BY <1>3 DEF PrepareRefused, MayPrepare, OwnsLease, InFlight, EndCall, ClearLease, Goto
<1>4. ASSUME NEW w \in Workers, PrepareStarts(w) PROVE AnswerInHand'
  BY <1>4 DEF PrepareStarts, MayPrepare, OwnsLease, Goto
<1>5. ASSUME NEW w \in Workers, PrepareReplays(w) PROVE AnswerInHand'
  BY <1>5 DEF PrepareReplays, MayPrepare, OwnsLease, InFlight, AnsweredResume, Goto
<1>6. ASSUME NEW w \in Workers, GateStale(w) PROVE AnswerInHand'
  BY <1>6 DEF GateStale, Leave, Goto
<1>7. ASSUME NEW w \in Workers, GateCancels(w) PROVE AnswerInHand'
  BY <1>7 DEF GateCancels, OwnsLease, EndCall, ClearLease, Goto
<1>8. ASSUME NEW w \in Workers, GateRefuses(w) PROVE AnswerInHand'
  BY <1>8 DEF GateRefuses, OwnsLease, Goto
<1>9. ASSUME NEW w \in Workers, GatePasses(w) PROVE AnswerInHand'
  BY <1>9 DEF GatePasses, OwnsLease, Carried, AnsweredResume, Goto
<1>10. ASSUME NEW w \in Workers, FinalizeStale(w) PROVE AnswerInHand'
  BY <1>10 DEF FinalizeStale, Leave, Goto
<1>11. ASSUME NEW w \in Workers, FinalizeFatal(w) PROVE AnswerInHand'
  BY <1>11 DEF FinalizeFatal, OwnsLease, EndCall, ClearLease, Goto
<1>12. ASSUME NEW w \in Workers, NEW o \in {"SUCCEEDED", "FAILED", "TIMED_OUT"}, FinalizeKnown(w, o)
      PROVE  AnswerInHand'
  BY <1>12 DEF FinalizeKnown, OwnsLease, EndCall, ClearLease, Goto
<1>13. ASSUME NEW w \in Workers, FinalizeRetries(w) PROVE AnswerInHand'
  BY <1>13 DEF FinalizeRetries, OwnsLease, Goto
<1>14. ASSUME NEW w \in Workers, InputRefused(w) PROVE AnswerInHand'
  BY <1>14 DEF InputRefused, InputRequired, OwnsLease, EndCall, ClearLease, Goto
<1>15. ASSUME NEW w \in Workers, InputCancelled(w) PROVE AnswerInHand'
  BY <1>15 DEF InputCancelled, InputRequired, OwnsLease, ClearLease, Goto
<1>16. ASSUME NEW w \in Workers, InputTooLate(w) PROVE AnswerInHand'
  BY <1>16 DEF InputTooLate, InputRequired, OwnsLease, Goto
<1>17. ASSUME NEW w \in Workers, InputOpens(w) PROVE AnswerInHand'
  BY <1>17 DEF InputOpens, InputRequired, OwnsLease, RoundNo, OpenRequests, ClearLease, Goto
<1>18. ASSUME NEW w \in Workers, SettleStops(w) PROVE AnswerInHand'
  BY <1>18 DEF SettleStops, ClearLease, Goto
<1>19. ASSUME NEW w \in Workers, SettleFenced(w) PROVE AnswerInHand'
  BY <1>19 DEF SettleFenced, Leave, Goto
<1>20. ASSUME NEW w \in Workers, SettleSucceeds(w) PROVE AnswerInHand'
  BY <1>20 DEF SettleSucceeds, OwnsLease, ClearLease, Goto
<1>21. ASSUME NEW w \in Workers, NEW r \in Requests, ResumeClaim(w, r) PROVE AnswerInHand'
  BY <1>21 DEF ResumeClaim, MayResume, ResumesLastRound, InFlight, AssignLease, Goto
<1>22. ASSUME NEW w \in Workers, NEW r \in Requests, ResumeFails(w, r) PROVE AnswerInHand'
  BY <1>22 DEF ResumeFails, MayResume, OpenRequests, ClearLease
<1>23. ASSUME NEW w \in Workers, RecoverTakesOver(w) PROVE AnswerInHand'
  BY <1>23 DEF RecoverTakesOver, MayRecover, RoundEnded, InFlight, AssignLease, Goto
<1>24. ASSUME NEW w \in Workers, RecoverExhausted(w) PROVE AnswerInHand'
  BY <1>24 DEF RecoverExhausted, MayRecover, RoundEnded, InFlight, EndCall, ClearLease
<1>25. ASSUME NEW w \in Workers, RecoverUnknown(w) PROVE AnswerInHand'
  BY <1>25 DEF RecoverUnknown, MayRecover, InFlight, EndCall, ClearLease
<1>26. ASSUME NEW w \in Workers, RecoverInconsistent(w) PROVE AnswerInHand'
  BY <1>26 DEF RecoverInconsistent, MayRecover, RoundEnded, InFlight, ClearLease
<1>27. ASSUME NEW w \in Workers, Crash(w) PROVE AnswerInHand'
  BY <1>27 DEF Crash, Goto
<1>28. ASSUME NEW r \in Requests, Answer(r) PROVE AnswerInHand'
  BY <1>28 DEF Answer, DurableWait, OpenRequests
<1>29. ASSUME NEW r \in Requests, Reject(r) PROVE AnswerInHand'
  BY <1>29 DEF Reject, DurableWait, OpenRequests, ClearLease
<1>30. ASSUME NEW r \in Requests, RelayPublish(r) PROVE AnswerInHand'
  BY <1>30 DEF RelayPublish
<1>31. ASSUME NEW r \in Requests, RelayCommit(r) PROVE AnswerInHand'
  BY <1>31 DEF RelayCommit
<1>32. CASE CancelImmediate
  BY <1>32 DEF CancelImmediate, InFlight, RejectOpen, ClearLease
<1>33. CASE CancelCooperative
  BY <1>33 DEF CancelCooperative, InFlight, RejectOpen
<1>34. CASE BudgetRunsOut
  BY <1>34 DEF BudgetRunsOut
<1>35. CASE PolicyDrifts
  BY <1>35 DEF PolicyDrifts
<1>36. CASE LeaseLapses
  BY <1>36 DEF LeaseLapses
<1>37. CASE UNCHANGED vars
  BY <1>37
<1> HIDE DEF AnswerInHand
<1> QED
  BY <1>1, <1>2, <1>3, <1>4, <1>5, <1>6, <1>7, <1>8, <1>9, <1>10, <1>11, <1>12, <1>13, <1>14,
     <1>15, <1>16, <1>17, <1>18, <1>19, <1>20, <1>21, <1>22, <1>23, <1>24, <1>25, <1>26, <1>27,
     <1>28, <1>29, <1>30, <1>31, <1>32, <1>33, <1>34, <1>35, <1>36, <1>37
  DEF Next, TaskStep, Prepare, Gate, Finalize, Settle, Resume, Recover, User, Relay

\* Requests are opened in the order of the rounds.
LEMMA RequestsStep ==
  ASSUME InputWaitTypeOK, RowsAgree, TaskPlace, WaitShape, RequestsUsed, [Next]_vars
  PROVE  RequestsUsed'
<1> USE RequestPairs, RoundsAssumption, AttemptsAssumption, FaultsAssumption
<1> USE DEF InputWaitTypeOK, RowsAgree, TaskPlace, WaitShape, RequestsUsed, Used,
    ExecutionStatus, TerminalExecution, Terminal, callVars, leaseVars, inputVars, clockVars,
    vars
<1>1. ASSUME NEW w \in Workers, PrepareStale(w) PROVE RequestsUsed'
  BY <1>1 DEF PrepareStale, OwnsLease, Leave, Goto
<1>2. ASSUME NEW w \in Workers, PrepareTimesOut(w) PROVE RequestsUsed'
  BY <1>2 DEF PrepareTimesOut, MayPrepare, OwnsLease, InFlight, EndCall, Goto
<1>3. ASSUME NEW w \in Workers, PrepareRefused(w) PROVE RequestsUsed'
  BY <1>3 DEF PrepareRefused, MayPrepare, OwnsLease, InFlight, EndCall, ClearLease, Goto
<1>4. ASSUME NEW w \in Workers, PrepareStarts(w) PROVE RequestsUsed'
  BY <1>4 DEF PrepareStarts, MayPrepare, OwnsLease, Goto
<1>5. ASSUME NEW w \in Workers, PrepareReplays(w) PROVE RequestsUsed'
  BY <1>5 DEF PrepareReplays, MayPrepare, OwnsLease, InFlight, AnsweredResume, Goto
<1>6. ASSUME NEW w \in Workers, GateStale(w) PROVE RequestsUsed'
  BY <1>6 DEF GateStale, Leave, Goto
<1>7. ASSUME NEW w \in Workers, GateCancels(w) PROVE RequestsUsed'
  BY <1>7 DEF GateCancels, OwnsLease, EndCall, ClearLease, Goto
<1>8. ASSUME NEW w \in Workers, GateRefuses(w) PROVE RequestsUsed'
  BY <1>8 DEF GateRefuses, OwnsLease, Goto
<1>9. ASSUME NEW w \in Workers, GatePasses(w) PROVE RequestsUsed'
  BY <1>9 DEF GatePasses, OwnsLease, Carried, AnsweredResume, Goto
<1>10. ASSUME NEW w \in Workers, FinalizeStale(w) PROVE RequestsUsed'
  BY <1>10 DEF FinalizeStale, Leave, Goto
<1>11. ASSUME NEW w \in Workers, FinalizeFatal(w) PROVE RequestsUsed'
  BY <1>11 DEF FinalizeFatal, OwnsLease, EndCall, ClearLease, Goto
<1>12. ASSUME NEW w \in Workers, NEW o \in {"SUCCEEDED", "FAILED", "TIMED_OUT"}, FinalizeKnown(w, o)
      PROVE  RequestsUsed'
  BY <1>12 DEF FinalizeKnown, OwnsLease, EndCall, ClearLease, Goto
<1>13. ASSUME NEW w \in Workers, FinalizeRetries(w) PROVE RequestsUsed'
  BY <1>13 DEF FinalizeRetries, OwnsLease, Goto
<1>14. ASSUME NEW w \in Workers, InputRefused(w) PROVE RequestsUsed'
  BY <1>14 DEF InputRefused, InputRequired, OwnsLease, EndCall, ClearLease, Goto
<1>15. ASSUME NEW w \in Workers, InputCancelled(w) PROVE RequestsUsed'
  BY <1>15 DEF InputCancelled, InputRequired, OwnsLease, ClearLease, Goto
<1>16. ASSUME NEW w \in Workers, InputTooLate(w) PROVE RequestsUsed'
  BY <1>16 DEF InputTooLate, InputRequired, OwnsLease, Goto
<1>17. ASSUME NEW w \in Workers, InputOpens(w) PROVE RequestsUsed'
  BY <1>17 DEF InputOpens, InputRequired, OwnsLease, RoundNo, OpenRequests, ClearLease, Goto
<1>18. ASSUME NEW w \in Workers, SettleStops(w) PROVE RequestsUsed'
  BY <1>18 DEF SettleStops, ClearLease, Goto
<1>19. ASSUME NEW w \in Workers, SettleFenced(w) PROVE RequestsUsed'
  BY <1>19 DEF SettleFenced, Leave, Goto
<1>20. ASSUME NEW w \in Workers, SettleSucceeds(w) PROVE RequestsUsed'
  BY <1>20 DEF SettleSucceeds, OwnsLease, ClearLease, Goto
<1>21. ASSUME NEW w \in Workers, NEW r \in Requests, ResumeClaim(w, r) PROVE RequestsUsed'
  BY <1>21 DEF ResumeClaim, MayResume, ResumesLastRound, InFlight, AssignLease, Goto
<1>22. ASSUME NEW w \in Workers, NEW r \in Requests, ResumeFails(w, r) PROVE RequestsUsed'
  BY <1>22 DEF ResumeFails, MayResume, OpenRequests, ClearLease
<1>23. ASSUME NEW w \in Workers, RecoverTakesOver(w) PROVE RequestsUsed'
  BY <1>23 DEF RecoverTakesOver, MayRecover, RoundEnded, InFlight, AssignLease, Goto
<1>24. ASSUME NEW w \in Workers, RecoverExhausted(w) PROVE RequestsUsed'
  BY <1>24 DEF RecoverExhausted, MayRecover, RoundEnded, InFlight, EndCall, ClearLease
<1>25. ASSUME NEW w \in Workers, RecoverUnknown(w) PROVE RequestsUsed'
  BY <1>25 DEF RecoverUnknown, MayRecover, InFlight, EndCall, ClearLease
<1>26. ASSUME NEW w \in Workers, RecoverInconsistent(w) PROVE RequestsUsed'
  BY <1>26 DEF RecoverInconsistent, MayRecover, RoundEnded, InFlight, ClearLease
<1>27. ASSUME NEW w \in Workers, Crash(w) PROVE RequestsUsed'
  BY <1>27 DEF Crash, Goto
<1>28. ASSUME NEW r \in Requests, Answer(r) PROVE RequestsUsed'
  BY <1>28 DEF Answer, DurableWait, OpenRequests
<1>29. ASSUME NEW r \in Requests, Reject(r) PROVE RequestsUsed'
  BY <1>29 DEF Reject, DurableWait, OpenRequests, ClearLease
<1>30. ASSUME NEW r \in Requests, RelayPublish(r) PROVE RequestsUsed'
  BY <1>30 DEF RelayPublish
<1>31. ASSUME NEW r \in Requests, RelayCommit(r) PROVE RequestsUsed'
  BY <1>31 DEF RelayCommit
<1>32. CASE CancelImmediate
  BY <1>32 DEF CancelImmediate, InFlight, RejectOpen, ClearLease
<1>33. CASE CancelCooperative
  BY <1>33 DEF CancelCooperative, InFlight, RejectOpen
<1>34. CASE BudgetRunsOut
  BY <1>34 DEF BudgetRunsOut
<1>35. CASE PolicyDrifts
  BY <1>35 DEF PolicyDrifts
<1>36. CASE LeaseLapses
  BY <1>36 DEF LeaseLapses
<1>37. CASE UNCHANGED vars
  BY <1>37
<1> HIDE DEF RequestsUsed
<1> QED
  BY <1>1, <1>2, <1>3, <1>4, <1>5, <1>6, <1>7, <1>8, <1>9, <1>10, <1>11, <1>12, <1>13, <1>14,
     <1>15, <1>16, <1>17, <1>18, <1>19, <1>20, <1>21, <1>22, <1>23, <1>24, <1>25, <1>26, <1>27,
     <1>28, <1>29, <1>30, <1>31, <1>32, <1>33, <1>34, <1>35, <1>36, <1>37
  DEF Next, TaskStep, Prepare, Gate, Finalize, Settle, Resume, Recover, User, Relay

\* Calls are sent in the order of the rounds.
LEMMA SendingsStep ==
  ASSUME InputWaitTypeOK, TokensFresh, SingleHolder, RowsAgree, TaskPlace, SendingsUsed,
         [Next]_vars
  PROVE  SendingsUsed'
<1> USE SendingPairs, RoundsAssumption, AttemptsAssumption, FaultsAssumption
<1> USE DEF InputWaitTypeOK, TokensFresh, SingleHolder, RowsAgree, TaskPlace, SendingsUsed,
    Used, ExecutionStatus, TerminalExecution, Terminal, callVars, leaseVars, inputVars,
    clockVars, vars
<1>1. ASSUME NEW w \in Workers, PrepareStale(w) PROVE SendingsUsed'
  BY <1>1 DEF PrepareStale, OwnsLease, Leave, Goto
<1>2. ASSUME NEW w \in Workers, PrepareTimesOut(w) PROVE SendingsUsed'
  BY <1>2 DEF PrepareTimesOut, MayPrepare, OwnsLease, InFlight, EndCall, Goto
<1>3. ASSUME NEW w \in Workers, PrepareRefused(w) PROVE SendingsUsed'
  BY <1>3 DEF PrepareRefused, MayPrepare, OwnsLease, InFlight, EndCall, ClearLease, Goto
<1>4. ASSUME NEW w \in Workers, PrepareStarts(w) PROVE SendingsUsed'
  <2>1. UNCHANGED <<sent, held, leaseVars>> /\ pc' = [pc EXCEPT ![w] = "gate"]
    BY <1>4 DEF PrepareStarts, Goto
  <2>2. step' = "RUNNING" /\ call' = "STARTED" /\ attempt' = attempt + 1 /\ rounds' = 0
    BY <1>4 DEF PrepareStarts
  <2>5. attempt + 1 \in 1 .. MaxAttempts
    BY <1>4 DEF PrepareStarts
  <2>3. <<attempt', 0>> \in Sendings
    BY <2>2, <2>5
  <2>4. sent[<<attempt', 0>>] = 0
    BY <2>2, <2>3
  <2> QED
    BY <2>1, <2>2, <2>3, <2>4
<1>5. ASSUME NEW w \in Workers, PrepareReplays(w) PROVE SendingsUsed'
  BY <1>5 DEF PrepareReplays, MayPrepare, OwnsLease, InFlight, AnsweredResume, Goto
<1>6. ASSUME NEW w \in Workers, GateStale(w) PROVE SendingsUsed'
  BY <1>6 DEF GateStale, Leave, Goto
<1>7. ASSUME NEW w \in Workers, GateCancels(w) PROVE SendingsUsed'
  BY <1>7 DEF GateCancels, OwnsLease, EndCall, ClearLease, Goto
<1>8. ASSUME NEW w \in Workers, GateRefuses(w) PROVE SendingsUsed'
  BY <1>8 DEF GateRefuses, OwnsLease, Goto
<1>9. ASSUME NEW w \in Workers, GatePasses(w) PROVE SendingsUsed'
  <2>1. PICK k \in Carried(rounds) : sent' = [sent EXCEPT ![k] = @ + 1]
    BY <1>9 DEF GatePasses
  <2>2. pc[w] = "gate" /\ held[w] = leaseToken /\ leaseToken # 0 /\ call = "STARTED"
    BY <1>9 DEF GatePasses, OwnsLease
  <2>3. k = <<attempt, rounds>>
    BY <2>1, RequestPairs DEF Carried, AnsweredResume
  <2>4. attempt \in 1 .. MaxAttempts /\ rounds \in 0 .. MaxRounds + 1
    BY <2>2
  <2>5. k \in Sendings /\ k[1] = attempt /\ k[2] = rounds
    BY <2>3, <2>4
  <2>6. sent[k] = 0
    BY <2>2, <2>3
  <2>7. UNCHANGED <<status, step, callVars, inputVars, leaseVars, held>> /\ pc' = [pc EXCEPT ![w] = "remote"]
    BY <1>9 DEF GatePasses, Goto
  <2> QED
    BY <2>1, <2>2, <2>3, <2>5, <2>6, <2>7
<1>10. ASSUME NEW w \in Workers, FinalizeStale(w) PROVE SendingsUsed'
  BY <1>10 DEF FinalizeStale, Leave, Goto
<1>11. ASSUME NEW w \in Workers, FinalizeFatal(w) PROVE SendingsUsed'
  BY <1>11 DEF FinalizeFatal, OwnsLease, EndCall, ClearLease, Goto
<1>12. ASSUME NEW w \in Workers, NEW o \in {"SUCCEEDED", "FAILED", "TIMED_OUT"}, FinalizeKnown(w, o)
      PROVE  SendingsUsed'
  BY <1>12 DEF FinalizeKnown, OwnsLease, EndCall, ClearLease, Goto
<1>13. ASSUME NEW w \in Workers, FinalizeRetries(w) PROVE SendingsUsed'
  BY <1>13 DEF FinalizeRetries, OwnsLease, Goto
<1>14. ASSUME NEW w \in Workers, InputRefused(w) PROVE SendingsUsed'
  BY <1>14 DEF InputRefused, InputRequired, OwnsLease, EndCall, ClearLease, Goto
<1>15. ASSUME NEW w \in Workers, InputCancelled(w) PROVE SendingsUsed'
  BY <1>15 DEF InputCancelled, InputRequired, OwnsLease, ClearLease, Goto
<1>16. ASSUME NEW w \in Workers, InputTooLate(w) PROVE SendingsUsed'
  BY <1>16 DEF InputTooLate, InputRequired, OwnsLease, Goto
<1>17. ASSUME NEW w \in Workers, InputOpens(w) PROVE SendingsUsed'
  BY <1>17 DEF InputOpens, InputRequired, OwnsLease, RoundNo, OpenRequests, ClearLease, Goto
<1>18. ASSUME NEW w \in Workers, SettleStops(w) PROVE SendingsUsed'
  BY <1>18 DEF SettleStops, ClearLease, Goto
<1>19. ASSUME NEW w \in Workers, SettleFenced(w) PROVE SendingsUsed'
  BY <1>19 DEF SettleFenced, Leave, Goto
<1>20. ASSUME NEW w \in Workers, SettleSucceeds(w) PROVE SendingsUsed'
  BY <1>20 DEF SettleSucceeds, OwnsLease, ClearLease, Goto
<1>21. ASSUME NEW w \in Workers, NEW r \in Requests, ResumeClaim(w, r) PROVE SendingsUsed'
  BY <1>21 DEF ResumeClaim, MayResume, ResumesLastRound, InFlight, AssignLease, Goto
<1>22. ASSUME NEW w \in Workers, NEW r \in Requests, ResumeFails(w, r) PROVE SendingsUsed'
  BY <1>22 DEF ResumeFails, MayResume, OpenRequests, ClearLease
<1>23. ASSUME NEW w \in Workers, RecoverTakesOver(w) PROVE SendingsUsed'
  BY <1>23 DEF RecoverTakesOver, MayRecover, RoundEnded, InFlight, AssignLease, Goto
<1>24. ASSUME NEW w \in Workers, RecoverExhausted(w) PROVE SendingsUsed'
  BY <1>24 DEF RecoverExhausted, MayRecover, RoundEnded, InFlight, EndCall, ClearLease
<1>25. ASSUME NEW w \in Workers, RecoverUnknown(w) PROVE SendingsUsed'
  BY <1>25 DEF RecoverUnknown, MayRecover, InFlight, EndCall, ClearLease
<1>26. ASSUME NEW w \in Workers, RecoverInconsistent(w) PROVE SendingsUsed'
  BY <1>26 DEF RecoverInconsistent, MayRecover, RoundEnded, InFlight, ClearLease
<1>27. ASSUME NEW w \in Workers, Crash(w) PROVE SendingsUsed'
  BY <1>27 DEF Crash, Goto
<1>28. ASSUME NEW r \in Requests, Answer(r) PROVE SendingsUsed'
  BY <1>28 DEF Answer, DurableWait, OpenRequests
<1>29. ASSUME NEW r \in Requests, Reject(r) PROVE SendingsUsed'
  BY <1>29 DEF Reject, DurableWait, OpenRequests, ClearLease
<1>30. ASSUME NEW r \in Requests, RelayPublish(r) PROVE SendingsUsed'
  BY <1>30 DEF RelayPublish
<1>31. ASSUME NEW r \in Requests, RelayCommit(r) PROVE SendingsUsed'
  BY <1>31 DEF RelayCommit
<1>32. CASE CancelImmediate
  BY <1>32 DEF CancelImmediate, InFlight, RejectOpen, ClearLease
<1>33. CASE CancelCooperative
  BY <1>33 DEF CancelCooperative, InFlight, RejectOpen
<1>34. CASE BudgetRunsOut
  BY <1>34 DEF BudgetRunsOut
<1>35. CASE PolicyDrifts
  BY <1>35 DEF PolicyDrifts
<1>36. CASE LeaseLapses
  BY <1>36 DEF LeaseLapses
<1>37. CASE UNCHANGED vars
  BY <1>37
<1> HIDE DEF SendingsUsed
<1> QED
  BY <1>1, <1>2, <1>3, <1>4, <1>5, <1>6, <1>7, <1>8, <1>9, <1>10, <1>11, <1>12, <1>13, <1>14,
     <1>15, <1>16, <1>17, <1>18, <1>19, <1>20, <1>21, <1>22, <1>23, <1>24, <1>25, <1>26, <1>27,
     <1>28, <1>29, <1>30, <1>31, <1>32, <1>33, <1>34, <1>35, <1>36, <1>37
  DEF Next, TaskStep, Prepare, Gate, Finalize, Settle, Resume, Recover, User, Relay

\* No call is sent twice.
LEMMA OnceStep ==
  ASSUME InputWaitTypeOK, RowsAgree, TaskPlace, AnswerInHand, RequestsUsed, SendingsUsed,
         WaitShape, AnswerSentOnce, [Next]_vars
  PROVE  AnswerSentOnce'
<1> USE SendingPairs, RoundsAssumption, AttemptsAssumption, FaultsAssumption
<1> USE DEF InputWaitTypeOK, RowsAgree, TaskPlace, AnswerInHand, RequestsUsed, SendingsUsed,
    WaitShape, AnswerSentOnce, Used, ExecutionStatus, TerminalExecution, Terminal, callVars,
    leaseVars, inputVars, clockVars, vars
<1>1. ASSUME NEW w \in Workers, PrepareStale(w) PROVE AnswerSentOnce'
  BY <1>1 DEF PrepareStale, OwnsLease, Leave, Goto
<1>2. ASSUME NEW w \in Workers, PrepareTimesOut(w) PROVE AnswerSentOnce'
  BY <1>2 DEF PrepareTimesOut, MayPrepare, OwnsLease, InFlight, EndCall, Goto
<1>3. ASSUME NEW w \in Workers, PrepareRefused(w) PROVE AnswerSentOnce'
  BY <1>3 DEF PrepareRefused, MayPrepare, OwnsLease, InFlight, EndCall, ClearLease, Goto
<1>4. ASSUME NEW w \in Workers, PrepareStarts(w) PROVE AnswerSentOnce'
  BY <1>4 DEF PrepareStarts, MayPrepare, OwnsLease, Goto
<1>5. ASSUME NEW w \in Workers, PrepareReplays(w) PROVE AnswerSentOnce'
  BY <1>5 DEF PrepareReplays, MayPrepare, OwnsLease, InFlight, AnsweredResume, Goto
<1>6. ASSUME NEW w \in Workers, GateStale(w) PROVE AnswerSentOnce'
  BY <1>6 DEF GateStale, Leave, Goto
<1>7. ASSUME NEW w \in Workers, GateCancels(w) PROVE AnswerSentOnce'
  BY <1>7 DEF GateCancels, OwnsLease, EndCall, ClearLease, Goto
<1>8. ASSUME NEW w \in Workers, GateRefuses(w) PROVE AnswerSentOnce'
  BY <1>8 DEF GateRefuses, OwnsLease, Goto
<1>9. ASSUME NEW w \in Workers, GatePasses(w) PROVE AnswerSentOnce'
  <2>1. PICK k \in Carried(rounds) : sent' = [sent EXCEPT ![k] = @ + 1]
    BY <1>9 DEF GatePasses
  <2>2. pc[w] = "gate" /\ held[w] = leaseToken /\ leaseToken # 0 /\ call = "STARTED"
    BY <1>9 DEF GatePasses, OwnsLease
  <2>3. k = <<attempt, rounds>>
    BY <2>1, RequestPairs DEF Carried, AnsweredResume
  <2>4. attempt \in 1 .. MaxAttempts /\ rounds \in 0 .. MaxRounds + 1
    BY <2>2
  <2>5. k \in Sendings /\ k[1] = attempt /\ k[2] = rounds
    BY <2>3, <2>4
  <2>6. sent[k] = 0
    BY <2>2, <2>3
  <2>7. UNCHANGED <<status, step, callVars, inputVars, leaseVars, held>> /\ pc' = [pc EXCEPT ![w] = "remote"]
    BY <1>9 DEF GatePasses, Goto
  <2>8. k[2] > 0 => requests[k] = "ANSWERED"
    BY <2>1, <2>5 DEF Carried, AnsweredResume
  <2>9. SUFFICES ASSUME NEW j \in Sendings
        PROVE  sent'[j] <= 1 /\ (sent'[j] > 0 /\ j[2] > 0 => requests'[j] = "ANSWERED")
    OBVIOUS
  <2>10. CASE j = k
    BY <2>1, <2>5, <2>6, <2>7, <2>8, <2>10
  <2>11. CASE j # k
    <3>1. sent'[j] = sent[j] /\ requests' = requests
      BY <2>1, <2>7, <2>11
    <3> QED
      BY <3>1
  <2> QED
    BY <2>10, <2>11
<1>10. ASSUME NEW w \in Workers, FinalizeStale(w) PROVE AnswerSentOnce'
  BY <1>10 DEF FinalizeStale, Leave, Goto
<1>11. ASSUME NEW w \in Workers, FinalizeFatal(w) PROVE AnswerSentOnce'
  BY <1>11 DEF FinalizeFatal, OwnsLease, EndCall, ClearLease, Goto
<1>12. ASSUME NEW w \in Workers, NEW o \in {"SUCCEEDED", "FAILED", "TIMED_OUT"}, FinalizeKnown(w, o)
      PROVE  AnswerSentOnce'
  BY <1>12 DEF FinalizeKnown, OwnsLease, EndCall, ClearLease, Goto
<1>13. ASSUME NEW w \in Workers, FinalizeRetries(w) PROVE AnswerSentOnce'
  BY <1>13 DEF FinalizeRetries, OwnsLease, Goto
<1>14. ASSUME NEW w \in Workers, InputRefused(w) PROVE AnswerSentOnce'
  BY <1>14 DEF InputRefused, InputRequired, OwnsLease, EndCall, ClearLease, Goto
<1>15. ASSUME NEW w \in Workers, InputCancelled(w) PROVE AnswerSentOnce'
  BY <1>15 DEF InputCancelled, InputRequired, OwnsLease, ClearLease, Goto
<1>16. ASSUME NEW w \in Workers, InputTooLate(w) PROVE AnswerSentOnce'
  BY <1>16 DEF InputTooLate, InputRequired, OwnsLease, Goto
<1>17. ASSUME NEW w \in Workers, InputOpens(w) PROVE AnswerSentOnce'
  BY <1>17 DEF InputOpens, InputRequired, OwnsLease, RoundNo, OpenRequests, ClearLease, Goto
<1>18. ASSUME NEW w \in Workers, SettleStops(w) PROVE AnswerSentOnce'
  BY <1>18 DEF SettleStops, ClearLease, Goto
<1>19. ASSUME NEW w \in Workers, SettleFenced(w) PROVE AnswerSentOnce'
  BY <1>19 DEF SettleFenced, Leave, Goto
<1>20. ASSUME NEW w \in Workers, SettleSucceeds(w) PROVE AnswerSentOnce'
  BY <1>20 DEF SettleSucceeds, OwnsLease, ClearLease, Goto
<1>21. ASSUME NEW w \in Workers, NEW r \in Requests, ResumeClaim(w, r) PROVE AnswerSentOnce'
  BY <1>21 DEF ResumeClaim, MayResume, ResumesLastRound, InFlight, AssignLease, Goto
<1>22. ASSUME NEW w \in Workers, NEW r \in Requests, ResumeFails(w, r) PROVE AnswerSentOnce'
  BY <1>22 DEF ResumeFails, MayResume, OpenRequests, ClearLease
<1>23. ASSUME NEW w \in Workers, RecoverTakesOver(w) PROVE AnswerSentOnce'
  BY <1>23 DEF RecoverTakesOver, MayRecover, RoundEnded, InFlight, AssignLease, Goto
<1>24. ASSUME NEW w \in Workers, RecoverExhausted(w) PROVE AnswerSentOnce'
  BY <1>24 DEF RecoverExhausted, MayRecover, RoundEnded, InFlight, EndCall, ClearLease
<1>25. ASSUME NEW w \in Workers, RecoverUnknown(w) PROVE AnswerSentOnce'
  BY <1>25 DEF RecoverUnknown, MayRecover, InFlight, EndCall, ClearLease
<1>26. ASSUME NEW w \in Workers, RecoverInconsistent(w) PROVE AnswerSentOnce'
  BY <1>26 DEF RecoverInconsistent, MayRecover, RoundEnded, InFlight, ClearLease
<1>27. ASSUME NEW w \in Workers, Crash(w) PROVE AnswerSentOnce'
  BY <1>27 DEF Crash, Goto
<1>28. ASSUME NEW r \in Requests, Answer(r) PROVE AnswerSentOnce'
  BY <1>28 DEF Answer, DurableWait, OpenRequests
<1>29. ASSUME NEW r \in Requests, Reject(r) PROVE AnswerSentOnce'
  BY <1>29 DEF Reject, DurableWait, OpenRequests, ClearLease
<1>30. ASSUME NEW r \in Requests, RelayPublish(r) PROVE AnswerSentOnce'
  BY <1>30 DEF RelayPublish
<1>31. ASSUME NEW r \in Requests, RelayCommit(r) PROVE AnswerSentOnce'
  BY <1>31 DEF RelayCommit
<1>32. CASE CancelImmediate
  BY <1>32 DEF CancelImmediate, InFlight, RejectOpen, ClearLease
<1>33. CASE CancelCooperative
  BY <1>33 DEF CancelCooperative, InFlight, RejectOpen
<1>34. CASE BudgetRunsOut
  BY <1>34 DEF BudgetRunsOut
<1>35. CASE PolicyDrifts
  BY <1>35 DEF PolicyDrifts
<1>36. CASE LeaseLapses
  BY <1>36 DEF LeaseLapses
<1>37. CASE UNCHANGED vars
  BY <1>37
<1> HIDE DEF AnswerSentOnce
<1> QED
  BY <1>1, <1>2, <1>3, <1>4, <1>5, <1>6, <1>7, <1>8, <1>9, <1>10, <1>11, <1>12, <1>13, <1>14,
     <1>15, <1>16, <1>17, <1>18, <1>19, <1>20, <1>21, <1>22, <1>23, <1>24, <1>25, <1>26, <1>27,
     <1>28, <1>29, <1>30, <1>31, <1>32, <1>33, <1>34, <1>35, <1>36, <1>37
  DEF Next, TaskStep, Prepare, Gate, Finalize, Settle, Resume, Recover, User, Relay

\* No step changes an ended request or an ended Step.
LEMMA EndedStep ==
  ASSUME InputWaitTypeOK, RowsAgree, TaskPlace, WaitShape, RequestsUsed, [Next]_vars
  PROVE  EndedStays
<1> USE RequestPairs, RoundsAssumption, AttemptsAssumption, FaultsAssumption
<1> USE DEF InputWaitTypeOK, RowsAgree, TaskPlace, WaitShape, RequestsUsed, EndedStays, Used,
    ExecutionStatus, TerminalExecution, Terminal, callVars, leaseVars, inputVars, clockVars,
    vars
<1>1. ASSUME NEW w \in Workers, PrepareStale(w) PROVE EndedStays
  BY <1>1 DEF PrepareStale, OwnsLease, Leave, Goto
<1>2. ASSUME NEW w \in Workers, PrepareTimesOut(w) PROVE EndedStays
  BY <1>2 DEF PrepareTimesOut, MayPrepare, OwnsLease, InFlight, EndCall, Goto
<1>3. ASSUME NEW w \in Workers, PrepareRefused(w) PROVE EndedStays
  BY <1>3 DEF PrepareRefused, MayPrepare, OwnsLease, InFlight, EndCall, ClearLease, Goto
<1>4. ASSUME NEW w \in Workers, PrepareStarts(w) PROVE EndedStays
  BY <1>4 DEF PrepareStarts, MayPrepare, OwnsLease, Goto
<1>5. ASSUME NEW w \in Workers, PrepareReplays(w) PROVE EndedStays
  BY <1>5 DEF PrepareReplays, MayPrepare, OwnsLease, InFlight, AnsweredResume, Goto
<1>6. ASSUME NEW w \in Workers, GateStale(w) PROVE EndedStays
  BY <1>6 DEF GateStale, Leave, Goto
<1>7. ASSUME NEW w \in Workers, GateCancels(w) PROVE EndedStays
  BY <1>7 DEF GateCancels, OwnsLease, EndCall, ClearLease, Goto
<1>8. ASSUME NEW w \in Workers, GateRefuses(w) PROVE EndedStays
  BY <1>8 DEF GateRefuses, OwnsLease, Goto
<1>9. ASSUME NEW w \in Workers, GatePasses(w) PROVE EndedStays
  BY <1>9 DEF GatePasses, OwnsLease, Carried, AnsweredResume, Goto
<1>10. ASSUME NEW w \in Workers, FinalizeStale(w) PROVE EndedStays
  BY <1>10 DEF FinalizeStale, Leave, Goto
<1>11. ASSUME NEW w \in Workers, FinalizeFatal(w) PROVE EndedStays
  BY <1>11 DEF FinalizeFatal, OwnsLease, EndCall, ClearLease, Goto
<1>12. ASSUME NEW w \in Workers, NEW o \in {"SUCCEEDED", "FAILED", "TIMED_OUT"}, FinalizeKnown(w, o)
      PROVE  EndedStays
  BY <1>12 DEF FinalizeKnown, OwnsLease, EndCall, ClearLease, Goto
<1>13. ASSUME NEW w \in Workers, FinalizeRetries(w) PROVE EndedStays
  BY <1>13 DEF FinalizeRetries, OwnsLease, Goto
<1>14. ASSUME NEW w \in Workers, InputRefused(w) PROVE EndedStays
  BY <1>14 DEF InputRefused, InputRequired, OwnsLease, EndCall, ClearLease, Goto
<1>15. ASSUME NEW w \in Workers, InputCancelled(w) PROVE EndedStays
  BY <1>15 DEF InputCancelled, InputRequired, OwnsLease, ClearLease, Goto
<1>16. ASSUME NEW w \in Workers, InputTooLate(w) PROVE EndedStays
  <2>1. step = "RUNNING" /\ attempt \in 1 .. MaxAttempts /\ rounds + 1 \in 1 .. MaxRounds + 1
    BY <1>16 DEF InputTooLate, InputRequired, OwnsLease
  <2>2. <<attempt, rounds + 1>> \in Requests /\ requests[<<attempt, rounds + 1>>] = "NONE"
    BY <2>1
  <2> QED
    BY <1>16, <2>1, <2>2 DEF InputTooLate
<1>17. ASSUME NEW w \in Workers, InputOpens(w) PROVE EndedStays
  BY <1>17 DEF InputOpens, InputRequired, OwnsLease, RoundNo, OpenRequests, ClearLease, Goto
<1>18. ASSUME NEW w \in Workers, SettleStops(w) PROVE EndedStays
  BY <1>18 DEF SettleStops, ClearLease, Goto
<1>19. ASSUME NEW w \in Workers, SettleFenced(w) PROVE EndedStays
  BY <1>19 DEF SettleFenced, Leave, Goto
<1>20. ASSUME NEW w \in Workers, SettleSucceeds(w) PROVE EndedStays
  BY <1>20 DEF SettleSucceeds, OwnsLease, ClearLease, Goto
<1>21. ASSUME NEW w \in Workers, NEW r \in Requests, ResumeClaim(w, r) PROVE EndedStays
  BY <1>21 DEF ResumeClaim, MayResume, ResumesLastRound, InFlight, AssignLease, Goto
<1>22. ASSUME NEW w \in Workers, NEW r \in Requests, ResumeFails(w, r) PROVE EndedStays
  BY <1>22 DEF ResumeFails, MayResume, OpenRequests, ClearLease
<1>23. ASSUME NEW w \in Workers, RecoverTakesOver(w) PROVE EndedStays
  BY <1>23 DEF RecoverTakesOver, MayRecover, RoundEnded, InFlight, AssignLease, Goto
<1>24. ASSUME NEW w \in Workers, RecoverExhausted(w) PROVE EndedStays
  BY <1>24 DEF RecoverExhausted, MayRecover, RoundEnded, InFlight, EndCall, ClearLease
<1>25. ASSUME NEW w \in Workers, RecoverUnknown(w) PROVE EndedStays
  BY <1>25 DEF RecoverUnknown, MayRecover, InFlight, EndCall, ClearLease
<1>26. ASSUME NEW w \in Workers, RecoverInconsistent(w) PROVE EndedStays
  BY <1>26 DEF RecoverInconsistent, MayRecover, RoundEnded, InFlight, ClearLease
<1>27. ASSUME NEW w \in Workers, Crash(w) PROVE EndedStays
  BY <1>27 DEF Crash, Goto
<1>28. ASSUME NEW r \in Requests, Answer(r) PROVE EndedStays
  BY <1>28 DEF Answer, DurableWait, OpenRequests
<1>29. ASSUME NEW r \in Requests, Reject(r) PROVE EndedStays
  BY <1>29 DEF Reject, DurableWait, OpenRequests, ClearLease
<1>30. ASSUME NEW r \in Requests, RelayPublish(r) PROVE EndedStays
  BY <1>30 DEF RelayPublish
<1>31. ASSUME NEW r \in Requests, RelayCommit(r) PROVE EndedStays
  BY <1>31 DEF RelayCommit
<1>32. CASE CancelImmediate
  BY <1>32 DEF CancelImmediate, InFlight, RejectOpen, ClearLease
<1>33. CASE CancelCooperative
  BY <1>33 DEF CancelCooperative, InFlight, RejectOpen
<1>34. CASE BudgetRunsOut
  BY <1>34 DEF BudgetRunsOut
<1>35. CASE PolicyDrifts
  BY <1>35 DEF PolicyDrifts
<1>36. CASE LeaseLapses
  BY <1>36 DEF LeaseLapses
<1>37. CASE UNCHANGED vars
  BY <1>37
<1> HIDE DEF EndedStays
<1> QED
  BY <1>1, <1>2, <1>3, <1>4, <1>5, <1>6, <1>7, <1>8, <1>9, <1>10, <1>11, <1>12, <1>13, <1>14,
     <1>15, <1>16, <1>17, <1>18, <1>19, <1>20, <1>21, <1>22, <1>23, <1>24, <1>25, <1>26, <1>27,
     <1>28, <1>29, <1>30, <1>31, <1>32, <1>33, <1>34, <1>35, <1>36, <1>37
  DEF Next, TaskStep, Prepare, Gate, Finalize, Settle, Resume, Recover, User, Relay

-----------------------------------------------------------------------------
(* The theorems.                                                           *)

\* A freshly claimed Execution satisfies the invariant.
LEMMA InitInvariant == Init => InputInv
<1> SUFFICES ASSUME Init PROVE InputInv
  OBVIOUS
<1> USE RoundsAssumption, AttemptsAssumption, FaultsAssumption
<1> USE DEF Init, ExecutionStatus, TerminalExecution, Terminal
<1>1. PICK w \in Workers :
        /\ pc = [v \in Workers |-> IF v = w THEN "prepare" ELSE "idle"]
        /\ held = [v \in Workers |-> IF v = w THEN 1 ELSE 0]
  OBVIOUS
<1>2. InputWaitTypeOK
  <2>1. pc \in [Workers -> {"idle", "prepare", "gate", "remote", "refused", "succeeded", "stopped"}]
    BY <1>1
  <2>2. held \in [Workers -> Nat]
    BY <1>1
  <2>3. sent \in [Sendings -> Nat]
    OBVIOUS
  <2>4. /\ requests \in [Requests -> {"NONE", "OPEN", "ANSWERED", "REJECTED", "EXPIRED"}]
        /\ events \in [Requests -> {"NONE", "UNPUBLISHED", "SENT", "PUBLISHED"}]
    OBVIOUS
  <2>5. /\ attempt \in 0 .. MaxAttempts
        /\ rounds \in 0 .. MaxRounds
        /\ faults \in 0 .. MaxFaults
    OBVIOUS
  <2>6. leaseToken \in Nat /\ leaseLeft \in 0 .. 1 /\ nextToken \in Nat \ {0}
    OBVIOUS
  <2> QED
    BY <2>1, <2>2, <2>3, <2>4, <2>5, <2>6 DEF InputWaitTypeOK
<1>3. TokensFresh /\ SingleHolder /\ RowsAgree /\ TaskPlace
  BY <1>1 DEF TokensFresh, SingleHolder, RowsAgree, TaskPlace
<1>4. WaitShape /\ AnswerInHand /\ RequestsUsed
  BY DEF WaitShape, AnswerInHand, RequestsUsed
<1>5. SendingsUsed /\ AnswerSentOnce
  BY <1>1 DEF SendingsUsed, AnswerSentOnce
<1> QED
  BY <1>2, <1>3, <1>4, <1>5 DEF InputInv

\* The invariant is inductive.
LEMMA InvariantStep == InputInv /\ [Next]_vars => InputInv'
BY TypeStep, TokensStep, HolderStep, RowsStep, PlaceStep, WaitStep, AnswerStep, RequestsStep,
   SendingsStep, OnceStep
DEF InputInv

\* The invariant always holds.
THEOREM InvariantHolds == Spec => []InputInv
BY InitInvariant, InvariantStep, PTL DEF Spec

\* Rows, lease, tasks and counters keep their types.
THEOREM InputTypeCorrect == Spec => []InputWaitTypeOK
<1>1. InputInv => InputWaitTypeOK
  BY DEF InputInv
<1> QED
  BY <1>1, InvariantHolds, PTL

\* An Execution waits exactly while its Step does, without a lease, and for the last
\* round of its STARTED Attempt, which is open or answered with its resume event:
\* assert_durable_waiting_input never meets a state it refuses.
THEOREM WaitsAreBacked == Spec => []WaitIsBacked
<1>1. InputInv => WaitIsBacked
  <2> SUFFICES ASSUME InputInv PROVE WaitIsBacked
    OBVIOUS
  <2> USE RequestPairs, RoundsAssumption
  <2> USE DEF InputInv, InputWaitTypeOK, RowsAgree, WaitShape, Waiting
  <2>1. Waiting <=> step = "WAITING_INPUT"
    OBVIOUS
  <2>2. OpenRequests # {} => Waiting
    BY DEF OpenRequests
  <2>3. ASSUME Waiting
        PROVE  \E r \in Requests :
                 /\ r = <<attempt, rounds>>
                 /\ DurableWait(r) \/ (Answered(r) /\ OpenRequests = {})
    <3> DEFINE r == <<attempt, rounds>>
    <3>1. r \in Requests /\ leaseToken = 0 /\ attStatus = "STARTED" /\ call = "NONE"
      BY <2>3
    <3>2. OpenRequests \subseteq {r}
      BY <2>3 DEF OpenRequests
    <3>3. CASE requests[r] = "OPEN"
      <4>1. OpenRequests = {r}
        BY <3>1, <3>2, <3>3 DEF OpenRequests
      <4> QED
        BY <2>3, <3>1, <4>1 DEF DurableWait
    <3>4. CASE requests[r] = "ANSWERED" /\ events[r] # "NONE"
      <4>1. OpenRequests = {}
        BY <3>2, <3>4 DEF OpenRequests
      <4> QED
        BY <3>1, <3>4, <4>1 DEF Answered
    <3> QED
      BY <2>3, <3>3, <3>4
  <2> QED
    BY <2>1, <2>2, <2>3 DEF WaitIsBacked
<1> QED
  BY <1>1, InvariantHolds, PTL

\* No tools/call of an Attempt leaves twice, and one that carries an answer carries
\* that of the round before it, whatever messages, tasks and recoveries overlap.
THEOREM AnswersAreSentOnce == Spec => []AnswerSentOnce
<1>1. InputInv => AnswerSentOnce
  BY DEF InputInv
<1> QED
  BY <1>1, InvariantHolds, PTL

\* What a user decided or time ended stays so, and a Step that ended stays ended:
\* neither a late task nor recovery reopens it.
THEOREM EndedRowsAreFinal == Spec => [][EndedStays]_vars
<1>1. InputInv /\ [Next]_vars => [EndedStays]_vars
  BY EndedStep DEF InputInv
<1> QED
  BY <1>1, InvariantHolds, PTL DEF Spec
=============================================================================
