-------------------------- MODULE ToolFactoryProofs --------------------------
(***************************************************************************)
(* Proofs about ToolFactory, for any number of workers, callers, messages  *)
(* and faults.  The fence of the workers does not keep a late worker from  *)
(* finishing a row again, so nothing here rests on it.  The argument is    *)
(* that the bytes are fixed before a TestRun exists, that a verdict and    *)
(* its row are written together, that a Review pins a verdict that passed, *)
(* and that Publish holds the Review's lock from its checks to its commit. *)
(***************************************************************************)
EXTENDS ToolFactory, SequenceTheorems, TLAPS

(* The inductive invariant, part by part.                                  *)

\* The types FactoryTypeOK leaves out.
Tasks == [pc : {"CLAIMED", "LOADED"}, kind : Kinds, tok : Nat, seen : LeasedRows]

TasksTypeOK ==
  /\ task \in [Workers -> {Idle} \cup Tasks]
  /\ call \in [Callers -> {"IDLE", "JOB", "PACKAGE", "CLEANUP", "DELETE", "PUBLISH"}]
  /\ lock \in [build : Callers \cup {NoCaller}, review : Callers \cup {NoCaller}]
  /\ doc \in [owner : Callers \cup {NoCaller}, good : BOOLEAN]
  /\ servers \in Seq(Reviews)
  /\ artifact \in BOOLEAN /\ candidates \in BOOLEAN /\ build \in BOOLEAN

\* The lease tokens of a row count its claims, and no two workers were given
\* the same one.
TokensDistinct ==
  /\ \A w \in Workers : task[w].pc # "IDLE" => task[w].tok <= row[task[w].kind].tok
  /\ \A v, w \in Workers :
       (/\ task[v].pc # "IDLE" /\ task[w].pc # "IDLE"
        /\ task[v].kind = task[w].kind /\ task[v].tok = task[w].tok) => v = w

\* Each stage is entered only after the one before it: Build, Package, TestRun,
\* and a worker on the TestRun.
StagesInOrder ==
  /\ package.row => build
  /\ \A c \in Callers : call[c] = "PACKAGE" => build
  /\ row["TEST"].st # "NONE" => package.row
  /\ \A w \in Workers : task[w].pc # "IDLE" /\ task[w].kind = "TEST" => row["TEST"].st # "NONE"

\* A verdict that passed is about bytes that pass, and so is a Review.
VerdictsTrue ==
  /\ evidence = "PASS" => package.content = "SOUND"
  /\ \A r \in reviews : r.evidence = "PASS" /\ package.row /\ package.content = "SOUND"
  /\ \A r, s \in reviews : r = s

\* A Publish between its checks and its commit holds the Review's lock over an
\* approval that nobody has published.
PublishHolds ==
  \A c \in Callers : call[c] = "PUBLISH" =>
    /\ lock.review = c
    /\ servers = <<>>
    /\ reviews # {}
    /\ \A r \in reviews : r.decision = "APPROVE"

\* The inductive invariant.
FactoryInv ==
  /\ FactoryTypeOK
  /\ TasksTypeOK
  /\ TokensDistinct
  /\ StagesInOrder
  /\ FinishedIsComplete
  /\ VerdictsTrue
  /\ PublishHolds
  /\ PublishedIsBacked

\* Once a server is imported, it, its Review and the bytes it was made from stay.
PublishedStays ==
  servers # <<>> =>
    servers' = servers /\ reviews' = reviews /\ package'.content = package.content

-----------------------------------------------------------------------------
(* Lemmas about the operations.                                            *)

\* What finishing a row does: the row ends and keeps its token, the other row and
\* the other tasks stay.
LEMMA DoneEffect ==
  ASSUME FactoryTypeOK, TasksTypeOK, NEW w \in Workers, NEW k \in Kinds, NEW st \in Terminal,
         Done(w, k, st)
  PROVE  /\ row' \in [Kinds -> LeasedRows]
         /\ row'[k].st = st
         /\ \A j \in Kinds : row'[j].tok = row[j].tok /\ (j # k => row'[j] = row[j])
         /\ task' = [task EXCEPT ![w] = Idle]
<1>1. /\ row[k].tok \in Nat
      /\ row' = [row EXCEPT ![k] = [st |-> st, tok |-> row[k].tok, live |-> FALSE]]
  BY DEF Done, FactoryTypeOK, LeasedRows
<1>2. [st |-> st, tok |-> row[k].tok, live |-> FALSE] \in LeasedRows
  BY <1>1 DEF LeasedRows
<1>3. row' \in [Kinds -> LeasedRows]
  BY <1>1, <1>2 DEF FactoryTypeOK
<1>4. /\ row'[k].st = st
      /\ \A j \in Kinds : row'[j].tok = row[j].tok /\ (j # k => row'[j] = row[j])
  BY <1>1 DEF FactoryTypeOK
<1> QED
  BY <1>3, <1>4 DEF Done

\* Both workers finish their own row, at the cost of a fault or not; the Job only
\* with all its results, and the TestRun with the verdict it deserves or FAIL.
LEMMA AnalyzeEffect ==
  ASSUME FactoryTypeOK, TasksTypeOK, NEW w \in Workers, Analyze(w)
  PROVE  /\ faults' \in 0 .. MaxFaults
         /\ artifact' \in BOOLEAN /\ candidates' \in BOOLEAN
         /\ row' \in [Kinds -> LeasedRows]
         /\ row'["JOB"].st = "SUCCEEDED" => artifact' /\ candidates'
         /\ row'["TEST"] = row["TEST"]
         /\ \A k \in Kinds : row'[k].tok = row[k].tok
         /\ task' = [task EXCEPT ![w] = Idle]
<1>1. faults' \in 0 .. MaxFaults
  BY FactoryAssumption DEF Analyze, StoreCandidates, Fault, FactoryTypeOK
<1>2. artifact' \in BOOLEAN /\ candidates' \in BOOLEAN
  BY DEF Analyze, StoreCandidates, TasksTypeOK
<1>3. PICK st \in Terminal :
        Done(w, "JOB", st) /\ (st = "SUCCEEDED" => artifact' /\ candidates')
  BY DEF Analyze, StoreCandidates, FinishJob, Terminal
<1>4. /\ row' \in [Kinds -> LeasedRows]
      /\ row'["JOB"].st = st
      /\ \A j \in Kinds : row'[j].tok = row[j].tok /\ (j # "JOB" => row'[j] = row[j])
      /\ task' = [task EXCEPT ![w] = Idle]
  BY <1>3, DoneEffect DEF Kinds
<1> QED
  BY <1>1, <1>2, <1>3, <1>4 DEF Kinds

LEMMA SandboxEffect ==
  ASSUME FactoryTypeOK, NEW w \in Workers, SandboxTest(w)
  PROVE  /\ faults' \in 0 .. MaxFaults
         /\ evidence' \in Verdicts
         /\ evidence' = "PASS" => package.content = "SOUND"
         /\ Done(w, "TEST", IF evidence' = "PASS" THEN "SUCCEEDED" ELSE "FAILED")
<1> USE FactoryAssumption DEF FactoryTypeOK, Verdicts
<1>1. faults' \in 0 .. MaxFaults
  BY DEF SandboxTest, Fault
<1>2. /\ evidence' \in Verdicts
      /\ Done(w, "TEST", IF evidence' = "PASS" THEN "SUCCEEDED" ELSE "FAILED")
  BY DEF SandboxTest, FinishTest
<1>3. evidence' = "PASS" => package.content = "SOUND"
  BY DEF SandboxTest, FinishTest, Secure, OnContract, Packages, Contents
<1> QED
  BY <1>1, <1>2, <1>3

\* A worker that stops, for whatever reason, leaves the tokens apart.
LEMMA TaskEnds ==
  ASSUME TasksTypeOK, TokensDistinct, NEW w \in Workers,
         task' = [task EXCEPT ![w] = Idle],
         \A k \in Kinds : row'[k].tok = row[k].tok
  PROVE  TokensDistinct'
<1>1. task'[w].pc = "IDLE" /\ \A v \in Workers : v # w => task'[v] = task[v]
  BY DEF TasksTypeOK, Idle
<1>2. \A v \in Workers : task[v].pc # "IDLE" => task[v].kind \in Kinds
  BY DEF TasksTypeOK, Idle, Tasks
<1>3. ASSUME NEW u \in Workers, task'[u].pc # "IDLE" PROVE u # w /\ task'[u] = task[u]
  BY <1>1, <1>3
<1>4. ASSUME NEW u \in Workers, task'[u].pc # "IDLE" PROVE task'[u].tok <= row'[task'[u].kind].tok
  <2>1. task'[u] = task[u] /\ row'[task[u].kind].tok = row[task[u].kind].tok
    BY <1>2, <1>3, <1>4
  <2> QED
    BY <1>4, <2>1 DEF TokensDistinct
<1>5. ASSUME NEW u \in Workers, NEW v \in Workers, task'[u].pc # "IDLE", task'[v].pc # "IDLE",
            task'[u].kind = task'[v].kind, task'[u].tok = task'[v].tok
      PROVE  u = v
  <2>1. task'[u] = task[u] /\ task'[v] = task[v]
    BY <1>3, <1>5
  <2> QED
    BY <1>5, <2>1 DEF TokensDistinct
<1> QED
  BY <1>4, <1>5 DEF TokensDistinct

-----------------------------------------------------------------------------
(* Every step keeps each part of the invariant.                            *)

\* Every step keeps the types and the bounds.
LEMMA TypeStep ==
  ASSUME FactoryTypeOK, TasksTypeOK, [FactoryNext]_fvars
  PROVE  FactoryTypeOK'
<1> USE FactoryAssumption
<1> USE DEF FactoryTypeOK, TasksTypeOK, Kinds, LeasedRows, Terminal, Idle, Tasks, Packages,
    Contents, Reviews, Verdicts, dispatch, analysis, product, api, verdict, fvars
<1>1. ASSUME NEW c \in Callers, CreateJobPut(c) PROVE FactoryTypeOK'
  BY <1>1 DEF CreateJobPut
<1>2. ASSUME NEW c \in Callers, CreateJobCommit(c) PROVE FactoryTypeOK'
  BY <1>2 DEF CreateJobCommit, JobIsNew
<1>3. ASSUME NEW c \in Callers, CreateJobLose(c) PROVE FactoryTypeOK'
  BY <1>3 DEF CreateJobLose
<1>4. ASSUME NEW c \in Callers, GeneratePut(c) PROVE FactoryTypeOK'
  BY <1>4 DEF GeneratePut, PackageIsNew
<1>5. ASSUME NEW c \in Callers, GenerateCommit(c) PROVE FactoryTypeOK'
  BY <1>5 DEF GenerateCommit
<1>6. ASSUME NEW c \in Callers, GenerateFail(c) PROVE FactoryTypeOK'
  BY <1>6 DEF GenerateFail, Fault
<1>7. ASSUME NEW c \in Callers, CleanupLook(c) PROVE FactoryTypeOK'
  BY <1>7 DEF CleanupLook
<1>8. ASSUME NEW c \in Callers, CleanupDelete(c) PROVE FactoryTypeOK'
  BY <1>8 DEF CleanupDelete
<1>9. ASSUME NEW c \in Callers, PublishCheck(c) PROVE FactoryTypeOK'
  BY <1>9 DEF PublishCheck, PublishIsNew, SealedApproval, Passed, BytesMatch
<1>10. ASSUME NEW c \in Callers, PublishCommit(c) PROVE FactoryTypeOK'
  BY <1>10 DEF PublishCommit, ImportDraft
<1>11. ASSUME NEW c \in Callers, CrashCaller(c) PROVE FactoryTypeOK'
  BY <1>11 DEF CrashCaller, Fault
<1>12. ASSUME NEW k \in Kinds, Relay(k) PROVE FactoryTypeOK'
  <2>1. msgs' \in [Kinds -> 0 .. MaxMsgs]
    BY <1>12 DEF Relay, Send
  <2>2. outbox' \subseteq Kinds
    <3>1. outbox' \subseteq outbox
      BY <1>12 DEF Relay
    <3> QED
      BY <3>1
  <2>3. faults' \in 0 .. MaxFaults
    BY <1>12 DEF Relay, Fault
  <2> QED
    BY <1>12, <2>1, <2>2, <2>3 DEF Relay
<1>13. ASSUME NEW k \in Kinds, LoseMessage(k) PROVE FactoryTypeOK'
  BY <1>13 DEF LoseMessage, Fault
<1>14. ASSUME NEW k \in Kinds, Recover(k) PROVE FactoryTypeOK'
  BY <1>14 DEF Recover, Send
<1>15. ASSUME NEW k \in Kinds, LeaseExpires(k) PROVE FactoryTypeOK'
  <2>1. [row[k] EXCEPT !.live = FALSE] \in LeasedRows
    <3>1. row[k] \in LeasedRows
      OBVIOUS
    <3> QED
      BY ONLY <3>1 DEF LeasedRows
  <2>3. row' \in [Kinds -> LeasedRows]
    BY <1>15, <2>1 DEF LeaseExpires
  <2>2. faults' \in 0 .. MaxFaults
    BY <1>15 DEF LeaseExpires, Fault
  <2> QED
    BY <1>15, <2>2, <2>3 DEF LeaseExpires
<1>16. ASSUME NEW w \in Workers, NEW k \in Kinds, Claim(w, k) PROVE FactoryTypeOK'
  BY <1>16 DEF Claim, Claimable, JobClaimable, TestClaimable
<1>17. ASSUME NEW w \in Workers, NEW k \in Kinds, Skip(w, k) PROVE FactoryTypeOK'
  BY <1>17 DEF Skip
<1>18. ASSUME NEW w \in Workers, Load(w) PROVE FactoryTypeOK'
  BY <1>18 DEF Load
<1>19. ASSUME NEW w \in Workers, LeaseLost(w) PROVE FactoryTypeOK'
  BY <1>19 DEF LeaseLost
<1>20. ASSUME NEW w \in Workers, Analyze(w) PROVE FactoryTypeOK'
  <2>1. row' \in [Kinds -> LeasedRows] /\ faults' \in 0 .. MaxFaults
    BY <1>20, AnalyzeEffect
  <2> QED
    BY <1>20, <2>1 DEF Analyze
<1>21. ASSUME NEW w \in Workers, SandboxTest(w) PROVE FactoryTypeOK'
  <2>1. evidence' \in Verdicts /\ faults' \in 0 .. MaxFaults
    BY <1>21, SandboxEffect
  <2>2. row' \in [Kinds -> LeasedRows]
    BY <1>21, SandboxEffect, DoneEffect
  <2> QED
    BY <1>21, <2>1, <2>2 DEF SandboxTest
<1>22. ASSUME NEW w \in Workers, CrashWorker(w) PROVE FactoryTypeOK'
  BY <1>22 DEF CrashWorker, Send, Fault
<1>23. CASE CreateBuild
  BY <1>23 DEF CreateBuild, BuildIsNew
<1>24. CASE MaterializeCandidates
  BY <1>24 DEF MaterializeCandidates
<1>25. CASE CreateTestRun
  BY <1>25 DEF CreateTestRun, TestIsNew, Enqueueable
<1>26. ASSUME NEW d \in {"APPROVE", "REJECT"}, CreateReview(d) PROVE FactoryTypeOK'
  BY <1>26 DEF CreateReview, ReviewIsNew, Passed, BytesMatch
<1>27. CASE UNCHANGED fvars
  BY <1>27
<1> HIDE DEF FactoryTypeOK
<1> QED
  BY <1>1, <1>2, <1>3, <1>4, <1>5, <1>6, <1>7, <1>8, <1>9, <1>10, <1>11, <1>12, <1>13, <1>14,
     <1>15, <1>16, <1>17, <1>18, <1>19, <1>20, <1>21, <1>22, <1>23, <1>24, <1>25, <1>26, <1>27
  DEF FactoryNext

\* Every step keeps the types of tasks, requests and the rest.
LEMMA TasksTypeStep ==
  ASSUME FactoryTypeOK, TasksTypeOK, [FactoryNext]_fvars
  PROVE  TasksTypeOK'
<1> USE FactoryAssumption
<1> USE DEF FactoryTypeOK, TasksTypeOK, Kinds, LeasedRows, Terminal, Idle, Tasks, Packages,
    Contents, Reviews, Verdicts, dispatch, analysis, product, api, verdict, fvars
<1>1. ASSUME NEW c \in Callers, CreateJobPut(c) PROVE TasksTypeOK'
  BY <1>1 DEF CreateJobPut
<1>2. ASSUME NEW c \in Callers, CreateJobCommit(c) PROVE TasksTypeOK'
  BY <1>2 DEF CreateJobCommit, JobIsNew
<1>3. ASSUME NEW c \in Callers, CreateJobLose(c) PROVE TasksTypeOK'
  BY <1>3 DEF CreateJobLose
<1>4. ASSUME NEW c \in Callers, GeneratePut(c) PROVE TasksTypeOK'
  BY <1>4 DEF GeneratePut, PackageIsNew
<1>5. ASSUME NEW c \in Callers, GenerateCommit(c) PROVE TasksTypeOK'
  BY <1>5 DEF GenerateCommit
<1>6. ASSUME NEW c \in Callers, GenerateFail(c) PROVE TasksTypeOK'
  BY <1>6 DEF GenerateFail, Fault
<1>7. ASSUME NEW c \in Callers, CleanupLook(c) PROVE TasksTypeOK'
  BY <1>7 DEF CleanupLook
<1>8. ASSUME NEW c \in Callers, CleanupDelete(c) PROVE TasksTypeOK'
  BY <1>8 DEF CleanupDelete
<1>9. ASSUME NEW c \in Callers, PublishCheck(c) PROVE TasksTypeOK'
  BY <1>9 DEF PublishCheck, PublishIsNew, SealedApproval, Passed, BytesMatch
<1>10. ASSUME NEW c \in Callers, PublishCommit(c) PROVE TasksTypeOK'
  <2>1. PICK r \in reviews : servers' = Append(servers, r)
    BY <1>10 DEF PublishCommit, ImportDraft
  <2>2. servers' \in Seq(Reviews)
    BY <2>1
  <2> QED
    BY <1>10, <2>2 DEF PublishCommit
<1>11. ASSUME NEW c \in Callers, CrashCaller(c) PROVE TasksTypeOK'
  BY <1>11 DEF CrashCaller, Fault
<1>12. ASSUME NEW k \in Kinds, Relay(k) PROVE TasksTypeOK'
  BY <1>12 DEF Relay, Send, Fault
<1>13. ASSUME NEW k \in Kinds, LoseMessage(k) PROVE TasksTypeOK'
  BY <1>13 DEF LoseMessage, Fault
<1>14. ASSUME NEW k \in Kinds, Recover(k) PROVE TasksTypeOK'
  BY <1>14 DEF Recover, Send
<1>15. ASSUME NEW k \in Kinds, LeaseExpires(k) PROVE TasksTypeOK'
  BY <1>15 DEF LeaseExpires, Fault
<1>16. ASSUME NEW w \in Workers, NEW k \in Kinds, Claim(w, k) PROVE TasksTypeOK'
  BY <1>16 DEF Claim, Claimable, JobClaimable, TestClaimable
<1>17. ASSUME NEW w \in Workers, NEW k \in Kinds, Skip(w, k) PROVE TasksTypeOK'
  BY <1>17 DEF Skip
<1>18. ASSUME NEW w \in Workers, Load(w) PROVE TasksTypeOK'
  <2>1. task[w] \in Tasks /\ row[task[w].kind] \in LeasedRows
    BY <1>18 DEF Load
  <2>2. [task[w] EXCEPT !.pc = "LOADED", !.seen = row[task[w].kind]] \in Tasks
    BY <2>1
  <2>3. task' \in [Workers -> {Idle} \cup Tasks]
    BY <1>18, <2>2 DEF Load
  <2> QED
    BY <1>18, <2>3 DEF Load
<1>19. ASSUME NEW w \in Workers, LeaseLost(w) PROVE TasksTypeOK'
  BY <1>19 DEF LeaseLost
<1>20. ASSUME NEW w \in Workers, Analyze(w) PROVE TasksTypeOK'
  <2>1. task' = [task EXCEPT ![w] = Idle] /\ artifact' \in BOOLEAN /\ candidates' \in BOOLEAN
    BY <1>20, AnalyzeEffect
  <2>2. task' \in [Workers -> {Idle} \cup Tasks]
    BY <2>1
  <2> QED
    BY <1>20, <2>1, <2>2 DEF Analyze
<1>21. ASSUME NEW w \in Workers, SandboxTest(w) PROVE TasksTypeOK'
  <2>1. task' = [task EXCEPT ![w] = Idle]
    BY <1>21, SandboxEffect, DoneEffect
  <2>2. task' \in [Workers -> {Idle} \cup Tasks]
    BY <2>1
  <2> QED
    BY <1>21, <2>2 DEF SandboxTest
<1>22. ASSUME NEW w \in Workers, CrashWorker(w) PROVE TasksTypeOK'
  BY <1>22 DEF CrashWorker, Send, Fault
<1>23. CASE CreateBuild
  BY <1>23 DEF CreateBuild, BuildIsNew
<1>24. CASE MaterializeCandidates
  BY <1>24 DEF MaterializeCandidates
<1>25. CASE CreateTestRun
  BY <1>25 DEF CreateTestRun, TestIsNew, Enqueueable
<1>26. ASSUME NEW d \in {"APPROVE", "REJECT"}, CreateReview(d) PROVE TasksTypeOK'
  BY <1>26 DEF CreateReview, ReviewIsNew, Passed, BytesMatch
<1>27. CASE UNCHANGED fvars
  BY <1>27
<1> HIDE DEF TasksTypeOK
<1> QED
  BY <1>1, <1>2, <1>3, <1>4, <1>5, <1>6, <1>7, <1>8, <1>9, <1>10, <1>11, <1>12, <1>13, <1>14,
     <1>15, <1>16, <1>17, <1>18, <1>19, <1>20, <1>21, <1>22, <1>23, <1>24, <1>25, <1>26, <1>27
  DEF FactoryNext

\* A claim hands out a new token.
LEMMA TokensStep ==
  ASSUME FactoryTypeOK, TasksTypeOK, TokensDistinct, [FactoryNext]_fvars
  PROVE  TokensDistinct'
<1> USE DEF FactoryTypeOK, TasksTypeOK, Kinds, LeasedRows, Terminal, Idle, Tasks, Packages,
    Contents, Reviews, Verdicts, TokensDistinct, dispatch, analysis, product, api, verdict,
    fvars
<1>1. ASSUME NEW c \in Callers, CreateJobPut(c) PROVE TokensDistinct'
  BY <1>1 DEF CreateJobPut
<1>2. ASSUME NEW c \in Callers, CreateJobCommit(c) PROVE TokensDistinct'
  BY <1>2 DEF CreateJobCommit, JobIsNew
<1>3. ASSUME NEW c \in Callers, CreateJobLose(c) PROVE TokensDistinct'
  BY <1>3 DEF CreateJobLose
<1>4. ASSUME NEW c \in Callers, GeneratePut(c) PROVE TokensDistinct'
  BY <1>4 DEF GeneratePut, PackageIsNew
<1>5. ASSUME NEW c \in Callers, GenerateCommit(c) PROVE TokensDistinct'
  BY <1>5 DEF GenerateCommit
<1>6. ASSUME NEW c \in Callers, GenerateFail(c) PROVE TokensDistinct'
  BY <1>6 DEF GenerateFail, Fault
<1>7. ASSUME NEW c \in Callers, CleanupLook(c) PROVE TokensDistinct'
  BY <1>7 DEF CleanupLook
<1>8. ASSUME NEW c \in Callers, CleanupDelete(c) PROVE TokensDistinct'
  BY <1>8 DEF CleanupDelete
<1>9. ASSUME NEW c \in Callers, PublishCheck(c) PROVE TokensDistinct'
  BY <1>9 DEF PublishCheck, PublishIsNew, SealedApproval, Passed, BytesMatch
<1>10. ASSUME NEW c \in Callers, PublishCommit(c) PROVE TokensDistinct'
  BY <1>10 DEF PublishCommit, ImportDraft
<1>11. ASSUME NEW c \in Callers, CrashCaller(c) PROVE TokensDistinct'
  BY <1>11 DEF CrashCaller, Fault
<1>12. ASSUME NEW k \in Kinds, Relay(k) PROVE TokensDistinct'
  BY <1>12 DEF Relay, Send, Fault
<1>13. ASSUME NEW k \in Kinds, LoseMessage(k) PROVE TokensDistinct'
  BY <1>13 DEF LoseMessage, Fault
<1>14. ASSUME NEW k \in Kinds, Recover(k) PROVE TokensDistinct'
  BY <1>14 DEF Recover, Send
<1>15. ASSUME NEW k \in Kinds, LeaseExpires(k) PROVE TokensDistinct'
  BY <1>15 DEF LeaseExpires, Fault
<1>16. ASSUME NEW w \in Workers, NEW k \in Kinds, Claim(w, k) PROVE TokensDistinct'
  BY <1>16 DEF Claim, Claimable, JobClaimable, TestClaimable
<1>17. ASSUME NEW w \in Workers, NEW k \in Kinds, Skip(w, k) PROVE TokensDistinct'
  BY <1>17 DEF Skip
<1>18. ASSUME NEW w \in Workers, Load(w) PROVE TokensDistinct'
  BY <1>18 DEF Load
<1>19. ASSUME NEW w \in Workers, LeaseLost(w) PROVE TokensDistinct'
  <2>1. task' = [task EXCEPT ![w] = Idle] /\ UNCHANGED row
    BY <1>19 DEF LeaseLost
  <2> QED
    BY <2>1, TaskEnds
<1>20. ASSUME NEW w \in Workers, Analyze(w) PROVE TokensDistinct'
  <2>1. task' = [task EXCEPT ![w] = Idle] /\ \A k \in Kinds : row'[k].tok = row[k].tok
    BY <1>20, AnalyzeEffect
  <2> QED
    BY <2>1, TaskEnds
<1>21. ASSUME NEW w \in Workers, SandboxTest(w) PROVE TokensDistinct'
  <2>1. task' = [task EXCEPT ![w] = Idle] /\ \A k \in Kinds : row'[k].tok = row[k].tok
    BY <1>21, SandboxEffect, DoneEffect
  <2> QED
    BY <2>1, TaskEnds
<1>22. ASSUME NEW w \in Workers, CrashWorker(w) PROVE TokensDistinct'
  <2>1. task' = [task EXCEPT ![w] = Idle] /\ UNCHANGED row
    BY <1>22 DEF CrashWorker
  <2> QED
    BY <2>1, TaskEnds
<1>23. CASE CreateBuild
  BY <1>23 DEF CreateBuild, BuildIsNew
<1>24. CASE MaterializeCandidates
  BY <1>24 DEF MaterializeCandidates
<1>25. CASE CreateTestRun
  BY <1>25 DEF CreateTestRun, TestIsNew, Enqueueable
<1>26. ASSUME NEW d \in {"APPROVE", "REJECT"}, CreateReview(d) PROVE TokensDistinct'
  BY <1>26 DEF CreateReview, ReviewIsNew, Passed, BytesMatch
<1>27. CASE UNCHANGED fvars
  BY <1>27
<1> HIDE DEF TokensDistinct
<1> QED
  BY <1>1, <1>2, <1>3, <1>4, <1>5, <1>6, <1>7, <1>8, <1>9, <1>10, <1>11, <1>12, <1>13, <1>14,
     <1>15, <1>16, <1>17, <1>18, <1>19, <1>20, <1>21, <1>22, <1>23, <1>24, <1>25, <1>26, <1>27
  DEF FactoryNext

\* No stage is undone or entered early.
LEMMA StagesStep ==
  ASSUME FactoryTypeOK, TasksTypeOK, StagesInOrder, [FactoryNext]_fvars
  PROVE  StagesInOrder'
<1> USE FactoryAssumption
<1> USE DEF FactoryTypeOK, TasksTypeOK, Kinds, LeasedRows, Terminal, Idle, Tasks, Packages,
    Contents, Reviews, Verdicts, StagesInOrder, dispatch, analysis, product, api, verdict, fvars
<1>1. ASSUME NEW c \in Callers, CreateJobPut(c) PROVE StagesInOrder'
  BY <1>1 DEF CreateJobPut
<1>2. ASSUME NEW c \in Callers, CreateJobCommit(c) PROVE StagesInOrder'
  BY <1>2 DEF CreateJobCommit, JobIsNew
<1>3. ASSUME NEW c \in Callers, CreateJobLose(c) PROVE StagesInOrder'
  BY <1>3 DEF CreateJobLose
<1>4. ASSUME NEW c \in Callers, GeneratePut(c) PROVE StagesInOrder'
  BY <1>4 DEF GeneratePut, PackageIsNew
<1>5. ASSUME NEW c \in Callers, GenerateCommit(c) PROVE StagesInOrder'
  BY <1>5 DEF GenerateCommit
<1>6. ASSUME NEW c \in Callers, GenerateFail(c) PROVE StagesInOrder'
  BY <1>6 DEF GenerateFail, Fault
<1>7. ASSUME NEW c \in Callers, CleanupLook(c) PROVE StagesInOrder'
  BY <1>7 DEF CleanupLook
<1>8. ASSUME NEW c \in Callers, CleanupDelete(c) PROVE StagesInOrder'
  BY <1>8 DEF CleanupDelete
<1>9. ASSUME NEW c \in Callers, PublishCheck(c) PROVE StagesInOrder'
  BY <1>9 DEF PublishCheck, PublishIsNew, SealedApproval, Passed, BytesMatch
<1>10. ASSUME NEW c \in Callers, PublishCommit(c) PROVE StagesInOrder'
  BY <1>10 DEF PublishCommit, ImportDraft
<1>11. ASSUME NEW c \in Callers, CrashCaller(c) PROVE StagesInOrder'
  BY <1>11 DEF CrashCaller, Fault
<1>12. ASSUME NEW k \in Kinds, Relay(k) PROVE StagesInOrder'
  BY <1>12 DEF Relay, Send, Fault
<1>13. ASSUME NEW k \in Kinds, LoseMessage(k) PROVE StagesInOrder'
  BY <1>13 DEF LoseMessage, Fault
<1>14. ASSUME NEW k \in Kinds, Recover(k) PROVE StagesInOrder'
  BY <1>14 DEF Recover, Send
<1>15. ASSUME NEW k \in Kinds, LeaseExpires(k) PROVE StagesInOrder'
  BY <1>15 DEF LeaseExpires, Fault
<1>16. ASSUME NEW w \in Workers, NEW k \in Kinds, Claim(w, k) PROVE StagesInOrder'
  BY <1>16 DEF Claim, Claimable, JobClaimable, TestClaimable
<1>17. ASSUME NEW w \in Workers, NEW k \in Kinds, Skip(w, k) PROVE StagesInOrder'
  BY <1>17 DEF Skip
<1>18. ASSUME NEW w \in Workers, Load(w) PROVE StagesInOrder'
  BY <1>18 DEF Load
<1>19. ASSUME NEW w \in Workers, LeaseLost(w) PROVE StagesInOrder'
  BY <1>19 DEF LeaseLost
<1>20. ASSUME NEW w \in Workers, Analyze(w) PROVE StagesInOrder'
  <2>1. task' = [task EXCEPT ![w] = Idle] /\ row'["TEST"] = row["TEST"]
    BY <1>20, AnalyzeEffect
  <2> QED
    BY <1>20, <2>1 DEF Analyze
<1>21. ASSUME NEW w \in Workers, SandboxTest(w) PROVE StagesInOrder'
  BY <1>21 DEF SandboxTest, Working, FinishTest, Done, Fault, Secure, OnContract
<1>22. ASSUME NEW w \in Workers, CrashWorker(w) PROVE StagesInOrder'
  BY <1>22 DEF CrashWorker, Send, Fault
<1>23. CASE CreateBuild
  BY <1>23 DEF CreateBuild, BuildIsNew
<1>24. CASE MaterializeCandidates
  BY <1>24 DEF MaterializeCandidates
<1>25. CASE CreateTestRun
  BY <1>25 DEF CreateTestRun, TestIsNew, Enqueueable
<1>26. ASSUME NEW d \in {"APPROVE", "REJECT"}, CreateReview(d) PROVE StagesInOrder'
  BY <1>26 DEF CreateReview, ReviewIsNew, Passed, BytesMatch
<1>27. CASE UNCHANGED fvars
  BY <1>27
<1> HIDE DEF StagesInOrder
<1> QED
  BY <1>1, <1>2, <1>3, <1>4, <1>5, <1>6, <1>7, <1>8, <1>9, <1>10, <1>11, <1>12, <1>13, <1>14,
     <1>15, <1>16, <1>17, <1>18, <1>19, <1>20, <1>21, <1>22, <1>23, <1>24, <1>25, <1>26, <1>27
  DEF FactoryNext

\* A late worker rewrites verdict and evidence together.
LEMMA FinishedStep ==
  ASSUME FactoryTypeOK, TasksTypeOK, FinishedIsComplete, [FactoryNext]_fvars
  PROVE  FinishedIsComplete'
<1> USE DEF FactoryTypeOK, TasksTypeOK, Kinds, LeasedRows, Terminal, Idle, Tasks, Packages,
    Contents, Reviews, Verdicts, FinishedIsComplete, dispatch, analysis, product, api, verdict,
    fvars
<1>1. ASSUME NEW c \in Callers, CreateJobPut(c) PROVE FinishedIsComplete'
  BY <1>1 DEF CreateJobPut
<1>2. ASSUME NEW c \in Callers, CreateJobCommit(c) PROVE FinishedIsComplete'
  BY <1>2 DEF CreateJobCommit, JobIsNew
<1>3. ASSUME NEW c \in Callers, CreateJobLose(c) PROVE FinishedIsComplete'
  BY <1>3 DEF CreateJobLose
<1>4. ASSUME NEW c \in Callers, GeneratePut(c) PROVE FinishedIsComplete'
  BY <1>4 DEF GeneratePut, PackageIsNew
<1>5. ASSUME NEW c \in Callers, GenerateCommit(c) PROVE FinishedIsComplete'
  BY <1>5 DEF GenerateCommit
<1>6. ASSUME NEW c \in Callers, GenerateFail(c) PROVE FinishedIsComplete'
  BY <1>6 DEF GenerateFail, Fault
<1>7. ASSUME NEW c \in Callers, CleanupLook(c) PROVE FinishedIsComplete'
  BY <1>7 DEF CleanupLook
<1>8. ASSUME NEW c \in Callers, CleanupDelete(c) PROVE FinishedIsComplete'
  BY <1>8 DEF CleanupDelete
<1>9. ASSUME NEW c \in Callers, PublishCheck(c) PROVE FinishedIsComplete'
  BY <1>9 DEF PublishCheck, PublishIsNew, SealedApproval, Passed, BytesMatch
<1>10. ASSUME NEW c \in Callers, PublishCommit(c) PROVE FinishedIsComplete'
  BY <1>10 DEF PublishCommit, ImportDraft
<1>11. ASSUME NEW c \in Callers, CrashCaller(c) PROVE FinishedIsComplete'
  BY <1>11 DEF CrashCaller, Fault
<1>12. ASSUME NEW k \in Kinds, Relay(k) PROVE FinishedIsComplete'
  BY <1>12 DEF Relay, Send, Fault
<1>13. ASSUME NEW k \in Kinds, LoseMessage(k) PROVE FinishedIsComplete'
  BY <1>13 DEF LoseMessage, Fault
<1>14. ASSUME NEW k \in Kinds, Recover(k) PROVE FinishedIsComplete'
  BY <1>14 DEF Recover, Send
<1>15. ASSUME NEW k \in Kinds, LeaseExpires(k) PROVE FinishedIsComplete'
  BY <1>15 DEF LeaseExpires, Fault
<1>16. ASSUME NEW w \in Workers, NEW k \in Kinds, Claim(w, k) PROVE FinishedIsComplete'
  BY <1>16 DEF Claim, Claimable, JobClaimable, TestClaimable
<1>17. ASSUME NEW w \in Workers, NEW k \in Kinds, Skip(w, k) PROVE FinishedIsComplete'
  BY <1>17 DEF Skip
<1>18. ASSUME NEW w \in Workers, Load(w) PROVE FinishedIsComplete'
  BY <1>18 DEF Load
<1>19. ASSUME NEW w \in Workers, LeaseLost(w) PROVE FinishedIsComplete'
  BY <1>19 DEF LeaseLost
<1>20. ASSUME NEW w \in Workers, Analyze(w) PROVE FinishedIsComplete'
  BY <1>20 DEF Analyze, Working, StoreCandidates, FinishJob, Done, Fault
<1>21. ASSUME NEW w \in Workers, SandboxTest(w) PROVE FinishedIsComplete'
  BY <1>21 DEF SandboxTest, Working, FinishTest, Done, Fault, Secure, OnContract
<1>22. ASSUME NEW w \in Workers, CrashWorker(w) PROVE FinishedIsComplete'
  BY <1>22 DEF CrashWorker, Send, Fault
<1>23. CASE CreateBuild
  BY <1>23 DEF CreateBuild, BuildIsNew
<1>24. CASE MaterializeCandidates
  BY <1>24 DEF MaterializeCandidates
<1>25. CASE CreateTestRun
  BY <1>25 DEF CreateTestRun, TestIsNew, Enqueueable
<1>26. ASSUME NEW d \in {"APPROVE", "REJECT"}, CreateReview(d) PROVE FinishedIsComplete'
  BY <1>26 DEF CreateReview, ReviewIsNew, Passed, BytesMatch
<1>27. CASE UNCHANGED fvars
  BY <1>27
<1> HIDE DEF FinishedIsComplete
<1> QED
  BY <1>1, <1>2, <1>3, <1>4, <1>5, <1>6, <1>7, <1>8, <1>9, <1>10, <1>11, <1>12, <1>13, <1>14,
     <1>15, <1>16, <1>17, <1>18, <1>19, <1>20, <1>21, <1>22, <1>23, <1>24, <1>25, <1>26, <1>27
  DEF FactoryNext

\* The bytes a verdict is about are fixed by then.
LEMMA VerdictsStep ==
  ASSUME FactoryTypeOK, TasksTypeOK, StagesInOrder, FinishedIsComplete, VerdictsTrue,
         [FactoryNext]_fvars
  PROVE  VerdictsTrue'
<1> USE DEF FactoryTypeOK, TasksTypeOK, Kinds, LeasedRows, Terminal, Idle, Tasks, Packages,
    Contents, Reviews, Verdicts, StagesInOrder, FinishedIsComplete, VerdictsTrue, dispatch,
    analysis, product, api, verdict, fvars
<1>1. ASSUME NEW c \in Callers, CreateJobPut(c) PROVE VerdictsTrue'
  BY <1>1 DEF CreateJobPut
<1>2. ASSUME NEW c \in Callers, CreateJobCommit(c) PROVE VerdictsTrue'
  BY <1>2 DEF CreateJobCommit, JobIsNew
<1>3. ASSUME NEW c \in Callers, CreateJobLose(c) PROVE VerdictsTrue'
  BY <1>3 DEF CreateJobLose
<1>4. ASSUME NEW c \in Callers, GeneratePut(c) PROVE VerdictsTrue'
  BY <1>4 DEF GeneratePut, PackageIsNew
<1>5. ASSUME NEW c \in Callers, GenerateCommit(c) PROVE VerdictsTrue'
  BY <1>5 DEF GenerateCommit
<1>6. ASSUME NEW c \in Callers, GenerateFail(c) PROVE VerdictsTrue'
  BY <1>6 DEF GenerateFail, Fault
<1>7. ASSUME NEW c \in Callers, CleanupLook(c) PROVE VerdictsTrue'
  BY <1>7 DEF CleanupLook
<1>8. ASSUME NEW c \in Callers, CleanupDelete(c) PROVE VerdictsTrue'
  BY <1>8 DEF CleanupDelete
<1>9. ASSUME NEW c \in Callers, PublishCheck(c) PROVE VerdictsTrue'
  BY <1>9 DEF PublishCheck, PublishIsNew, SealedApproval, Passed, BytesMatch
<1>10. ASSUME NEW c \in Callers, PublishCommit(c) PROVE VerdictsTrue'
  BY <1>10 DEF PublishCommit, ImportDraft
<1>11. ASSUME NEW c \in Callers, CrashCaller(c) PROVE VerdictsTrue'
  BY <1>11 DEF CrashCaller, Fault
<1>12. ASSUME NEW k \in Kinds, Relay(k) PROVE VerdictsTrue'
  BY <1>12 DEF Relay, Send, Fault
<1>13. ASSUME NEW k \in Kinds, LoseMessage(k) PROVE VerdictsTrue'
  BY <1>13 DEF LoseMessage, Fault
<1>14. ASSUME NEW k \in Kinds, Recover(k) PROVE VerdictsTrue'
  BY <1>14 DEF Recover, Send
<1>15. ASSUME NEW k \in Kinds, LeaseExpires(k) PROVE VerdictsTrue'
  BY <1>15 DEF LeaseExpires, Fault
<1>16. ASSUME NEW w \in Workers, NEW k \in Kinds, Claim(w, k) PROVE VerdictsTrue'
  BY <1>16 DEF Claim, Claimable, JobClaimable, TestClaimable
<1>17. ASSUME NEW w \in Workers, NEW k \in Kinds, Skip(w, k) PROVE VerdictsTrue'
  BY <1>17 DEF Skip
<1>18. ASSUME NEW w \in Workers, Load(w) PROVE VerdictsTrue'
  BY <1>18 DEF Load
<1>19. ASSUME NEW w \in Workers, LeaseLost(w) PROVE VerdictsTrue'
  BY <1>19 DEF LeaseLost
<1>20. ASSUME NEW w \in Workers, Analyze(w) PROVE VerdictsTrue'
  BY <1>20 DEF Analyze, Working, StoreCandidates, FinishJob, Done, Fault
<1>21. ASSUME NEW w \in Workers, SandboxTest(w) PROVE VerdictsTrue'
  BY <1>21 DEF SandboxTest, Working, FinishTest, Done, Fault, Secure, OnContract
<1>22. ASSUME NEW w \in Workers, CrashWorker(w) PROVE VerdictsTrue'
  BY <1>22 DEF CrashWorker, Send, Fault
<1>23. CASE CreateBuild
  BY <1>23 DEF CreateBuild, BuildIsNew
<1>24. CASE MaterializeCandidates
  BY <1>24 DEF MaterializeCandidates
<1>25. CASE CreateTestRun
  BY <1>25 DEF CreateTestRun, TestIsNew, Enqueueable
<1>26. ASSUME NEW d \in {"APPROVE", "REJECT"}, CreateReview(d) PROVE VerdictsTrue'
  BY <1>26 DEF CreateReview, ReviewIsNew, Passed, BytesMatch
<1>27. CASE UNCHANGED fvars
  BY <1>27
<1> HIDE DEF VerdictsTrue
<1> QED
  BY <1>1, <1>2, <1>3, <1>4, <1>5, <1>6, <1>7, <1>8, <1>9, <1>10, <1>11, <1>12, <1>13, <1>14,
     <1>15, <1>16, <1>17, <1>18, <1>19, <1>20, <1>21, <1>22, <1>23, <1>24, <1>25, <1>26, <1>27
  DEF FactoryNext

\* What Publish checked stays true until it commits.
LEMMA PublishHoldsStep ==
  ASSUME FactoryTypeOK, TasksTypeOK, VerdictsTrue, PublishHolds, [FactoryNext]_fvars
  PROVE  PublishHolds'
<1> USE FactoryAssumption
<1> USE DEF FactoryTypeOK, TasksTypeOK, Kinds, LeasedRows, Terminal, Idle, Tasks, Packages,
    Contents, Reviews, Verdicts, VerdictsTrue, PublishHolds, dispatch, analysis, product, api,
    verdict, fvars
<1>1. ASSUME NEW c \in Callers, CreateJobPut(c) PROVE PublishHolds'
  BY <1>1 DEF CreateJobPut
<1>2. ASSUME NEW c \in Callers, CreateJobCommit(c) PROVE PublishHolds'
  BY <1>2 DEF CreateJobCommit, JobIsNew
<1>3. ASSUME NEW c \in Callers, CreateJobLose(c) PROVE PublishHolds'
  BY <1>3 DEF CreateJobLose
<1>4. ASSUME NEW c \in Callers, GeneratePut(c) PROVE PublishHolds'
  BY <1>4 DEF GeneratePut, PackageIsNew
<1>5. ASSUME NEW c \in Callers, GenerateCommit(c) PROVE PublishHolds'
  BY <1>5 DEF GenerateCommit
<1>6. ASSUME NEW c \in Callers, GenerateFail(c) PROVE PublishHolds'
  BY <1>6 DEF GenerateFail, Fault
<1>7. ASSUME NEW c \in Callers, CleanupLook(c) PROVE PublishHolds'
  BY <1>7 DEF CleanupLook
<1>8. ASSUME NEW c \in Callers, CleanupDelete(c) PROVE PublishHolds'
  BY <1>8 DEF CleanupDelete
<1>9. ASSUME NEW c \in Callers, PublishCheck(c) PROVE PublishHolds'
  BY <1>9 DEF PublishCheck, PublishIsNew, SealedApproval, Passed, BytesMatch
<1>10. ASSUME NEW c \in Callers, PublishCommit(c) PROVE PublishHolds'
  BY <1>10 DEF PublishCommit, ImportDraft
<1>11. ASSUME NEW c \in Callers, CrashCaller(c) PROVE PublishHolds'
  BY <1>11 DEF CrashCaller, Fault
<1>12. ASSUME NEW k \in Kinds, Relay(k) PROVE PublishHolds'
  BY <1>12 DEF Relay, Send, Fault
<1>13. ASSUME NEW k \in Kinds, LoseMessage(k) PROVE PublishHolds'
  BY <1>13 DEF LoseMessage, Fault
<1>14. ASSUME NEW k \in Kinds, Recover(k) PROVE PublishHolds'
  BY <1>14 DEF Recover, Send
<1>15. ASSUME NEW k \in Kinds, LeaseExpires(k) PROVE PublishHolds'
  BY <1>15 DEF LeaseExpires, Fault
<1>16. ASSUME NEW w \in Workers, NEW k \in Kinds, Claim(w, k) PROVE PublishHolds'
  BY <1>16 DEF Claim, Claimable, JobClaimable, TestClaimable
<1>17. ASSUME NEW w \in Workers, NEW k \in Kinds, Skip(w, k) PROVE PublishHolds'
  BY <1>17 DEF Skip
<1>18. ASSUME NEW w \in Workers, Load(w) PROVE PublishHolds'
  BY <1>18 DEF Load
<1>19. ASSUME NEW w \in Workers, LeaseLost(w) PROVE PublishHolds'
  BY <1>19 DEF LeaseLost
<1>20. ASSUME NEW w \in Workers, Analyze(w) PROVE PublishHolds'
  BY <1>20 DEF Analyze, Working, StoreCandidates, FinishJob, Done, Fault
<1>21. ASSUME NEW w \in Workers, SandboxTest(w) PROVE PublishHolds'
  BY <1>21 DEF SandboxTest, Working, FinishTest, Done, Fault, Secure, OnContract
<1>22. ASSUME NEW w \in Workers, CrashWorker(w) PROVE PublishHolds'
  BY <1>22 DEF CrashWorker, Send, Fault
<1>23. CASE CreateBuild
  BY <1>23 DEF CreateBuild, BuildIsNew
<1>24. CASE MaterializeCandidates
  BY <1>24 DEF MaterializeCandidates
<1>25. CASE CreateTestRun
  BY <1>25 DEF CreateTestRun, TestIsNew, Enqueueable
<1>26. ASSUME NEW d \in {"APPROVE", "REJECT"}, CreateReview(d) PROVE PublishHolds'
  BY <1>26 DEF CreateReview, ReviewIsNew, Passed, BytesMatch
<1>27. CASE UNCHANGED fvars
  BY <1>27
<1> HIDE DEF PublishHolds
<1> QED
  BY <1>1, <1>2, <1>3, <1>4, <1>5, <1>6, <1>7, <1>8, <1>9, <1>10, <1>11, <1>12, <1>13, <1>14,
     <1>15, <1>16, <1>17, <1>18, <1>19, <1>20, <1>21, <1>22, <1>23, <1>24, <1>25, <1>26, <1>27
  DEF FactoryNext

\* What was published stays backed.
LEMMA PublishedStep ==
  ASSUME FactoryTypeOK, TasksTypeOK, StagesInOrder, VerdictsTrue, PublishHolds,
         PublishedIsBacked, [FactoryNext]_fvars
  PROVE  PublishedIsBacked'
<1> USE DEF FactoryTypeOK, TasksTypeOK, Kinds, LeasedRows, Terminal, Idle, Tasks, Packages,
    Contents, Reviews, Verdicts, StagesInOrder, VerdictsTrue, PublishHolds, PublishedIsBacked,
    dispatch, analysis, product, api, verdict, fvars
<1>1. ASSUME NEW c \in Callers, CreateJobPut(c) PROVE PublishedIsBacked'
  BY <1>1 DEF CreateJobPut
<1>2. ASSUME NEW c \in Callers, CreateJobCommit(c) PROVE PublishedIsBacked'
  BY <1>2 DEF CreateJobCommit, JobIsNew
<1>3. ASSUME NEW c \in Callers, CreateJobLose(c) PROVE PublishedIsBacked'
  BY <1>3 DEF CreateJobLose
<1>4. ASSUME NEW c \in Callers, GeneratePut(c) PROVE PublishedIsBacked'
  BY <1>4 DEF GeneratePut, PackageIsNew
<1>5. ASSUME NEW c \in Callers, GenerateCommit(c) PROVE PublishedIsBacked'
  BY <1>5 DEF GenerateCommit
<1>6. ASSUME NEW c \in Callers, GenerateFail(c) PROVE PublishedIsBacked'
  BY <1>6 DEF GenerateFail, Fault
<1>7. ASSUME NEW c \in Callers, CleanupLook(c) PROVE PublishedIsBacked'
  BY <1>7 DEF CleanupLook
<1>8. ASSUME NEW c \in Callers, CleanupDelete(c) PROVE PublishedIsBacked'
  BY <1>8 DEF CleanupDelete
<1>9. ASSUME NEW c \in Callers, PublishCheck(c) PROVE PublishedIsBacked'
  BY <1>9 DEF PublishCheck, PublishIsNew, SealedApproval, Passed, BytesMatch
<1>10. ASSUME NEW c \in Callers, PublishCommit(c) PROVE PublishedIsBacked'
  BY <1>10 DEF PublishCommit, ImportDraft
<1>11. ASSUME NEW c \in Callers, CrashCaller(c) PROVE PublishedIsBacked'
  BY <1>11 DEF CrashCaller, Fault
<1>12. ASSUME NEW k \in Kinds, Relay(k) PROVE PublishedIsBacked'
  BY <1>12 DEF Relay, Send, Fault
<1>13. ASSUME NEW k \in Kinds, LoseMessage(k) PROVE PublishedIsBacked'
  BY <1>13 DEF LoseMessage, Fault
<1>14. ASSUME NEW k \in Kinds, Recover(k) PROVE PublishedIsBacked'
  BY <1>14 DEF Recover, Send
<1>15. ASSUME NEW k \in Kinds, LeaseExpires(k) PROVE PublishedIsBacked'
  BY <1>15 DEF LeaseExpires, Fault
<1>16. ASSUME NEW w \in Workers, NEW k \in Kinds, Claim(w, k) PROVE PublishedIsBacked'
  BY <1>16 DEF Claim, Claimable, JobClaimable, TestClaimable
<1>17. ASSUME NEW w \in Workers, NEW k \in Kinds, Skip(w, k) PROVE PublishedIsBacked'
  BY <1>17 DEF Skip
<1>18. ASSUME NEW w \in Workers, Load(w) PROVE PublishedIsBacked'
  BY <1>18 DEF Load
<1>19. ASSUME NEW w \in Workers, LeaseLost(w) PROVE PublishedIsBacked'
  BY <1>19 DEF LeaseLost
<1>20. ASSUME NEW w \in Workers, Analyze(w) PROVE PublishedIsBacked'
  BY <1>20 DEF Analyze, Working, StoreCandidates, FinishJob, Done, Fault
<1>21. ASSUME NEW w \in Workers, SandboxTest(w) PROVE PublishedIsBacked'
  BY <1>21 DEF SandboxTest, Working, FinishTest, Done, Fault, Secure, OnContract
<1>22. ASSUME NEW w \in Workers, CrashWorker(w) PROVE PublishedIsBacked'
  BY <1>22 DEF CrashWorker, Send, Fault
<1>23. CASE CreateBuild
  BY <1>23 DEF CreateBuild, BuildIsNew
<1>24. CASE MaterializeCandidates
  BY <1>24 DEF MaterializeCandidates
<1>25. CASE CreateTestRun
  BY <1>25 DEF CreateTestRun, TestIsNew, Enqueueable
<1>26. ASSUME NEW d \in {"APPROVE", "REJECT"}, CreateReview(d) PROVE PublishedIsBacked'
  BY <1>26 DEF CreateReview, ReviewIsNew, Passed, BytesMatch
<1>27. CASE UNCHANGED fvars
  BY <1>27
<1> HIDE DEF PublishedIsBacked
<1> QED
  BY <1>1, <1>2, <1>3, <1>4, <1>5, <1>6, <1>7, <1>8, <1>9, <1>10, <1>11, <1>12, <1>13, <1>14,
     <1>15, <1>16, <1>17, <1>18, <1>19, <1>20, <1>21, <1>22, <1>23, <1>24, <1>25, <1>26, <1>27
  DEF FactoryNext

\* No step touches what was published.
LEMMA StaysStep ==
  ASSUME FactoryTypeOK, TasksTypeOK, StagesInOrder, VerdictsTrue, PublishHolds,
         PublishedIsBacked, [FactoryNext]_fvars
  PROVE  PublishedStays
<1> USE DEF FactoryTypeOK, TasksTypeOK, Kinds, LeasedRows, Terminal, Idle, Tasks, Packages,
    Contents, Reviews, Verdicts, StagesInOrder, VerdictsTrue, PublishHolds, PublishedIsBacked,
    PublishedStays, dispatch, analysis, product, api, verdict, fvars
<1>1. ASSUME NEW c \in Callers, CreateJobPut(c) PROVE PublishedStays
  BY <1>1 DEF CreateJobPut
<1>2. ASSUME NEW c \in Callers, CreateJobCommit(c) PROVE PublishedStays
  BY <1>2 DEF CreateJobCommit, JobIsNew
<1>3. ASSUME NEW c \in Callers, CreateJobLose(c) PROVE PublishedStays
  BY <1>3 DEF CreateJobLose
<1>4. ASSUME NEW c \in Callers, GeneratePut(c) PROVE PublishedStays
  BY <1>4 DEF GeneratePut, PackageIsNew
<1>5. ASSUME NEW c \in Callers, GenerateCommit(c) PROVE PublishedStays
  BY <1>5 DEF GenerateCommit
<1>6. ASSUME NEW c \in Callers, GenerateFail(c) PROVE PublishedStays
  BY <1>6 DEF GenerateFail, Fault
<1>7. ASSUME NEW c \in Callers, CleanupLook(c) PROVE PublishedStays
  BY <1>7 DEF CleanupLook
<1>8. ASSUME NEW c \in Callers, CleanupDelete(c) PROVE PublishedStays
  BY <1>8 DEF CleanupDelete
<1>9. ASSUME NEW c \in Callers, PublishCheck(c) PROVE PublishedStays
  BY <1>9 DEF PublishCheck, PublishIsNew, SealedApproval, Passed, BytesMatch
<1>10. ASSUME NEW c \in Callers, PublishCommit(c) PROVE PublishedStays
  BY <1>10 DEF PublishCommit, ImportDraft
<1>11. ASSUME NEW c \in Callers, CrashCaller(c) PROVE PublishedStays
  BY <1>11 DEF CrashCaller, Fault
<1>12. ASSUME NEW k \in Kinds, Relay(k) PROVE PublishedStays
  BY <1>12 DEF Relay, Send, Fault
<1>13. ASSUME NEW k \in Kinds, LoseMessage(k) PROVE PublishedStays
  BY <1>13 DEF LoseMessage, Fault
<1>14. ASSUME NEW k \in Kinds, Recover(k) PROVE PublishedStays
  BY <1>14 DEF Recover, Send
<1>15. ASSUME NEW k \in Kinds, LeaseExpires(k) PROVE PublishedStays
  BY <1>15 DEF LeaseExpires, Fault
<1>16. ASSUME NEW w \in Workers, NEW k \in Kinds, Claim(w, k) PROVE PublishedStays
  BY <1>16 DEF Claim, Claimable, JobClaimable, TestClaimable
<1>17. ASSUME NEW w \in Workers, NEW k \in Kinds, Skip(w, k) PROVE PublishedStays
  BY <1>17 DEF Skip
<1>18. ASSUME NEW w \in Workers, Load(w) PROVE PublishedStays
  BY <1>18 DEF Load
<1>19. ASSUME NEW w \in Workers, LeaseLost(w) PROVE PublishedStays
  BY <1>19 DEF LeaseLost
<1>20. ASSUME NEW w \in Workers, Analyze(w) PROVE PublishedStays
  BY <1>20 DEF Analyze, Working, StoreCandidates, FinishJob, Done, Fault
<1>21. ASSUME NEW w \in Workers, SandboxTest(w) PROVE PublishedStays
  BY <1>21 DEF SandboxTest, Working, FinishTest, Done, Fault, Secure, OnContract
<1>22. ASSUME NEW w \in Workers, CrashWorker(w) PROVE PublishedStays
  BY <1>22 DEF CrashWorker, Send, Fault
<1>23. CASE CreateBuild
  <2>1. servers # <<>> => 1 \in DOMAIN servers
    BY EmptySeq
  <2> QED
    BY <1>23, <2>1 DEF CreateBuild, BuildIsNew
<1>24. CASE MaterializeCandidates
  BY <1>24 DEF MaterializeCandidates
<1>25. CASE CreateTestRun
  BY <1>25 DEF CreateTestRun, TestIsNew, Enqueueable
<1>26. ASSUME NEW d \in {"APPROVE", "REJECT"}, CreateReview(d) PROVE PublishedStays
  <2>1. servers # <<>> => 1 \in DOMAIN servers
    BY EmptySeq
  <2> QED
    BY <1>26, <2>1 DEF CreateReview, ReviewIsNew
<1>27. CASE UNCHANGED fvars
  BY <1>27
<1> HIDE DEF PublishedStays
<1> QED
  BY <1>1, <1>2, <1>3, <1>4, <1>5, <1>6, <1>7, <1>8, <1>9, <1>10, <1>11, <1>12, <1>13, <1>14,
     <1>15, <1>16, <1>17, <1>18, <1>19, <1>20, <1>21, <1>22, <1>23, <1>24, <1>25, <1>26, <1>27
  DEF FactoryNext

-----------------------------------------------------------------------------
(* The theorems.                                                           *)

\* Nothing uploaded, built or published satisfies the invariant.
LEMMA InitInvariant == FactoryInit => FactoryInv
<1> SUFFICES ASSUME FactoryInit PROVE FactoryInv
  OBVIOUS
<1> USE FactoryAssumption DEF FactoryInit
<1>1. FactoryTypeOK
  BY DEF FactoryTypeOK, Kinds, LeasedRows, Packages, Contents, Terminal, Verdicts
<1>2. TasksTypeOK
  BY EmptySeq DEF TasksTypeOK
<1>5. \A w \in Workers : task[w].pc = "IDLE"
  BY DEF Idle
<1>6. row["JOB"].st = "NONE" /\ row["TEST"].st = "NONE"
  BY DEF Kinds
<1>3. TokensDistinct /\ StagesInOrder /\ FinishedIsComplete
  BY <1>5, <1>6 DEF TokensDistinct, StagesInOrder, FinishedIsComplete
<1>4. VerdictsTrue /\ PublishHolds /\ PublishedIsBacked
  BY DEF VerdictsTrue, PublishHolds, PublishedIsBacked
<1> QED
  BY <1>1, <1>2, <1>3, <1>4 DEF FactoryInv

\* The invariant is inductive.
LEMMA InvariantStep == FactoryInv /\ [FactoryNext]_fvars => FactoryInv'
BY TypeStep, TasksTypeStep, TokensStep, StagesStep, FinishedStep, VerdictsStep, PublishHoldsStep,
   PublishedStep
DEF FactoryInv

\* The invariant always holds; fairness is not needed for it.
THEOREM InvariantHolds == FactorySpec => []FactoryInv
BY InitInvariant, InvariantStep, PTL DEF FactorySpec

\* Rows, packages, reviews and messages keep their types and bounds.
THEOREM FactoryTypeCorrect == FactorySpec => []FactoryTypeOK
<1>1. FactoryInv => FactoryTypeOK
  BY DEF FactoryInv
<1> QED
  BY <1>1, InvariantHolds, PTL

\* No two workers ever run under the same lease token of a Job or TestRun,
\* however often claim, recovery and redelivery overlap.
THEOREM ClaimsAreDistinct == FactorySpec => []TokensDistinct
<1>1. FactoryInv => TokensDistinct
  BY DEF FactoryInv
<1> QED
  BY <1>1, InvariantHolds, PTL

\* A finished Job is complete, and a finished TestRun shows the verdict of its
\* evidence, also after a late worker finished it again.
THEOREM FinishedRowsAreComplete == FactorySpec => []FinishedIsComplete
<1>1. FactoryInv => FinishedIsComplete
  BY DEF FactoryInv
<1> QED
  BY <1>1, InvariantHolds, PTL

\* At most one server is imported for a Review; that Review approved a verdict
\* that passed over bytes that pass every check.
THEOREM PublishedServersAreBacked == FactorySpec => []PublishedIsBacked
<1>1. FactoryInv => PublishedIsBacked
  BY DEF FactoryInv
<1> QED
  BY <1>1, InvariantHolds, PTL

\* A published server is final: no later call, worker or crash imports another one,
\* replaces its Review or changes the bytes it was generated from.
THEOREM PublishedServersStay == FactorySpec => [][PublishedStays]_fvars
<1>1. FactoryInv /\ [FactoryNext]_fvars => [PublishedStays]_fvars
  BY StaysStep DEF FactoryInv
<1> QED
  BY <1>1, InvariantHolds, PTL DEF FactorySpec
=============================================================================
