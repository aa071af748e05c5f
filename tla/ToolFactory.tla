---------------------------- MODULE ToolFactory ----------------------------
(***************************************************************************)
(* The Tool Factory, from an uploaded OpenAPI document to an imported MCP  *)
(* server: analysis Job, Build, Generated Package, sandbox TestRun, Review *)
(* and Publish.  One document is followed; documents, Builds and Packages  *)
(* do not share rows.                                                      *)
(*                                                                         *)
(* Job and TestRun are executed by Celery workers under a leased row.  A   *)
(* worker claims in one transaction and works in a second one, whose       *)
(* session loads the row before it locks it: SQLAlchemy then keeps what it *)
(* loaded, so the token is compared with the row as it was before the lock.*)
(* The other operations are API calls; bytes are kept in an object store   *)
(* that does not take part in transactions.                                *)
(***************************************************************************)
EXTENDS Naturals, FiniteSets, Sequences

CONSTANTS
  Workers,     \* Celery task slots
  Callers,     \* users of the Factory API
  NoCaller,    \* nobody
  MaxMsgs,     \* bound: copies of one message in the broker
  MaxFaults    \* bound: crashes, lost messages, storage errors, overlong tasks

ASSUME FactoryAssumption ==
  /\ MaxMsgs \in Nat \ {0} /\ MaxFaults \in Nat
  /\ NoCaller \notin Callers

VARIABLES
  row,         \* the Job and the TestRun: status, lease_token, whether the lease is in force
  outbox,      \* dispatch events not marked published
  msgs,        \* messages in the broker
  task,        \* what each worker does, and the row as its session loaded it
  call,        \* what each caller's request does
  sources,     \* callers whose uploaded bytes are in the object store
  doc,         \* whose upload the Job is about, and whether it can be analysed
  artifact,    \* the OPENAPI_ANALYSIS artifact exists
  candidates,  \* its Candidate Tools exist
  build,       \* the Build exists
  package,     \* the Generated Package: row, bytes, whether the bytes pass the checks
  lock,        \* row locks held across a call of the object store: Build and Review
  evidence,    \* the verdict sealed in the TestRun's evidence
  reviews,     \* Review rows
  servers,     \* Reviews whose Publish imported a DRAFT server, one element each
  faults       \* faults so far

dispatch == <<outbox, msgs>>
analysis == <<sources, doc, artifact, candidates>>
product == <<build, package>>
api == <<call, lock>>
verdict == <<reviews, servers>>
fvars == <<row, dispatch, task, analysis, product, api, evidence, verdict, faults>>

Kinds == {"JOB", "TEST"}
Terminal == {"SUCCEEDED", "FAILED"}
Verdicts == {"PASS", "FAIL"}
Idle == [pc |-> "IDLE"]

\* The columns that matter of ToolFactoryJob and ToolFactoryTestRun: status,
\* lease_token (counted), and whether lease_expires_at lies ahead.
LeasedRows == [st : {"NONE", "QUEUED", "RUNNING"} \cup Terminal, tok : Nat, live : BOOLEAN]

\* A Generated Package: the row, its bytes in the object store, and what the
\* checks would find in them.
Contents == {"SOUND", "INSECURE", "OFF_CONTRACT"}
Packages == [row : BOOLEAN, stored : BOOLEAN, content : Contents]

\* A Review pins its decision and the TestRun's evidence hash; a Publish points
\* to its Review.
Reviews == [decision : {"APPROVE", "REJECT"}, evidence : Verdicts]

FactoryInit ==
  /\ row = [k \in Kinds |-> [st |-> "NONE", tok |-> 0, live |-> FALSE]]
  /\ outbox = {} /\ msgs = [k \in Kinds |-> 0]
  /\ task = [w \in Workers |-> Idle]
  /\ call = [c \in Callers |-> "IDLE"]
  /\ sources = {} /\ doc = [owner |-> NoCaller, good |-> FALSE]
  /\ artifact = FALSE /\ candidates = FALSE /\ build = FALSE
  /\ package = [row |-> FALSE, stored |-> FALSE, content |-> "SOUND"]
  /\ lock = [build |-> NoCaller, review |-> NoCaller]
  /\ evidence = "NONE" /\ reviews = {} /\ servers = <<>> /\ faults = 0

Fault == faults < MaxFaults /\ faults' = faults + 1

-----------------------------------------------------------------------------
(* Upload.  Every request stores its bytes under a key of its own, then    *)
(* commits Job, outbox event and idempotency record together.              *)

\* No idempotency record, else _replay_or_conflict answers from it.
JobIsNew == doc.owner = NoCaller

\* put_bytes under a fresh job_id.
CreateJobPut(c) ==
  /\ call[c] = "IDLE" /\ JobIsNew
  /\ sources' = sources \cup {c}
  /\ call' = [call EXCEPT ![c] = "JOB"]
  /\ UNCHANGED <<row, dispatch, task, doc, artifact, candidates, product, lock,
                 evidence, verdict, faults>>

\* _persist_queued_job.
CreateJobCommit(c) ==
  /\ call[c] = "JOB" /\ JobIsNew
  /\ \E good \in BOOLEAN : doc' = [owner |-> c, good |-> good]
  /\ row' = [row EXCEPT !["JOB"].st = "QUEUED"]
  /\ outbox' = outbox \cup {"JOB"}
  /\ call' = [call EXCEPT ![c] = "IDLE"]
  /\ UNCHANGED <<msgs, task, sources, artifact, candidates, product, lock, evidence,
                 verdict, faults>>

\* The idempotency record exists by now: rollback, delete the own bytes, replay.
CreateJobLose(c) ==
  /\ call[c] = "JOB" /\ ~JobIsNew
  /\ sources' = sources \ {c}
  /\ call' = [call EXCEPT ![c] = "IDLE"]
  /\ UNCHANGED <<row, dispatch, task, doc, artifact, candidates, product, lock,
                 evidence, verdict, faults>>

-----------------------------------------------------------------------------
(* Dispatch: the outbox relay, the broker, and the recovery scan.          *)

Send(k) ==
  /\ msgs[k] < MaxMsgs
  /\ msgs' = [msgs EXCEPT ![k] = @ + 1]

\* One iteration sends and marks published; a crash in between sends again.
Relay(k) ==
  /\ k \in outbox /\ Send(k)
  /\ \/ outbox' = outbox \ {k} /\ UNCHANGED faults
     \/ Fault /\ UNCHANGED outbox
  /\ UNCHANGED <<row, task, analysis, product, api, evidence, verdict>>

\* The broker loses a message.
LoseMessage(k) ==
  /\ msgs[k] > 0 /\ msgs' = [msgs EXCEPT ![k] = @ - 1]
  /\ Fault
  /\ UNCHANGED <<row, outbox, task, analysis, product, api, evidence, verdict>>

\* Mutant: only rows with an expired lease are found.
RediscoverableRunning(k) == row[k].st = "RUNNING" /\ ~row[k].live

\* list_expired_running_ids and list_stale_queued_ids, and their TestRun twins.
Rediscoverable(k) ==
  \/ row[k].st = "RUNNING" /\ ~row[k].live
  \/ row[k].st = "QUEUED"

Recover(k) ==
  /\ Rediscoverable(k) /\ msgs[k] = 0 /\ Send(k)
  /\ UNCHANGED <<row, outbox, task, analysis, product, api, evidence, verdict, faults>>

\* A lease runs out: its worker is gone, or takes longer than lease_seconds.
LeaseExpires(k) ==
  /\ row[k].st = "RUNNING" /\ row[k].live
  /\ row' = [row EXCEPT ![k].live = FALSE]
  /\ IF \E w \in Workers : task[w].pc # "IDLE" /\ task[w].kind = k /\ task[w].tok = row[k].tok
       THEN Fault ELSE UNCHANGED faults
  /\ UNCHANGED <<dispatch, task, analysis, product, api, evidence, verdict>>

-----------------------------------------------------------------------------
(* A worker.                                                               *)

\* FactoryWorkerService.claim: QUEUED, or RUNNING with an expired lease.
JobClaimable ==
  \/ row["JOB"].st = "QUEUED"
  \/ row["JOB"].st = "RUNNING" /\ ~row["JOB"].live

\* FactoryTestWorkerService.claim also refuses a TestRun with a verdict.
TestClaimable ==
  /\ \/ row["TEST"].st = "QUEUED"
     \/ row["TEST"].st = "RUNNING" /\ ~row["TEST"].live
  /\ evidence = "NONE"

Claimable(k) == IF k = "JOB" THEN JobClaimable ELSE TestClaimable

\* The first transaction of a delivery: claim and commit.
Claim(w, k) ==
  /\ task[w] = Idle /\ msgs[k] > 0 /\ Claimable(k)
  /\ msgs' = [msgs EXCEPT ![k] = @ - 1]
  /\ row' = [row EXCEPT ![k] = [st |-> "RUNNING", tok |-> @.tok + 1, live |-> TRUE]]
  /\ task' = [task EXCEPT ![w] =
                [pc |-> "CLAIMED", kind |-> k, tok |-> row[k].tok + 1, seen |-> row[k]]]
  /\ UNCHANGED <<outbox, analysis, product, api, evidence, verdict, faults>>

\* TERMINAL, LEASE_HELD: the delivery is acknowledged.
Skip(w, k) ==
  /\ task[w] = Idle /\ msgs[k] > 0 /\ ~Claimable(k)
  /\ msgs' = [msgs EXCEPT ![k] = @ - 1]
  /\ UNCHANGED <<row, outbox, task, analysis, product, api, evidence, verdict, faults>>

\* The second transaction loads the row without a lock.
Load(w) ==
  /\ task[w].pc = "CLAIMED"
  /\ task' = [task EXCEPT ![w].pc = "LOADED", ![w].seen = row[task[w].kind]]
  /\ UNCHANGED <<row, dispatch, analysis, product, api, evidence, verdict, faults>>

\* run_claimed's fence, on the row as loaded.
FencePasses(w) == task[w].seen.st = "RUNNING" /\ task[w].seen.tok = task[w].tok

LeaseLost(w) ==
  /\ task[w].pc = "LOADED" /\ ~FencePasses(w)
  /\ task' = [task EXCEPT ![w] = Idle]
  /\ UNCHANGED <<row, dispatch, analysis, product, api, evidence, verdict, faults>>

Done(w, k, st) ==
  /\ row' = [row EXCEPT ![k] = [st |-> st, tok |-> @.tok, live |-> FALSE]]
  /\ task' = [task EXCEPT ![w] = Idle]

\* finish_job_success, finish_job_failed: the lease is dropped.
FinishJob(w, st) == Done(w, "JOB", st)

\* finish_test_run_succeeded, finish_test_run_failed: with the sealed verdict.
FinishTest(w, v) ==
  /\ evidence' = v
  /\ Done(w, "TEST", IF v = "PASS" THEN "SUCCEEDED" ELSE "FAILED")

Working(w, k) == task[w].pc = "LOADED" /\ task[w].kind = k /\ FencePasses(w)

\* analyze_openapi accepts the uploaded bytes.
Analysable == doc.owner \in sources /\ doc.good

\* Mutant: the Job is finished before its candidates are in place.
StoreCandidatesLater(w) ==
  /\ artifact' = TRUE /\ FinishJob(w, "SUCCEEDED") /\ UNCHANGED <<candidates, faults>>

\* materialize_candidates_from_analysis, then the Job succeeds; if the database
\* refuses them the savepoint is undone, the artifact stays and the Job fails.
StoreCandidates(w) ==
  /\ artifact' = TRUE
  /\ \/ candidates' = TRUE /\ FinishJob(w, "SUCCEEDED") /\ UNCHANGED faults
     \/ Fault /\ UNCHANGED candidates /\ FinishJob(w, "FAILED")

\* run_claimed of a Job.  An artifact that is there already is used; else the
\* bytes are fetched, verified and analysed.
Analyze(w) ==
  /\ Working(w, "JOB")
  /\ \/ (artifact \/ Analysable) /\ StoreCandidates(w)
     \/ /\ ~artifact
        /\ (~Analysable /\ UNCHANGED faults) \/ Fault
        /\ FinishJob(w, "FAILED") /\ UNCHANGED <<artifact, candidates>>
  /\ UNCHANGED <<dispatch, sources, doc, product, api, evidence, verdict>>

\* run_security_checks, run_contract_checks.
Secure == package.content # "INSECURE"
OnContract == package.content # "OFF_CONTRACT"

\* run_claimed of a TestRun: fetch the bytes and check them.
SandboxTest(w) ==
  /\ Working(w, "TEST")
  /\ \/ package.stored /\ Secure /\ OnContract /\ UNCHANGED faults /\ FinishTest(w, "PASS")
     \/ ~(package.stored /\ Secure /\ OnContract) /\ UNCHANGED faults /\ FinishTest(w, "FAIL")
     \/ Fault /\ FinishTest(w, "FAIL")
  /\ UNCHANGED <<dispatch, analysis, product, api, verdict>>

\* The worker dies or its database fails: acks_late returns the message.
CrashWorker(w) ==
  /\ task[w].pc # "IDLE" /\ Fault
  /\ Send(task[w].kind)
  /\ task' = [task EXCEPT ![w] = Idle]
  /\ UNCHANGED <<row, outbox, analysis, product, api, evidence, verdict>>

-----------------------------------------------------------------------------
(* Build and Package.                                                      *)

\* No idempotency record, else _replay_or_conflict_build answers.
BuildIsNew == ~build

\* create_build: a SUCCEEDED Job, its artifact and candidates of that artifact.
CreateBuild ==
  /\ BuildIsNew /\ row["JOB"].st = "SUCCEEDED" /\ artifact /\ candidates
  /\ build' = TRUE
  /\ \E c \in Contents : package' = [package EXCEPT !.content = c]
  /\ UNCHANGED <<row, dispatch, task, analysis, api, evidence, verdict, faults>>

\* materialize_candidates_for_job: what is missing is stored, what is there stays.
MaterializeCandidates ==
  /\ row["JOB"].st = "SUCCEEDED" /\ artifact
  /\ candidates' = TRUE
  /\ UNCHANGED <<row, dispatch, task, sources, doc, artifact, product, api, evidence,
                 verdict, faults>>

\* No package of this Build yet, else _replay_or_conflict_package or
\* _load_package_tools answers.
PackageIsNew == ~package.row

\* generate_package under the Build's row lock: the bytes go to a key that
\* every attempt for this Build shares.
GeneratePut(c) ==
  /\ call[c] = "IDLE" /\ build /\ lock.build = NoCaller /\ PackageIsNew
  /\ package' = [package EXCEPT !.stored = TRUE]
  /\ lock' = [lock EXCEPT !.build = c]
  /\ call' = [call EXCEPT ![c] = "PACKAGE"]
  /\ UNCHANGED <<row, dispatch, task, analysis, build, evidence, verdict, faults>>

GenerateCommit(c) ==
  /\ call[c] = "PACKAGE"
  /\ package' = [package EXCEPT !.row = TRUE]
  /\ lock' = [lock EXCEPT !.build = NoCaller]
  /\ call' = [call EXCEPT ![c] = "IDLE"]
  /\ UNCHANGED <<row, dispatch, task, analysis, build, evidence, verdict, faults>>

\* The insert fails: rollback frees the lock before the bytes are cleaned up.
GenerateFail(c) ==
  /\ call[c] = "PACKAGE" /\ Fault
  /\ lock' = [lock EXCEPT !.build = NoCaller]
  /\ call' = [call EXCEPT ![c] = "CLEANUP"]
  /\ UNCHANGED <<row, dispatch, task, analysis, product, evidence, verdict>>

\* _cleanup_package_object_if_unowned looks for an owner ...
CleanupLook(c) ==
  /\ call[c] = "CLEANUP"
  /\ call' = [call EXCEPT ![c] = IF package.row THEN "IDLE" ELSE "DELETE"]
  /\ UNCHANGED <<row, dispatch, task, analysis, product, lock, evidence, verdict, faults>>

\* ... and deletes.
CleanupDelete(c) ==
  /\ call[c] = "DELETE"
  /\ package' = [package EXCEPT !.stored = FALSE]
  /\ call' = [call EXCEPT ![c] = "IDLE"]
  /\ UNCHANGED <<row, dispatch, task, analysis, build, lock, evidence, verdict, faults>>

-----------------------------------------------------------------------------
(* TestRun, Review and Publish.                                            *)

\* No TestRun of this package yet, else _replay_or_conflict_test_run answers.
TestIsNew == row["TEST"].st = "NONE"

\* _validate_package_for_test_enqueue.
Enqueueable == package.row /\ package.stored

\* create_test_run: one per package and policies, with its dispatch event.
CreateTestRun ==
  /\ TestIsNew /\ Enqueueable
  /\ row' = [row EXCEPT !["TEST"].st = "QUEUED"]
  /\ outbox' = outbox \cup {"TEST"}
  /\ UNCHANGED <<msgs, task, analysis, product, api, evidence, verdict, faults>>

\* Mutant: a TestRun that ended counts, whatever its verdict.
PassedEnded == row["TEST"].st \in Terminal

\* The TestRun succeeded and its sealed evidence says PASS.
Passed == row["TEST"].st = "SUCCEEDED" /\ evidence = "PASS"

\* _assert_package_bytes_match.
BytesMatch == package.row /\ package.stored

\* No Review of this TestRun, else _replay_or_conflict_review or a 409 answers.
ReviewIsNew == reviews = {}

\* create_review, in one transaction under the TestRun's row lock: of a TestRun
\* that passed, over the bytes that were tested.
CreateReview(d) ==
  /\ ReviewIsNew /\ Passed /\ BytesMatch
  /\ reviews' = {[decision |-> d, evidence |-> evidence]}
  /\ UNCHANGED <<row, dispatch, task, analysis, product, api, evidence, servers, faults>>

\* No Publish of this Review, else _replay_or_conflict_publish or a 409 answers.
PublishIsNew == servers = <<>>

\* _assert_sealed_review_evidence, and its test_evidence_hash is the TestRun's.
SealedApproval(r) == r.decision = "APPROVE" /\ r.evidence = evidence

\* _assert_package_payload_contract: the declarative contracts to import.
Importable == OnContract

\* publish_review locks the Review and checks it; TestRun and package are read
\* without a lock.
PublishCheck(c) ==
  /\ call[c] = "IDLE" /\ lock.review = NoCaller /\ PublishIsNew
  /\ \E r \in reviews : SealedApproval(r)
  /\ Passed /\ BytesMatch /\ Importable
  /\ lock' = [lock EXCEPT !.review = c]
  /\ call' = [call EXCEPT ![c] = "PUBLISH"]
  /\ UNCHANGED <<row, dispatch, task, analysis, product, evidence, verdict, faults>>

\* _import_draft_mcp_assets: the server stands for the Review it was made from.
ImportDraft == \E r \in reviews : servers' = Append(servers, r)

\* Import, Publish row and idempotency record commit together.
PublishCommit(c) ==
  /\ call[c] = "PUBLISH" /\ ImportDraft
  /\ lock' = [lock EXCEPT !.review = NoCaller]
  /\ call' = [call EXCEPT ![c] = "IDLE"]
  /\ UNCHANGED <<row, dispatch, task, analysis, product, evidence, reviews, faults>>

\* The API process dies: its transaction is undone, its bytes are not.
CrashCaller(c) ==
  /\ call[c] # "IDLE" /\ Fault
  /\ call' = [call EXCEPT ![c] = "IDLE"]
  /\ lock' = [k \in DOMAIN lock |-> IF lock[k] = c THEN NoCaller ELSE lock[k]]
  /\ UNCHANGED <<row, dispatch, task, analysis, product, evidence, verdict>>

-----------------------------------------------------------------------------
FactoryNext ==
  \/ \E c \in Callers :
       \/ CreateJobPut(c) \/ CreateJobCommit(c) \/ CreateJobLose(c)
       \/ GeneratePut(c) \/ GenerateCommit(c) \/ GenerateFail(c)
       \/ CleanupLook(c) \/ CleanupDelete(c)
       \/ PublishCheck(c) \/ PublishCommit(c) \/ CrashCaller(c)
  \/ \E k \in Kinds : Relay(k) \/ LoseMessage(k) \/ Recover(k) \/ LeaseExpires(k)
  \/ \E w \in Workers, k \in Kinds : Claim(w, k) \/ Skip(w, k)
  \/ \E w \in Workers :
       Load(w) \/ LeaseLost(w) \/ Analyze(w) \/ SandboxTest(w) \/ CrashWorker(w)
  \/ CreateBuild \/ MaterializeCandidates \/ CreateTestRun
  \/ \E d \in {"APPROVE", "REJECT"} : CreateReview(d)

\* Relay and recovery run in a loop, a lease runs out by the clock, and a worker
\* takes messages and works on until it returns.
FactoryFairness ==
  /\ \A k \in Kinds :
       /\ WF_fvars(Relay(k)) /\ WF_fvars(Recover(k)) /\ WF_fvars(LeaseExpires(k))
       /\ WF_fvars(\E w \in Workers : Claim(w, k) \/ Skip(w, k))
  /\ \A w \in Workers : WF_fvars(Load(w) \/ LeaseLost(w) \/ Analyze(w) \/ SandboxTest(w))

FactorySpec == FactoryInit /\ [][FactoryNext]_fvars /\ FactoryFairness

-----------------------------------------------------------------------------
\* Types, and the bounds.
FactoryTypeOK ==
  /\ row \in [Kinds -> LeasedRows] /\ package \in Packages /\ reviews \subseteq Reviews
  /\ outbox \subseteq Kinds /\ msgs \in [Kinds -> 0 .. MaxMsgs] /\ faults \in 0 .. MaxFaults
  /\ evidence \in {"NONE"} \cup Verdicts

\* A server that Publish imported is the only one of its Review; the Review
\* approved a verdict that passed, and the bytes behind it really pass every
\* check, whatever late workers, lost bytes and crashes did in between
\* (create_review, publish_review, FactoryTestWorkerService.run_claimed).
PublishedIsBacked ==
  /\ Len(servers) <= 1
  /\ \A i \in DOMAIN servers :
       /\ servers[i] \in reviews /\ servers[i].decision = "APPROVE"
       /\ servers[i].evidence = "PASS" /\ package.row /\ package.content = "SOUND"

\* A Job that succeeded has its artifact and all its candidates, and a TestRun
\* that ended has the evidence of the verdict it shows, also when a second
\* worker finished it again (run_claimed of both workers).
FinishedIsComplete ==
  /\ row["JOB"].st = "SUCCEEDED" => artifact /\ candidates
  /\ row["TEST"].st = "SUCCEEDED" <=> evidence = "PASS"
  /\ row["TEST"].st = "FAILED" <=> evidence = "FAIL"

\* A queued Job or TestRun ends although messages are lost and workers die:
\* the recovery scan sends it again and the next claim replaces the lease
\* (FactoryRecoveryService, claim).
FactorySettles == \A k \in Kinds : row[k].st = "QUEUED" ~> row[k].st \in Terminal

\* Claim fencing: a row that ended is not finished again.  It does not hold: a
\* late worker whose session loaded the row before it ended overwrites it.
FinishedOnce ==
  [][\A k \in Kinds : row[k].st \in Terminal => row'[k] = row[k]]_fvars
=============================================================================
