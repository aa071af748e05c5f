------------------------- MODULE ToolRegistryProofs -------------------------
(***************************************************************************)
(* Proofs about ToolRegistry, for any number of administrators, workers,   *)
(* profiles, edits and faults.  The search index stays current because a   *)
(* lock_version stands for one state of a profile's generation fields and  *)
(* the outcome of a provider call is compared with the live rows when it   *)
(* is stored.  An activation is earned because a session, however old, can *)
(* only write back fingerprints that a test or an apply has put there.     *)
(***************************************************************************)
EXTENDS ToolRegistry, TLAPS

(* The inductive invariant, part by part.                                  *)

\* What a request keeps between its transactions.
Ops ==
  {NoOp}
  \cup [kind : {"ACTIVATE"}, at : {"WRITE"}, seen : ServerRows]
  \cup [kind : {"TEST"}, at : {"NET"}, seen : ServerRows]
  \cup [kind : {"DISCOVER"}, at : {"NET"}, seen : ServerRows, apply : BOOLEAN]
  \cup [kind : {"DISCOVER"}, at : {"APPLY"}, seen : ServerRows, got : {0} \cup Versions,
        tool : ToolRows]
  \cup [kind : {"BINDING"}, at : {"WRITE"}, seen : ServerRows, to : {"DRAFT", "DISABLED"}]

\* What a worker keeps over its provider call.
Keys == Versions \X Profiles

Tasks ==
  {NoTask} \cup [st : {"CALLING"}, key : Keys, doc : 0 .. 1, profile : ProfileRows]

\* The types RegistryTypeOK leaves out.
RequestsTypeOK ==
  /\ factory \in BOOLEAN
  /\ op \in [Admins -> Ops]
  /\ task \in [Workers -> Tasks]
  /\ profile \in [Profiles -> ProfileRows]
  /\ active \in Profiles \cup {NoProfile}
  /\ remote \in {0} \cup Versions
  /\ outbox \subseteq Keys
  /\ queue \subseteq Keys

\* lock_version tells generations apart: a worker whose profile still has the
\* lock_version it loaded has its generation fields, too.
LocksGrow ==
  \A w \in Workers : task[w].st = "CALLING" =>
    /\ task[w].profile.lock <= profile[task[w].key[2]].lock
    /\ task[w].profile.lock = profile[task[w].key[2]].lock
         => task[w].profile.gen = profile[task[w].key[2]].gen

\* The fingerprints of a row, in the database or in a session, are those of
\* configurations that passed a test and of ones whose CLEAN discovery was applied.
Earned(s) == s.verified \in tested \cup {0} /\ s.disc \in reconciled \cup {0}

EvidenceHolds ==
  factory =>
    /\ Earned(server)
    /\ \A a \in Admins : op[a].kind # "NONE" => Earned(op[a].seen)
    /\ \A a \in Admins : op[a].kind = "ACTIVATE" => op[a].seen.cfg \in tested \cap reconciled

\* The inductive invariant.
RegistryInv ==
  /\ RegistryTypeOK
  /\ RequestsTypeOK
  /\ LocksGrow
  /\ SearchIsCurrent
  /\ EvidenceHolds

\* The step of ActivationIsEarned.
ActivationEarned ==
  factory /\ server.st # "ACTIVE" /\ server'.st = "ACTIVE" =>
    \E a \in Admins : /\ op[a].kind = "ACTIVATE" /\ op'[a] = NoOp
                      /\ op[a].seen.cfg \in tested \cap reconciled

-----------------------------------------------------------------------------
(* Lemmas about the operators.                                             *)

\* What a request in progress has loaded; an apply also has the remote Tool and the
\* Tool row it read.
LEMMA OpsLoaded ==
  ASSUME RequestsTypeOK, NEW a \in Admins
  PROVE  /\ op[a] \in Ops
         /\ op[a].kind # "NONE" => op[a].seen \in ServerRows
         /\ op[a] # NoOp /\ op[a].at = "APPLY" =>
              /\ op[a].kind # "NONE"
              /\ op[a].got \in {0} \cup Versions
              /\ op[a].tool \in ToolRows
BY DEF RequestsTypeOK, Ops, NoOp

\* Writing transport_config back changes the two fingerprints or nothing.
LEMMA SaveEffect ==
  ASSUME server \in ServerRows, NEW seen, NEW v \in Fingerprints, NEW d \in Fingerprints,
         SaveTransportConfig(seen, v, d)
  PROVE  /\ server' \in ServerRows
         /\ server'.st = server.st
         /\ server' = server \/ (server'.verified = v /\ server'.disc = d)
BY DEF SaveTransportConfig, ServerRows

\* A binding's edit takes fingerprints away and never makes a server ACTIVE.
LEMMA InvalidateEffect ==
  ASSUME server \in ServerRows, NEW seen, InvalidateEvidence(seen)
  PROVE  /\ server' \in ServerRows
         /\ server'.verified \in {0, server.verified} /\ server'.disc \in {0, server.disc}
         /\ server'.st = "ACTIVE" => server.st = "ACTIVE"
<1> DEFINE had == <<seen.verified, seen.disc>> # <<0, 0>>
<1> DEFINE v == IF had THEN 0 ELSE server.verified
<1> DEFINE d == IF had THEN 0 ELSE server.disc
<1> DEFINE st == IF seen.st = "ACTIVE" THEN "INACTIVE" ELSE server.st
<1>1. server' = [server EXCEPT !.verified = v, !.disc = d, !.st = st]
  BY DEF InvalidateEvidence
<1>2. /\ v \in {0, server.verified} /\ d \in {0, server.disc} /\ st \in {"INACTIVE", server.st}
      /\ 0 \in Fingerprints
  BY DEF Fingerprints
<1> HIDE DEF v, d, st
<1> QED
  BY <1>1, <1>2 DEF ServerRows

\* An edit uses one of those left.
LEMMA EditEffect ==
  ASSUME edits \in [EditKinds -> Nat], NEW kind \in EditKinds, Edit(kind)
  PROVE  edits' \in [EditKinds -> Nat]
BY DEF Edit

\* An apply leaves the search document of the Tool alone.
LEMMA WriteToolEffect ==
  ASSUME tool \in ToolRows, NEW read \in ToolRows, NEW new \in ToolRows, WriteTool(read, new)
  PROVE  tool' \in ToolRows /\ tool'.doc = tool.doc
BY DEF WriteTool, ToolRows

\* What an apply makes of a Tool is a Tool.
LEMMA AppliedTools ==
  ASSUME NEW t \in ToolRows, NEW v \in {0} \cup Versions
  PROVE  /\ AppliedTool(t, v) \in ToolRows
         /\ MatchedTool(t, v) \in ToolRows
         /\ AppliedTool(t, v).cur # t.cur => AppliedTool(t, v).cur \in Versions
<1>1. CASE v = 0
  <2>1. AppliedTool(t, v) \in ToolRows /\ AppliedTool(t, v).cur = t.cur
    <3>1. (IF t.st = "NONE" THEN t.st ELSE "MISSING") \in {"NONE", "MISSING"}
      OBVIOUS
    <3> QED
      BY <1>1, <3>1 DEF AppliedTool, ToolRows
  <2>2. MatchedTool(t, v) \in ToolRows
    <3>1. v \in {0} \cup Versions
      BY <1>1
    <3> QED
      BY ONLY <3>1, t \in ToolRows DEF MatchedTool, ToolRows
  <2> QED
    BY <2>1, <2>2
<1>2. CASE v \in Versions
  <2>1. Rediscovered(t) \in {"DISCOVERED", "ACTIVE", "INACTIVE"} /\ v # 0
    BY <1>2 DEF Rediscovered, ToolRows, Versions, Descriptors, Imported
  <2> QED
    BY <1>2, <2>1 DEF AppliedTool, MatchedTool, ToolRows
<1> QED
  BY <1>1, <1>2

\* What an apply does to server, Tool and history.
LEMMA ApplyEffect ==
  ASSUME RegistryTypeOK, RequestsTypeOK, NEW a \in Admins, CommitApply(a)
  PROVE  /\ tool' \in ToolRows /\ tool'.doc = tool.doc
         /\ server' \in ServerRows /\ server'.st = server.st
         /\ factory => /\ reconciled' = reconciled \cup {op[a].seen.cfg}
                       /\ \/ server' = server
                          \/ server'.verified = op[a].seen.verified /\ server'.disc = op[a].seen.cfg
<1> DEFINE o == op[a]
<1>1. o.seen \in ServerRows /\ o.got \in {0} \cup Versions /\ o.tool \in ToolRows
  BY OpsLoaded DEF CommitApply
<1>2. o.seen.verified \in Fingerprints /\ o.seen.cfg \in Fingerprints
  BY <1>1 DEF ServerRows
<1>3. CASE factory
  <2>1. /\ WriteTool(o.tool, MatchedTool(o.tool, o.got))
        /\ SaveTransportConfig(o.seen, o.seen.verified, o.seen.cfg)
        /\ reconciled' = reconciled \cup {o.seen.cfg}
    BY <1>3 DEF CommitApply, ApplyFactoryMatched, FinalizeFactory
  <2>2. tool' \in ToolRows /\ tool'.doc = tool.doc
    BY <1>1, <2>1, AppliedTools, WriteToolEffect DEF RegistryTypeOK
  <2>3. /\ server' \in ServerRows /\ server'.st = server.st
        /\ server' = server \/ (server'.verified = o.seen.verified /\ server'.disc = o.seen.cfg)
    BY <1>2, <2>1, SaveEffect DEF RegistryTypeOK
  <2> QED
    BY <2>1, <2>2, <2>3
<1>4. CASE ~factory
  <2>1. WriteTool(o.tool, AppliedTool(o.tool, o.got)) /\ server' = server
    BY <1>4 DEF CommitApply, ApplyToolDiff
  <2>2. tool' \in ToolRows /\ tool'.doc = tool.doc
    BY <1>1, <2>1, AppliedTools, WriteToolEffect DEF RegistryTypeOK
  <2> QED
    BY <1>4, <2>1, <2>2 DEF RegistryTypeOK
<1> QED
  BY <1>3, <1>4 DEF RequestsTypeOK

\* What a scan of a profile finds are versions of Tools under that profile.
LEMMA MissingAreKeys ==
  ASSUME NEW p \in Profiles, NEW rows
  PROVE  MissingOrStale(p, rows) \subseteq Keys
BY DEF MissingOrStale, Indexable, Valid, Keys, Versions, Descriptors, Imported

\* So is what a rebuild asks for.
LEMMA RebuildAsksForKeys ==
  ASSUME outbox \subseteq Keys, NEW p \in Profiles, NEW rows, EnqueueRebuild(p, rows)
  PROVE  outbox' \subseteq Keys
BY MissingAreKeys DEF EnqueueRebuild

\* Marking STALE keeps a row a row.
LEMMA StaleRows == \A r \in EmbeddingRows : Stale(r) \in EmbeddingRows /\ Stale(r).st \in {"MISSING", "STALE"}
BY DEF Stale, EmbeddingRows

\* So does the outcome of a provider call.
LEMMA PersistedRows ==
  ASSUME RegistryTypeOK, NEW t \in Tasks, t.st = "CALLING", NEW r \in EmbeddingRows,
         NEW ok \in BOOLEAN
  PROVE  PersistedRow(t, r, ok) \in EmbeddingRows
<1>1. t.doc \in 0 .. 1 /\ t.profile.gen \in 0 .. 1 /\ tool.doc \in 0 .. 1
  BY DEF RegistryTypeOK, Tasks, NoTask, ProfileRows, ToolRows
<1>2. [r EXCEPT !.st = "STALE", !.doc = tool.doc] \in EmbeddingRows
  BY <1>1 DEF EmbeddingRows
<1>3. /\ [st |-> "READY", doc |-> t.doc, gen |-> t.profile.gen] \in EmbeddingRows
      /\ [st |-> "FAILED", doc |-> t.doc, gen |-> 0] \in EmbeddingRows
  BY <1>1 DEF EmbeddingRows
<1> QED
  BY <1>2, <1>3 DEF PersistedRow

\* An edit of a profile moves its lock_version; without generation fields that is all.
LEMMA ProfileEffect ==
  ASSUME RequestsTypeOK, NEW p \in Profiles, NEW g \in BOOLEAN, UpdateProfile(p, g)
  PROVE  profile' \in [Profiles -> ProfileRows]
<1> DEFINE n == IF g THEN 1 - profile[p].gen ELSE profile[p].gen
<1> DEFINE r == [profile[p] EXCEPT !.lock = @ + 1, !.gen = n]
<1>1. profile[p] \in ProfileRows /\ profile[p].gen \in 0 .. 1 /\ profile[p].lock + 1 \in Nat
  BY DEF RequestsTypeOK, ProfileRows
<1>2. n \in 0 .. 1
  BY <1>1
<1>3. profile' = [profile EXCEPT ![p] = r]
  BY DEF UpdateProfile
<1> HIDE DEF n
<1>4. r \in ProfileRows
  BY <1>1, <1>2 DEF ProfileRows
<1> QED
  BY <1>3, <1>4 DEF RequestsTypeOK

\* A request that ends keeps the evidence in order if the server row it leaves has
\* earned its fingerprints: the other requests have what they had.
LEMMA RequestEnds ==
  ASSUME RequestsTypeOK, EvidenceHolds, NEW a \in Admins,
         op' = [op EXCEPT ![a] = NoOp], UNCHANGED factory,
         tested \subseteq tested', reconciled \subseteq reconciled',
         factory => Earned(server)'
  PROVE  EvidenceHolds'
<1> SUFFICES ASSUME factory PROVE EvidenceHolds'
  BY DEF EvidenceHolds
<1>1. ASSUME NEW b \in Admins, op'[b].kind # "NONE"
      PROVE  /\ Earned(op[b].seen)'
             /\ op'[b].kind = "ACTIVATE" => op'[b].seen.cfg \in tested' \cap reconciled'
  <2>1. op'[b] = op[b]
    BY <1>1 DEF RequestsTypeOK, NoOp
  <2>2. Earned(op[b].seen) /\ (op[b].kind = "ACTIVATE" => op[b].seen.cfg \in tested \cap reconciled)
    BY <1>1, <2>1 DEF EvidenceHolds
  <2> QED
    BY <2>1, <2>2 DEF Earned
<1> QED
  BY <1>1 DEF EvidenceHolds

-----------------------------------------------------------------------------
(* Every step keeps each part of the invariant.                            *)

\* Every step keeps the types of the rows.
LEMMA TypeStep ==
  ASSUME RegistryTypeOK, RequestsTypeOK, [RegistryNext]_rvars
  PROVE  RegistryTypeOK'
<1> USE DEF RegistryTypeOK, RequestsTypeOK, ServerRows, ToolRows, ProfileRows, EmbeddingRows,
    Fingerprints, Versions, Descriptors, Imported, EditKinds, Ops, NoOp, Tasks, NoTask, Keys,
    evidence, connection, index, dispatch, bounds, rvars
<1>1. ASSUME NEW a \in Admins, StartTest(a) PROVE RegistryTypeOK'
  BY <1>1 DEF StartTest, Connected
<1>2. ASSUME NEW a \in Admins, TestSucceeds(a) PROVE RegistryTypeOK'
  <2>1. op[a].seen.cfg \in Fingerprints /\ op[a].seen.disc \in Fingerprints
    BY <1>2, OpsLoaded DEF TestSucceeds
  <2>2. server' \in ServerRows
    BY <1>2, <2>1, SaveEffect DEF TestSucceeds, TestedFingerprint
  <2> QED
    BY <1>2, <2>2 DEF TestSucceeds
<1>3. ASSUME NEW a \in Admins, TestFails(a) PROVE RegistryTypeOK'
  BY <1>3 DEF TestFails, CallFails, Fault
<1>4. ASSUME NEW a \in Admins, NEW apply \in BOOLEAN, StartDiscover(a, apply)
      PROVE  RegistryTypeOK'
  BY <1>4 DEF StartDiscover, Connected
<1>5. ASSUME NEW a \in Admins, DiscoverFails(a) PROVE RegistryTypeOK'
  <2>1. op[a].seen.verified \in Fingerprints /\ 0 \in Fingerprints
    BY <1>5, OpsLoaded DEF DiscoverFails
  <2>2. server' \in ServerRows
    BY <1>5, <2>1, SaveEffect DEF DiscoverFails
  <2>3. faults' \in Nat
    BY <1>5 DEF DiscoverFails, CallFails, Fault
  <2> QED
    BY <1>5, <2>2, <2>3 DEF DiscoverFails
<1>6. ASSUME NEW a \in Admins, Preview(a) PROVE RegistryTypeOK'
  <2> DEFINE d == IF ~Clean(Served(op[a].seen.cfg)) THEN 0 ELSE op[a].seen.disc
  <2>1. op[a].seen.verified \in Fingerprints /\ d \in Fingerprints
    BY <1>6, OpsLoaded DEF Preview
  <2>2. server' = server \/ SaveTransportConfig(op[a].seen, op[a].seen.verified, d)
    BY <1>6 DEF Preview, FinalizeFactory
  <2> HIDE DEF d
  <2>3. server' \in ServerRows
    BY <2>1, <2>2, SaveEffect
  <2> QED
    BY <1>6, <2>3 DEF Preview
<1>7. ASSUME NEW a \in Admins, BeginApply(a) PROVE RegistryTypeOK'
  BY <1>7 DEF BeginApply, Served, Reviewed
<1>8. ASSUME NEW a \in Admins, CommitApply(a) PROVE RegistryTypeOK'
  <2>1. server' \in ServerRows /\ tool' \in ToolRows
    BY <1>8, ApplyEffect
  <2> QED
    BY <1>8, <2>1 DEF CommitApply
<1>9. ASSUME NEW a \in Admins, StartActivate(a) PROVE RegistryTypeOK'
  BY <1>9 DEF StartActivate, MayActivate, Connected
<1>10. ASSUME NEW a \in Admins, CommitActivate(a) PROVE RegistryTypeOK'
  BY <1>10 DEF CommitActivate
<1>11. ASSUME NEW c \in Fingerprints \ {0}, UpdateServer(c) PROVE RegistryTypeOK'
  <2>1. server' \in ServerRows
    BY <1>11 DEF UpdateServer
  <2>2. edits' \in [EditKinds -> Nat]
    BY <1>11, EditEffect DEF UpdateServer
  <2> QED
    BY <1>11, <2>1, <2>2 DEF UpdateServer
<1>12. CASE DeactivateServer
  BY <1>12 DEF DeactivateServer
<1>13. CASE CreateBinding
  BY <1>13 DEF CreateBinding
<1>14. ASSUME NEW a \in Admins, UpdateBinding(a) PROVE RegistryTypeOK'
  <2>1. edits' \in [EditKinds -> Nat]
    BY <1>14, EditEffect DEF UpdateBinding, StartBinding
  <2> QED
    BY <1>14, <2>1 DEF UpdateBinding, StartBinding
<1>15. CASE MarkReady
  BY <1>15 DEF MarkReady
<1>16. ASSUME NEW a \in Admins, DisableBinding(a) PROVE RegistryTypeOK'
  <2>1. edits' \in [EditKinds -> Nat]
    BY <1>16, EditEffect DEF DisableBinding, StartBinding
  <2> QED
    BY <1>16, <2>1 DEF DisableBinding, StartBinding
<1>17. ASSUME NEW v \in {0} \cup Descriptors, RemoteChange(v) PROVE RegistryTypeOK'
  BY <1>17 DEF RemoteChange, Edit
<1>18. CASE UpdateTool
  <2>1. emb' \in [Versions \X Profiles -> EmbeddingRows]
    BY <1>18, StaleRows DEF UpdateTool, MarkStaleForTool
  <2>2. tool' \in ToolRows
    <3>1. tool \in ToolRows /\ 1 - tool.doc \in 0 .. 1
      OBVIOUS
    <3>2. tool' = [tool EXCEPT !.doc = 1 - tool.doc]
      BY <1>18 DEF UpdateTool
    <3> QED
      BY ONLY <3>1, <3>2 DEF ToolRows
  <2>3. edits' \in [EditKinds -> Nat]
    BY <1>18, EditEffect DEF UpdateTool
  <2> QED
    BY <1>18, <2>1, <2>2, <2>3 DEF UpdateTool
<1>19. CASE ActivateTool
  BY <1>19 DEF ActivateTool, EnqueueForActiveTool, EnqueueEnsure
<1>20. CASE DeactivateTool
  BY <1>20 DEF DeactivateTool
<1>21. ASSUME NEW p \in Profiles, ActivateProfile(p) PROVE RegistryTypeOK'
  BY <1>21 DEF ActivateProfile, Edit, EnqueueRebuild, MissingOrStale, Indexable
<1>22. ASSUME NEW p \in Profiles, NEW g \in BOOLEAN, UpdateProfile(p, g) PROVE RegistryTypeOK'
  <2>1. emb' \in [Versions \X Profiles -> EmbeddingRows]
    <3>1. \A k \in Versions \X Profiles : emb[k] \in EmbeddingRows /\ Stale(emb[k]) \in EmbeddingRows
      BY StaleRows
    <3> QED
      BY <1>22, <3>1 DEF UpdateProfile, MarkStaleForProfile
  <2>2. edits' \in [EditKinds -> Nat]
    BY <1>22, EditEffect DEF UpdateProfile
  <2>3. \A q \in Profiles : profile'[q] \in ProfileRows
    <3>1. profile' \in [Profiles -> ProfileRows]
      BY <1>22, ProfileEffect
    <3> QED
      BY <3>1
  <2> QED
    BY <1>22, <2>1, <2>2, <2>3 DEF UpdateProfile
<1>23. CASE ReactivateProfile
  BY <1>23 DEF ReactivateProfile, EnqueueRebuild, MissingOrStale, Indexable
<1>24. ASSUME NEW w \in Workers, NEW k \in queue, EnsureBegin(w, k) PROVE RegistryTypeOK'
  BY <1>24 DEF EnsureBegin, UpToDate
<1>25. ASSUME NEW w \in Workers, NEW ok \in BOOLEAN, EnsureEnd(w, ok) PROVE RegistryTypeOK'
  <2>1. task[w] \in Tasks /\ task[w].st = "CALLING" /\ task[w].key \in Versions \X Profiles
    BY <1>25 DEF EnsureEnd
  <2>2. PersistedRow(task[w], emb[task[w].key], ok) \in EmbeddingRows
    BY <2>1, PersistedRows
  <2>3. emb' \in [Versions \X Profiles -> EmbeddingRows]
    BY <1>25, <2>1, <2>2 DEF EnsureEnd
  <2>4. faults' \in Nat
    BY <1>25 DEF EnsureEnd, Fault
  <2> QED
    BY <1>25, <2>3, <2>4 DEF EnsureEnd
<1>26. ASSUME NEW w \in Workers, WorkerDies(w) PROVE RegistryTypeOK'
  BY <1>26 DEF WorkerDies, Fault
<1>27. CASE Recover
  BY <1>27 DEF Recover, Recoverable, MissingOrStale, Indexable
<1>28. ASSUME NEW k \in Versions \X Profiles, Relay(k) PROVE RegistryTypeOK'
  BY <1>28 DEF Relay
<1>29. ASSUME NEW k \in Versions \X Profiles, LoseMessage(k) PROVE RegistryTypeOK'
  BY <1>29 DEF LoseMessage, Fault
<1>30. CASE UNCHANGED rvars
  BY <1>30
<1>31. ASSUME NEW a \in Admins, CommitBinding(a) PROVE RegistryTypeOK'
  <2>1. server' \in ServerRows
    BY <1>31, InvalidateEffect DEF CommitBinding
  <2> QED
    BY <1>31, <2>1 DEF CommitBinding
<1>32. ASSUME NEW w \in Workers, EnsureRaises(w) PROVE RegistryTypeOK'
  BY <1>32 DEF EnsureRaises, Fault
<1> HIDE DEF RegistryTypeOK, RequestsTypeOK, ServerRows, ToolRows, ProfileRows,
    EmbeddingRows, Fingerprints, Versions, Descriptors, Imported, EditKinds, Ops, NoOp,
    Tasks, NoTask, Keys, evidence, connection, index, dispatch, bounds, rvars
<1>33. ASSUME NEW a \in Admins, AdminStep(a) PROVE RegistryTypeOK'
  BY <1>1, <1>2, <1>3, <1>4, <1>5, <1>6, <1>7, <1>8, <1>9, <1>10, <1>14, <1>16, <1>31, <1>33
  DEF AdminStep
<1>34. ASSUME NEW w \in Workers, IndexStep(w) PROVE RegistryTypeOK'
  BY <1>24, <1>25, <1>26, <1>32, <1>34 DEF IndexStep
<1>35. CASE ConfigStep
  BY <1>11, <1>12, <1>13, <1>15, <1>17, <1>18, <1>19, <1>20, <1>21, <1>22, <1>23, <1>35
  DEF ConfigStep
<1>36. CASE DispatchStep
  BY <1>27, <1>28, <1>29, <1>36 DEF DispatchStep
<1> QED
  BY <1>30, <1>33, <1>34, <1>35, <1>36 DEF RegistryNext

\* Every step keeps the types of requests, tasks and messages.
LEMMA RequestsTypeStep ==
  ASSUME RegistryTypeOK, RequestsTypeOK, [RegistryNext]_rvars
  PROVE  RequestsTypeOK'
<1> USE RegistryAssumption
<1> USE DEF RegistryTypeOK, RequestsTypeOK, ServerRows, ToolRows, ProfileRows, EmbeddingRows,
    Fingerprints, Versions, Descriptors, Imported, EditKinds, Ops, NoOp, Tasks, NoTask, Keys,
    evidence, connection, index, dispatch, bounds, rvars
<1>1. ASSUME NEW a \in Admins, StartTest(a) PROVE RequestsTypeOK'
  BY <1>1 DEF StartTest, Connected
<1>2. ASSUME NEW a \in Admins, TestSucceeds(a) PROVE RequestsTypeOK'
  BY <1>2 DEF TestSucceeds, TestedFingerprint, SaveTransportConfig
<1>3. ASSUME NEW a \in Admins, TestFails(a) PROVE RequestsTypeOK'
  BY <1>3 DEF TestFails, CallFails, Fault
<1>4. ASSUME NEW a \in Admins, NEW apply \in BOOLEAN, StartDiscover(a, apply)
      PROVE  RequestsTypeOK'
  BY <1>4 DEF StartDiscover, Connected
<1>5. ASSUME NEW a \in Admins, DiscoverFails(a) PROVE RequestsTypeOK'
  BY <1>5 DEF DiscoverFails, CallFails, Fault, SaveTransportConfig
<1>6. ASSUME NEW a \in Admins, Preview(a) PROVE RequestsTypeOK'
  BY <1>6 DEF Preview, FinalizeFactory, SaveTransportConfig
<1>7. ASSUME NEW a \in Admins, BeginApply(a) PROVE RequestsTypeOK'
  BY <1>7 DEF BeginApply, Served, Reviewed
<1>8. ASSUME NEW a \in Admins, CommitApply(a) PROVE RequestsTypeOK'
  BY <1>8 DEF CommitApply, ApplyFactoryMatched, ApplyToolDiff, FinalizeFactory,
    SaveTransportConfig, WriteTool, MatchedTool, AppliedTool, Rediscovered, EnqueueEnsure
<1>9. ASSUME NEW a \in Admins, StartActivate(a) PROVE RequestsTypeOK'
  BY <1>9 DEF StartActivate, MayActivate, Connected
<1>10. ASSUME NEW a \in Admins, CommitActivate(a) PROVE RequestsTypeOK'
  BY <1>10 DEF CommitActivate
<1>11. ASSUME NEW c \in Fingerprints \ {0}, UpdateServer(c) PROVE RequestsTypeOK'
  BY <1>11 DEF UpdateServer, Edit
<1>12. CASE DeactivateServer
  BY <1>12 DEF DeactivateServer
<1>13. CASE CreateBinding
  BY <1>13 DEF CreateBinding
<1>14. ASSUME NEW a \in Admins, UpdateBinding(a) PROVE RequestsTypeOK'
  BY <1>14 DEF UpdateBinding, StartBinding, Edit
<1>15. CASE MarkReady
  BY <1>15 DEF MarkReady
<1>16. ASSUME NEW a \in Admins, DisableBinding(a) PROVE RequestsTypeOK'
  BY <1>16 DEF DisableBinding, StartBinding, Edit
<1>17. ASSUME NEW v \in {0} \cup Descriptors, RemoteChange(v) PROVE RequestsTypeOK'
  BY <1>17 DEF RemoteChange, Edit
<1>18. CASE UpdateTool
  BY <1>18 DEF UpdateTool, Edit, MarkStaleForTool, Stale, EnqueueForActiveTool, EnqueueEnsure
<1>19. CASE ActivateTool
  BY <1>19 DEF ActivateTool, EnqueueForActiveTool, EnqueueEnsure
<1>20. CASE DeactivateTool
  BY <1>20 DEF DeactivateTool
<1>21. ASSUME NEW p \in Profiles, ActivateProfile(p) PROVE RequestsTypeOK'
  <2>1. profile' \in [Profiles -> ProfileRows]
    BY <1>21 DEF ActivateProfile
  <2>2. outbox' \subseteq Keys
    BY <1>21, RebuildAsksForKeys DEF ActivateProfile
  <2> QED
    BY <1>21, <2>1, <2>2 DEF ActivateProfile
<1>22. ASSUME NEW p \in Profiles, NEW g \in BOOLEAN, UpdateProfile(p, g) PROVE RequestsTypeOK'
  <2>1. profile' \in [Profiles -> ProfileRows]
    BY <1>22, ProfileEffect
  <2>2. outbox' \subseteq Keys
    BY <1>22, RebuildAsksForKeys DEF UpdateProfile
  <2> QED
    BY <1>22, <2>1, <2>2 DEF UpdateProfile
<1>23. CASE ReactivateProfile
  <2>1. outbox' \subseteq Keys
    BY <1>23, RebuildAsksForKeys DEF ReactivateProfile
  <2> QED
    BY <1>23, <2>1 DEF ReactivateProfile
<1>24. ASSUME NEW w \in Workers, NEW k \in queue, EnsureBegin(w, k) PROVE RequestsTypeOK'
  BY <1>24 DEF EnsureBegin, UpToDate
<1>25. ASSUME NEW w \in Workers, NEW ok \in BOOLEAN, EnsureEnd(w, ok) PROVE RequestsTypeOK'
  BY <1>25 DEF EnsureEnd, PersistedRow, Fault
<1>26. ASSUME NEW w \in Workers, WorkerDies(w) PROVE RequestsTypeOK'
  BY <1>26 DEF WorkerDies, Fault
<1>27. CASE Recover
  <2>1. outbox' \subseteq Keys
    BY <1>27, MissingAreKeys DEF Recover, Recoverable
  <2> QED
    BY <1>27, <2>1 DEF Recover
<1>28. ASSUME NEW k \in Versions \X Profiles, Relay(k) PROVE RequestsTypeOK'
  BY <1>28 DEF Relay
<1>29. ASSUME NEW k \in Versions \X Profiles, LoseMessage(k) PROVE RequestsTypeOK'
  BY <1>29 DEF LoseMessage, Fault
<1>30. CASE UNCHANGED rvars
  BY <1>30
<1>31. ASSUME NEW a \in Admins, CommitBinding(a) PROVE RequestsTypeOK'
  BY <1>31 DEF CommitBinding, InvalidateEvidence
<1>32. ASSUME NEW w \in Workers, EnsureRaises(w) PROVE RequestsTypeOK'
  BY <1>32 DEF EnsureRaises, Fault
<1> HIDE DEF RequestsTypeOK, RegistryTypeOK, ServerRows, ToolRows, ProfileRows,
    EmbeddingRows, Fingerprints, Versions, Descriptors, Imported, EditKinds, Ops, NoOp,
    Tasks, NoTask, Keys, evidence, connection, index, dispatch, bounds, rvars
<1>33. ASSUME NEW a \in Admins, AdminStep(a) PROVE RequestsTypeOK'
  BY <1>1, <1>2, <1>3, <1>4, <1>5, <1>6, <1>7, <1>8, <1>9, <1>10, <1>14, <1>16, <1>31, <1>33
  DEF AdminStep
<1>34. ASSUME NEW w \in Workers, IndexStep(w) PROVE RequestsTypeOK'
  BY <1>24, <1>25, <1>26, <1>32, <1>34 DEF IndexStep
<1>35. CASE ConfigStep
  BY <1>11, <1>12, <1>13, <1>15, <1>17, <1>18, <1>19, <1>20, <1>21, <1>22, <1>23, <1>35
  DEF ConfigStep
<1>36. CASE DispatchStep
  BY <1>27, <1>28, <1>29, <1>36 DEF DispatchStep
<1> QED
  BY <1>30, <1>33, <1>34, <1>35, <1>36 DEF RegistryNext

\* Every edit of a profile's generation fields moves its lock_version.
LEMMA LocksStep ==
  ASSUME RegistryTypeOK, RequestsTypeOK, LocksGrow, [RegistryNext]_rvars
  PROVE  LocksGrow'
<1> USE DEF RegistryTypeOK, RequestsTypeOK, LocksGrow, ServerRows, ToolRows, ProfileRows,
    EmbeddingRows, Fingerprints, Versions, Descriptors, Imported, EditKinds, Ops, NoOp,
    Tasks, NoTask, Keys, evidence, connection, index, dispatch, bounds, rvars
<1>1. ASSUME NEW a \in Admins, StartTest(a) PROVE LocksGrow'
  BY <1>1 DEF StartTest, Connected
<1>2. ASSUME NEW a \in Admins, TestSucceeds(a) PROVE LocksGrow'
  BY <1>2 DEF TestSucceeds, TestedFingerprint, SaveTransportConfig
<1>3. ASSUME NEW a \in Admins, TestFails(a) PROVE LocksGrow'
  BY <1>3 DEF TestFails, CallFails, Fault
<1>4. ASSUME NEW a \in Admins, NEW apply \in BOOLEAN, StartDiscover(a, apply) PROVE LocksGrow'
  BY <1>4 DEF StartDiscover, Connected
<1>5. ASSUME NEW a \in Admins, DiscoverFails(a) PROVE LocksGrow'
  BY <1>5 DEF DiscoverFails, CallFails, Fault, SaveTransportConfig
<1>6. ASSUME NEW a \in Admins, Preview(a) PROVE LocksGrow'
  BY <1>6 DEF Preview, FinalizeFactory, SaveTransportConfig
<1>7. ASSUME NEW a \in Admins, BeginApply(a) PROVE LocksGrow'
  BY <1>7 DEF BeginApply, Served, Reviewed
<1>8. ASSUME NEW a \in Admins, CommitApply(a) PROVE LocksGrow'
  BY <1>8 DEF CommitApply, ApplyFactoryMatched, ApplyToolDiff, FinalizeFactory,
    SaveTransportConfig, WriteTool, MatchedTool, AppliedTool, Rediscovered, EnqueueEnsure
<1>9. ASSUME NEW a \in Admins, StartActivate(a) PROVE LocksGrow'
  BY <1>9 DEF StartActivate, MayActivate, Connected
<1>10. ASSUME NEW a \in Admins, CommitActivate(a) PROVE LocksGrow'
  BY <1>10 DEF CommitActivate
<1>11. ASSUME NEW c \in Fingerprints \ {0}, UpdateServer(c) PROVE LocksGrow'
  BY <1>11 DEF UpdateServer, Edit
<1>12. CASE DeactivateServer
  BY <1>12 DEF DeactivateServer
<1>13. CASE CreateBinding
  BY <1>13 DEF CreateBinding
<1>14. ASSUME NEW a \in Admins, UpdateBinding(a) PROVE LocksGrow'
  BY <1>14 DEF UpdateBinding, StartBinding, Edit
<1>15. CASE MarkReady
  BY <1>15 DEF MarkReady
<1>16. ASSUME NEW a \in Admins, DisableBinding(a) PROVE LocksGrow'
  BY <1>16 DEF DisableBinding, StartBinding, Edit
<1>17. ASSUME NEW v \in {0} \cup Descriptors, RemoteChange(v) PROVE LocksGrow'
  BY <1>17 DEF RemoteChange, Edit
<1>18. CASE UpdateTool
  BY <1>18 DEF UpdateTool, Edit, MarkStaleForTool, Stale, EnqueueForActiveTool, EnqueueEnsure
<1>19. CASE ActivateTool
  BY <1>19 DEF ActivateTool, EnqueueForActiveTool, EnqueueEnsure
<1>20. CASE DeactivateTool
  BY <1>20 DEF DeactivateTool
<1>21. ASSUME NEW p \in Profiles, ActivateProfile(p) PROVE LocksGrow'
  BY <1>21 DEF ActivateProfile, Edit, EnqueueRebuild, MissingOrStale, Indexable
<1>22. ASSUME NEW p \in Profiles, NEW g \in BOOLEAN, UpdateProfile(p, g) PROVE LocksGrow'
  BY <1>22 DEF UpdateProfile, Edit, MarkStaleForProfile, Stale, EnqueueRebuild, MissingOrStale,
    Indexable
<1>23. CASE ReactivateProfile
  BY <1>23 DEF ReactivateProfile, EnqueueRebuild, MissingOrStale, Indexable
<1>24. ASSUME NEW w \in Workers, NEW k \in queue, EnsureBegin(w, k) PROVE LocksGrow'
  BY <1>24 DEF EnsureBegin, UpToDate
<1>25. ASSUME NEW w \in Workers, NEW ok \in BOOLEAN, EnsureEnd(w, ok) PROVE LocksGrow'
  BY <1>25 DEF EnsureEnd, PersistedRow, Fault
<1>26. ASSUME NEW w \in Workers, WorkerDies(w) PROVE LocksGrow'
  BY <1>26 DEF WorkerDies, Fault
<1>27. CASE Recover
  BY <1>27 DEF Recover, Recoverable, MissingOrStale, Indexable
<1>28. ASSUME NEW k \in Versions \X Profiles, Relay(k) PROVE LocksGrow'
  BY <1>28 DEF Relay
<1>29. ASSUME NEW k \in Versions \X Profiles, LoseMessage(k) PROVE LocksGrow'
  BY <1>29 DEF LoseMessage, Fault
<1>30. CASE UNCHANGED rvars
  BY <1>30
<1>31. ASSUME NEW a \in Admins, CommitBinding(a) PROVE LocksGrow'
  BY <1>31 DEF CommitBinding, InvalidateEvidence
<1>32. ASSUME NEW w \in Workers, EnsureRaises(w) PROVE LocksGrow'
  BY <1>32 DEF EnsureRaises, Fault
<1> HIDE DEF LocksGrow, RegistryTypeOK, RequestsTypeOK, ServerRows, ToolRows, ProfileRows,
    EmbeddingRows, Fingerprints, Versions, Descriptors, Imported, EditKinds, Ops, NoOp,
    Tasks, NoTask, Keys, evidence, connection, index, dispatch, bounds, rvars
<1>33. ASSUME NEW a \in Admins, AdminStep(a) PROVE LocksGrow'
  BY <1>1, <1>2, <1>3, <1>4, <1>5, <1>6, <1>7, <1>8, <1>9, <1>10, <1>14, <1>16, <1>31, <1>33
  DEF AdminStep
<1>34. ASSUME NEW w \in Workers, IndexStep(w) PROVE LocksGrow'
  BY <1>24, <1>25, <1>26, <1>32, <1>34 DEF IndexStep
<1>35. CASE ConfigStep
  BY <1>11, <1>12, <1>13, <1>15, <1>17, <1>18, <1>19, <1>20, <1>21, <1>22, <1>23, <1>35
  DEF ConfigStep
<1>36. CASE DispatchStep
  BY <1>27, <1>28, <1>29, <1>36 DEF DispatchStep
<1> QED
  BY <1>30, <1>33, <1>34, <1>35, <1>36 DEF RegistryNext

\* An outcome is stored only for what it was computed from.
LEMMA SearchStep ==
  ASSUME RegistryTypeOK, RequestsTypeOK, LocksGrow, SearchIsCurrent, [RegistryNext]_rvars
  PROVE  SearchIsCurrent'
<1> USE DEF RegistryTypeOK, RequestsTypeOK, LocksGrow, SearchIsCurrent, ServerRows, ToolRows,
    ProfileRows, EmbeddingRows, Fingerprints, Versions, Descriptors, Imported, EditKinds,
    Ops, NoOp, Tasks, NoTask, Keys, evidence, connection, index, dispatch, bounds, rvars
<1>1. ASSUME NEW a \in Admins, StartTest(a) PROVE SearchIsCurrent'
  BY <1>1 DEF StartTest, Connected
<1>2. ASSUME NEW a \in Admins, TestSucceeds(a) PROVE SearchIsCurrent'
  BY <1>2 DEF TestSucceeds, TestedFingerprint, SaveTransportConfig
<1>3. ASSUME NEW a \in Admins, TestFails(a) PROVE SearchIsCurrent'
  BY <1>3 DEF TestFails, CallFails, Fault
<1>4. ASSUME NEW a \in Admins, NEW apply \in BOOLEAN, StartDiscover(a, apply)
      PROVE  SearchIsCurrent'
  BY <1>4 DEF StartDiscover, Connected
<1>5. ASSUME NEW a \in Admins, DiscoverFails(a) PROVE SearchIsCurrent'
  BY <1>5 DEF DiscoverFails, CallFails, Fault, SaveTransportConfig
<1>6. ASSUME NEW a \in Admins, Preview(a) PROVE SearchIsCurrent'
  BY <1>6 DEF Preview, FinalizeFactory, SaveTransportConfig
<1>7. ASSUME NEW a \in Admins, BeginApply(a) PROVE SearchIsCurrent'
  BY <1>7 DEF BeginApply, Served, Reviewed
<1>8. ASSUME NEW a \in Admins, CommitApply(a) PROVE SearchIsCurrent'
  <2>1. tool'.doc = tool.doc
    BY <1>8, ApplyEffect
  <2>2. UNCHANGED <<emb, profile>>
    BY <1>8 DEF CommitApply
  <2> QED
    BY <2>1, <2>2
<1>9. ASSUME NEW a \in Admins, StartActivate(a) PROVE SearchIsCurrent'
  BY <1>9 DEF StartActivate, MayActivate, Connected
<1>10. ASSUME NEW a \in Admins, CommitActivate(a) PROVE SearchIsCurrent'
  BY <1>10 DEF CommitActivate
<1>11. ASSUME NEW c \in Fingerprints \ {0}, UpdateServer(c) PROVE SearchIsCurrent'
  BY <1>11 DEF UpdateServer, Edit
<1>12. CASE DeactivateServer
  BY <1>12 DEF DeactivateServer
<1>13. CASE CreateBinding
  BY <1>13 DEF CreateBinding
<1>14. ASSUME NEW a \in Admins, UpdateBinding(a) PROVE SearchIsCurrent'
  BY <1>14 DEF UpdateBinding, StartBinding, Edit
<1>15. CASE MarkReady
  BY <1>15 DEF MarkReady
<1>16. ASSUME NEW a \in Admins, DisableBinding(a) PROVE SearchIsCurrent'
  BY <1>16 DEF DisableBinding, StartBinding, Edit
<1>17. ASSUME NEW v \in {0} \cup Descriptors, RemoteChange(v) PROVE SearchIsCurrent'
  BY <1>17 DEF RemoteChange, Edit
<1>18. CASE UpdateTool
  BY <1>18 DEF UpdateTool, Edit, MarkStaleForTool, Stale, EnqueueForActiveTool, EnqueueEnsure
<1>19. CASE ActivateTool
  BY <1>19 DEF ActivateTool, EnqueueForActiveTool, EnqueueEnsure
<1>20. CASE DeactivateTool
  BY <1>20 DEF DeactivateTool
<1>21. ASSUME NEW p \in Profiles, ActivateProfile(p) PROVE SearchIsCurrent'
  BY <1>21 DEF ActivateProfile, Edit, EnqueueRebuild, MissingOrStale, Indexable
<1>22. ASSUME NEW p \in Profiles, NEW g \in BOOLEAN, UpdateProfile(p, g) PROVE SearchIsCurrent'
  BY <1>22 DEF UpdateProfile, Edit, MarkStaleForProfile, Stale, EnqueueRebuild, MissingOrStale,
    Indexable
<1>23. CASE ReactivateProfile
  BY <1>23 DEF ReactivateProfile, EnqueueRebuild, MissingOrStale, Indexable
<1>24. ASSUME NEW w \in Workers, NEW k \in queue, EnsureBegin(w, k) PROVE SearchIsCurrent'
  BY <1>24 DEF EnsureBegin, UpToDate
<1>25. ASSUME NEW w \in Workers, NEW ok \in BOOLEAN, EnsureEnd(w, ok) PROVE SearchIsCurrent'
  BY <1>25 DEF EnsureEnd, PersistedRow, Fault
<1>26. ASSUME NEW w \in Workers, WorkerDies(w) PROVE SearchIsCurrent'
  BY <1>26 DEF WorkerDies, Fault
<1>27. CASE Recover
  BY <1>27 DEF Recover, Recoverable, MissingOrStale, Indexable
<1>28. ASSUME NEW k \in Versions \X Profiles, Relay(k) PROVE SearchIsCurrent'
  BY <1>28 DEF Relay
<1>29. ASSUME NEW k \in Versions \X Profiles, LoseMessage(k) PROVE SearchIsCurrent'
  BY <1>29 DEF LoseMessage, Fault
<1>30. CASE UNCHANGED rvars
  BY <1>30
<1>31. ASSUME NEW a \in Admins, CommitBinding(a) PROVE SearchIsCurrent'
  BY <1>31 DEF CommitBinding, InvalidateEvidence
<1>32. ASSUME NEW w \in Workers, EnsureRaises(w) PROVE SearchIsCurrent'
  BY <1>32 DEF EnsureRaises, Fault
<1> HIDE DEF SearchIsCurrent, RegistryTypeOK, RequestsTypeOK, LocksGrow, ServerRows,
    ToolRows, ProfileRows, EmbeddingRows, Fingerprints, Versions, Descriptors, Imported,
    EditKinds, Ops, NoOp, Tasks, NoTask, Keys, evidence, connection, index, dispatch, bounds,
    rvars
<1>33. ASSUME NEW a \in Admins, AdminStep(a) PROVE SearchIsCurrent'
  BY <1>1, <1>2, <1>3, <1>4, <1>5, <1>6, <1>7, <1>8, <1>9, <1>10, <1>14, <1>16, <1>31, <1>33
  DEF AdminStep
<1>34. ASSUME NEW w \in Workers, IndexStep(w) PROVE SearchIsCurrent'
  BY <1>24, <1>25, <1>26, <1>32, <1>34 DEF IndexStep
<1>35. CASE ConfigStep
  BY <1>11, <1>12, <1>13, <1>15, <1>17, <1>18, <1>19, <1>20, <1>21, <1>22, <1>23, <1>35
  DEF ConfigStep
<1>36. CASE DispatchStep
  BY <1>27, <1>28, <1>29, <1>36 DEF DispatchStep
<1> QED
  BY <1>30, <1>33, <1>34, <1>35, <1>36 DEF RegistryNext

\* A stale transport_config brings back only fingerprints that were earned.
LEMMA EvidenceStep ==
  ASSUME RegistryTypeOK, RequestsTypeOK, EvidenceHolds, [RegistryNext]_rvars
  PROVE  EvidenceHolds'
<1> USE DEF RegistryTypeOK, RequestsTypeOK, EvidenceHolds, Earned, ServerRows, ToolRows,
    ProfileRows, EmbeddingRows, Fingerprints, Versions, Descriptors, Imported, EditKinds,
    Ops, NoOp, Tasks, NoTask, Keys, evidence, connection, index, dispatch, bounds, rvars
<1>1. ASSUME NEW a \in Admins, StartTest(a) PROVE EvidenceHolds'
  BY <1>1 DEF StartTest, Connected
<1>2. ASSUME NEW a \in Admins, TestSucceeds(a) PROVE EvidenceHolds'
  <2>1. op[a].kind # "NONE" /\ op[a].seen.cfg \in Fingerprints /\ op[a].seen.disc \in Fingerprints
    BY <1>2, OpsLoaded DEF TestSucceeds
  <2>2. factory => /\ tested' = tested \cup {op[a].seen.cfg}
                   /\ \/ server' = server
                      \/ server'.verified = op[a].seen.cfg /\ server'.disc = op[a].seen.disc
    BY <1>2, <2>1, SaveEffect DEF TestSucceeds, TestedFingerprint
  <2>3. reconciled' = reconciled /\ tested \subseteq tested'
    BY <1>2, <2>2 DEF TestSucceeds
  <2>4. factory => Earned(server)'
    BY <2>1, <2>2, <2>3
  <2>5. op' = [op EXCEPT ![a] = NoOp] /\ UNCHANGED factory
    BY <1>2 DEF TestSucceeds
  <2> QED
    BY <2>3, <2>4, <2>5, RequestEnds DEF TestSucceeds
<1>3. ASSUME NEW a \in Admins, TestFails(a) PROVE EvidenceHolds'
  BY <1>3 DEF TestFails, CallFails, Fault
<1>4. ASSUME NEW a \in Admins, NEW apply \in BOOLEAN, StartDiscover(a, apply) PROVE EvidenceHolds'
  BY <1>4 DEF StartDiscover, Connected
<1>5. ASSUME NEW a \in Admins, DiscoverFails(a) PROVE EvidenceHolds'
  <2>1. op[a].kind # "NONE" /\ op[a].seen.verified \in Fingerprints /\ 0 \in Fingerprints
    BY <1>5, OpsLoaded DEF DiscoverFails
  <2>2. \/ server' = server
        \/ server'.verified = op[a].seen.verified /\ server'.disc = 0
    BY <1>5, <2>1, SaveEffect DEF DiscoverFails
  <2>3. reconciled' = reconciled /\ tested' = tested
    BY <1>5 DEF DiscoverFails
  <2>4. factory => Earned(server)'
    BY <2>1, <2>2, <2>3
  <2>5. op' = [op EXCEPT ![a] = NoOp] /\ UNCHANGED factory
    BY <1>5 DEF DiscoverFails
  <2> QED
    BY <2>3, <2>4, <2>5, RequestEnds DEF DiscoverFails
<1>6. ASSUME NEW a \in Admins, Preview(a) PROVE EvidenceHolds'
  <2> DEFINE d == IF ~Clean(Served(op[a].seen.cfg)) THEN 0 ELSE op[a].seen.disc
  <2>1. op[a].kind # "NONE" /\ op[a].seen.verified \in Fingerprints /\ d \in Fingerprints
    BY <1>6, OpsLoaded DEF Preview
  <2>2. server' = server \/ SaveTransportConfig(op[a].seen, op[a].seen.verified, d)
    BY <1>6 DEF Preview, FinalizeFactory
  <2>3. reconciled' = reconciled /\ tested' = tested
    BY <1>6 DEF Preview
  <2>4. d \in {0, op[a].seen.disc}
    OBVIOUS
  <2> HIDE DEF d
  <2>5. server' = server \/ (server'.verified = op[a].seen.verified /\ server'.disc = d)
    BY <2>1, <2>2, SaveEffect
  <2>6. factory => Earned(server)'
    BY <2>1, <2>3, <2>4, <2>5
  <2>7. op' = [op EXCEPT ![a] = NoOp] /\ UNCHANGED factory
    BY <1>6 DEF Preview
  <2> QED
    BY <2>3, <2>6, <2>7, RequestEnds DEF Preview
<1>7. ASSUME NEW a \in Admins, BeginApply(a) PROVE EvidenceHolds'
  BY <1>7 DEF BeginApply, Served, Reviewed
<1>8. ASSUME NEW a \in Admins, CommitApply(a) PROVE EvidenceHolds'
  <2>1. op[a].kind # "NONE"
    BY <1>8, OpsLoaded DEF CommitApply
  <2>2. factory => /\ reconciled' = reconciled \cup {op[a].seen.cfg}
                   /\ \/ server' = server
                      \/ server'.verified = op[a].seen.verified /\ server'.disc = op[a].seen.cfg
    BY <1>8, ApplyEffect
  <2>3. tested' = tested /\ reconciled \subseteq reconciled'
    BY <1>8, <2>2 DEF CommitApply, ApplyToolDiff
  <2>4. factory => Earned(server)'
    BY <2>1, <2>2, <2>3
  <2>5. op' = [op EXCEPT ![a] = NoOp] /\ UNCHANGED factory
    BY <1>8 DEF CommitApply
  <2> QED
    BY <2>3, <2>4, <2>5, RequestEnds DEF CommitApply
<1>9. ASSUME NEW a \in Admins, StartActivate(a) PROVE EvidenceHolds'
  BY <1>9 DEF StartActivate, MayActivate, Connected
<1>10. ASSUME NEW a \in Admins, CommitActivate(a) PROVE EvidenceHolds'
  BY <1>10 DEF CommitActivate
<1>11. ASSUME NEW c \in Fingerprints \ {0}, UpdateServer(c) PROVE EvidenceHolds'
  BY <1>11 DEF UpdateServer, Edit
<1>12. CASE DeactivateServer
  BY <1>12 DEF DeactivateServer
<1>13. CASE CreateBinding
  BY <1>13 DEF CreateBinding
<1>14. ASSUME NEW a \in Admins, UpdateBinding(a) PROVE EvidenceHolds'
  BY <1>14 DEF UpdateBinding, StartBinding, Edit
<1>15. CASE MarkReady
  BY <1>15 DEF MarkReady
<1>16. ASSUME NEW a \in Admins, DisableBinding(a) PROVE EvidenceHolds'
  BY <1>16 DEF DisableBinding, StartBinding, Edit
<1>17. ASSUME NEW v \in {0} \cup Descriptors, RemoteChange(v) PROVE EvidenceHolds'
  BY <1>17 DEF RemoteChange, Edit
<1>18. CASE UpdateTool
  BY <1>18 DEF UpdateTool, Edit, MarkStaleForTool, Stale, EnqueueForActiveTool, EnqueueEnsure
<1>19. CASE ActivateTool
  BY <1>19 DEF ActivateTool, EnqueueForActiveTool, EnqueueEnsure
<1>20. CASE DeactivateTool
  BY <1>20 DEF DeactivateTool
<1>21. ASSUME NEW p \in Profiles, ActivateProfile(p) PROVE EvidenceHolds'
  BY <1>21 DEF ActivateProfile, Edit, EnqueueRebuild, MissingOrStale, Indexable
<1>22. ASSUME NEW p \in Profiles, NEW g \in BOOLEAN, UpdateProfile(p, g) PROVE EvidenceHolds'
  BY <1>22 DEF UpdateProfile, Edit, MarkStaleForProfile, Stale, EnqueueRebuild, MissingOrStale,
    Indexable
<1>23. CASE ReactivateProfile
  BY <1>23 DEF ReactivateProfile, EnqueueRebuild, MissingOrStale, Indexable
<1>24. ASSUME NEW w \in Workers, NEW k \in queue, EnsureBegin(w, k) PROVE EvidenceHolds'
  BY <1>24 DEF EnsureBegin, UpToDate
<1>25. ASSUME NEW w \in Workers, NEW ok \in BOOLEAN, EnsureEnd(w, ok) PROVE EvidenceHolds'
  BY <1>25 DEF EnsureEnd, PersistedRow, Fault
<1>26. ASSUME NEW w \in Workers, WorkerDies(w) PROVE EvidenceHolds'
  BY <1>26 DEF WorkerDies, Fault
<1>27. CASE Recover
  BY <1>27 DEF Recover, Recoverable, MissingOrStale, Indexable
<1>28. ASSUME NEW k \in Versions \X Profiles, Relay(k) PROVE EvidenceHolds'
  BY <1>28 DEF Relay
<1>29. ASSUME NEW k \in Versions \X Profiles, LoseMessage(k) PROVE EvidenceHolds'
  BY <1>29 DEF LoseMessage, Fault
<1>30. CASE UNCHANGED rvars
  BY <1>30
<1>31. ASSUME NEW a \in Admins, CommitBinding(a) PROVE EvidenceHolds'
  <2>1. server'.verified \in {0, server.verified} /\ server'.disc \in {0, server.disc}
    BY <1>31, InvalidateEffect DEF CommitBinding
  <2>2. reconciled' = reconciled /\ tested' = tested
    BY <1>31 DEF CommitBinding
  <2>3. factory => Earned(server)'
    BY <2>1, <2>2
  <2>4. op' = [op EXCEPT ![a] = NoOp] /\ UNCHANGED factory
    BY <1>31 DEF CommitBinding
  <2> QED
    BY <2>2, <2>3, <2>4, RequestEnds
<1>32. ASSUME NEW w \in Workers, EnsureRaises(w) PROVE EvidenceHolds'
  BY <1>32 DEF EnsureRaises, Fault
<1> HIDE DEF EvidenceHolds, RegistryTypeOK, RequestsTypeOK, Earned, ServerRows, ToolRows,
    ProfileRows, EmbeddingRows, Fingerprints, Versions, Descriptors, Imported, EditKinds,
    Ops, NoOp, Tasks, NoTask, Keys, evidence, connection, index, dispatch, bounds, rvars
<1>33. ASSUME NEW a \in Admins, AdminStep(a) PROVE EvidenceHolds'
  BY <1>1, <1>2, <1>3, <1>4, <1>5, <1>6, <1>7, <1>8, <1>9, <1>10, <1>14, <1>16, <1>31, <1>33
  DEF AdminStep
<1>34. ASSUME NEW w \in Workers, IndexStep(w) PROVE EvidenceHolds'
  BY <1>24, <1>25, <1>26, <1>32, <1>34 DEF IndexStep
<1>35. CASE ConfigStep
  BY <1>11, <1>12, <1>13, <1>15, <1>17, <1>18, <1>19, <1>20, <1>21, <1>22, <1>23, <1>35
  DEF ConfigStep
<1>36. CASE DispatchStep
  BY <1>27, <1>28, <1>29, <1>36 DEF DispatchStep
<1> QED
  BY <1>30, <1>33, <1>34, <1>35, <1>36 DEF RegistryNext

\* Only a request that saw an earned configuration makes a Factory server
\* ACTIVE.
LEMMA ActivationStep ==
  ASSUME RegistryTypeOK, RequestsTypeOK, EvidenceHolds, [RegistryNext]_rvars
  PROVE  ActivationEarned
<1> USE DEF RegistryTypeOK, RequestsTypeOK, EvidenceHolds, ActivationEarned, ServerRows,
    ToolRows, ProfileRows, EmbeddingRows, Fingerprints, Versions, Descriptors, Imported,
    EditKinds, Ops, NoOp, Tasks, NoTask, Keys, evidence, connection, index, dispatch, bounds,
    rvars
<1>1. ASSUME NEW a \in Admins, StartTest(a) PROVE ActivationEarned
  BY <1>1 DEF StartTest, Connected
<1>2. ASSUME NEW a \in Admins, TestSucceeds(a) PROVE ActivationEarned
  BY <1>2 DEF TestSucceeds, TestedFingerprint, SaveTransportConfig
<1>3. ASSUME NEW a \in Admins, TestFails(a) PROVE ActivationEarned
  BY <1>3 DEF TestFails, CallFails, Fault
<1>4. ASSUME NEW a \in Admins, NEW apply \in BOOLEAN, StartDiscover(a, apply)
      PROVE  ActivationEarned
  BY <1>4 DEF StartDiscover, Connected
<1>5. ASSUME NEW a \in Admins, DiscoverFails(a) PROVE ActivationEarned
  BY <1>5 DEF DiscoverFails, CallFails, Fault, SaveTransportConfig
<1>6. ASSUME NEW a \in Admins, Preview(a) PROVE ActivationEarned
  BY <1>6 DEF Preview, FinalizeFactory, SaveTransportConfig
<1>7. ASSUME NEW a \in Admins, BeginApply(a) PROVE ActivationEarned
  BY <1>7 DEF BeginApply, Served, Reviewed
<1>8. ASSUME NEW a \in Admins, CommitApply(a) PROVE ActivationEarned
  BY <1>8, ApplyEffect
<1>9. ASSUME NEW a \in Admins, StartActivate(a) PROVE ActivationEarned
  BY <1>9 DEF StartActivate, MayActivate, Connected
<1>10. ASSUME NEW a \in Admins, CommitActivate(a) PROVE ActivationEarned
  BY <1>10 DEF CommitActivate
<1>11. ASSUME NEW c \in Fingerprints \ {0}, UpdateServer(c) PROVE ActivationEarned
  BY <1>11 DEF UpdateServer, Edit
<1>12. CASE DeactivateServer
  BY <1>12 DEF DeactivateServer
<1>13. CASE CreateBinding
  BY <1>13 DEF CreateBinding
<1>14. ASSUME NEW a \in Admins, UpdateBinding(a) PROVE ActivationEarned
  BY <1>14 DEF UpdateBinding, StartBinding, Edit
<1>15. CASE MarkReady
  BY <1>15 DEF MarkReady
<1>16. ASSUME NEW a \in Admins, DisableBinding(a) PROVE ActivationEarned
  BY <1>16 DEF DisableBinding, StartBinding, Edit
<1>17. ASSUME NEW v \in {0} \cup Descriptors, RemoteChange(v) PROVE ActivationEarned
  BY <1>17 DEF RemoteChange, Edit
<1>18. CASE UpdateTool
  BY <1>18 DEF UpdateTool, Edit, MarkStaleForTool, Stale, EnqueueForActiveTool, EnqueueEnsure
<1>19. CASE ActivateTool
  BY <1>19 DEF ActivateTool, EnqueueForActiveTool, EnqueueEnsure
<1>20. CASE DeactivateTool
  BY <1>20 DEF DeactivateTool
<1>21. ASSUME NEW p \in Profiles, ActivateProfile(p) PROVE ActivationEarned
  BY <1>21 DEF ActivateProfile, Edit, EnqueueRebuild, MissingOrStale, Indexable
<1>22. ASSUME NEW p \in Profiles, NEW g \in BOOLEAN, UpdateProfile(p, g) PROVE ActivationEarned
  BY <1>22 DEF UpdateProfile, Edit, MarkStaleForProfile, Stale, EnqueueRebuild, MissingOrStale,
    Indexable
<1>23. CASE ReactivateProfile
  BY <1>23 DEF ReactivateProfile, EnqueueRebuild, MissingOrStale, Indexable
<1>24. ASSUME NEW w \in Workers, NEW k \in queue, EnsureBegin(w, k) PROVE ActivationEarned
  BY <1>24 DEF EnsureBegin, UpToDate
<1>25. ASSUME NEW w \in Workers, NEW ok \in BOOLEAN, EnsureEnd(w, ok) PROVE ActivationEarned
  BY <1>25 DEF EnsureEnd, PersistedRow, Fault
<1>26. ASSUME NEW w \in Workers, WorkerDies(w) PROVE ActivationEarned
  BY <1>26 DEF WorkerDies, Fault
<1>27. CASE Recover
  BY <1>27 DEF Recover, Recoverable, MissingOrStale, Indexable
<1>28. ASSUME NEW k \in Versions \X Profiles, Relay(k) PROVE ActivationEarned
  BY <1>28 DEF Relay
<1>29. ASSUME NEW k \in Versions \X Profiles, LoseMessage(k) PROVE ActivationEarned
  BY <1>29 DEF LoseMessage, Fault
<1>30. CASE UNCHANGED rvars
  BY <1>30
<1>31. ASSUME NEW a \in Admins, CommitBinding(a) PROVE ActivationEarned
  BY <1>31, InvalidateEffect DEF CommitBinding
<1>32. ASSUME NEW w \in Workers, EnsureRaises(w) PROVE ActivationEarned
  BY <1>32 DEF EnsureRaises, Fault
<1> HIDE DEF ActivationEarned, RegistryTypeOK, RequestsTypeOK, EvidenceHolds, ServerRows,
    ToolRows, ProfileRows, EmbeddingRows, Fingerprints, Versions, Descriptors, Imported,
    EditKinds, Ops, NoOp, Tasks, NoTask, Keys, evidence, connection, index, dispatch, bounds,
    rvars
<1>33. ASSUME NEW a \in Admins, AdminStep(a) PROVE ActivationEarned
  BY <1>1, <1>2, <1>3, <1>4, <1>5, <1>6, <1>7, <1>8, <1>9, <1>10, <1>14, <1>16, <1>31, <1>33
  DEF AdminStep
<1>34. ASSUME NEW w \in Workers, IndexStep(w) PROVE ActivationEarned
  BY <1>24, <1>25, <1>26, <1>32, <1>34 DEF IndexStep
<1>35. CASE ConfigStep
  BY <1>11, <1>12, <1>13, <1>15, <1>17, <1>18, <1>19, <1>20, <1>21, <1>22, <1>23, <1>35
  DEF ConfigStep
<1>36. CASE DispatchStep
  BY <1>27, <1>28, <1>29, <1>36 DEF DispatchStep
<1> QED
  BY <1>30, <1>33, <1>34, <1>35, <1>36 DEF RegistryNext

-----------------------------------------------------------------------------
(* The theorems.                                                           *)

\* Every scenario starts with the invariant.
LEMMA InitInvariant == RegistryInit => RegistryInv
<1> SUFFICES ASSUME RegistryInit PROVE RegistryInv
  OBVIOUS
<1>1. PICK s \in Scenarios : /\ factory = s.factory /\ active = s.active
                             /\ crew = s.crew /\ edits = s.edits /\ faults = s.faults
  BY DEF RegistryInit
<1>2. /\ factory \in BOOLEAN /\ active \in Profiles \cup {NoProfile}
      /\ edits \in [EditKinds -> Nat] /\ faults \in Nat
  BY <1>1, RegistryAssumption
<1>3. server \in ServerRows /\ tool \in ToolRows /\ server.verified = 0 /\ server.disc = 0
  BY DEF RegistryInit, DeferredServer, PlainServer, ServerRows, ToolRows, Fingerprints, Versions, Imported
<1>4. profile \in [Profiles -> ProfileRows]
  BY DEF RegistryInit, ProfileRows
<1>5. emb \in [Versions \X Profiles -> EmbeddingRows]
  BY DEF RegistryInit, NoRow, EmbeddingRows
<1>6. RegistryTypeOK
  BY <1>2, <1>3, <1>4, <1>5 DEF RegistryTypeOK
<1>7. RequestsTypeOK
  BY <1>2, <1>4 DEF RequestsTypeOK, RegistryInit, Ops, Tasks, Versions, Descriptors, Imported
<1>8. LocksGrow
  BY DEF LocksGrow, RegistryInit, NoTask
<1>9. SearchIsCurrent
  BY DEF SearchIsCurrent, RegistryInit, NoRow
<1>10. EvidenceHolds
  BY <1>3 DEF EvidenceHolds, Earned, RegistryInit, NoOp
<1> QED
  BY <1>6, <1>7, <1>8, <1>9, <1>10 DEF RegistryInv

\* The invariant is inductive.
LEMMA InvariantStep == RegistryInv /\ [RegistryNext]_rvars => RegistryInv'
BY TypeStep, RequestsTypeStep, LocksStep, SearchStep, EvidenceStep DEF RegistryInv

\* The invariant always holds; fairness is not needed for it.
THEOREM InvariantHolds == RegistrySpec => []RegistryInv
BY InitInvariant, InvariantStep, PTL DEF RegistrySpec

\* Server, Tool, profile and embedding rows keep their types.
THEOREM RegistryTypeCorrect == RegistrySpec => []RegistryTypeOK
<1>1. RegistryInv => RegistryTypeOK
  BY DEF RegistryInv
<1> QED
  BY <1>1, InvariantHolds, PTL

\* Search never reads a document or a vector that an edit has overtaken.
THEOREM SearchStaysCurrent == RegistrySpec => []SearchIsCurrent
<1>1. RegistryInv => SearchIsCurrent
  BY DEF RegistryInv
<1> QED
  BY <1>1, InvariantHolds, PTL

\* A Factory server becomes ACTIVE only by a request that saw a configuration which
\* was tested and cleanly reconciled.
THEOREM ActivationsAreEarned == RegistrySpec => ActivationIsEarned
<1>1. RegistryInv /\ [RegistryNext]_rvars => [ActivationEarned]_rvars
  BY ActivationStep DEF RegistryInv
<1> QED
  BY <1>1, InvariantHolds, PTL DEF RegistrySpec, ActivationIsEarned, ActivationEarned
=============================================================================
