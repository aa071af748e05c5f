---------------------------- MODULE ToolRegistry ----------------------------
(***************************************************************************)
(* The registry of MCP servers and Tools, and the search index of Tools.   *)
(*                                                                         *)
(* Administrators configure, test, discover and activate an MCP server: a  *)
(* plain one, or one the Tool Factory imported, whose endpoint 1 is the    *)
(* runtime route of a RuntimeBinding.  A connection test, a discovery and  *)
(* an activation load the server row, work, and write from the row they    *)
(* loaded: neither the commit before the network call nor the row lock of  *)
(* an apply refreshes an object the session already holds.                 *)
(*                                                                         *)
(* Workers embed the search document of a ToolVersion for an               *)
(* EmbeddingProfile, asked for through the outbox, while administrators    *)
(* edit the Tool and the profile.  One server with one Tool is followed.   *)
(* Compare-and-set on lock_version makes the edits themselves atomic.      *)
(***************************************************************************)
EXTENDS Naturals

CONSTANTS
  Admins,      \* requests of administrators in progress
  Workers,     \* Celery task slots of the maintenance queue
  Profiles,    \* embedding profiles
  NoProfile,   \* no profile is active for Tool search
  Scenarios    \* bounds: the server's origin, an active profile or none, who is there,
               \* how many edits of each kind, and how many failed calls, lost
               \* messages and dead workers

EditKinds == {"SERVER", "BINDING", "REMOTE", "TOOL", "PROFILE"}

ASSUME RegistryAssumption ==
  /\ NoProfile \notin Profiles
  /\ Scenarios \subseteq [factory : BOOLEAN, active : Profiles \cup {NoProfile},
                         crew : SUBSET (Admins \cup Workers), edits : [EditKinds -> Nat], faults : Nat]

VARIABLES
  factory,     \* the server was imported by the Tool Factory
  server,      \* the MCPServer row
  check,       \* status of the latest connection test (nobody reads a plain server's)
  binding,     \* status of the RuntimeBinding
  op,          \* what each request does, and what its session loaded
  tested,      \* history: connection configurations that passed a connection test
  reconciled,  \* history: configurations whose CLEAN discovery was applied
  remote,      \* the descriptor a foreign endpoint serves, 0 if it lacks the Tool
  tool,        \* the MCPTool row
  profile,     \* the EmbeddingProfile rows
  active,      \* the profile that is active for Tool search
  emb,         \* the ToolEmbedding rows
  outbox,      \* ensure requests not marked published
  queue,       \* ensure messages in the broker
  task,        \* what each worker embeds
  crew,        \* bound: the administrators and workers that take part
  edits,       \* edits left, by kind
  faults       \* faults left

evidence == <<tested, reconciled>>
connection == <<server, check, binding>>
index == <<profile, active, emb>>
dispatch == <<outbox, queue>>
bounds == <<crew, edits, faults>>
rvars == <<factory, connection, op, evidence, remote, tool, index, dispatch, task, bounds>>

\* Connection configurations by their fingerprint, 0 for none (a deferred server).
Fingerprints == 0 .. 2
RuntimeRoute == 1

\* ToolVersions by their content hash, 0 for none: the descriptors a server may
\* send, one of them with schemas that do not validate, and what Publish imported.
Descriptors == 1 .. 3
Imported == 4
Versions == Descriptors \cup {Imported}
Valid(v) == v \in {1, 2, Imported}

\* Name and schemas without description and annotations: the runtime route serves
\* the reviewed contract in a descriptor with a hash of its own.
Reviewed == 1
Contract(v) == IF v = Imported THEN Reviewed ELSE v

\* MCPServer: status, the fingerprint of its connection fields, and the two
\* fingerprints kept in transport_config.
ServerRows == [st : {"DRAFT", "ACTIVE", "INACTIVE"}, cfg : Fingerprints,
               verified : Fingerprints, disc : Fingerprints]
\* MCPTool: status, current version, and its search semantic fields.
ToolRows == [st : {"NONE", "DISCOVERED", "ACTIVE", "INACTIVE", "MISSING"},
             cur : {0} \cup Versions, doc : 0 .. 1]
\* EmbeddingProfile: lock_version and its generation fields.
ProfileRows == [lock : Nat, gen : 0 .. 1]
\* ToolEmbedding: status, the document that was embedded and with which profile.
EmbeddingRows == [st : {"MISSING", "READY", "STALE", "FAILED"}, doc : 0 .. 1, gen : 0 .. 1]

NoOp == [kind |-> "NONE"]
NoTask == [st |-> "IDLE"]
NoRow == [st |-> "MISSING", doc |-> 0, gen |-> 0]

\* A plain server is created DRAFT with an endpoint and no Tools.
PlainServer ==
  /\ server = [st |-> "DRAFT", cfg |-> 1, verified |-> 0, disc |-> 0]
  /\ tool = [st |-> "NONE", cur |-> 0, doc |-> 0]

\* Publish imports a DRAFT server without an endpoint and INACTIVE Tools.
DeferredServer ==
  /\ server = [st |-> "DRAFT", cfg |-> 0, verified |-> 0, disc |-> 0]
  /\ tool = [st |-> "INACTIVE", cur |-> Imported, doc |-> 0]

RegistryInit ==
  /\ \E s \in Scenarios : /\ factory = s.factory /\ active = s.active
                         /\ crew = s.crew /\ edits = s.edits /\ faults = s.faults
  /\ IF factory THEN DeferredServer ELSE PlainServer
  /\ check = "NONE" /\ binding = "NONE" /\ op = [a \in Admins |-> NoOp]
  /\ tested = {} /\ reconciled = {} /\ remote = 1
  /\ profile = [p \in Profiles |-> [lock |-> 1, gen |-> 0]]
  /\ emb = [k \in Versions \X Profiles |-> NoRow]
  /\ outbox = {} /\ queue = {} /\ task = [w \in Workers |-> NoTask]

Edit(kind) == edits[kind] > 0 /\ edits' = [edits EXCEPT ![kind] = @ - 1]
Fault == faults > 0 /\ faults' = faults - 1

\* A request begins.
Idle(a) == a \in crew /\ op[a] = NoOp

-----------------------------------------------------------------------------
(* The search index: what has to be embedded, and who asks for it.         *)

\* A version that search can select: ACTIVE server and Tool, VALID current version.
Indexable(s, t) == s.st = "ACTIVE" /\ t.st = "ACTIVE" /\ Valid(t.cur)

\* As a scan that looks at STALE and FAILED rows only.
NeedsRefreshKnown(row) == row.st \in {"STALE", "FAILED"}

\* The rows an ensure has to fill: missing, STALE or FAILED.
NeedsRefresh(row) == row.st \in {"MISSING", "STALE", "FAILED"}

MissingOrStale(p, rows) ==
  {k \in {<<tool.cur, p>>} : Indexable(server, tool) /\ NeedsRefresh(rows[k])}

\* Ask for one version under the active profile; an unpublished twin is enough.
EnqueueEnsure(v) ==
  outbox' = IF active = NoProfile THEN outbox ELSE outbox \cup {<<v, active>>}

EnqueueForActiveTool(t) ==
  IF t.st = "ACTIVE" /\ t.cur # 0 THEN EnqueueEnsure(t.cur) ELSE UNCHANGED outbox

\* A listing has a limit, and other Tools may fill it.
EnqueueRebuild(p, rows) == \E batch \in SUBSET MissingOrStale(p, rows) : outbox' = outbox \cup batch

Stale(row) == IF row.st = "MISSING" THEN row ELSE [row EXCEPT !.st = "STALE"]

\* Every version of the Tool.
MarkStaleForTool(rows) == [k \in DOMAIN rows |-> Stale(rows[k])]

MarkStaleForProfile(rows, p) ==
  [k \in DOMAIN rows |-> IF k[2] = p THEN Stale(rows[k]) ELSE rows[k]]

-----------------------------------------------------------------------------
(* Servers and RuntimeBindings.                                            *)

\* An apply holds the row lock of the server from its read to its commit.
ServerFree == \A a \in Admins : op[a] # NoOp => op[a].at # "APPLY"

\* What a session that loaded the row as `seen` writes back: transport_config
\* as one column with both fingerprints, and only if it differs from what was
\* loaded.
SaveTransportConfig(seen, verified, disc) ==
  IF <<verified, disc>> = <<seen.verified, seen.disc>>
  THEN UNCHANGED server
  ELSE server' = [server EXCEPT !.verified = verified, !.disc = disc]

\* The endpoint is usable and no longer deferred.
Connected(s) == s.cfg # 0

\* The connection fields change; status and fingerprints stay.
UpdateServer(c) ==
  /\ Edit("SERVER") /\ ServerFree /\ c # server.cfg
  /\ server' = [server EXCEPT !.cfg = c]
  /\ UNCHANGED <<factory, check, binding, op, evidence, remote, tool, index, dispatch, task, crew, faults>>

\* Activation needs, of a Factory server, a connection test and an applied
\* CLEAN discovery of the configuration it has.
MayActivate(s) ==
  /\ s.st \in {"DRAFT", "INACTIVE"} /\ Connected(s)
  /\ factory => s.verified = s.cfg /\ check = "SUCCEEDED" /\ s.disc = s.cfg

StartActivate(a) ==
  /\ Idle(a) /\ MayActivate(server)
  /\ op' = [op EXCEPT ![a] = [kind |-> "ACTIVATE", at |-> "WRITE", seen |-> server]]
  /\ UNCHANGED <<factory, connection, evidence, remote, tool, index, dispatch, task, bounds>>

CommitActivate(a) ==
  /\ op[a].kind = "ACTIVATE" /\ ServerFree
  /\ server' = [server EXCEPT !.st = "ACTIVE"]
  /\ op' = [op EXCEPT ![a] = NoOp]
  /\ UNCHANGED <<factory, check, binding, evidence, remote, tool, index, dispatch, task, bounds>>

DeactivateServer ==
  /\ server.st = "ACTIVE" /\ ServerFree
  /\ server' = [server EXCEPT !.st = "INACTIVE"]
  /\ UNCHANGED <<factory, check, binding, op, evidence, remote, tool, index, dispatch, task, bounds>>

\* Both fingerprints go and an ACTIVE server becomes INACTIVE, as far as the row
\* that was loaded without a lock had them or was ACTIVE.
InvalidateEvidence(seen) ==
  LET had == <<seen.verified, seen.disc>> # <<0, 0>> IN
  server' = [server EXCEPT !.verified = IF had THEN 0 ELSE @, !.disc = IF had THEN 0 ELSE @,
                           !.st = IF seen.st = "ACTIVE" THEN "INACTIVE" ELSE @]

\* A binding hangs on a Publish whose Review, Package and server agree.
LineageHolds == factory

CreateBinding ==
  /\ LineageHolds /\ binding = "NONE" /\ binding' = "DRAFT"
  /\ UNCHANGED <<factory, server, check, op, evidence, remote, tool, index, dispatch, task, bounds>>

\* An edit holds the row lock of the binding from here to its commit.
BindingFree == \A a \in Admins : op[a].kind # "BINDING"

StartBinding(a, st) ==
  /\ Idle(a) /\ BindingFree /\ Edit("BINDING")
  /\ op' = [op EXCEPT ![a] = [kind |-> "BINDING", at |-> "WRITE", seen |-> server, to |-> st]]
  /\ UNCHANGED <<factory, connection, evidence, remote, tool, index, dispatch, task, crew, faults>>

\* Execution relevant fields change; the others leave no trace here.
UpdateBinding(a) == LineageHolds /\ binding \in {"DRAFT", "READY"} /\ StartBinding(a, "DRAFT")

\* Also of a binding that is DISABLED already.
DisableBinding(a) == binding # "NONE" /\ StartBinding(a, "DISABLED")

CommitBinding(a) ==
  /\ op[a].kind = "BINDING" /\ ServerFree
  /\ binding' = op[a].to /\ InvalidateEvidence(op[a].seen)
  /\ op' = [op EXCEPT ![a] = NoOp]
  /\ UNCHANGED <<factory, check, evidence, remote, tool, index, dispatch, task, bounds>>

MarkReady ==
  /\ LineageHolds /\ binding = "DRAFT" /\ BindingFree /\ binding' = "READY"
  /\ UNCHANGED <<factory, server, check, op, evidence, remote, tool, index, dispatch, task, bounds>>

-----------------------------------------------------------------------------
(* Connection tests and discovery.                                         *)

\* The runtime route serves the reviewed contract while its binding is READY.
Answers(c) == factory /\ c = RuntimeRoute => binding = "READY"
Served(c) == IF factory /\ c = RuntimeRoute THEN Reviewed ELSE remote

\* A remote server changes the Tool, removes it or brings it back.
RemoteChange(v) ==
  /\ v # remote /\ Edit("REMOTE") /\ remote' = v
  /\ UNCHANGED <<factory, connection, op, evidence, tool, index, dispatch, task, crew, faults>>

StartTest(a) ==
  /\ Idle(a) /\ Connected(server)
  /\ op' = [op EXCEPT ![a] = [kind |-> "TEST", at |-> "NET", seen |-> server]]
  /\ UNCHANGED <<factory, connection, evidence, remote, tool, index, dispatch, task, bounds>>

\* The configuration that was tested, not the one the row has now.
TestedFingerprint(o) == o.seen.cfg

TestSucceeds(a) ==
  /\ op[a].kind = "TEST" /\ Answers(op[a].seen.cfg) /\ ServerFree
  /\ IF factory
     THEN /\ check' = "SUCCEEDED" /\ tested' = tested \cup {op[a].seen.cfg}
          /\ SaveTransportConfig(op[a].seen, TestedFingerprint(op[a]), op[a].seen.disc)
     ELSE UNCHANGED <<check, tested, server>>
  /\ op' = [op EXCEPT ![a] = NoOp]
  /\ UNCHANGED <<factory, binding, reconciled, remote, tool, index, dispatch, task, bounds>>

\* A call fails because nobody answers, or by a fault.
CallFails(c) == IF Answers(c) THEN Fault ELSE UNCHANGED faults

TestFails(a) ==
  /\ op[a].kind = "TEST" /\ ServerFree /\ CallFails(op[a].seen.cfg)
  /\ check' = IF factory THEN "FAILED" ELSE check
  /\ op' = [op EXCEPT ![a] = NoOp]
  /\ UNCHANGED <<factory, server, binding, evidence, remote, tool, index, dispatch, task, crew, edits>>

\* A Factory server is discovered only after a test of the same configuration.
StartDiscover(a, apply) ==
  /\ Idle(a) /\ Connected(server)
  /\ factory => server.verified = server.cfg
  /\ op' = [op EXCEPT ![a] = [kind |-> "DISCOVER", at |-> "NET", seen |-> server, apply |-> apply]]
  /\ UNCHANGED <<factory, connection, evidence, remote, tool, index, dispatch, task, bounds>>

DiscoverFails(a) ==
  /\ op[a].kind = "DISCOVER" /\ op[a].at = "NET" /\ ServerFree /\ CallFails(op[a].seen.cfg)
  /\ IF factory THEN SaveTransportConfig(op[a].seen, op[a].seen.verified, 0) ELSE UNCHANGED server
  /\ op' = [op EXCEPT ![a] = NoOp]
  /\ UNCHANGED <<factory, check, binding, evidence, remote, tool, index, dispatch, task, crew, edits>>

\* The contract an imported Tool is expected to have: its current version's.
Expected == Contract(tool.cur)

\* Reconciliation of a Factory server is CLEAN if the remote Tools are exactly
\* the imported ones with the contracts expected of them.
Clean(v) == Contract(v) = Expected

\* As a preview that counts as discovery.
FinalizeFactoryPreview(o, clean, applied) ==
  SaveTransportConfig(o.seen, o.seen.verified, IF clean THEN o.seen.cfg ELSE 0)

\* A CLEAN discovery stamps the configuration once it is applied; a CLEAN
\* preview leaves the fingerprints alone, a mismatch clears the discovery's.
FinalizeFactory(o, clean, applied) ==
  SaveTransportConfig(o.seen, o.seen.verified,
                      IF ~clean THEN 0 ELSE IF applied THEN o.seen.cfg ELSE o.seen.disc)

\* The remote Tools are compared and nothing is applied: a preview, or a
\* reconciliation that fails closed.
Preview(a) ==
  LET o == op[a] IN
  /\ o.kind = "DISCOVER" /\ o.at = "NET" /\ Answers(o.seen.cfg) /\ ServerFree
  /\ ~o.apply \/ (factory /\ ~Clean(Served(o.seen.cfg)))
  /\ IF factory THEN FinalizeFactory(o, Clean(Served(o.seen.cfg)), FALSE) ELSE UNCHANGED server
  /\ op' = [op EXCEPT ![a] = NoOp]
  /\ UNCHANGED <<factory, check, binding, evidence, remote, tool, index, dispatch, task, bounds>>

\* An apply locks the server row and reads the Tools.  The drift check that
\* follows the lock looks at the row the session loaded before the network call.
NoDrift(o) == factory => o.seen.verified = o.seen.cfg

BeginApply(a) ==
  LET o == op[a] IN
  /\ o.kind = "DISCOVER" /\ o.at = "NET" /\ o.apply /\ Answers(o.seen.cfg) /\ ServerFree
  /\ NoDrift(o) /\ factory => Clean(Served(o.seen.cfg))
  /\ op' = [op EXCEPT ![a] = [kind |-> "DISCOVER", at |-> "APPLY", seen |-> o.seen,
                              got |-> Served(o.seen.cfg), tool |-> tool]]
  /\ UNCHANGED <<factory, connection, evidence, remote, tool, index, dispatch, task, bounds>>

\* What the apply makes of the Tool it read: added, changed, unchanged, missing.
Rediscovered(t) == IF t.st \in {"NONE", "MISSING"} THEN "DISCOVERED" ELSE t.st
AppliedTool(t, v) ==
  IF v = 0 THEN [t EXCEPT !.st = IF @ = "NONE" THEN @ ELSE "MISSING"]
  ELSE [t EXCEPT !.st = Rediscovered(t), !.cur = v]

\* Matched Factory Tools stay, or become, INACTIVE.  The version is looked up by
\* the hash of the descriptor, so the first apply replaces the imported one.
MatchedTool(t, v) == [t EXCEPT !.st = "INACTIVE", !.cur = v]

\* The columns that differ from the row that was read are written over the row
\* as it is by then.
WriteTool(read, new) ==
  tool' = [tool EXCEPT !.st = IF new.st = read.st THEN @ ELSE new.st,
                       !.cur = IF new.cur = read.cur THEN @ ELSE new.cur]

\* Tool status is looked at again after the write, whose flush and refresh bring
\* in what others committed meanwhile.
ApplyToolDiff(o) ==
  LET new == AppliedTool(o.tool, o.got) IN
  /\ WriteTool(o.tool, new)
  /\ IF tool'.st = "ACTIVE" /\ new.cur # o.tool.cur THEN EnqueueEnsure(new.cur) ELSE UNCHANGED outbox
  /\ UNCHANGED <<server, reconciled>>

ApplyFactoryMatched(o) ==
  /\ WriteTool(o.tool, MatchedTool(o.tool, o.got))
  /\ FinalizeFactory(o, TRUE, TRUE)
  /\ reconciled' = reconciled \cup {o.seen.cfg}
  /\ UNCHANGED outbox

CommitApply(a) ==
  /\ op[a] # NoOp /\ op[a].at = "APPLY"
  /\ IF factory THEN ApplyFactoryMatched(op[a]) ELSE ApplyToolDiff(op[a])
  /\ op' = [op EXCEPT ![a] = NoOp]
  /\ UNCHANGED <<factory, check, binding, tested, remote, index, queue, task, bounds>>

-----------------------------------------------------------------------------
(* Tools and embedding profiles.                                           *)

\* An edit of a search semantic field makes every embedding of the Tool STALE.
UpdateTool ==
  /\ tool.st # "NONE" /\ Edit("TOOL")
  /\ tool' = [tool EXCEPT !.doc = 1 - @]
  /\ emb' = MarkStaleForTool(emb)
  /\ EnqueueForActiveTool(tool)
  /\ UNCHANGED <<factory, connection, op, evidence, remote, profile, active, queue, task, crew, faults>>

\* Also of a Tool that is ACTIVE already, so that a missing index recovers.
ActivateTool ==
  /\ tool.st \in {"DISCOVERED", "INACTIVE", "ACTIVE"} /\ tool.cur # 0
  /\ tool' = [tool EXCEPT !.st = "ACTIVE"]
  /\ EnqueueForActiveTool(tool')
  /\ UNCHANGED <<factory, connection, op, evidence, remote, index, queue, task, bounds>>

DeactivateTool ==
  /\ tool.st = "ACTIVE" /\ tool' = [tool EXCEPT !.st = "INACTIVE"]
  /\ UNCHANGED <<factory, connection, op, evidence, remote, index, dispatch, task, bounds>>

\* Generation fields make the profile's embeddings STALE; the timeout does not.
UpdateProfile(p, generation) ==
  LET rows == IF generation THEN MarkStaleForProfile(emb, p) ELSE emb IN
  /\ Edit("PROFILE")
  /\ profile' = [profile EXCEPT ![p].lock = @ + 1, ![p].gen = IF generation THEN 1 - @ ELSE @]
  /\ emb' = rows
  /\ IF generation /\ active = p THEN EnqueueRebuild(p, rows) ELSE UNCHANGED outbox
  /\ UNCHANGED <<factory, connection, op, evidence, remote, tool, active, queue, task, crew, faults>>

\* The flag moves and both rows get a new lock_version.
ActivateProfile(p) ==
  /\ active # p /\ Edit("PROFILE") /\ active' = p
  /\ profile' = [q \in Profiles |-> IF q \in {p, active} THEN [profile[q] EXCEPT !.lock = @ + 1]
                                                          ELSE profile[q]]
  /\ EnqueueRebuild(p, emb)
  /\ UNCHANGED <<factory, connection, op, evidence, remote, tool, emb, queue, task, crew, faults>>

\* Activating the active profile again only asks for what is missing.
ReactivateProfile ==
  /\ active # NoProfile /\ EnqueueRebuild(active, emb)
  /\ UNCHANGED <<factory, connection, op, evidence, remote, tool, index, queue, task, bounds>>

-----------------------------------------------------------------------------
(* Embedding workers.                                                      *)

Relay(k) ==
  /\ k \in outbox /\ outbox' = outbox \ {k} /\ queue' = queue \cup {k}
  /\ UNCHANGED <<factory, connection, op, evidence, remote, tool, index, task, bounds>>

LoseMessage(k) ==
  /\ k \in queue /\ Fault /\ queue' = queue \ {k}
  /\ UNCHANGED <<factory, connection, op, evidence, remote, tool, index, outbox, task, crew, edits>>

\* A row that is READY for the Tool's document needs no call.
UpToDate(row) == row.st = "READY" /\ row.doc = tool.doc

\* Load Tool, profile and row, and end the transaction before the provider call.
EnsureBegin(w, k) ==
  /\ w \in crew /\ task[w] = NoTask /\ k \in queue /\ queue' = queue \ {k}
  /\ task' = [task EXCEPT ![w] =
       IF UpToDate(emb[k]) THEN NoTask
       ELSE [st |-> "CALLING", key |-> k, doc |-> tool.doc, profile |-> profile[k[2]]]]
  /\ UNCHANGED <<factory, connection, op, evidence, remote, tool, index, outbox, bounds>>

\* As a worker that trusts the document it loaded.
PersistedRowUnchecked(t, row, ok) ==
  IF profile[t.key[2]].lock # t.profile.lock THEN row
  ELSE IF ok THEN [st |-> "READY", doc |-> t.doc, gen |-> t.profile.gen]
  ELSE [st |-> "FAILED", doc |-> t.doc, gen |-> 0]

\* The row the outcome becomes under the locks of profile and Tool: dropped if
\* the profile changed, STALE with the live document if the Tool did.
PersistedRow(t, row, ok) ==
  IF profile[t.key[2]].lock # t.profile.lock THEN row
  ELSE IF tool.doc # t.doc THEN [row EXCEPT !.st = "STALE", !.doc = tool.doc]
  ELSE IF ok THEN [st |-> "READY", doc |-> t.doc, gen |-> t.profile.gen]
  ELSE [st |-> "FAILED", doc |-> t.doc, gen |-> 0]

EnsureEnd(w, ok) ==
  /\ task[w].st = "CALLING" /\ IF ok THEN UNCHANGED faults ELSE Fault
  /\ emb' = [emb EXCEPT ![task[w].key] = PersistedRow(task[w], @, ok)]
  /\ task' = [task EXCEPT ![w] = NoTask]
  /\ UNCHANGED <<factory, connection, op, evidence, remote, tool, profile, active, dispatch, crew, edits>>

\* Another exception than a lost database connection ends the task and with it
\* the message.
EnsureRaises(w) ==
  /\ task[w].st = "CALLING" /\ Fault
  /\ task' = [task EXCEPT ![w] = NoTask]
  /\ UNCHANGED <<factory, connection, op, evidence, remote, tool, index, dispatch, crew, edits>>

\* A message is acknowledged late, so that of a killed worker is delivered again.
WorkerDies(w) ==
  /\ task[w].st = "CALLING" /\ Fault
  /\ task' = [task EXCEPT ![w] = NoTask]
  /\ queue' = queue \cup {task[w].key}
  /\ UNCHANGED <<factory, connection, op, evidence, remote, tool, index, outbox, crew, edits>>

\* The recovery scan asks again for what the active profile lacks, unless a
\* request is unpublished; its cooldown and its batch limit only delay it.
Recoverable == IF active = NoProfile THEN {} ELSE MissingOrStale(active, emb) \ outbox

Recover ==
  /\ Recoverable # {} /\ outbox' = outbox \cup Recoverable
  /\ UNCHANGED <<factory, connection, op, evidence, remote, tool, index, queue, task, bounds>>

-----------------------------------------------------------------------------
AdminStep(a) ==
  \/ StartTest(a) \/ TestSucceeds(a) \/ TestFails(a)
  \/ \E apply \in BOOLEAN : StartDiscover(a, apply)
  \/ DiscoverFails(a) \/ Preview(a) \/ BeginApply(a) \/ CommitApply(a)
  \/ StartActivate(a) \/ CommitActivate(a)
  \/ UpdateBinding(a) \/ DisableBinding(a) \/ CommitBinding(a)

ConfigStep ==
  \/ \E c \in Fingerprints \ {0} : UpdateServer(c)
  \/ DeactivateServer \/ CreateBinding \/ MarkReady
  \/ \E v \in {0} \cup Descriptors : RemoteChange(v)
  \/ UpdateTool \/ ActivateTool \/ DeactivateTool
  \/ \E p \in Profiles : ActivateProfile(p) \/ \E g \in BOOLEAN : UpdateProfile(p, g)
  \/ ReactivateProfile

IndexStep(w) ==
  \/ \E k \in queue : EnsureBegin(w, k)
  \/ \E ok \in BOOLEAN : EnsureEnd(w, ok)
  \/ EnsureRaises(w) \/ WorkerDies(w)

DispatchStep == Recover \/ \E k \in Versions \X Profiles : Relay(k) \/ LoseMessage(k)

RegistryNext ==
  \/ \E a \in Admins : AdminStep(a)
  \/ \E w \in Workers : IndexStep(w)
  \/ ConfigStep \/ DispatchStep

\* The relay and the recovery scan poll, and a worker takes what is queued and
\* ends what it began: HTTP calls have timeouts.  That the scan reaches the Tool
\* assumes that older ones, failing again and again, do not fill every batch.
\* Administrators may do nothing.
RegistryFairness ==
  /\ WF_rvars(Recover)
  /\ \A k \in Versions \X Profiles :
       WF_rvars(Relay(k)) /\ WF_rvars(\E w \in Workers : EnsureBegin(w, k))
  /\ \A w \in Workers : WF_rvars(\E ok \in BOOLEAN : EnsureEnd(w, ok))

RegistrySpec == RegistryInit /\ [][RegistryNext]_rvars /\ RegistryFairness

-----------------------------------------------------------------------------
\* Types, and the bounds.
RegistryTypeOK ==
  /\ server \in ServerRows /\ tool \in ToolRows
  /\ \A p \in Profiles : profile[p] \in ProfileRows
  /\ emb \in [Versions \X Profiles -> EmbeddingRows]
  /\ edits \in [EditKinds -> Nat] /\ faults \in Nat

\* What search reads is current: a row it ranks by text (READY or FAILED) holds
\* the Tool's live search document, and a READY vector was computed for it with
\* the profile's present generation fields, however the provider call raced with
\* edits of Tool and profile (_persist_provider_outcome, mark_stale_for_tool,
\* mark_stale_for_profile).
SearchIsCurrent ==
  \A k \in Versions \X Profiles :
    /\ emb[k].st \in {"READY", "FAILED"} => emb[k].doc = tool.doc
    /\ emb[k].st = "READY" => emb[k].gen = profile[k[2]].gen

\* A Factory server is made ACTIVE only by a request that saw a configuration
\* which passed a connection test and whose CLEAN discovery was applied, however
\* many tests, previews and applies wrote their stale transport_config meanwhile
\* (activate, connection_test, _finalize_factory_discovery).
ActivationIsEarned ==
  [][factory /\ server.st # "ACTIVE" /\ server'.st = "ACTIVE" =>
       \E a \in Admins : /\ op[a].kind = "ACTIVATE" /\ op'[a] = NoOp
                         /\ op[a].seen.cfg \in tested \cap reconciled]_rvars

\* The current version of an ACTIVE Tool of an ACTIVE server gets its embedding
\* under the active profile, or stops being searchable: lost messages, dead
\* workers, provider errors and applies that ask for nothing are made good by
\* the recovery scan (ToolEmbeddingRecoveryService).
Indexed == active # NoProfile => emb[<<tool.cur, active>>].st = "READY"
IndexSettles == Indexable(server, tool) ~> (~Indexable(server, tool) \/ Indexed)

\* An ACTIVE Factory server on its runtime route has a READY binding.  It does
\* not hold: a test, a discovery or an activation in flight while the binding is
\* edited brings the fingerprints, or the status, back.
ActiveIsBound == factory /\ server.st = "ACTIVE" /\ server.cfg = RuntimeRoute => binding = "READY"
=============================================================================
