------------------------------ MODULE Scheduler ------------------------------
(***************************************************************************)
(* The scheduler process (scheduler/runtime.py, scheduler/recurrence.py),  *)
(* the Schedule API (services/schedule.py, services/schedule_trigger.py)   *)
(* and the rows they share with the workers, for one Schedule of a         *)
(* Workflow.                                                               *)
(*                                                                         *)
(* Time is a number of ticks; 0 stands for NULL.  An Occurrence is named   *)
(* by its scheduled_for.  Recurrence points are even ticks and manual      *)
(* triggers happen at odd ones, because a trigger's microsecond timestamp  *)
(* never equals a recurrence point.                                        *)
(*                                                                         *)
(* One scheduler iteration is one transaction with two visible moments:    *)
(* the reconcile scan that locks Occurrence rows together with the         *)
(* unlocked read of the prior Executions under the Schedule lock, and the  *)
(* locking, cancelling and creating that is committed.  The workers move   *)
(* Executions meanwhile; staging and claiming lock the Execution first and *)
(* its Occurrence next.                                                    *)
(*                                                                         *)
(* An Execution that runs with a STARTED ToolCall is "CALLING"; the two    *)
(* WAITING statuses, cancelled in the same way as RUNNING without a call,  *)
(* are folded into "RUNNING", and every end without success into           *)
(* "CANCELLED".                                                            *)
(***************************************************************************)
EXTENDS Integers, FiniteSets

CONSTANTS
    Horizon,          \* the last tick of the clock
    ZoneEnd,          \* the last tick whose wall-clock reading is known
    Zone,             \* wall-clock reading of every tick in the Schedule's timezone
    Calendar,         \* recurrence rules whose arithmetic is checked
    Rules,            \* those a Schedule carries
    Policies,         \* pairs of an overlap and a misfire policy
    MisfireGrace,     \* misfire_grace_seconds, in ticks
    DueScanLimit,     \* due_scan_limit
    MaxCatchUp,       \* max_catch_up
    TriggerTicks,     \* bound: the odd ticks at which a manual trigger may come
    MaxEdits          \* bound: configuration edits

ASSUME SchedulerBounds ==
    /\ Horizon \in Nat \ {0} /\ ZoneEnd \in Nat /\ Horizon <= ZoneEnd
    /\ MisfireGrace \in Nat /\ DueScanLimit \in Nat \ {0} /\ MaxCatchUp \in Nat
    /\ MaxEdits \in Nat
    /\ Policies \subseteq [overlap : {"ALLOW", "SKIP", "QUEUE", "REPLACE"},
                            misfire : {"SKIP", "RUN_ONCE", "CATCH_UP_LIMITED"}]

VARIABLES
    now,              \* the clock
    sched,            \* the schedules row
    occ,              \* schedule_occurrences.status by scheduled_for
    reason,           \* schedule_occurrences.decision_reason by scheduled_for
    exec,             \* status of the Execution of each Occurrence
    tx,               \* the scheduler's open transaction
    staging,          \* the Occurrence whose Execution row a worker has locked, or 0
    edits,            \* configuration edits so far
    owedFrom          \* history: the point next_run_at was last computed to be

svars == <<now, sched, occ, reason, exec, tx, staging, edits, owedFrom>>

Times == 1..Horizon
OccurrenceStatus ==
    {"NONE", "PLANNED", "SKIPPED", "ENQUEUED", "RUNNING", "COMPLETED", "FAILED"}
ExecStatus ==
    {"NONE", "CREATED", "QUEUED", "RUNNING", "CALLING", "CANCEL_REQUESTED",
     "SUCCEEDED", "CANCELLED"}
ExecEnded == {"SUCCEEDED", "CANCELLED"}
Live(e) == e \notin ExecEnded \cup {"NONE"}
WaitReasons == {"OVERLAP_QUEUE", "OVERLAP_REPLACE_WAIT"}
Reasons == WaitReasons \cup
    {"NONE", "DUE", "MISFIRE_SKIP", "MISFIRE_COALESCED", "MISFIRE_RUN_ONCE",
     "MISFIRE_CATCH_UP", "MISFIRE_CATCH_UP_LIMIT", "OVERLAP_SKIP",
     "OVERLAP_REPLACE", "REPLACE_SUPERSEDED", "MANUAL_TRIGGER",
     "TARGET_PRECONDITION_FAILED"}

-----------------------------------------------------------------------------
(* Recurrence *)

InWindow(rule, t) == rule.start <= t /\ t < rule.end

\* The first of the ticks that show the same reading.
FirstReading(t) == \A u \in DOMAIN Zone : Zone[u] = Zone[t] => t <= u

\* The points of a rule, said without the search the code makes: the ticks a
\* rule names, inside its window.
Point(rule, t) ==
    /\ InWindow(rule, t)
    /\ CASE rule.kind = "ONCE" -> t = rule.at
         [] rule.kind = "INTERVAL" -> (t - rule.start) % rule.every = 0
         [] rule.kind = "CRON" -> Zone[t] \in rule.walls /\ FirstReading(t)

\* A reading the clock jumped over is not shown later by setting it back: the two
\* changes of a year are months apart.
ASSUME ZoneAssumption ==
    /\ Zone \in [0..ZoneEnd -> Int]
    /\ \A t, u \in 0..ZoneEnd :
         FirstReading(t) /\ FirstReading(u) /\ Zone[t] < Zone[u] => t < u

\* Rules as validate_schedule_expression leaves them; the ticks of a window are known.
RuleSet ==
    [kind : {"ONCE", "CRON", "INTERVAL"}, at : Nat, walls : SUBSET Int,
     start : 0..ZoneEnd, every : Nat \ {0}, end : 0..(ZoneEnd + 1)]
ASSUME RulesAssumption ==
    /\ Calendar \subseteq RuleSet /\ Rules \subseteq RuleSet
    /\ \A rule \in Rules, t \in 0..ZoneEnd : Point(rule, t) => t % 2 = 0
    /\ \A t \in TriggerTicks : t \in Nat /\ t % 2 = 1

NextOnce(rule, after) ==
    IF rule.at <= after \/ ~InWindow(rule, rule.at) THEN 0 ELSE rule.at

NextInterval(rule, after) ==
    LET candidate ==
          IF after < rule.start THEN rule.start
          ELSE rule.start + (((after - rule.start) \div rule.every) + 1) * rule.every
    IN  IF candidate >= rule.end THEN 0 ELSE candidate

\* A wall-clock reading the timezone skips is shown by no tick; an ambiguous one
\* means its first tick (fold 0).
WallExists(wall) == \E t \in DOMAIN Zone : Zone[t] = wall
\* Mutant: the second of two equal readings.
LocalizeLast(wall) ==
    CHOOSE t \in DOMAIN Zone :
        Zone[t] = wall /\ \A u \in DOMAIN Zone : Zone[u] = wall => t >= u
Localize(wall) ==
    CHOOSE t \in DOMAIN Zone :
        /\ Zone[t] = wall
        /\ \A u \in DOMAIN Zone : Zone[u] = wall => t <= u

\* croniter is given only wall clocks: the scan starts after the reading of
\* `after` (or just before that of start_at) and takes the first reading of the
\* expression whose first tick lies in the window.
NextCron(rule, after) ==
    LET cursor == IF rule.start > after THEN Zone[rule.start] - 1 ELSE Zone[after]
        fits(wall) == /\ wall > cursor /\ WallExists(wall)
                      /\ Localize(wall) > after /\ Localize(wall) >= rule.start
        walls == {wall \in rule.walls : fits(wall)}
        first == CHOOSE wall \in walls : \A other \in walls : wall <= other
    IN  IF walls = {} THEN 0
        ELSE IF Localize(first) >= rule.end THEN 0 ELSE Localize(first)

NextScheduledAt(rule, after) ==
    CASE rule.kind = "ONCE" -> NextOnce(rule, after)
      [] rule.kind = "CRON" -> NextCron(rule, after)
      [] rule.kind = "INTERVAL" -> NextInterval(rule, after)

\* The due points of an iteration, and whether the scan gave up.
CollectDuePoints(rule, next, ts) ==
    LET chain[i \in 0..DueScanLimit] ==
          IF i = 0 THEN next
          ELSE IF chain[i - 1] = 0 \/ chain[i - 1] > ts THEN 0
               ELSE NextScheduledAt(rule, chain[i - 1])
        due == {chain[i] : i \in 0..(DueScanLimit - 1)} \cap 1..ts
    IN  [points    |-> due,
         exhausted |-> chain[DueScanLimit] \in 1..ts]

\* max_catch_up, of which at least one point is always caught up.
CatchUpLimit == IF MaxCatchUp = 0 THEN 1 ELSE MaxCatchUp

\* What the misfire policy does with each due point.
MisfireDecision(policy, missed, t) ==
    LET newer == Cardinality({u \in missed : u > t}) IN
    CASE t \notin missed -> "DUE"
      [] t \in missed /\ policy = "SKIP" -> "MISFIRE_SKIP"
      [] t \in missed /\ policy = "RUN_ONCE" ->
           IF newer = 0 THEN "MISFIRE_RUN_ONCE" ELSE "MISFIRE_COALESCED"
      [] t \in missed /\ policy = "CATCH_UP_LIMITED" ->
           IF newer < CatchUpLimit THEN "MISFIRE_CATCH_UP" ELSE "MISFIRE_CATCH_UP_LIMIT"
SkipDecisions == {"MISFIRE_SKIP", "MISFIRE_COALESCED", "MISFIRE_CATCH_UP_LIMIT"}

-----------------------------------------------------------------------------
(* Firing one Occurrence.  A row state s has the Occurrence rows, the        *)
(* Executions as they are (exec) and as the transaction has read them (seen). *)

ActiveRow(status) == status \in {"PLANNED", "ENQUEUED", "RUNNING"}
Unmaterialized(s, q) ==
    s.occ[q] = "PLANNED" /\ s.reason[q] \in WaitReasons /\ s.seen[q] = "NONE"

\* Mutant: an Occurrence that is created but not yet staged does not count.
StartedPriors(s, p) ==
    {q \in 1..(p - 1) : s.occ[q] \in {"ENQUEUED", "RUNNING"} \/ Unmaterialized(s, q)}
\* Mutant: the comparison of scheduled_for includes the Occurrence itself.
InclusivePriors(s, p) ==
    {q \in 1..p : ActiveRow(s.occ[q]) /\ (Live(s.seen[q]) \/ Unmaterialized(s, q))}

ActivePriors(s, p) ==
    {q \in 1..(p - 1) :
        /\ ActiveRow(s.occ[q])
        /\ \/ Live(s.seen[q])
           \/ s.seen[q] = "NONE" /\ (Unmaterialized(s, q) \/ s.occ[q] # "PLANNED")}

Marked(s, p, status, why) ==
    [s EXCEPT !.occ[p] = status, !.reason[p] = why]

\* usable: the creation preflight (authorization, published version) passes.
CreateExecution(s, p, usable) ==
    IF s.seen[p] # "NONE" THEN s
    ELSE IF ~usable THEN Marked(s, p, "FAILED", "TARGET_PRECONDITION_FAILED")
    ELSE [s EXCEPT !.exec[p] = "CREATED", !.seen[p] = "CREATED",
                   !.reason[p] = IF @ = "OVERLAP_REPLACE_WAIT"
                                 THEN "OVERLAP_REPLACE" ELSE @]

SupersedeOlderWaits(s, p) ==
    LET older == {q \in 1..(p - 1) : Unmaterialized(s, q)
                                     /\ s.reason[q] = "OVERLAP_REPLACE_WAIT"} IN
    [s EXCEPT !.occ = [q \in Times |-> IF q \in older THEN "SKIPPED" ELSE s.occ[q]],
              !.reason = [q \in Times |-> IF q \in older THEN "REPLACE_SUPERSEDED"
                                          ELSE s.reason[q]]]

\* apply_cancellation_locked decides by the status the session has read, and by
\* a fresh query for STARTED ToolCalls; locking the row does not refresh it.
CancelOutcome(s, q) ==
    CASE s.seen[q] = "CANCEL_REQUESTED" -> s.exec[q]
      [] s.seen[q] \in {"RUNNING", "CALLING"} /\ s.exec[q] = "CALLING" -> "CANCEL_REQUESTED"
      [] OTHER -> "CANCELLED"

ReplaceCancelPriors(s, priors) ==
    LET live == {q \in priors : Live(s.seen[q])}
        outcome == [q \in Times |-> IF q \in live THEN CancelOutcome(s, q) ELSE s.exec[q]]
        requested(q) == s.seen[q] = "CANCEL_REQUESTED" \/ outcome[q] = "CANCEL_REQUESTED"
        after == [s EXCEPT !.exec = outcome,
                           !.seen = [q \in Times |-> IF q \in live /\ ~requested(q)
                                                     THEN outcome[q] ELSE s.seen[q]],
                           !.occ = [q \in Times |-> IF q \in live /\ ~requested(q)
                                                    THEN "FAILED" ELSE s.occ[q]]]
    IN  [rows |-> after,
         inflight |-> \/ \E q \in priors : Unmaterialized(s, q)
                      \/ \E q \in live : requested(q)]

ReplaceFire(s, p, usable) ==
    LET superseded == SupersedeOlderWaits(s, p)
        cancelled == ReplaceCancelPriors(superseded, ActivePriors(superseded, p))
    IN  IF cancelled.inflight
        THEN [cancelled.rows EXCEPT !.reason[p] = "OVERLAP_REPLACE_WAIT"]
        ELSE CreateExecution([cancelled.rows EXCEPT !.reason[p] = "OVERLAP_REPLACE"],
                             p, usable)

TryFire(s, p, policy, usable) ==
    CASE s.occ[p] # "PLANNED" -> s
      [] s.occ[p] = "PLANNED" /\ (ActivePriors(s, p) = {} \/ policy = "ALLOW") ->
           CreateExecution(s, p, usable)
      [] s.occ[p] = "PLANNED" /\ ActivePriors(s, p) # {} /\ policy = "SKIP" ->
           Marked(s, p, "SKIPPED", "OVERLAP_SKIP")
      [] s.occ[p] = "PLANNED" /\ ActivePriors(s, p) # {} /\ policy = "QUEUE" ->
           Marked(s, p, "PLANNED", "OVERLAP_QUEUE")
      [] s.occ[p] = "PLANNED" /\ ActivePriors(s, p) # {} /\ policy = "REPLACE" ->
           ReplaceFire(s, p, usable)

\* The held Occurrences in order; a QUEUE wait stops the pass.
Held(s, p) == s.occ[p] = "PLANNED" /\ s.reason[p] \in WaitReasons
Release(acc, p, policy, usable) ==
    LET fired == TryFire(acc.rows, p, policy, usable) IN
    [rows |-> fired, blocked |-> fired.occ[p] = "PLANNED" /\ fired.reason[p] = "OVERLAP_QUEUE"
                                 /\ fired.seen[p] = "NONE"]
ReleaseWaiting(s, policy, usable) ==
    LET pass[p \in 0..Horizon] ==
          IF p = 0 THEN [rows |-> s, blocked |-> FALSE]
          ELSE IF pass[p - 1].blocked \/ ~Held(s, p) THEN pass[p - 1]
          ELSE Release(pass[p - 1], p, policy, usable)
    IN  pass[Horizon].rows

\* create_planned returns the existing row of a point that already has one.
CreatePlanned(s, t) == IF s.occ[t] = "NONE" THEN Marked(s, t, "PLANNED", "NONE") ELSE s

\* The skips of the misfire policy first, then what is to fire, oldest first.
SkipPoint(s, t, missed) ==
    LET d == MisfireDecision(sched.misfire, missed, t) IN
    IF d \in SkipDecisions /\ CreatePlanned(s, t).occ[t] = "PLANNED"
    THEN Marked(s, t, "SKIPPED", d) ELSE s
FirePoint(s, t, missed, usable) ==
    LET d == MisfireDecision(sched.misfire, missed, t) IN
    IF d \in SkipDecisions THEN s
    ELSE TryFire([CreatePlanned(s, t) EXCEPT !.reason[t] = d], t, sched.overlap, usable)
SkipDue(s, points, missed) ==
    LET pass[t \in 0..Horizon] ==
          IF t = 0 THEN s
          ELSE IF t \in points THEN SkipPoint(pass[t - 1], t, missed) ELSE pass[t - 1]
    IN  pass[Horizon]
FireDue(s, points, missed, usable) ==
    LET pass[t \in 0..Horizon] ==
          IF t = 0 THEN SkipDue(s, points, missed)
          ELSE IF t \in points THEN FirePoint(pass[t - 1], t, missed, usable)
          ELSE pass[t - 1]
    IN  pass[Horizon]

\* Mutant: a requested cancellation counts as the end.
ProjectEarly(e, o) ==
    CASE e \in {"NONE", "CREATED"} -> o
      [] e = "QUEUED" -> "ENQUEUED"
      [] e \in {"RUNNING", "CALLING"} -> "RUNNING"
      [] e = "SUCCEEDED" -> "COMPLETED"
      [] e \in {"CANCEL_REQUESTED", "CANCELLED"} -> "FAILED"

\* The projection of an Execution on its Occurrence.
ProjectOccurrence(e, o) ==
    CASE e \in {"NONE", "CREATED"} -> o
      [] e = "QUEUED" -> "ENQUEUED"
      [] e \in {"RUNNING", "CALLING", "CANCEL_REQUESTED"} -> "RUNNING"
      [] e = "SUCCEEDED" -> "COMPLETED"
      [] e = "CANCELLED" -> "FAILED"
Reconciled(s, rows) ==
    [s EXCEPT !.occ = [p \in Times |-> IF p \in rows /\ ActiveRow(s.occ[p])
                                       THEN ProjectOccurrence(s.exec[p], s.occ[p])
                                       ELSE s.occ[p]]]

-----------------------------------------------------------------------------
NothingDue == [points |-> {}, exhausted |-> FALSE]
Idle == [phase |-> "IDLE", rows |-> {}, needs |-> {}, due |-> NothingDue,
         seen |-> [p \in Times |-> "NONE"]]

SchedulerInit ==
    /\ now = 1
    /\ \E rule \in Rules, policy \in Policies :
         sched = [status |-> "PAUSED", next |-> 0, rule |-> rule,
                  overlap |-> policy.overlap, misfire |-> policy.misfire]
    /\ occ = [p \in Times |-> "NONE"]
    /\ reason = [p \in Times |-> "NONE"]
    /\ exec = [p \in Times |-> "NONE"]
    /\ tx = Idle
    /\ staging = 0
    /\ edits = 0
    /\ owedFrom = 0

\* An iteration is short compared with a tick.
Tick == /\ now < Horizon /\ tx.phase = "IDLE"
        /\ now' = now + 1
        /\ UNCHANGED <<sched, occ, reason, exec, tx, staging, edits, owedFrom>>

(* The Schedule API.  Every update compares lock_version, which every write  *)
(* of the row increments, so a request that read a stale row changes nothing. *)

\* The Schedule row is locked to the scheduler's commit.
RowFree == tx.phase # "DECIDED"

\* activate recomputes next_run_at, so it drops what a pause left overdue.
Activate ==
    /\ RowFree /\ sched.status = "PAUSED"
    /\ LET next == NextScheduledAt(sched.rule, now) IN
         /\ next # 0
         /\ sched' = [sched EXCEPT !.status = "ACTIVE", !.next = next]
         /\ owedFrom' = next
    /\ UNCHANGED <<now, occ, reason, exec, tx, staging, edits>>

Pause ==
    /\ RowFree /\ sched.status = "ACTIVE"
    /\ sched' = [sched EXCEPT !.status = "PAUSED"]
    /\ UNCHANGED <<now, occ, reason, exec, tx, staging, edits, owedFrom>>

\* Mutant: resume always recomputes next_run_at.
ResumeRecomputes ==
    /\ RowFree /\ sched.status = "PAUSED"
    /\ sched' = [sched EXCEPT !.status = "ACTIVE", !.next = NextScheduledAt(sched.rule, now)]
    /\ owedFrom' = IF sched.next # 0 THEN owedFrom ELSE sched'.next
    /\ UNCHANGED <<now, occ, reason, exec, tx, staging, edits>>

\* resume keeps an overdue next_run_at; only a cleared one is computed again, and
\* only a ONCE schedule is refused when nothing is left.
ResumeSchedule ==
    /\ RowFree /\ sched.status = "PAUSED"
    /\ LET next == IF sched.next # 0 THEN sched.next ELSE NextScheduledAt(sched.rule, now) IN
         /\ next # 0 \/ sched.rule.kind # "ONCE"
         /\ sched' = [sched EXCEPT !.status = "ACTIVE", !.next = next]
         /\ owedFrom' = IF sched.next # 0 THEN owedFrom ELSE next
    /\ UNCHANGED <<now, occ, reason, exec, tx, staging, edits>>

\* update: configuration changes only while PAUSED, and clears next_run_at.
EditSchedule ==
    /\ RowFree /\ sched.status = "PAUSED" /\ edits < MaxEdits
    /\ \E rule \in Rules, policy \in Policies :
         sched' = [sched EXCEPT !.rule = rule, !.next = 0,
                                !.overlap = policy.overlap, !.misfire = policy.misfire]
    /\ owedFrom' = 0
    /\ edits' = edits + 1
    /\ UNCHANGED <<now, occ, reason, exec, tx, staging>>

\* The Execution rows a REPLACE must lock are not locked by a worker, and the
\* Occurrence rows it must lock are not locked by the other transaction.
CanReplace(s, p, occRows) ==
    sched.overlap = "REPLACE" =>
        LET live == {q \in ActivePriors(s, p) : Live(s.seen[q])} IN
        staging \notin live /\ live \cap occRows = {}

\* POST /trigger: a failed preflight raises and leaves nothing behind.
TriggerNow ==
    /\ RowFree /\ sched.status \in {"ACTIVE", "PAUSED"}
    /\ now \in TriggerTicks /\ occ[now] = "NONE"
    /\ LET s == [occ |-> [occ EXCEPT ![now] = "PLANNED"],
                 reason |-> [reason EXCEPT ![now] = "MANUAL_TRIGGER"],
                 exec |-> exec, seen |-> exec]
           fired == TryFire(s, now, sched.overlap, TRUE)
       IN  /\ CanReplace(s, now, tx.rows)
           /\ occ' = fired.occ /\ reason' = fired.reason /\ exec' = fired.exec
    /\ UNCHANGED <<now, sched, tx, staging, edits, owedFrom>>

-----------------------------------------------------------------------------
(* One iteration of the scheduler *)

Due == sched.status = "ACTIVE" /\ sched.next \in 1..now
Missed(due) == due.points \cap 1..(now - MisfireGrace - 1)

\* A poll with nothing to do changes nothing and is left out.
WorkToDo ==
    \/ Due
    \/ sched.status = "ACTIVE" /\ \E p \in Times : Held([occ |-> occ, reason |-> reason], p)
    \/ \E p \in Times : ActiveRow(occ[p]) /\ ProjectOccurrence(exec[p], occ[p]) # occ[p]

\* The Occurrences this iteration fires, and the priors whose Execution rows a
\* REPLACE then locks.
Candidates(due) ==
    {p \in Times : sched.status = "ACTIVE" /\ Held([occ |-> occ, reason |-> reason], p)}
    \cup {p \in due.points :
            ~due.exhausted
            /\ MisfireDecision(sched.misfire, Missed(due), p) \notin SkipDecisions}
ReplaceLocks(due) ==
    {q \in Times : /\ sched.overlap = "REPLACE"
                   /\ ActiveRow(occ[q]) /\ Live(exec[q])
                   /\ \E p \in Candidates(due) : q < p}

\* The reconcile scan locks the Occurrence rows it can (SKIP LOCKED) and keeps
\* them to the commit; the Schedule row is locked; the priors' Executions are
\* read, unlocked.
BeginIteration ==
    /\ tx.phase = "IDLE" /\ WorkToDo
    /\ \E due \in {IF Due THEN CollectDuePoints(sched.rule, sched.next, now) ELSE NothingDue} :
         tx' = [phase |-> "DECIDED", rows |-> {p \in Times : ActiveRow(occ[p])},
                seen |-> exec, due |-> due, needs |-> ReplaceLocks(due)]
    /\ UNCHANGED <<now, sched, occ, reason, exec, staging, edits, owedFrom>>

CompleteSchedule(row, s) ==
    IF row.status = "ACTIVE" /\ row.next = 0 /\ ~\E p \in Times : Held(s, p)
    THEN [row EXCEPT !.status = "COMPLETED"] ELSE row

\* process_waiting_schedule.
WaitingPass(s, usable) ==
    IF sched.status = "ACTIVE" /\ \E p \in Times : Held(s, p)
    THEN LET released == ReleaseWaiting(s, sched.overlap, usable) IN
         [rows |-> released, sched |-> CompleteSchedule(sched, released)]
    ELSE [rows |-> s, sched |-> sched]

\* process_due_schedule: the Schedule that completed above is not ACTIVE any more,
\* but then it had no next_run_at either.
DuePass(s, row, usable) ==
    CASE ~Due -> [rows |-> s, sched |-> row]
      [] Due /\ tx.due.exhausted -> [rows |-> s, sched |-> [row EXCEPT !.status = "ERROR"]]
      [] Due /\ ~tx.due.exhausted ->
           LET fired == FireDue(s, tx.due.points, Missed(tx.due), usable) IN
           [rows |-> fired,
            sched |-> CompleteSchedule(
                        [row EXCEPT !.next = NextScheduledAt(sched.rule, now)], fired)]

\* The final reconcile repeats what the first one projected.
CommitIteration ==
    /\ tx.phase = "DECIDED" /\ staging \notin tx.needs
    /\ \E usable \in BOOLEAN :
       \E waited \in {WaitingPass([occ |-> occ, reason |-> reason,
                                  exec |-> exec, seen |-> tx.seen], usable)} :
       \E result \in {DuePass(waited.rows, waited.sched, usable)} :
       \E rows \in {Reconciled(result.rows, tx.rows)} :
         /\ occ' = rows.occ /\ reason' = rows.reason
         /\ exec' = rows.exec /\ sched' = result.sched
    /\ tx' = Idle
    /\ UNCHANGED <<now, staging, edits, owedFrom>>

\* A cycle of row locks: the worker holds the Execution and waits for the
\* Occurrence, the scheduler holds the Occurrence and waits for the Execution.
LockCycle == tx.phase = "DECIDED" /\ staging \in tx.needs /\ staging \in tx.rows

\* The transaction fails: the process crashed, or the database ended a lock cycle
\* at its expense; run_iteration has no handler, so the process ends either way.
SchedulerDies ==
    /\ tx.phase = "DECIDED"
    /\ tx' = [Idle EXCEPT !.phase = "DOWN"]
    /\ UNCHANGED <<now, sched, occ, reason, exec, staging, edits, owedFrom>>
SchedulerRestarts ==
    /\ tx.phase = "DOWN"
    /\ tx' = Idle
    /\ UNCHANGED <<now, sched, occ, reason, exec, staging, edits, owedFrom>>
WorkerIsVictim ==
    /\ LockCycle
    /\ staging' = 0
    /\ UNCHANGED <<now, sched, occ, reason, exec, tx, edits, owedFrom>>

-----------------------------------------------------------------------------
(* The workers, as far as they touch these rows *)

Stageable(p) == <<exec[p], occ[p]>> \in {<<"CREATED", "PLANNED">>, <<"QUEUED", "ENQUEUED">>}

LockExecution(p) ==
    /\ staging = 0
    /\ Stageable(p)
    /\ staging' = p
    /\ UNCHANGED <<now, sched, occ, reason, exec, tx, edits, owedFrom>>

\* Staging makes CREATED/PLANNED into QUEUED/ENQUEUED, claiming QUEUED/ENQUEUED
\* into RUNNING/RUNNING; the Occurrence row is locked after the Execution, and a
\* row that has changed by then is refused.
LockOccurrence ==
    /\ staging # 0 /\ staging \notin tx.rows
    /\ IF Stageable(staging)
       THEN /\ exec' = [exec EXCEPT ![staging] = IF @ = "CREATED" THEN "QUEUED" ELSE "RUNNING"]
            /\ occ' = [occ EXCEPT ![staging] = IF @ = "PLANNED" THEN "ENQUEUED" ELSE "RUNNING"]
       ELSE UNCHANGED <<exec, occ>>
    /\ staging' = 0
    /\ UNCHANGED <<now, sched, reason, tx, edits, owedFrom>>

\* Any other step of an Execution whose row no staging holds.
ExecutionSteps ==
    {<<"RUNNING", "CALLING">>, <<"CALLING", "RUNNING">>,
     <<"RUNNING", "SUCCEEDED">>, <<"RUNNING", "CANCELLED">>,
     <<"CANCEL_REQUESTED", "CANCELLED">>}
ExecutionMoves(p, e) ==
    /\ <<exec[p], e>> \in ExecutionSteps
    /\ exec' = [exec EXCEPT ![p] = e]
    /\ UNCHANGED <<now, sched, occ, reason, tx, staging, edits, owedFrom>>

SchedulerNext ==
    \/ Tick \/ Activate \/ Pause \/ ResumeSchedule \/ EditSchedule \/ TriggerNow
    \/ BeginIteration \/ CommitIteration
    \/ SchedulerDies \/ SchedulerRestarts \/ WorkerIsVictim
    \/ \E p \in Times : LockExecution(p)
    \/ LockOccurrence
    \/ \E p \in Times, e \in ExecStatus : ExecutionMoves(p, e)

SchedulerSpec == SchedulerInit /\ [][SchedulerNext]_svars

\* The poll loop runs for ever and its supervisor restarts it; a transaction that
\* could commit again and again does in the end (only the commit leads from
\* DECIDED to IDLE); a waiting row lock is granted in turn, for the scan skips
\* locked rows; an Execution's calls return and it ends, as the execution modules
\* show.
SchedulerFairness ==
    /\ WF_svars(BeginIteration) /\ WF_svars(SchedulerRestarts)
    /\ []<>(tx.phase = "DECIDED" /\ staging \notin tx.needs)
         => []<><<tx.phase = "DECIDED" /\ tx'.phase = "IDLE">>_tx
    /\ WF_svars(LockCycle /\ SchedulerDies)
    /\ WF_svars(\E p \in Times : LockExecution(p))
    /\ SF_svars(LockOccurrence)
    /\ SF_svars(\E p \in Times, e \in ExecEnded : ExecutionMoves(p, e))
    /\ WF_svars(\E p \in Times : exec[p] = "CALLING" /\ ExecutionMoves(p, "RUNNING"))

SchedulerFairSpec == SchedulerSpec /\ SchedulerFairness

-----------------------------------------------------------------------------
(* Properties *)

\* Every row keeps its type, and an Execution exists only under an Occurrence row.
SchedulerTypeOK ==
    /\ now \in Times
    /\ sched \in [status : {"PAUSED", "ACTIVE", "COMPLETED", "ERROR"}, next : 0..ZoneEnd,
                  rule : Rules, overlap : {policy.overlap : policy \in Policies},
                  misfire : {policy.misfire : policy \in Policies}]
    /\ occ \in [Times -> OccurrenceStatus]
    /\ reason \in [Times -> Reasons]
    /\ exec \in [Times -> ExecStatus]
    /\ tx.phase \in {"IDLE", "DECIDED", "DOWN"} /\ tx.rows \subseteq Times
    /\ staging \in 0..Horizon
    /\ \A p \in Times : occ[p] = "NONE" => exec[p] = "NONE"

\* recurrence.py: next_run_at is always the least point of the rule after the
\* instant it is computed at, across both daylight-saving changes; hence no
\* point is skipped and none is visited twice.
NextIsLeastPoint ==
    \A rule \in Calendar :
        LET later == {t \in DOMAIN Zone : t > now /\ Point(rule, t)} IN
        NextScheduledAt(rule, now) =
            IF later = {} THEN 0 ELSE CHOOSE t \in later : \A u \in later : t <= u

\* runtime.py:193: whatever pauses, crashes and late polls happened, every point
\* from the one next_run_at was computed to be up to the present next_run_at has
\* exactly one Occurrence row: fired, held, skipped or failed, never forgotten.
PointsAccounted ==
    sched.status \in {"ACTIVE", "COMPLETED"} /\ owedFrom # 0 =>
        \A t \in owedFrom..now :
            Point(sched.rule, t) /\ (sched.next = 0 \/ t < sched.next) => occ[t] # "NONE"

\* runtime.py:532: an Execution is created only when no Execution of an earlier
\* Occurrence is live and no earlier Occurrence is held, unless the policy is
\* ALLOW: the overlap decision, taken on unlocked reads, is still right when the
\* transaction commits, and a queue is served in order.  (Two exceptions.  A point
\* polled after a later manual trigger is compared with earlier Occurrences only, so
\* the two may run together: a row the same step adds before a manual one.  And a
\* queued Occurrence whose Execution is created keeps its PLANNED row until it is
\* staged; a policy changed to SKIP then marks it SKIPPED, and a SKIPPED row no
\* longer counts although its Execution runs.)
CreatedAlone ==
    [][\A p \in Times :
         exec[p] = "NONE" /\ exec'[p] # "NONE" /\ sched.overlap # "ALLOW" =>
             \A q \in 1..(p - 1) :
                 (p % 2 = 0 \/ occ[q] # "NONE") /\ occ'[q] # "SKIPPED" =>
                     /\ ~Live(exec'[q])
                     /\ ~(occ'[q] = "PLANNED" /\ exec'[q] = "NONE"
                          /\ reason'[q] \in WaitReasons)]_svars

\* runtime.py:300: the Occurrence's outcome is its Execution's: COMPLETED only for
\* one that succeeded, FAILED never for one that did or that still runs.
OutcomeAgrees ==
    \A p \in Times :
        /\ occ[p] = "COMPLETED" => exec[p] = "SUCCEEDED"
        /\ occ[p] = "FAILED" => exec[p] \in {"NONE", "CANCELLED"}

\* runtime.py:262: no Occurrence is held for ever: again and again nothing is held,
\* everything having been fired, skipped or superseded, unless the Schedule stops
\* being ACTIVE.
HeldIsReleased ==
    []<>(\/ sched.status # "ACTIVE"
         \/ \A p \in Times : occ[p] = "PLANNED" /\ reason[p] \in WaitReasons
                               => exec[p] # "NONE")

\* runtime.py:306: "Avoids Occurrence -> Execution lock inversion."
NoLockInversion == ~LockCycle

\* runtime.py:633: a prior that ended before the REPLACE got its lock is left alone.
EndedStaysEnded ==
    [][\A p \in Times : exec[p] \in ExecEnded => exec'[p] = exec[p]]_svars
=============================================================================
