--------------------------- MODULE SchedulerProofs ---------------------------
(***************************************************************************)
(* Proofs about Scheduler, for every timezone, rule, policy and horizon.   *)
(*                                                                         *)
(* The scheduler decides on rows it has read without a lock.  RowOK says   *)
(* in which way such a read may be old (SeenBefore), Since and Alone what  *)
(* firing an Occurrence leaves alone and what it needs; they are carried   *)
(* through the passes of an iteration, which are recursive functions over  *)
(* the ticks.  The recurrence part shows that each search finds the least  *)
(* point and that the scan of an iteration misses none.                    *)
(***************************************************************************)
EXTENDS Scheduler, FiniteSetTheorems, WellFoundedInduction, TLAPS

-----------------------------------------------------------------------------
(* Induction up to a bound, over a set rather than a predicate.            *)

\* A nonempty set of naturals up to n has its least element.
LEMMA LeastExists ==
  ASSUME NEW n \in Nat, NEW W, W \subseteq 0 .. n, W # {}
  PROVE  \E m \in W : \A y \in W : m <= y
<1> DEFINE Below(x) == {y \in W : y < x}
           T == {U \in SUBSET W : \E x \in W : U = Below(x)}
           R == StrictSubsetOrdering(W)
<1>1. IsFiniteSet(W)
  <2>1. IsFiniteSet(0 .. n)
    BY FS_Interval
  <2> QED
    BY <2>1, FS_Subset
<1> \A x \in W : Below(x) \in T
  OBVIOUS
<1>2. T \subseteq FiniteSubsetsOf(W) /\ T # {}
  <2> HIDE DEF Below
  <2> QED
    BY <1>1, FS_FiniteSubsetsOfFinite
<1>3. PICK t \in T : \A u \in T : ~(<<u, t>> \in R)
  <2> HIDE DEF T, R
  <2>1. IsWellFoundedOn(R, FiniteSubsetsOf(W))
    BY FS_StrictSubsetOrderingWellFounded DEF R
  <2> QED
    BY <1>2, <2>1, WFMin
<1>4. PICK m \in W : t = Below(m)
  OBVIOUS
<1>5. ASSUME NEW y \in W PROVE m <= y
  <2>1. SUFFICES ASSUME y < m PROVE FALSE
    OBVIOUS
  <2>2. Below(y) \subseteq Below(m)
    <3> SUFFICES ASSUME NEW z \in Below(y) PROVE z < m
      OBVIOUS
    <3> y \in Nat /\ m \in Nat /\ z \in Nat /\ z < y
      OBVIOUS
    <3> QED
      BY <2>1
  <2>3. y \in Below(m) /\ y \notin Below(y)
    BY <2>1
  <2>4. <<Below(y), Below(m)>> \in R
    <3> HIDE DEF Below
    <3> Below(y) \in SUBSET W /\ Below(m) \in SUBSET W
      BY DEF Below
    <3> QED
      BY <2>2, <2>3 DEF StrictSubsetOrdering
  <2> QED
    BY <1>3, <1>4, <2>2, <2>4
<1> QED
  BY <1>4, <1>5

\* A set that holds 0 and, with every number below n, the next one.
LEMMA BoundedInduction ==
  ASSUME NEW n \in Nat, NEW P, 0 \in P, \A i \in 1 .. n : i - 1 \in P => i \in P
  PROVE  \A i \in 0 .. n : i \in P
<1> DEFINE W == (0 .. n) \ P
<1>1. SUFFICES ASSUME W # {} PROVE FALSE
  OBVIOUS
<1>3. PICK m \in W : \A y \in W : m <= y
  BY <1>1, LeastExists
<1>4. m \in 1 .. n /\ m - 1 \in 0 .. n
  OBVIOUS
<1>5. m - 1 \in P
  BY <1>3, <1>4
<1> QED
  BY <1>4, <1>5

\* The values along n steps, the i-th one by g[i], that start at s and stay in S.
Iterates(n, S, s, g) ==
  \E h \in [0 .. n -> S] : h[0] = s /\ \A i \in 1 .. n : h[i] = g[i][h[i - 1]]

\* They exist.
LEMMA IterationExists ==
  ASSUME NEW n \in Nat, NEW S, NEW s \in S, NEW g \in [1 .. n -> [S -> S]]
  PROVE  Iterates(n, S, s, g)
<1> DEFINE Upto(m, h) == h[0] = s /\ \A i \in 1 .. m : h[i] = g[i][h[i - 1]]
           P == {m \in 0 .. n : \E h \in [0 .. m -> S] : Upto(m, h)}
<1>1. 0 \in P
  <2> DEFINE z == [i \in 0 .. 0 |-> s]
  <2>1. z \in [0 .. 0 -> S] /\ Upto(0, z)
    OBVIOUS
  <2> HIDE DEF Upto, z
  <2> QED
    BY <2>1
<1>2. ASSUME NEW i \in 1 .. n, i - 1 \in P PROVE i \in P
  <2>1. PICK h \in [0 .. i - 1 -> S] : Upto(i - 1, h)
    BY <1>2
  <2> DEFINE x == [j \in 0 .. i |-> IF j = i THEN g[i][h[i - 1]] ELSE h[j]]
  <2>2. x \in [0 .. i -> S]
    OBVIOUS
  <2>3. Upto(i, x)
    <3>1. x[0] = s
      BY <2>1
    <3>2. ASSUME NEW j \in 1 .. i PROVE x[j] = g[j][x[j - 1]]
      <4>1. x[j - 1] = h[j - 1]
        OBVIOUS
      <4>2. CASE j = i
        BY <4>1, <4>2
      <4>3. CASE j # i
        BY <2>1, <4>1, <4>3
      <4> QED
        BY <4>2, <4>3
    <3> QED
      BY <3>1, <3>2
  <2> HIDE DEF Upto, x
  <2> QED
    BY <2>2, <2>3
<1> HIDE DEF P
<1>3. \A i \in 0 .. n : i \in P
  BY <1>1, <1>2, BoundedInduction
<1> QED
  BY <1>3 DEF P, Iterates

-----------------------------------------------------------------------------
(* Recurrence: the search finds the least point of the rule.               *)

Ticks == 0..ZoneEnd

\* n is the first point after `after`, or 0 when there is none.
LeastAfter(rule, after, n) ==
  \/ n = 0 /\ \A u \in Ticks : u > after => ~Point(rule, u)
  \/ n \in Ticks /\ n > after /\ Point(rule, n) /\ \A u \in Ticks : u > after /\ Point(rule, u) => n <= u

\* A ONCE rule.
LEMMA OnceIsLeast ==
  ASSUME NEW rule \in RuleSet, rule.kind = "ONCE", NEW after \in Ticks
  PROVE  LeastAfter(rule, after, NextOnce(rule, after))
BY SchedulerBounds DEF RuleSet, Ticks, LeastAfter, NextOnce, Point, InWindow

\* Division with remainder.
LEMMA Division ==
  ASSUME NEW a \in Nat, NEW b \in Nat \ {0}
  PROVE  /\ a \div b \in Nat
         /\ a % b \in 0..(b - 1)
         /\ a = b * (a \div b) + (a % b)
<1>1. a \div b \in Nat /\ a % b \in 0..(b - 1)
  OBVIOUS
<1>2. a = b * (a \div b) + (a % b)
  OBVIOUS
<1> QED
  BY <1>1, <1>2

\* The multiples of b above a begin at the quotient's successor.
LEMMA NextMultiple ==
  ASSUME NEW a \in Nat, NEW b \in Nat \ {0}
  PROVE  LET m == ((a \div b) + 1) * b
         IN  /\ m \in Nat /\ m > a /\ m % b = 0
             /\ \A u \in Nat : u > a /\ u % b = 0 => m <= u
<1> DEFINE q == a \div b
           r == a % b
           m == (q + 1) * b
<1>1. q \in Nat /\ r \in 0..(b - 1) /\ a = b * q + r
  BY Division, Zenon
<1> HIDE DEF q, r
<1>2. m \in Nat /\ m = b * q + b
  BY <1>1
<1>3. m > a
  BY <1>1, <1>2
<1>4. m % b = 0
  BY <1>1
<1>5. ASSUME NEW u \in Nat, u > a, u % b = 0 PROVE m <= u
  <2> DEFINE k == u \div b
  <2>1. k \in Nat /\ u = b * k + (u % b)
    BY Division, Zenon
  <2> HIDE DEF k
  <2>2. u = b * k
    BY <1>5, <2>1
  <2>3. k >= q + 1
    <3> SUFFICES ASSUME k <= q PROVE FALSE
      BY <1>1, <2>1
    <3>1. b * k <= b * q
      BY <1>1, <2>1
    <3>2. b * q \in Nat /\ b * k \in Nat
      BY <1>1, <2>1
    <3>3. b * q <= a
      BY <1>1, <3>2
    <3> QED
      BY <1>5, <2>2, <3>1, <3>2, <3>3
  <2> QED
    BY <1>1, <1>2, <2>1, <2>2, <2>3
<1> QED
  BY <1>2, <1>3, <1>4, <1>5 DEF q

\* An INTERVAL rule.
LEMMA IntervalIsLeast ==
  ASSUME NEW rule \in RuleSet, rule.kind = "INTERVAL", NEW after \in Ticks
  PROVE  LeastAfter(rule, after, NextInterval(rule, after))
<1> DEFINE a == after - rule.start
           m == ((a \div rule.every) + 1) * rule.every
           c == IF after < rule.start THEN rule.start ELSE rule.start + m
<1>1. /\ rule.start \in Ticks /\ rule.every \in Nat \ {0} /\ rule.end \in 0..(ZoneEnd + 1)
      /\ ZoneEnd \in Nat
  BY SchedulerBounds DEF RuleSet, Ticks
<1>2. \A u \in Int : Point(rule, u) <=> rule.start <= u /\ u < rule.end /\ (u - rule.start) % rule.every = 0
  BY DEF Point, InWindow
<1>3. /\ c \in Nat /\ c > after /\ c >= rule.start /\ (c - rule.start) % rule.every = 0
      /\ \A u \in Ticks : u > after /\ u >= rule.start /\ (u - rule.start) % rule.every = 0 => c <= u
  <2>1. CASE after < rule.start
    <3>1. 0 % rule.every = 0
      BY <1>1
    <3> QED
      BY <1>1, <2>1, <3>1 DEF Ticks
  <2>2. CASE ~(after < rule.start)
    <3>1. a \in Nat
      BY <1>1, <2>2 DEF Ticks
    <3>2. /\ m \in Nat /\ m > a /\ m % rule.every = 0
          /\ \A u \in Nat : u > a /\ u % rule.every = 0 => m <= u
      BY <1>1, <3>1, NextMultiple
    <3> HIDE DEF m
    <3>3. c = rule.start + m /\ c - rule.start = m /\ c > after
      BY <1>1, <2>2, <3>2 DEF Ticks
    <3>4. ASSUME NEW u \in Ticks, u > after, u >= rule.start, (u - rule.start) % rule.every = 0
          PROVE  c <= u
      <4>1. u - rule.start \in Nat /\ u - rule.start > a
        BY <1>1, <3>4 DEF Ticks
      <4>2. m <= u - rule.start
        BY <3>2, <3>4, <4>1
      <4> QED
        BY <1>1, <3>2, <3>3, <4>2 DEF Ticks
    <3> QED
      BY <1>1, <3>2, <3>3, <3>4 DEF Ticks
  <2> QED
    BY <2>1, <2>2
<1>4. NextInterval(rule, after) = IF c >= rule.end THEN 0 ELSE c
  BY DEF NextInterval
<1> HIDE DEF c
<1>5. CASE c >= rule.end
  <2>1. \A u \in Ticks : u > after => ~Point(rule, u)
    BY <1>1, <1>2, <1>3, <1>5 DEF Ticks
  <2> QED
    BY <1>4, <1>5, <2>1 DEF LeastAfter
<1>6. CASE ~(c >= rule.end)
  <2>1. c \in Ticks /\ Point(rule, c)
    BY <1>1, <1>2, <1>3, <1>6 DEF Ticks
  <2>2. \A u \in Ticks : u > after /\ Point(rule, u) => c <= u
    BY <1>1, <1>2, <1>3 DEF Ticks
  <2> QED
    BY <1>3, <1>4, <1>6, <2>1, <2>2 DEF LeastAfter
<1> QED
  BY <1>5, <1>6

\* The first tick of a reading that is shown.
LEMMA LocalizeFirst ==
  ASSUME NEW w, WallExists(w)
  PROVE  Localize(w) \in Ticks /\ Zone[Localize(w)] = w /\ FirstReading(Localize(w))
<1> DEFINE W == {t \in Ticks : Zone[t] = w}
<1>1. DOMAIN Zone = Ticks /\ ZoneEnd \in Nat
  BY ZoneAssumption, SchedulerBounds DEF Ticks
<1>2. W \subseteq 0..ZoneEnd /\ W # {}
  BY <1>1 DEF WallExists, Ticks
<1>3. PICK m \in W : \A y \in W : m <= y
  <2> HIDE DEF W
  <2> QED
    BY <1>1, <1>2, LeastExists
<1>4. \E t \in DOMAIN Zone : Zone[t] = w /\ \A u \in DOMAIN Zone : Zone[u] = w => t <= u
  BY <1>1, <1>3
<1>5. /\ Localize(w) \in DOMAIN Zone
      /\ Zone[Localize(w)] = w
      /\ \A u \in DOMAIN Zone : Zone[u] = w => Localize(w) <= u
  BY <1>4 DEF Localize
<1> QED
  BY <1>1, <1>5 DEF FirstReading

\* A first tick is found again from its reading.
LEMMA LocalizeAgain ==
  ASSUME NEW t \in Ticks, FirstReading(t)
  PROVE  WallExists(Zone[t]) /\ Localize(Zone[t]) = t
<1>1. DOMAIN Zone = Ticks /\ ZoneEnd \in Nat
  BY ZoneAssumption, SchedulerBounds DEF Ticks
<1>2. WallExists(Zone[t])
  BY <1>1 DEF WallExists
<1> DEFINE u == Localize(Zone[t])
<1>3. u \in Ticks /\ Zone[u] = Zone[t] /\ FirstReading(u)
  BY <1>2, LocalizeFirst
<1> HIDE DEF u
<1>4. t <= u /\ u <= t
  BY <1>1, <1>3 DEF FirstReading
<1>5. u = t
  BY <1>1, <1>3, <1>4 DEF Ticks
<1> QED
  BY <1>2, <1>5 DEF u

\* A reading of the expression: the wall clocks croniter is asked for are exactly
\* those of the first ticks that lie ahead.
LEMMA CronReadings ==
  ASSUME NEW rule \in RuleSet, NEW after \in Ticks,
         NEW t \in Ticks, FirstReading(t), t > after, t >= rule.start
  PROVE  Zone[t] > (IF rule.start > after THEN Zone[rule.start] - 1 ELSE Zone[after])
<1>1. DOMAIN Zone = Ticks /\ ZoneEnd \in Nat /\ rule.start \in Ticks /\ \A u \in Ticks : Zone[u] \in Int
  BY ZoneAssumption, SchedulerBounds DEF Ticks, RuleSet
<1>2. ASSUME NEW u \in Ticks, u <= t
      PROVE  Zone[u] <= Zone[t] /\ (Zone[u] = Zone[t] => u = t)
  <2> DEFINE v == Localize(Zone[u])
  <2>1. WallExists(Zone[u])
    BY <1>1 DEF WallExists
  <2>2. v \in Ticks /\ Zone[v] = Zone[u] /\ FirstReading(v)
    BY <2>1, LocalizeFirst
  <2> HIDE DEF v
  <2>3. v <= u
    BY <1>1, <2>2 DEF FirstReading
  <2>4. ~(Zone[t] < Zone[v])
    <3> SUFFICES ASSUME Zone[t] < Zone[v] PROVE FALSE
      OBVIOUS
    <3>1. t < v
      BY <2>2, ZoneAssumption DEF Ticks
    <3> QED
      BY <1>1, <1>2, <2>2, <2>3, <3>1 DEF Ticks
  <2>5. Zone[u] = Zone[t] => t <= u
    BY <1>1 DEF FirstReading
  <2> QED
    BY <1>1, <1>2, <2>2, <2>4, <2>5 DEF Ticks
<1>3. CASE rule.start > after
  BY <1>1, <1>2, <1>3
<1>4. CASE ~(rule.start > after)
  <2>1. after <= t /\ after # t
    BY <1>1 DEF Ticks
  <2> QED
    BY <1>1, <1>2, <1>4, <2>1
<1> QED
  BY <1>3, <1>4

\* A CRON rule, across the changes of the clock.
LEMMA CronIsLeast ==
  ASSUME NEW rule \in RuleSet, rule.kind = "CRON", NEW after \in Ticks
  PROVE  LeastAfter(rule, after, NextCron(rule, after))
<1> DEFINE cursor == IF rule.start > after THEN Zone[rule.start] - 1 ELSE Zone[after]
           fits(wall) == /\ wall > cursor /\ WallExists(wall)
                         /\ Localize(wall) > after /\ Localize(wall) >= rule.start
           walls == {wall \in rule.walls : fits(wall)}
           first == CHOOSE wall \in walls : \A other \in walls : wall <= other
           P == {t \in Ticks : t > after /\ t >= rule.start /\ FirstReading(t) /\ Zone[t] \in rule.walls}
<1>1. /\ DOMAIN Zone = Ticks /\ ZoneEnd \in Nat
      /\ rule.start \in Ticks /\ rule.end \in 0..(ZoneEnd + 1)
      /\ \A u \in Ticks : Zone[u] \in Int
  BY ZoneAssumption, SchedulerBounds DEF Ticks, RuleSet
<1>2. \A u \in Ticks : Point(rule, u) <=> u >= rule.start /\ u < rule.end /\ Zone[u] \in rule.walls /\ FirstReading(u)
  BY <1>1 DEF Point, InWindow, Ticks
<1>3. ASSUME NEW w \in walls PROVE Localize(w) \in P /\ Zone[Localize(w)] = w
  <2>1. w \in rule.walls /\ WallExists(w) /\ Localize(w) > after /\ Localize(w) >= rule.start
    OBVIOUS
  <2> QED
    BY <2>1, LocalizeFirst
<1>4. ASSUME NEW t \in P PROVE Zone[t] \in walls /\ Localize(Zone[t]) = t
  <2>1. WallExists(Zone[t]) /\ Localize(Zone[t]) = t
    BY LocalizeAgain
  <2>2. Zone[t] > cursor
    BY CronReadings
  <2> QED
    BY <2>1, <2>2
<1>5. NextCron(rule, after) = IF walls = {} THEN 0
                              ELSE IF Localize(first) >= rule.end THEN 0 ELSE Localize(first)
  BY DEF NextCron
<1> HIDE DEF walls
<1>6. \A u \in Ticks : u > after /\ Point(rule, u) => u \in P
  BY <1>2
<1>7. CASE P = {}
  <2>1. walls = {}
    BY <1>3, <1>7
  <2> QED
    BY <1>5, <1>6, <1>7, <2>1 DEF LeastAfter
<1>8. CASE P # {}
  <2>1. P \subseteq 0..ZoneEnd
    BY DEF Ticks
  <2>2. PICK m \in P : \A y \in P : m <= y
    <3> HIDE DEF P
    <3> QED
      BY <1>1, <1>8, <2>1, LeastExists
  <2>3. m \in Ticks /\ m > after /\ m >= rule.start /\ FirstReading(m) /\ Zone[m] \in rule.walls
    OBVIOUS
  <2>4. Zone[m] \in walls /\ Localize(Zone[m]) = m
    BY <1>4
  <2>5. ASSUME NEW w \in walls PROVE w \in Int /\ Zone[m] <= w
    <3>1. Localize(w) \in P /\ Zone[Localize(w)] = w
      BY <1>3
    <3>2. Localize(w) \in Ticks /\ m <= Localize(w) /\ FirstReading(Localize(w))
      BY <2>2, <3>1
    <3>3. ~(Zone[Localize(w)] < Zone[m])
      <4> SUFFICES ASSUME Zone[Localize(w)] < Zone[m] PROVE FALSE
        OBVIOUS
      <4>1. Localize(w) < m
        BY <2>3, <3>2, ZoneAssumption DEF Ticks
      <4> QED
        BY <1>1, <2>3, <3>2, <4>1 DEF Ticks
    <3> QED
      BY <1>1, <2>3, <3>1, <3>2, <3>3
  <2>6. first = Zone[m]
    <3>1. first \in walls /\ \A other \in walls : first <= other
      BY <2>4, <2>5
    <3> HIDE DEF first
    <3> QED
      BY <1>1, <2>3, <2>4, <2>5, <3>1
  <2> HIDE DEF P, first
  <2>7. NextCron(rule, after) = IF m >= rule.end THEN 0 ELSE m
    BY <1>5, <2>4, <2>6
  <2>8. \A u \in Ticks : u > after /\ Point(rule, u) => m <= u /\ u < rule.end
    BY <1>2, <1>6, <2>2
  <2>9. CASE m >= rule.end
    <3>1. \A u \in Ticks : u > after => ~Point(rule, u)
      BY <1>1, <2>3, <2>8, <2>9 DEF Ticks
    <3> QED
      BY <2>7, <2>9, <3>1 DEF LeastAfter
  <2>10. CASE ~(m >= rule.end)
    <3>1. Point(rule, m)
      BY <1>1, <1>2, <2>3, <2>10 DEF Ticks
    <3> QED
      BY <2>3, <2>7, <2>8, <2>10, <3>1 DEF LeastAfter
  <2> QED
    BY <2>9, <2>10
<1> QED
  BY <1>7, <1>8

\* Every rule: the search returns the first point after an instant.
LEMMA NextIsLeast ==
  ASSUME NEW rule \in RuleSet, NEW after \in Ticks
  PROVE  LeastAfter(rule, after, NextScheduledAt(rule, after))
<1>1. rule.kind \in {"ONCE", "CRON", "INTERVAL"}
  BY DEF RuleSet
<1> QED
  BY <1>1, OnceIsLeast, CronIsLeast, IntervalIsLeast DEF NextScheduledAt

-----------------------------------------------------------------------------
(* One Occurrence fired.  RowOK is what every row state of a transaction       *)
(* satisfies; Since compares two of them outside a set of ticks.               *)

RowStates ==
  [occ : [Times -> OccurrenceStatus], reason : [Times -> Reasons],
   exec : [Times -> ExecStatus], seen : [Times -> ExecStatus]]

Overlaps == {"ALLOW", "SKIP", "QUEUE", "REPLACE"}

RowAgrees(o, e) ==
  /\ o = "NONE" => e = "NONE"
  /\ o = "COMPLETED" => e = "SUCCEEDED"
  /\ o = "FAILED" => e \in {"NONE", "CANCELLED"}

\* What the transaction read is older than what is there, in one direction only.
SeenBefore(v, e) == (v = "NONE" <=> e = "NONE") /\ (v \in ExecEnded => e \in ExecEnded)

RowOK(s) ==
  /\ s \in RowStates
  /\ \A q \in Times : RowAgrees(s.occ[q], s.exec[q]) /\ SeenBefore(s.seen[q], s.exec[q])

\* A held Occurrence without an Execution.
Waits(s, q) == s.occ[q] = "PLANNED" /\ s.exec[q] = "NONE" /\ s.reason[q] \in WaitReasons

\* One tick of a later row state: no Execution appears, none comes back to life,
\* nothing begins to wait.
Kept(s, x, q) ==
  /\ x.occ[q] = "NONE" <=> s.occ[q] = "NONE"
  /\ x.occ[q] # "SKIPPED" => s.occ[q] # "SKIPPED"
  /\ x.exec[q] = "NONE" <=> s.exec[q] = "NONE"
  /\ Live(x.exec[q]) => Live(s.exec[q])
  /\ Waits(x, q) => Waits(s, q)

Since(s, x, T) == \A q \in Times \ T : Kept(s, x, q)

\* No earlier Occurrence has a live Execution or waits.
Alone(s, p) == \A q \in 1..(p - 1) : s.occ[q] # "SKIPPED" => ~Live(s.exec[q]) /\ ~Waits(s, q)

\* Marking a row; FAILED, one that has no Execution.
LEMMA MarkedOK ==
  ASSUME NEW s, RowOK(s), NEW p \in Times, NEW why \in Reasons,
         NEW status \in {"PLANNED", "SKIPPED", "FAILED"},
         s.exec[p] = "NONE" \/ (status # "FAILED" /\ s.occ[p] # "NONE")
  PROVE  LET x == Marked(s, p, status, why)
         IN  RowOK(x) /\ Since(s, x, {p}) /\ x.occ[p] = status /\ x.exec = s.exec
<1> DEFINE x == Marked(s, p, status, why)
<1>1. /\ x \in RowStates
      /\ x.exec = s.exec /\ x.seen = s.seen
      /\ x.occ = [s.occ EXCEPT ![p] = status]
      /\ x.reason = [s.reason EXCEPT ![p] = why]
  BY DEF RowOK, RowStates, Marked, OccurrenceStatus
<1> HIDE DEF x
<1>2. x.occ[p] = status /\ \A q \in Times \ {p} : x.occ[q] = s.occ[q] /\ x.reason[q] = s.reason[q]
  BY <1>1 DEF RowOK, RowStates
<1>3. RowOK(x)
  <2> SUFFICES ASSUME NEW q \in Times
               PROVE  RowAgrees(x.occ[q], x.exec[q]) /\ SeenBefore(x.seen[q], x.exec[q])
    BY <1>1 DEF RowOK
  <2> RowAgrees(s.occ[q], s.exec[q]) /\ SeenBefore(s.seen[q], s.exec[q])
    BY DEF RowOK
  <2> QED
    BY <1>1, <1>2 DEF RowAgrees
<1>4. Since(s, x, {p})
  BY <1>1, <1>2 DEF Since, Kept, Waits
<1> QED
  BY <1>1, <1>2, <1>3, <1>4 DEF x

\* Creating the Execution of a PLANNED row.
LEMMA CreateOK ==
  ASSUME NEW s, RowOK(s), NEW p \in Times, s.occ[p] = "PLANNED", NEW usable \in BOOLEAN
  PROVE  LET x == CreateExecution(s, p, usable)
         IN  /\ RowOK(x) /\ Since(s, x, {p})
             /\ x.occ[p] # "NONE"
             /\ s.exec[p] = "NONE" /\ x.exec[p] # "NONE" /\ Alone(s, p) => Alone(x, p)
             /\ s.exec[p] # "NONE" => x = s
<1> DEFINE x == CreateExecution(s, p, usable)
<1>1. CASE s.seen[p] # "NONE"
  <2>1. x = s
    BY <1>1 DEF CreateExecution
  <2>2. Since(s, s, {p})
    BY DEF Since, Kept
  <2> QED
    BY <2>1, <2>2
<1>2. CASE s.seen[p] = "NONE" /\ ~usable
  <2>1. x = Marked(s, p, "FAILED", "TARGET_PRECONDITION_FAILED")
    BY <1>2 DEF CreateExecution
  <2>2. s.exec[p] = "NONE" /\ "TARGET_PRECONDITION_FAILED" \in Reasons
    BY <1>2 DEF RowOK, SeenBefore, Reasons
  <2> HIDE DEF x
  <2>3. RowOK(x) /\ Since(s, x, {p}) /\ x.occ[p] = "FAILED" /\ x.exec = s.exec
    BY <2>1, <2>2, MarkedOK
  <2> QED
    BY <2>2, <2>3 DEF x
<1>3. CASE s.seen[p] = "NONE" /\ usable
  <2> DEFINE why == IF s.reason[p] = "OVERLAP_REPLACE_WAIT" THEN "OVERLAP_REPLACE" ELSE s.reason[p]
  <2>1. s.exec[p] = "NONE" /\ why \in Reasons
    BY <1>3 DEF RowOK, RowStates, SeenBefore, Reasons
  <2>2. x = [s EXCEPT !.exec[p] = "CREATED", !.seen[p] = "CREATED", !.reason[p] = why]
    BY <1>3 DEF CreateExecution, RowOK, RowStates
  <2>3. /\ x \in RowStates
        /\ x.occ = s.occ
        /\ x.exec = [s.exec EXCEPT ![p] = "CREATED"]
        /\ x.seen = [s.seen EXCEPT ![p] = "CREATED"]
        /\ x.reason = [s.reason EXCEPT ![p] = why]
    <3> HIDE DEF why, x
    <3>1. s \in RowStates
      BY DEF RowOK
    <3>2. /\ x.occ = s.occ
          /\ x.exec = [s.exec EXCEPT ![p] = "CREATED"]
          /\ x.seen = [s.seen EXCEPT ![p] = "CREATED"]
          /\ x.reason = [s.reason EXCEPT ![p] = why]
          /\ x = [occ |-> x.occ, reason |-> x.reason, exec |-> x.exec, seen |-> x.seen]
      BY <2>2, <3>1 DEF RowStates
    <3>3. /\ x.exec \in [Times -> ExecStatus] /\ x.seen \in [Times -> ExecStatus]
          /\ x.reason \in [Times -> Reasons] /\ x.occ \in [Times -> OccurrenceStatus]
      BY <2>1, <3>1, <3>2 DEF RowStates, ExecStatus
    <3> QED
      BY <3>2, <3>3 DEF RowStates
  <2> HIDE DEF x, why
  <2>4. /\ x.exec[p] = "CREATED" /\ x.seen[p] = "CREATED"
        /\ \A q \in Times \ {p} : x.exec[q] = s.exec[q] /\ x.seen[q] = s.seen[q] /\ x.reason[q] = s.reason[q]
    BY <2>3 DEF RowOK, RowStates
  <2>5. RowOK(x)
    BY <2>3, <2>4 DEF RowOK, RowAgrees, SeenBefore, ExecEnded
  <2>6. Since(s, x, {p})
    BY <2>3, <2>4 DEF Since, Kept, Waits
  <2>7. Alone(s, p) => Alone(x, p)
    <3> SUFFICES ASSUME Alone(s, p), NEW q \in 1..(p - 1), x.occ[q] # "SKIPPED"
                 PROVE  ~Live(x.exec[q]) /\ ~Waits(x, q)
      BY DEF Alone
    <3>1. q \in Times \ {p}
      BY SchedulerBounds DEF Times
    <3> QED
      BY <2>3, <2>4, <3>1 DEF Alone, Waits
  <2> QED
    BY <2>1, <2>3, <2>5, <2>6, <2>7 DEF x
<1> QED
  BY <1>1, <1>2, <1>3

\* Since composes.
LEMMA SinceTransitive ==
  ASSUME NEW s, NEW x, NEW y, NEW T, Since(s, x, T), Since(x, y, T)
  PROVE  Since(s, y, T)
BY DEF Since, Kept

\* An earlier row that is no active prior is neither live nor waiting, unless SKIPPED.
LEMMA NoPrior ==
  ASSUME NEW s, RowOK(s), NEW p \in Times, NEW q \in 1..(p - 1),
         q \notin ActivePriors(s, p), s.occ[q] # "SKIPPED"
  PROVE  ~Live(s.exec[q]) /\ ~Waits(s, q)
<1>1. q \in Times
  BY SchedulerBounds DEF Times
<1>2. /\ s.occ[q] \in OccurrenceStatus /\ s.exec[q] \in ExecStatus /\ s.seen[q] \in ExecStatus
      /\ RowAgrees(s.occ[q], s.exec[q]) /\ SeenBefore(s.seen[q], s.exec[q])
  BY <1>1 DEF RowOK, RowStates
<1>3. CASE ~ActiveRow(s.occ[q])
  BY <1>2, <1>3 DEF ActiveRow, OccurrenceStatus, RowAgrees, Live, ExecEnded, Waits
<1>4. CASE ActiveRow(s.occ[q])
  <2>1. /\ ~Live(s.seen[q])
        /\ s.seen[q] = "NONE" => ~Unmaterialized(s, q) /\ s.occ[q] = "PLANNED"
    BY <1>4 DEF ActivePriors
  <2> QED
    BY <1>2, <2>1 DEF Live, SeenBefore, ExecEnded, Unmaterialized, Waits
<1> QED
  BY <1>3, <1>4

\* Superseding older waits.
LEMMA SupersedeOK ==
  ASSUME NEW s, RowOK(s), NEW p \in Times
  PROVE  LET x == SupersedeOlderWaits(s, p)
         IN  RowOK(x) /\ Since(s, x, {}) /\ x.occ[p] = s.occ[p] /\ x.exec[p] = s.exec[p]
<1> DEFINE x == SupersedeOlderWaits(s, p)
           older == {q \in 1..(p - 1) : Unmaterialized(s, q) /\ s.reason[q] = "OVERLAP_REPLACE_WAIT"}
<1>1. /\ x = [s EXCEPT !.occ = [q \in Times |-> IF q \in older THEN "SKIPPED" ELSE s.occ[q]],
                       !.reason = [q \in Times |-> IF q \in older THEN "REPLACE_SUPERSEDED" ELSE s.reason[q]]]
      /\ s \in RowStates
  BY DEF SupersedeOlderWaits, RowOK
<1> HIDE DEF x, older
<1>2. /\ x.exec = s.exec /\ x.seen = s.seen
      /\ x.occ = [q \in Times |-> IF q \in older THEN "SKIPPED" ELSE s.occ[q]]
      /\ x.reason = [q \in Times |-> IF q \in older THEN "REPLACE_SUPERSEDED" ELSE s.reason[q]]
      /\ x = [occ |-> x.occ, reason |-> x.reason, exec |-> x.exec, seen |-> x.seen]
  BY <1>1 DEF RowStates
<1>3. /\ x.occ \in [Times -> OccurrenceStatus] /\ x.reason \in [Times -> Reasons]
      /\ x.exec \in [Times -> ExecStatus] /\ x.seen \in [Times -> ExecStatus]
  BY <1>1, <1>2 DEF RowStates, OccurrenceStatus, Reasons
<1>4. x \in RowStates
  BY <1>2, <1>3 DEF RowStates
<1>5. \A q \in older : s.occ[q] = "PLANNED" /\ s.seen[q] = "NONE" /\ q # p /\ q \in Times
  BY SchedulerBounds DEF older, Unmaterialized, Times
<1>6. \A q \in older : s.exec[q] = "NONE"
  BY <1>5 DEF RowOK, SeenBefore
<1>7. RowOK(x)
  BY <1>2, <1>4, <1>5, <1>6 DEF RowOK, RowAgrees
<1>8. Since(s, x, {})
  BY <1>2, <1>5, <1>6 DEF Since, Kept, Waits
<1>9. x.occ[p] = s.occ[p] /\ x.exec[p] = s.exec[p]
  BY <1>2, <1>5
<1> QED
  BY <1>7, <1>8, <1>9 DEF x

\* Cancelling the active priors.
LEMMA CancelOK ==
  ASSUME NEW s, RowOK(s), NEW p \in Times
  PROVE  LET c == ReplaceCancelPriors(s, ActivePriors(s, p))
         IN  /\ RowOK(c.rows) /\ Since(s, c.rows, {})
             /\ c.rows.occ[p] = s.occ[p] /\ c.rows.exec[p] = s.exec[p]
             /\ ~c.inflight => Alone(c.rows, p)
<1> DEFINE priors == ActivePriors(s, p)
           live == {q \in priors : Live(s.seen[q])}
           outcome == [q \in Times |-> IF q \in live THEN CancelOutcome(s, q) ELSE s.exec[q]]
           requested(q) == s.seen[q] = "CANCEL_REQUESTED" \/ outcome[q] = "CANCEL_REQUESTED"
           x == [s EXCEPT !.exec = outcome,
                          !.seen = [q \in Times |-> IF q \in live /\ ~requested(q)
                                                    THEN outcome[q] ELSE s.seen[q]],
                          !.occ = [q \in Times |-> IF q \in live /\ ~requested(q)
                                                   THEN "FAILED" ELSE s.occ[q]]]
           c == ReplaceCancelPriors(s, priors)
<1>1. /\ c.rows = x
      /\ c.inflight <=> (\E q \in priors : Unmaterialized(s, q)) \/ (\E q \in live : requested(q))
      /\ s \in RowStates
  BY DEF ReplaceCancelPriors, RowOK
<1>2. /\ \A q \in live : q \in priors /\ Live(s.seen[q])
      /\ \A q \in priors : q \in Times /\ q # p /\ q \in 1..(p - 1) /\ ActiveRow(s.occ[q])
  BY SchedulerBounds DEF ActivePriors, Times
<1>3. ASSUME NEW q \in live
      PROVE  /\ CancelOutcome(s, q) \in ExecStatus
             /\ s.seen[q] = "CANCEL_REQUESTED" => CancelOutcome(s, q) = s.exec[q]
             /\ s.seen[q] # "CANCEL_REQUESTED" => CancelOutcome(s, q) \in {"CANCEL_REQUESTED", "CANCELLED"}
             /\ s.seen[q] # "CANCEL_REQUESTED" /\ CancelOutcome(s, q) = "CANCEL_REQUESTED" => s.exec[q] = "CALLING"
  <2>1. s.exec[q] \in ExecStatus
    BY <1>2 DEF RowOK, RowStates
  <2> QED
    BY <2>1 DEF CancelOutcome, ExecStatus
<1>4. outcome \in [Times -> ExecStatus]
  BY <1>1, <1>3 DEF RowStates
<1>5. \A q \in Times : outcome[q] = IF q \in live THEN CancelOutcome(s, q) ELSE s.exec[q]
  OBVIOUS
<1> HIDE DEF outcome, live, priors
<1>6. /\ x.exec = outcome
      /\ x.seen = [q \in Times |-> IF q \in live /\ ~requested(q) THEN outcome[q] ELSE s.seen[q]]
      /\ x.occ = [q \in Times |-> IF q \in live /\ ~requested(q) THEN "FAILED" ELSE s.occ[q]]
      /\ x.reason = s.reason
      /\ x = [occ |-> x.occ, reason |-> x.reason, exec |-> x.exec, seen |-> x.seen]
  BY <1>1 DEF RowStates
<1> HIDE DEF x
<1>7. x \in RowStates
  <2>1. /\ x.occ \in [Times -> OccurrenceStatus] /\ x.reason \in [Times -> Reasons]
        /\ x.exec \in [Times -> ExecStatus] /\ x.seen \in [Times -> ExecStatus]
    BY <1>1, <1>4, <1>6 DEF RowStates, OccurrenceStatus
  <2> QED
    BY <1>6, <2>1 DEF RowStates
<1>8. ASSUME NEW q \in Times
      PROVE  /\ RowAgrees(x.occ[q], x.exec[q]) /\ SeenBefore(x.seen[q], x.exec[q])
             /\ Kept(s, x, q)
             /\ q \in live /\ ~requested(q) => x.exec[q] = "CANCELLED"
             /\ q \notin live => x.occ[q] = s.occ[q] /\ x.exec[q] = s.exec[q]
  <2>1. /\ RowAgrees(s.occ[q], s.exec[q]) /\ SeenBefore(s.seen[q], s.exec[q])
    BY DEF RowOK
  <2>2. CASE q \notin live
    <3>1. x.occ[q] = s.occ[q] /\ x.exec[q] = s.exec[q] /\ x.seen[q] = s.seen[q] /\ x.reason[q] = s.reason[q]
      BY <1>5, <1>6, <2>2
    <3> QED
      BY <2>1, <2>2, <3>1 DEF Kept, Waits
  <2>3. CASE q \in live /\ requested(q)
    <3>1. x.occ[q] = s.occ[q] /\ x.seen[q] = s.seen[q] /\ x.exec[q] = CancelOutcome(s, q) /\ x.reason[q] = s.reason[q]
      BY <1>5, <1>6, <2>3
    <3>2. Live(s.seen[q]) /\ ActiveRow(s.occ[q])
      BY <1>2, <2>3
    <3>3. x.exec[q] = s.exec[q] \/ (x.exec[q] = "CANCEL_REQUESTED" /\ s.exec[q] = "CALLING")
      <4>1. /\ s.seen[q] = "CANCEL_REQUESTED" => CancelOutcome(s, q) = s.exec[q]
            /\ s.seen[q] # "CANCEL_REQUESTED" /\ CancelOutcome(s, q) = "CANCEL_REQUESTED" => s.exec[q] = "CALLING"
        BY <1>3, <2>3
      <4>2. s.seen[q] = "CANCEL_REQUESTED" \/ CancelOutcome(s, q) = "CANCEL_REQUESTED"
        BY <1>5, <2>3
      <4> QED
        BY <3>1, <4>1, <4>2
    <3> QED
      BY <2>1, <2>3, <3>1, <3>2, <3>3
      DEF Kept, Waits, Live, ExecEnded, RowAgrees, SeenBefore, ActiveRow
  <2>4. CASE q \in live /\ ~requested(q)
    <3>1. x.exec[q] = "CANCELLED" /\ x.seen[q] = "CANCELLED" /\ x.occ[q] = "FAILED"
      BY <1>3, <1>5, <1>6, <2>4
    <3>2. Live(s.seen[q]) /\ ActiveRow(s.occ[q])
      BY <1>2, <2>4
    <3> QED
      BY <2>1, <2>4, <3>1, <3>2
      DEF Kept, Waits, Live, ExecEnded, RowAgrees, SeenBefore, ActiveRow
  <2> QED
    BY <2>2, <2>3, <2>4
<1>9. RowOK(x) /\ Since(s, x, {})
  BY <1>7, <1>8 DEF RowOK, Since
<1>10. x.occ[p] = s.occ[p] /\ x.exec[p] = s.exec[p]
  BY <1>2, <1>8
<1>11. ASSUME ~c.inflight PROVE Alone(x, p)
  <2> SUFFICES ASSUME NEW q \in 1..(p - 1), x.occ[q] # "SKIPPED"
               PROVE  ~Live(x.exec[q]) /\ ~Waits(x, q)
    BY DEF Alone
  <2>1. q \in Times
    BY SchedulerBounds DEF Times
  <2>2. s.occ[q] # "SKIPPED" /\ Kept(s, x, q)
    BY <1>8, <2>1 DEF Kept
  <2>3. CASE q \notin priors
    <3>1. ~Live(s.exec[q]) /\ ~Waits(s, q)
      BY <2>2, <2>3, NoPrior DEF priors
    <3> QED
      BY <2>2, <3>1 DEF Kept
  <2>4. CASE q \in live
    <3>1. x.exec[q] = "CANCELLED"
      BY <1>1, <1>8, <1>11, <2>1, <2>4
    <3> QED
      BY <3>1 DEF Live, ExecEnded, Waits
  <2>5. CASE q \in priors /\ q \notin live
    <3>1. ~Live(s.seen[q]) /\ ~Unmaterialized(s, q)
      BY <1>1, <1>11, <2>5 DEF live
    <3>2. s.seen[q] = "NONE"
      BY <2>5, <3>1 DEF priors, ActivePriors
    <3>3. s.exec[q] = "NONE" /\ ~Waits(s, q)
      BY <2>1, <3>1, <3>2 DEF RowOK, SeenBefore, Unmaterialized, Waits
    <3> QED
      BY <2>2, <3>3 DEF Kept, Live
  <2> QED
    BY <1>2, <2>3, <2>4, <2>5
<1> QED
  BY <1>1, <1>9, <1>10, <1>11 DEF priors

\* A new reason.
LEMMA ReasonOK ==
  ASSUME NEW s, RowOK(s), NEW p \in Times, NEW why \in Reasons
  PROVE  LET x == [s EXCEPT !.reason[p] = why]
         IN  /\ RowOK(x) /\ Since(s, x, {p}) /\ x.occ = s.occ /\ x.exec = s.exec
             /\ Alone(s, p) => Alone(x, p)
<1> DEFINE x == [s EXCEPT !.reason[p] = why]
<1>1. /\ x \in RowStates
      /\ x.exec = s.exec /\ x.seen = s.seen /\ x.occ = s.occ
      /\ x.reason = [s.reason EXCEPT ![p] = why]
  BY DEF RowOK, RowStates
<1> HIDE DEF x
<1>2. \A q \in Times \ {p} : x.reason[q] = s.reason[q]
  BY <1>1 DEF RowOK, RowStates
<1>3. RowOK(x)
  BY <1>1 DEF RowOK
<1>4. Since(s, x, {p})
  BY <1>1, <1>2 DEF Since, Kept, Waits
<1>5. ASSUME Alone(s, p), NEW q \in 1..(p - 1), x.occ[q] # "SKIPPED"
      PROVE  ~Live(x.exec[q]) /\ ~Waits(x, q)
  <2>1. q \in Times \ {p}
    BY SchedulerBounds DEF Times
  <2> QED
    BY <1>4, <1>5, <2>1 DEF Alone, Since, Kept
<1>6. Alone(s, p) => Alone(x, p)
  BY <1>5 DEF Alone
<1> QED
  BY <1>1, <1>3, <1>4, <1>6 DEF x

\* What firing one Occurrence may do.
Fired(s, x, p, policy) ==
  /\ RowOK(x)
  /\ Since(s, x, {p})
  /\ x.occ[p] = "NONE" <=> s.occ[p] = "NONE"
  /\ s.exec[p] # "NONE" => x.exec[p] # "NONE"
  /\ policy # "ALLOW" /\ s.exec[p] = "NONE" /\ x.exec[p] # "NONE" => Alone(x, p)

\* Firing under REPLACE.
LEMMA ReplaceOK ==
  ASSUME NEW s, RowOK(s), NEW p \in Times, s.occ[p] = "PLANNED", NEW usable \in BOOLEAN
  PROVE  Fired(s, ReplaceFire(s, p, usable), p, "REPLACE")
<1> DEFINE sup == SupersedeOlderWaits(s, p)
           can == ReplaceCancelPriors(sup, ActivePriors(sup, p))
           r == can.rows
           wait == [r EXCEPT !.reason[p] = "OVERLAP_REPLACE_WAIT"]
           go == [r EXCEPT !.reason[p] = "OVERLAP_REPLACE"]
           made == CreateExecution(go, p, usable)
<1>1. ReplaceFire(s, p, usable) = IF can.inflight THEN wait ELSE made
  BY DEF ReplaceFire
<1>2. RowOK(sup) /\ Since(s, sup, {}) /\ sup.occ[p] = "PLANNED" /\ sup.exec[p] = s.exec[p]
  BY SupersedeOK
<1> HIDE DEF sup
<1>3. /\ RowOK(r) /\ Since(sup, r, {}) /\ r.occ[p] = "PLANNED" /\ r.exec[p] = s.exec[p]
      /\ ~can.inflight => Alone(r, p)
  BY <1>2, CancelOK
<1> HIDE DEF can
<1>4. Since(s, r, {p})
  BY <1>2, <1>3 DEF Since, Kept
<1>5. "OVERLAP_REPLACE_WAIT" \in Reasons /\ "OVERLAP_REPLACE" \in Reasons
  BY DEF Reasons, WaitReasons
<1> HIDE DEF r
<1>6. CASE can.inflight
  <2>1. RowOK(wait) /\ Since(r, wait, {p}) /\ wait.occ = r.occ /\ wait.exec = r.exec
    BY <1>3, <1>5, ReasonOK
  <2> HIDE DEF wait
  <2>2. Since(s, wait, {p})
    BY <1>4, <2>1, SinceTransitive
  <2>3. Fired(s, wait, p, "REPLACE")
    BY <1>3, <2>1, <2>2 DEF Fired
  <2> QED
    BY <1>1, <1>6, <2>3
<1>7. CASE ~can.inflight
  <2>1. RowOK(go) /\ Since(r, go, {p}) /\ go.occ = r.occ /\ go.exec = r.exec /\ Alone(go, p)
    BY <1>3, <1>5, <1>7, ReasonOK
  <2> HIDE DEF go
  <2>2. /\ RowOK(made) /\ Since(go, made, {p}) /\ made.occ[p] # "NONE"
        /\ go.exec[p] = "NONE" /\ made.exec[p] # "NONE" => Alone(made, p)
        /\ go.exec[p] # "NONE" => made = go
    BY <1>3, <2>1, CreateOK
  <2> HIDE DEF made
  <2>3. Since(s, made, {p})
    BY <1>4, <2>1, <2>2, SinceTransitive
  <2>4. Fired(s, made, p, "REPLACE")
    BY <1>3, <2>1, <2>2, <2>3 DEF Fired
  <2> QED
    BY <1>1, <1>7, <2>4
<1> QED
  BY <1>6, <1>7

\* Firing one Occurrence under any policy.
LEMMA FireOK ==
  ASSUME NEW s, RowOK(s), NEW p \in Times, NEW policy \in Overlaps, NEW usable \in BOOLEAN
  PROVE  Fired(s, TryFire(s, p, policy, usable), p, policy)
<1> DEFINE x == TryFire(s, p, policy, usable)
           made == CreateExecution(s, p, usable)
           skip == Marked(s, p, "SKIPPED", "OVERLAP_SKIP")
           queue == Marked(s, p, "PLANNED", "OVERLAP_QUEUE")
<1>1. CASE s.occ[p] # "PLANNED"
  <2>1. x = s
    BY <1>1 DEF TryFire
  <2>2. Fired(s, s, p, policy)
    BY DEF Fired, Since, Kept
  <2> QED
    BY <2>1, <2>2
<1>2. CASE s.occ[p] = "PLANNED" /\ (ActivePriors(s, p) = {} \/ policy = "ALLOW")
  <2>1. x = made
    BY <1>2 DEF TryFire
  <2>2. /\ RowOK(made) /\ Since(s, made, {p}) /\ made.occ[p] # "NONE"
        /\ s.exec[p] = "NONE" /\ made.exec[p] # "NONE" /\ Alone(s, p) => Alone(made, p)
        /\ s.exec[p] # "NONE" => made = s
    BY <1>2, CreateOK
  <2>3. policy # "ALLOW" => Alone(s, p)
    BY <1>2, NoPrior DEF Alone
  <2> HIDE DEF made
  <2>4. Fired(s, made, p, policy)
    BY <1>2, <2>2, <2>3 DEF Fired
  <2> QED
    BY <2>1, <2>4
<1>3. CASE s.occ[p] = "PLANNED" /\ ActivePriors(s, p) # {} /\ policy = "SKIP"
  <2>1. x = skip
    BY <1>3 DEF TryFire
  <2>2. RowOK(skip) /\ Since(s, skip, {p}) /\ skip.occ[p] = "SKIPPED" /\ skip.exec = s.exec
    BY <1>3, MarkedOK DEF Reasons
  <2> HIDE DEF skip
  <2>3. Fired(s, skip, p, policy)
    BY <1>3, <2>2 DEF Fired
  <2> QED
    BY <2>1, <2>3
<1>4. CASE s.occ[p] = "PLANNED" /\ ActivePriors(s, p) # {} /\ policy = "QUEUE"
  <2>1. x = queue
    BY <1>4 DEF TryFire
  <2>2. RowOK(queue) /\ Since(s, queue, {p}) /\ queue.occ[p] = "PLANNED" /\ queue.exec = s.exec
    BY <1>4, MarkedOK DEF Reasons, WaitReasons
  <2> HIDE DEF queue
  <2>3. Fired(s, queue, p, policy)
    BY <1>4, <2>2 DEF Fired
  <2> QED
    BY <2>1, <2>3
<1>5. CASE s.occ[p] = "PLANNED" /\ ActivePriors(s, p) # {} /\ policy = "REPLACE"
  <2>1. x = ReplaceFire(s, p, usable)
    BY <1>5 DEF TryFire
  <2>2. Fired(s, ReplaceFire(s, p, usable), p, "REPLACE")
    BY <1>5, ReplaceOK
  <2> QED
    BY <1>5, <2>1, <2>2
<1> QED
  BY <1>1, <1>2, <1>3, <1>4, <1>5 DEF Overlaps

-----------------------------------------------------------------------------
(* The passes over the rows.                                               *)

MisfirePolicies == {"SKIP", "RUN_ONCE", "CATCH_UP_LIMITED"}

\* The decision is one of the reasons.
LEMMA DecisionOK ==
  ASSUME NEW policy \in MisfirePolicies, NEW missed, NEW t
  PROVE  MisfireDecision(policy, missed, t) \in Reasons
BY DEF MisfireDecision, MisfirePolicies, Reasons

\* create_planned adds a row where there was none.
LEMMA PlannedOK ==
  ASSUME NEW s, RowOK(s), NEW t \in Times
  PROVE  LET x == CreatePlanned(s, t)
         IN  /\ RowOK(x) /\ Since(s, x, {t}) /\ x.exec = s.exec /\ x.occ[t] # "NONE"
             /\ s.occ[t] = "NONE" => x.occ[t] = "PLANNED"
             /\ s.occ[t] # "NONE" => x = s
<1>1. CASE s.occ[t] = "NONE"
  <2>1. s.exec[t] = "NONE" /\ "NONE" \in Reasons
    BY <1>1 DEF RowOK, RowAgrees, Reasons
  <2>2. CreatePlanned(s, t) = Marked(s, t, "PLANNED", "NONE")
    BY <1>1 DEF CreatePlanned
  <2> DEFINE m == Marked(s, t, "PLANNED", "NONE")
  <2>3. RowOK(m) /\ Since(s, m, {t}) /\ m.occ[t] = "PLANNED" /\ m.exec = s.exec
    BY <2>1, MarkedOK
  <2> HIDE DEF m
  <2> QED
    BY <1>1, <2>2, <2>3 DEF m
<1>2. CASE s.occ[t] # "NONE"
  BY <1>2 DEF CreatePlanned, Since, Kept
<1> QED
  BY <1>1, <1>2

\* One point the misfire policy may skip.
LEMMA SkipPointOK ==
  ASSUME sched.misfire \in MisfirePolicies, NEW s, RowOK(s), NEW t \in Times, NEW missed
  PROVE  LET x == SkipPoint(s, t, missed)
         IN  /\ RowOK(x) /\ Since(s, x, {t}) /\ x.exec = s.exec
             /\ s.occ[t] # "NONE" => x.occ[t] # "NONE"
             /\ MisfireDecision(sched.misfire, missed, t) \in SkipDecisions => x.occ[t] # "NONE"
<1> DEFINE d == MisfireDecision(sched.misfire, missed, t)
           y == CreatePlanned(s, t)
           m == Marked(s, t, "SKIPPED", d)
<1>1. d \in Reasons
  BY DecisionOK
<1>2. /\ s.occ[t] = "NONE" => y.occ[t] = "PLANNED"
      /\ s.occ[t] # "NONE" => y = s
  BY PlannedOK
<1> HIDE DEF y
<1>3. SkipPoint(s, t, missed) = IF d \in SkipDecisions /\ y.occ[t] = "PLANNED" THEN m ELSE s
  BY DEF SkipPoint, y
<1>4. Since(s, s, {t})
  BY DEF Since, Kept
<1>5. s.occ[t] = "NONE" => s.exec[t] = "NONE"
  BY DEF RowOK, RowAgrees
<1> HIDE DEF d
<1>6. RowOK(m) /\ Since(s, m, {t}) /\ m.occ[t] = "SKIPPED" /\ m.exec = s.exec
  BY <1>1, <1>5, MarkedOK
<1> HIDE DEF m
<1> QED
  BY <1>2, <1>3, <1>4, <1>6 DEF d

\* One point to fire.
LEMMA FirePointOK ==
  ASSUME sched.misfire \in MisfirePolicies, sched.overlap \in Overlaps,
         NEW s, RowOK(s), NEW t \in Times, NEW missed, NEW usable \in BOOLEAN
  PROVE  LET x == FirePoint(s, t, missed, usable)
         IN  /\ RowOK(x) /\ Since(s, x, {t})
             /\ s.occ[t] # "NONE" => x.occ[t] # "NONE"
             /\ MisfireDecision(sched.misfire, missed, t) \notin SkipDecisions => x.occ[t] # "NONE"
             /\ s.exec[t] # "NONE" => x.exec[t] # "NONE"
             /\ sched.overlap # "ALLOW" /\ s.exec[t] = "NONE" /\ x.exec[t] # "NONE" => Alone(x, t)
<1> DEFINE d == MisfireDecision(sched.misfire, missed, t)
           y == CreatePlanned(s, t)
           z == [y EXCEPT !.reason[t] = d]
           x == TryFire(z, t, sched.overlap, usable)
<1>1. d \in Reasons
  BY DecisionOK
<1>2. RowOK(y) /\ Since(s, y, {t}) /\ y.exec = s.exec /\ y.occ[t] # "NONE"
  BY PlannedOK
<1>3. FirePoint(s, t, missed, usable) = IF d \in SkipDecisions THEN s ELSE x
  BY DEF FirePoint
<1> HIDE DEF y, d
<1>4. RowOK(z) /\ Since(y, z, {t}) /\ z.occ = y.occ /\ z.exec = y.exec
  BY <1>1, <1>2, ReasonOK
<1> HIDE DEF z
<1>5. Fired(z, x, t, sched.overlap)
  BY <1>4, FireOK
<1> HIDE DEF x
<1>6. Since(s, x, {t})
  BY <1>2, <1>4, <1>5, SinceTransitive DEF Fired
<1>7. Since(s, s, {t})
  BY DEF Since, Kept
<1> QED
  BY <1>2, <1>3, <1>4, <1>5, <1>6, <1>7 DEF Fired, d

\* The row states a pass goes through.
RowsOK == {r \in RowStates : RowOK(r)}

\* The waiting pass, step by step.
LEMMA ReleaseSteps ==
  ASSUME NEW s, RowOK(s), NEW policy \in Overlaps, NEW usable \in BOOLEAN
  PROVE  \E f : /\ f[0] = [rows |-> s, blocked |-> FALSE]
                /\ \A i \in Times : f[i] = IF f[i - 1].blocked \/ ~Held(s, i) THEN f[i - 1]
                                           ELSE Release(f[i - 1], i, policy, usable)
                /\ \A i \in 0..Horizon : RowOK(f[i].rows)
                /\ ReleaseWaiting(s, policy, usable) = f[Horizon].rows
<1> DEFINE S == [rows : RowsOK, blocked : BOOLEAN]
           g == [i \in Times |-> [r \in S |-> (IF r.blocked \/ ~Held(s, i) THEN r ELSE Release(r, i, policy, usable))]]
           f[i \in 0..Horizon] == IF i = 0 THEN [rows |-> s, blocked |-> FALSE] ELSE (IF f[i - 1].blocked \/ ~Held(s, i) THEN f[i - 1] ELSE Release(f[i - 1], i, policy, usable))
           Rec(h) == h = [i \in 0..Horizon |-> IF i = 0 THEN [rows |-> s, blocked |-> FALSE] ELSE (IF h[i - 1].blocked \/ ~Held(s, i) THEN h[i - 1] ELSE Release(h[i - 1], i, policy, usable))]
<1>1. Horizon \in Nat /\ Times = 1..Horizon
  BY SchedulerBounds DEF Times
<1>2. [rows |-> s, blocked |-> FALSE] \in S
  BY DEF RowsOK, RowOK
<1>3. ASSUME NEW r \in S, NEW i \in Times PROVE (IF r.blocked \/ ~Held(s, i) THEN r ELSE Release(r, i, policy, usable)) \in S
  <2> DEFINE fired == TryFire(r.rows, i, policy, usable)
  <2>1. RowOK(r.rows)
    BY DEF RowsOK
  <2>2. RowOK(fired)
    BY <2>1, FireOK DEF Fired
  <2>3. fired \in RowsOK
    BY <2>2 DEF RowsOK, RowOK
  <2> HIDE DEF fired
  <2>4. Release(r, i, policy, usable) =
          [rows |-> fired, blocked |-> fired.occ[i] = "PLANNED" /\ fired.reason[i] = "OVERLAP_QUEUE"
                                       /\ fired.seen[i] = "NONE"]
    BY DEF Release, fired
  <2> QED
    BY <2>3, <2>4
<1> HIDE DEF S
<1>4. \E h : Rec(h)
  <2>1. g \in [1..Horizon -> [S -> S]]
    BY <1>1, <1>3
  <2>2. PICK h \in [0..Horizon -> S] : h[0] = [rows |-> s, blocked |-> FALSE] /\ \A i \in 1..Horizon : h[i] = g[i][h[i - 1]]
    <3> HIDE DEF g
    <3>1. Iterates(Horizon, S, [rows |-> s, blocked |-> FALSE], g)
      BY <1>1, <1>2, <2>1, IterationExists
    <3> QED
      BY <3>1 DEF Iterates
  <2>3. ASSUME NEW i \in 1..Horizon PROVE h[i] = (IF h[i - 1].blocked \/ ~Held(s, i) THEN h[i - 1] ELSE Release(h[i - 1], i, policy, usable))
    <3>1. h[i - 1] \in S
      BY <1>1
    <3> QED
      BY <1>1, <2>2, <3>1
  <2>4. Rec(h)
    BY <1>1, <2>2, <2>3
  <2> QED
    BY <2>4
<1>5. Rec(f)
  <2>1. f = CHOOSE h : Rec(h)
    OBVIOUS
  <2> HIDE DEF Rec, f
  <2> QED
    BY <1>4, <2>1
<1>6. ReleaseWaiting(s, policy, usable) = f[Horizon].rows
  BY DEF ReleaseWaiting
<1> HIDE DEF f
<1>7. f[0] = [rows |-> s, blocked |-> FALSE] /\ \A i \in Times : f[i] = (IF f[i - 1].blocked \/ ~Held(s, i) THEN f[i - 1] ELSE Release(f[i - 1], i, policy, usable))
  <2>1. ASSUME NEW i \in 0..Horizon PROVE f[i] = IF i = 0 THEN [rows |-> s, blocked |-> FALSE] ELSE (IF f[i - 1].blocked \/ ~Held(s, i) THEN f[i - 1] ELSE Release(f[i - 1], i, policy, usable))
    BY <1>5
  <2>2. 0 \in 0..Horizon /\ \A i \in Times : i \in 0..Horizon /\ i # 0
    BY <1>1
  <2> QED
    BY <2>1, <2>2
<1>8. \A i \in 0..Horizon : f[i] \in S
  <2> DEFINE P == {i \in 0..Horizon : f[i] \in S}
  <2>1. 0 \in P
    BY <1>1, <1>2, <1>7
  <2>2. ASSUME NEW i \in 1..Horizon, i - 1 \in P PROVE i \in P
    BY <1>1, <1>3, <1>7, <2>2
  <2> HIDE DEF P
  <2>3. \A i \in 0..Horizon : i \in P
    BY <1>1, <2>1, <2>2, BoundedInduction
  <2> QED
    BY <2>3 DEF P
<1> QED
  <2>1. \A i \in 0..Horizon : RowOK(f[i].rows)
    BY <1>8 DEF S, RowsOK
  <2> QED
    BY <1>6, <1>7, <2>1

\* The skipping pass, step by step.
LEMMA SkipSteps ==
  ASSUME sched.misfire \in MisfirePolicies, NEW s, RowOK(s), NEW points, NEW missed
  PROVE  \E f : /\ f[0] = s
                /\ \A i \in Times : f[i] = IF i \in points THEN SkipPoint(f[i - 1], i, missed) ELSE f[i - 1]
                /\ \A i \in 0..Horizon : RowOK(f[i])
                /\ SkipDue(s, points, missed) = f[Horizon]
<1> DEFINE S == RowsOK
           g == [i \in Times |-> [r \in S |-> (IF i \in points THEN SkipPoint(r, i, missed) ELSE r)]]
           f[i \in 0..Horizon] == IF i = 0 THEN s ELSE (IF i \in points THEN SkipPoint(f[i - 1], i, missed) ELSE f[i - 1])
           Rec(h) == h = [i \in 0..Horizon |-> IF i = 0 THEN s ELSE (IF i \in points THEN SkipPoint(h[i - 1], i, missed) ELSE h[i - 1])]
<1>1. Horizon \in Nat /\ Times = 1..Horizon
  BY SchedulerBounds DEF Times
<1>2. s \in S
  BY DEF RowsOK, RowOK
<1>3. ASSUME NEW r \in S, NEW i \in Times PROVE (IF i \in points THEN SkipPoint(r, i, missed) ELSE r) \in S
  <2>1. RowOK(r)
    BY DEF RowsOK
  <2>2. RowOK(SkipPoint(r, i, missed))
    BY <2>1, SkipPointOK
  <2> QED
    BY <2>1, <2>2 DEF RowsOK, RowOK
<1> HIDE DEF S
<1>4. \E h : Rec(h)
  <2>1. g \in [1..Horizon -> [S -> S]]
    BY <1>1, <1>3
  <2>2. PICK h \in [0..Horizon -> S] : h[0] = s /\ \A i \in 1..Horizon : h[i] = g[i][h[i - 1]]
    <3> HIDE DEF g
    <3>1. Iterates(Horizon, S, s, g)
      BY <1>1, <1>2, <2>1, IterationExists
    <3> QED
      BY <3>1 DEF Iterates
  <2>3. ASSUME NEW i \in 1..Horizon PROVE h[i] = (IF i \in points THEN SkipPoint(h[i - 1], i, missed) ELSE h[i - 1])
    <3>1. h[i - 1] \in S
      BY <1>1
    <3> QED
      BY <1>1, <2>2, <3>1
  <2>4. Rec(h)
    BY <1>1, <2>2, <2>3
  <2> QED
    BY <2>4
<1>5. Rec(f)
  <2>1. f = CHOOSE h : Rec(h)
    OBVIOUS
  <2> HIDE DEF Rec, f
  <2> QED
    BY <1>4, <2>1
<1>6. SkipDue(s, points, missed) = f[Horizon]
  BY DEF SkipDue
<1> HIDE DEF f
<1>7. f[0] = s /\ \A i \in Times : f[i] = (IF i \in points THEN SkipPoint(f[i - 1], i, missed) ELSE f[i - 1])
  <2>1. ASSUME NEW i \in 0..Horizon PROVE f[i] = IF i = 0 THEN s ELSE (IF i \in points THEN SkipPoint(f[i - 1], i, missed) ELSE f[i - 1])
    BY <1>5
  <2>2. 0 \in 0..Horizon /\ \A i \in Times : i \in 0..Horizon /\ i # 0
    BY <1>1
  <2> QED
    BY <2>1, <2>2
<1>8. \A i \in 0..Horizon : f[i] \in S
  <2> DEFINE P == {i \in 0..Horizon : f[i] \in S}
  <2>1. 0 \in P
    BY <1>1, <1>2, <1>7
  <2>2. ASSUME NEW i \in 1..Horizon, i - 1 \in P PROVE i \in P
    BY <1>1, <1>3, <1>7, <2>2
  <2> HIDE DEF P
  <2>3. \A i \in 0..Horizon : i \in P
    BY <1>1, <2>1, <2>2, BoundedInduction
  <2> QED
    BY <2>3 DEF P
<1> QED
  <2>1. \A i \in 0..Horizon : RowOK(f[i])
    BY <1>8 DEF S, RowsOK
  <2> QED
    BY <1>6, <1>7, <2>1

\* The firing pass, step by step.
LEMMA FireSteps ==
  ASSUME sched.misfire \in MisfirePolicies, sched.overlap \in Overlaps,
         NEW s, RowOK(s), NEW points, NEW missed, NEW usable \in BOOLEAN,
         RowOK(SkipDue(s, points, missed))
  PROVE  \E f : /\ f[0] = SkipDue(s, points, missed)
                /\ \A i \in Times : f[i] = IF i \in points THEN FirePoint(f[i - 1], i, missed, usable) ELSE f[i - 1]
                /\ \A i \in 0..Horizon : RowOK(f[i])
                /\ FireDue(s, points, missed, usable) = f[Horizon]
<1> DEFINE S == RowsOK
           g == [i \in Times |-> [r \in S |-> (IF i \in points THEN FirePoint(r, i, missed, usable) ELSE r)]]
           f[i \in 0..Horizon] == IF i = 0 THEN SkipDue(s, points, missed) ELSE (IF i \in points THEN FirePoint(f[i - 1], i, missed, usable) ELSE f[i - 1])
           Rec(h) == h = [i \in 0..Horizon |-> IF i = 0 THEN SkipDue(s, points, missed) ELSE (IF i \in points THEN FirePoint(h[i - 1], i, missed, usable) ELSE h[i - 1])]
<1>1. Horizon \in Nat /\ Times = 1..Horizon
  BY SchedulerBounds DEF Times
<1>2. SkipDue(s, points, missed) \in S
  BY DEF RowsOK, RowOK
<1>3. ASSUME NEW r \in S, NEW i \in Times PROVE (IF i \in points THEN FirePoint(r, i, missed, usable) ELSE r) \in S
  <2>1. RowOK(r)
    BY DEF RowsOK
  <2>2. RowOK(FirePoint(r, i, missed, usable))
    BY <2>1, FirePointOK
  <2> QED
    BY <2>1, <2>2 DEF RowsOK, RowOK
<1> HIDE DEF S
<1>4. \E h : Rec(h)
  <2>1. g \in [1..Horizon -> [S -> S]]
    BY <1>1, <1>3
  <2>2. PICK h \in [0..Horizon -> S] : h[0] = SkipDue(s, points, missed) /\ \A i \in 1..Horizon : h[i] = g[i][h[i - 1]]
    <3> HIDE DEF g
    <3>1. Iterates(Horizon, S, SkipDue(s, points, missed), g)
      BY <1>1, <1>2, <2>1, IterationExists
    <3> QED
      BY <3>1 DEF Iterates
  <2>3. ASSUME NEW i \in 1..Horizon PROVE h[i] = (IF i \in points THEN FirePoint(h[i - 1], i, missed, usable) ELSE h[i - 1])
    <3>1. h[i - 1] \in S
      BY <1>1
    <3> QED
      BY <1>1, <2>2, <3>1
  <2>4. Rec(h)
    BY <1>1, <2>2, <2>3
  <2> QED
    BY <2>4
<1>5. Rec(f)
  <2>1. f = CHOOSE h : Rec(h)
    OBVIOUS
  <2> HIDE DEF Rec, f
  <2> QED
    BY <1>4, <2>1
<1>6. FireDue(s, points, missed, usable) = f[Horizon]
  BY DEF FireDue
<1> HIDE DEF f
<1>7. f[0] = SkipDue(s, points, missed) /\ \A i \in Times : f[i] = (IF i \in points THEN FirePoint(f[i - 1], i, missed, usable) ELSE f[i - 1])
  <2>1. ASSUME NEW i \in 0..Horizon PROVE f[i] = IF i = 0 THEN SkipDue(s, points, missed) ELSE (IF i \in points THEN FirePoint(f[i - 1], i, missed, usable) ELSE f[i - 1])
    BY <1>5
  <2>2. 0 \in 0..Horizon /\ \A i \in Times : i \in 0..Horizon /\ i # 0
    BY <1>1
  <2> QED
    BY <2>1, <2>2
<1>8. \A i \in 0..Horizon : f[i] \in S
  <2> DEFINE P == {i \in 0..Horizon : f[i] \in S}
  <2>1. 0 \in P
    BY <1>1, <1>2, <1>7
  <2>2. ASSUME NEW i \in 1..Horizon, i - 1 \in P PROVE i \in P
    BY <1>1, <1>3, <1>7, <2>2
  <2> HIDE DEF P
  <2>3. \A i \in 0..Horizon : i \in P
    BY <1>1, <2>1, <2>2, BoundedInduction
  <2> QED
    BY <2>3 DEF P
<1> QED
  <2>1. \A i \in 0..Horizon : RowOK(f[i])
    BY <1>8 DEF S, RowsOK
  <2> QED
    BY <1>6, <1>7, <2>1

\* A row stays alone before a tick that nothing touches.
LEMMA AloneKept ==
  ASSUME NEW x, NEW y, NEW T, Since(x, y, T), NEW p \in Times, Alone(x, p), T \cap 1..(p - 1) = {}
  PROVE  Alone(y, p)
<1> SUFFICES ASSUME NEW q \in 1..(p - 1), y.occ[q] # "SKIPPED"
             PROVE  ~Live(y.exec[q]) /\ ~Waits(y, q)
  BY DEF Alone
<1>1. q \in Times \ T
  BY SchedulerBounds DEF Times
<1> QED
  BY <1>1 DEF Since, Kept, Alone

\* What a pass over the ticks of T may do.
Passed(s, x, T, policy) ==
  /\ RowOK(x)
  /\ Since(s, x, T)
  /\ \A q \in Times : s.occ[q] # "NONE" => x.occ[q] # "NONE"
  /\ \A q \in Times : s.exec[q] # "NONE" => x.exec[q] # "NONE"
  /\ policy # "ALLOW" => \A p \in Times : s.exec[p] = "NONE" /\ x.exec[p] # "NONE" => Alone(x, p)

\* One more tick of a pass, later than those before.
LEMMA PassStep ==
  ASSUME NEW s, NEW x, NEW y, NEW policy, NEW i \in Times, NEW T \in SUBSET (1..(i - 1)),
         Passed(s, x, T, policy), RowOK(y), Since(x, y, {i}),
         x.occ[i] # "NONE" => y.occ[i] # "NONE",
         x.exec[i] # "NONE" => y.exec[i] # "NONE",
         policy # "ALLOW" /\ x.exec[i] = "NONE" /\ y.exec[i] # "NONE" => Alone(y, i)
  PROVE  Passed(s, y, T \cup {i}, policy)
<1>1. Since(s, x, T \cup {i}) /\ Since(x, y, T \cup {i})
  BY DEF Passed, Since
<1>2. Since(s, y, T \cup {i})
  BY <1>1, SinceTransitive
<1>3. ASSUME NEW q \in Times
      PROVE  /\ x.occ[q] # "NONE" => y.occ[q] # "NONE"
             /\ x.exec[q] # "NONE" => y.exec[q] # "NONE"
             /\ q # i => (y.exec[q] # "NONE" => x.exec[q] # "NONE")
  BY DEF Since, Kept
<1>4. ASSUME policy # "ALLOW", NEW p \in Times, s.exec[p] = "NONE", y.exec[p] # "NONE"
      PROVE  Alone(y, p)
  <2>1. CASE x.exec[p] = "NONE"
    <3>1. p = i
      BY <1>3, <1>4, <2>1
    <3> QED
      BY <1>4, <2>1, <3>1
  <2>2. CASE x.exec[p] # "NONE"
    <3>1. Alone(x, p)
      BY <1>4, <2>2 DEF Passed
    <3>2. p \in T
      BY <1>4, <2>2 DEF Passed, Since, Kept
    <3>3. {i} \cap 1..(p - 1) = {}
      BY <3>2, SchedulerBounds DEF Times
    <3> QED
      BY <3>1, <3>3, AloneKept
  <2> QED
    BY <2>1, <2>2
<1> QED
  BY <1>2, <1>3, <1>4 DEF Passed

\* A pass that has touched nothing.
LEMMA PassStart ==
  ASSUME NEW s, RowOK(s), NEW policy
  PROVE  Passed(s, s, {}, policy)
BY DEF Passed, Since, Kept

\* Touching fewer ticks.
LEMMA PassWider ==
  ASSUME NEW s, NEW x, NEW T, NEW U, T \subseteq U, NEW policy, Passed(s, x, T, policy)
  PROVE  Passed(s, x, U, policy)
BY DEF Passed, Since

\* The waiting pass.
LEMMA ReleaseOK ==
  ASSUME NEW s, RowOK(s), NEW policy \in Overlaps, NEW usable \in BOOLEAN
  PROVE  Passed(s, ReleaseWaiting(s, policy, usable), {p \in Times : Held(s, p)}, policy)
<1>1. PICK f : /\ f[0] = [rows |-> s, blocked |-> FALSE]
               /\ \A i \in Times : f[i] = IF f[i - 1].blocked \/ ~Held(s, i) THEN f[i - 1]
                                          ELSE Release(f[i - 1], i, policy, usable)
               /\ \A i \in 0..Horizon : RowOK(f[i].rows)
               /\ ReleaseWaiting(s, policy, usable) = f[Horizon].rows
  BY ReleaseSteps
<1>2. Horizon \in Nat /\ Times = 1..Horizon
  BY SchedulerBounds DEF Times
<1> DEFINE T(i) == {p \in 1..i : Held(s, p)}
           P == {i \in 0..Horizon : Passed(s, f[i].rows, T(i), policy)}
<1>3. 0 \in P
  <2>1. f[0].rows = s /\ T(0) = {}
    BY <1>1
  <2> QED
    BY <1>2, <2>1, PassStart
<1>4. ASSUME NEW i \in 1..Horizon, i - 1 \in P PROVE i \in P
  <2>1. Passed(s, f[i - 1].rows, T(i - 1), policy) /\ i \in Times /\ i - 1 \in 0..Horizon
    BY <1>2, <1>4
  <2>2. T(i - 1) \subseteq T(i) /\ T(i - 1) \in SUBSET (1..(i - 1))
    BY <1>2
  <2>3. CASE f[i - 1].blocked \/ ~Held(s, i)
    <3>1. f[i] = f[i - 1]
      BY <1>1, <2>1, <2>3
    <3> HIDE DEF T
    <3> QED
      BY <2>1, <2>2, <3>1, PassWider
  <2>4. CASE ~f[i - 1].blocked /\ Held(s, i)
    <3> DEFINE x == f[i - 1].rows
               y == TryFire(x, i, policy, usable)
    <3>1. f[i] = Release(f[i - 1], i, policy, usable)
      BY <1>1, <2>1, <2>4
    <3>2. f[i].rows = y
      BY <3>1 DEF Release
    <3>3. Fired(x, y, i, policy)
      BY <1>1, <2>1, FireOK
    <3>4. T(i - 1) \cup {i} = T(i)
      BY <2>4
    <3> HIDE DEF T, x, y
    <3>5. Passed(s, y, T(i - 1) \cup {i}, policy)
      BY <2>1, <2>2, <3>3, PassStep DEF Fired, x
    <3> QED
      BY <3>2, <3>4, <3>5
  <2> QED
    BY <2>3, <2>4
<1> HIDE DEF P
<1>5. Horizon \in P
  BY <1>2, <1>3, <1>4, BoundedInduction
<1> QED
  BY <1>1, <1>2, <1>5 DEF P

\* The due pass: every due point has its row.
LEMMA DueOK ==
  ASSUME sched.misfire \in MisfirePolicies, sched.overlap \in Overlaps,
         NEW s, RowOK(s), NEW points \in SUBSET Times, NEW missed, NEW usable \in BOOLEAN
  PROVE  LET x == FireDue(s, points, missed, usable)
         IN  Passed(s, x, points, sched.overlap) /\ \A t \in points : x.occ[t] # "NONE"
<1> DEFINE skips(t) == MisfireDecision(sched.misfire, missed, t) \in SkipDecisions
           m == SkipDue(s, points, missed)
           T(i) == {t \in 1..i : t \in points}
<1>1. Horizon \in Nat /\ Times = 1..Horizon
  BY SchedulerBounds DEF Times
<1>2. /\ RowOK(m) /\ Since(s, m, points)
      /\ \A q \in Times : m.exec[q] = s.exec[q] /\ (s.occ[q] # "NONE" => m.occ[q] # "NONE")
      /\ \A t \in points : skips(t) => m.occ[t] # "NONE"
  <2>1. PICK f : /\ f[0] = s
                 /\ \A i \in Times : f[i] = IF i \in points THEN SkipPoint(f[i - 1], i, missed) ELSE f[i - 1]
                 /\ \A i \in 0..Horizon : RowOK(f[i])
                 /\ m = f[Horizon]
    BY SkipSteps
  <2> DEFINE Skipped(x, i) ==
               /\ Since(s, x, points)
               /\ \A q \in Times : x.exec[q] = s.exec[q] /\ (s.occ[q] # "NONE" => x.occ[q] # "NONE")
               /\ \A t \in T(i) : skips(t) => x.occ[t] # "NONE"
             P == {i \in 0..Horizon : Skipped(f[i], i)}
  <2>2. 0 \in P
    <3>1. f[0] = s /\ T(0) = {} /\ Since(s, s, points)
      BY <2>1 DEF Since, Kept
    <3> QED
      BY <1>1, <3>1
  <2>3. ASSUME NEW i \in 1..Horizon, i - 1 \in P PROVE i \in P
    <3>1. Skipped(f[i - 1], i - 1) /\ i \in Times /\ i - 1 \in 0..Horizon
      BY <1>1, <2>3
    <3>2. CASE i \notin points
      <4>1. f[i] = f[i - 1] /\ T(i) = T(i - 1)
        BY <2>1, <3>1, <3>2
      <4> QED
        BY <3>1, <4>1
    <3>3. CASE i \in points
      <4> DEFINE x == f[i - 1]
                 y == SkipPoint(x, i, missed)
      <4>1. f[i] = y /\ RowOK(x)
        BY <2>1, <3>1, <3>3
      <4>2. /\ Since(x, y, {i}) /\ y.exec = x.exec
            /\ x.occ[i] # "NONE" => y.occ[i] # "NONE"
            /\ skips(i) => y.occ[i] # "NONE"
        BY <3>1, <4>1, SkipPointOK
      <4>3. T(i) = T(i - 1) \cup {i} /\ T(i) \subseteq Times
        BY <1>1, <3>1, <3>3
      <4> HIDE DEF y, skips, T
      <4>4. \A q \in Times : x.occ[q] # "NONE" => y.occ[q] # "NONE"
        BY <4>2 DEF Since, Kept
      <4>5. Since(s, y, points)
        BY <3>1, <3>3, <4>2 DEF Since, Kept
      <4>6. Skipped(y, i)
        BY <3>1, <4>2, <4>3, <4>4, <4>5
      <4> QED
        BY <4>1, <4>6
    <3> QED
      BY <3>2, <3>3
  <2> HIDE DEF P
  <2>4. Horizon \in P
    BY <1>1, <2>2, <2>3, BoundedInduction
  <2>5. T(Horizon) = points
    BY <1>1
  <2>6. Skipped(m, Horizon) /\ RowOK(m)
    BY <1>1, <2>1, <2>4 DEF P
  <2> QED
    BY <2>5, <2>6
<1> HIDE DEF m
<1>3. PICK f : /\ f[0] = m
               /\ \A i \in Times : f[i] = IF i \in points THEN FirePoint(f[i - 1], i, missed, usable) ELSE f[i - 1]
               /\ \A i \in 0..Horizon : RowOK(f[i])
               /\ FireDue(s, points, missed, usable) = f[Horizon]
  BY <1>2, FireSteps DEF m
<1> DEFINE There(x, i) == \A t \in T(i) : ~skips(t) => x.occ[t] # "NONE"
           P == {i \in 0..Horizon : Passed(m, f[i], T(i), sched.overlap) /\ There(f[i], i)}
<1>4. 0 \in P
  <2>1. f[0] = m /\ T(0) = {}
    BY <1>3
  <2>2. Passed(m, m, {}, sched.overlap)
    BY <1>2, PassStart
  <2> QED
    BY <1>1, <2>1, <2>2
<1>5. ASSUME NEW i \in 1..Horizon, i - 1 \in P PROVE i \in P
  <2>1. Passed(m, f[i - 1], T(i - 1), sched.overlap) /\ There(f[i - 1], i - 1) /\ i \in Times /\ i - 1 \in 0..Horizon
    BY <1>1, <1>5
  <2>2. CASE i \notin points
    <3>1. f[i] = f[i - 1] /\ T(i) = T(i - 1)
      BY <1>3, <2>1, <2>2
    <3> HIDE DEF T, skips
    <3>2. Passed(m, f[i], T(i), sched.overlap) /\ There(f[i], i)
      BY <2>1, <3>1
    <3> QED
      BY <3>2
  <2>3. CASE i \in points
    <3> DEFINE x == f[i - 1]
               y == FirePoint(x, i, missed, usable)
    <3>1. f[i] = y /\ RowOK(x)
      BY <1>3, <2>1, <2>3
    <3>2. /\ RowOK(y) /\ Since(x, y, {i})
          /\ x.occ[i] # "NONE" => y.occ[i] # "NONE"
          /\ ~skips(i) => y.occ[i] # "NONE"
          /\ x.exec[i] # "NONE" => y.exec[i] # "NONE"
          /\ sched.overlap # "ALLOW" /\ x.exec[i] = "NONE" /\ y.exec[i] # "NONE" => Alone(y, i)
      BY <2>1, <3>1, FirePointOK
    <3>3. T(i) = T(i - 1) \cup {i} /\ T(i) \subseteq Times /\ T(i - 1) \in SUBSET (1..(i - 1))
      BY <1>1, <2>1, <2>3
    <3> HIDE DEF y, skips, T, x
    <3>4. Passed(m, y, T(i - 1) \cup {i}, sched.overlap)
      BY <2>1, <3>2, <3>3, PassStep DEF x
    <3>5. \A q \in Times : x.occ[q] # "NONE" => y.occ[q] # "NONE"
      BY <3>2 DEF Since, Kept
    <3>6. There(y, i)
      BY <2>1, <3>2, <3>3, <3>5 DEF x
    <3> HIDE DEF There
    <3>7. Passed(m, f[i], T(i), sched.overlap) /\ There(f[i], i)
      BY <3>1, <3>3, <3>4, <3>6
    <3> QED
      BY <3>7
  <2> QED
    BY <2>2, <2>3
<1> HIDE DEF P
<1>6. Horizon \in P
  BY <1>1, <1>4, <1>5, BoundedInduction
<1>7. T(Horizon) = points
  BY <1>1
<1> DEFINE x == FireDue(s, points, missed, usable)
<1>8. Passed(m, x, points, sched.overlap) /\ \A t \in points : ~skips(t) => x.occ[t] # "NONE"
  BY <1>1, <1>3, <1>6, <1>7 DEF P
<1> HIDE DEF x, skips
<1>9. Passed(s, x, points, sched.overlap)
  <2>1. Since(s, x, points)
    BY <1>2, <1>8, SinceTransitive DEF Passed
  <2> QED
    BY <1>2, <1>8, <2>1 DEF Passed
<1>10. \A t \in points : x.occ[t] # "NONE"
  BY <1>2, <1>8 DEF Passed
<1> QED
  BY <1>9, <1>10 DEF x

-----------------------------------------------------------------------------
(* The due points of an iteration.                                         *)

\* The scan, step by step.
LEMMA ChainSteps ==
  ASSUME NEW rule \in RuleSet, NEW next \in Ticks, NEW ts \in Ticks
  PROVE  \E f : /\ f[0] = next
                /\ \A i \in 1..DueScanLimit :
                     f[i] = IF f[i - 1] = 0 \/ f[i - 1] > ts THEN 0 ELSE NextScheduledAt(rule, f[i - 1])
                /\ \A i \in 0..DueScanLimit : f[i] \in Ticks
                /\ CollectDuePoints(rule, next, ts) =
                     [points |-> {f[i] : i \in 0..(DueScanLimit - 1)} \cap 1..ts,
                      exhausted |-> f[DueScanLimit] \in 1..ts]
<1> DEFINE n == DueScanLimit
           g == [i \in 1..n |-> [r \in Ticks |-> (IF r = 0 \/ r > ts THEN 0 ELSE NextScheduledAt(rule, r))]]
           f[i \in 0..n] == IF i = 0 THEN next
                            ELSE IF f[i - 1] = 0 \/ f[i - 1] > ts THEN 0 ELSE NextScheduledAt(rule, f[i - 1])
           Rec(h) == h = [i \in 0..n |->
                            IF i = 0 THEN next
                            ELSE IF h[i - 1] = 0 \/ h[i - 1] > ts THEN 0 ELSE NextScheduledAt(rule, h[i - 1])]
<1>1. n \in Nat /\ 0 \in Ticks
  BY SchedulerBounds DEF Ticks
<1>2. ASSUME NEW r \in Ticks PROVE (IF r = 0 \/ r > ts THEN 0 ELSE NextScheduledAt(rule, r)) \in Ticks
  BY <1>1, NextIsLeast DEF LeastAfter
<1> HIDE DEF n
<1>3. \E h : Rec(h)
  <2>1. g \in [1..n -> [Ticks -> Ticks]]
    BY <1>2
  <2>2. PICK h \in [0..n -> Ticks] : h[0] = next /\ \A i \in 1..n : h[i] = g[i][h[i - 1]]
    <3> HIDE DEF g
    <3>1. Iterates(n, Ticks, next, g)
      BY <1>1, <2>1, IterationExists
    <3> QED
      BY <3>1 DEF Iterates
  <2>3. ASSUME NEW i \in 1..n
        PROVE  h[i] = IF h[i - 1] = 0 \/ h[i - 1] > ts THEN 0 ELSE NextScheduledAt(rule, h[i - 1])
    <3>1. h[i - 1] \in Ticks
      BY <1>1
    <3> QED
      BY <2>2, <3>1
  <2>4. Rec(h)
    BY <1>1, <2>2, <2>3
  <2> QED
    BY <2>4
<1>4. Rec(f)
  <2>1. f = CHOOSE h : Rec(h)
    OBVIOUS
  <2> HIDE DEF Rec, f
  <2> QED
    BY <1>3, <2>1
<1>5. CollectDuePoints(rule, next, ts) =
        [points |-> {f[i] : i \in 0..(n - 1)} \cap 1..ts, exhausted |-> f[n] \in 1..ts]
  BY DEF CollectDuePoints, n
<1> HIDE DEF f
<1>6. /\ f[0] = next
      /\ \A i \in 1..n : f[i] = IF f[i - 1] = 0 \/ f[i - 1] > ts THEN 0 ELSE NextScheduledAt(rule, f[i - 1])
  <2>1. ASSUME NEW i \in 0..n
        PROVE  f[i] = IF i = 0 THEN next
                      ELSE IF f[i - 1] = 0 \/ f[i - 1] > ts THEN 0 ELSE NextScheduledAt(rule, f[i - 1])
    BY <1>4
  <2>2. 0 \in 0..n /\ \A i \in 1..n : i \in 0..n /\ i # 0
    BY <1>1
  <2> QED
    BY <2>1, <2>2
<1>7. \A i \in 0..n : f[i] \in Ticks
  <2> DEFINE P == {i \in 0..n : f[i] \in Ticks}
  <2>1. 0 \in P
    BY <1>1, <1>6
  <2>2. ASSUME NEW i \in 1..n, i - 1 \in P PROVE i \in P
    BY <1>1, <1>2, <1>6, <2>2
  <2> HIDE DEF P
  <2>3. \A i \in 0..n : i \in P
    BY <1>1, <2>1, <2>2, BoundedInduction
  <2> QED
    BY <2>3 DEF P
<1> QED
  BY <1>5, <1>6, <1>7 DEF n

\* The scan visits points of the rule only, and all of them unless it gives up.
LEMMA CollectOK ==
  ASSUME NEW rule \in RuleSet, NEW ts \in Times, NEW next \in 1..ts, Point(rule, next)
  PROVE  LET d == CollectDuePoints(rule, next, ts)
         IN  /\ d.points \in SUBSET Times
             /\ \A t \in d.points : t >= next /\ t <= ts /\ Point(rule, t)
             /\ ~d.exhausted => \A t \in Times : t >= next /\ t <= ts /\ Point(rule, t) => t \in d.points
<1> DEFINE d == CollectDuePoints(rule, next, ts)
           n == DueScanLimit
<1>1. /\ n \in Nat \ {0} /\ Times \subseteq Ticks /\ Times \subseteq Nat /\ Ticks \subseteq Nat /\ 0 \in Ticks
      /\ next \in Times /\ \A t \in Ticks : t # 0 /\ t <= ts => t \in Times
  BY SchedulerBounds DEF Ticks, Times
<1>2. PICK f : /\ f[0] = next
               /\ \A i \in 1..n :
                    f[i] = IF f[i - 1] = 0 \/ f[i - 1] > ts THEN 0 ELSE NextScheduledAt(rule, f[i - 1])
               /\ \A i \in 0..n : f[i] \in Ticks
               /\ d = [points |-> {f[i] : i \in 0..(n - 1)} \cap 1..ts, exhausted |-> f[n] \in 1..ts]
  BY <1>1, ChainSteps
<1> HIDE DEF n, d
<1> DEFINE Visited(i) == {f[j] : j \in 0..(i - 1)}
           Past(i) == \A t \in Times : /\ t >= next /\ t <= ts /\ Point(rule, t)
                                       /\ f[i] = 0 \/ f[i] > ts \/ t < f[i]
                                       => t \in Visited(i)
           P == {i \in 0..n : (f[i] = 0 \/ (f[i] >= next /\ Point(rule, f[i]))) /\ Past(i)}
<1>3. 0 \in P
  <2>1. f[0] = next /\ next # 0 /\ next <= ts
    BY <1>1, <1>2
  <2>2. \A t \in Times : t >= next => ~(f[0] = 0 \/ f[0] > ts \/ t < f[0])
    BY <1>1, <2>1
  <2> QED
    BY <1>1, <2>1, <2>2
<1>4. ASSUME NEW i \in 1..n, i - 1 \in P PROVE i \in P
  <2>1. /\ f[i - 1] = 0 \/ (f[i - 1] >= next /\ Point(rule, f[i - 1]))
        /\ Past(i - 1)
        /\ i - 1 \in 0..n /\ f[i - 1] \in Ticks /\ f[i] \in Ticks
    BY <1>1, <1>2, <1>4
  <2>2. Visited(i - 1) \cup {f[i - 1]} \subseteq Visited(i)
    BY <1>1
  <2> HIDE DEF Visited
  <2>3. CASE f[i - 1] = 0 \/ f[i - 1] > ts
    <3>1. f[i] = 0
      BY <1>2, <2>3
    <3>2. Past(i)
      BY <2>1, <2>2, <2>3
    <3> QED
      BY <3>1, <3>2
  <2>4. CASE f[i - 1] # 0 /\ ~(f[i - 1] > ts)
    <3>1. f[i] = NextScheduledAt(rule, f[i - 1])
      BY <1>2, <2>4
    <3>2. LeastAfter(rule, f[i - 1], f[i])
      BY <2>1, <3>1, NextIsLeast
    <3>5. f[i - 1] \in Nat /\ f[i] \in Nat /\ next \in Nat /\ ts \in Nat
      BY <1>1, <2>1
    <3>3. f[i] = 0 \/ (f[i] >= next /\ Point(rule, f[i]))
      <4>1. f[i] = 0 \/ (f[i] > f[i - 1] /\ Point(rule, f[i]))
        BY <3>2 DEF LeastAfter
      <4>2. f[i - 1] >= next
        BY <2>1, <2>4
      <4> HIDE DEF P, Past
      <4> QED
        BY <3>5, <4>1, <4>2
    <3>4. ASSUME NEW t \in Times, t >= next, t <= ts, Point(rule, t), f[i] = 0 \/ f[i] > ts \/ t < f[i]
          PROVE  t \in Visited(i)
      <4>1. t <= f[i - 1]
        <5>1. t \in Nat /\ t \in Ticks
          BY <1>1
        <5>2. t > f[i - 1] => f[i] # 0 /\ f[i] <= t
          BY <3>2, <3>4, <3>5, <5>1 DEF LeastAfter
        <5> QED
          BY <3>4, <3>5, <5>1, <5>2
      <4>2. CASE t = f[i - 1]
        BY <2>2, <4>2
      <4>3. CASE t < f[i - 1]
        BY <2>1, <2>2, <3>4, <4>3
      <4> QED
        <5>1. t \in Nat
          BY <1>1
        <5> QED
          BY <3>5, <4>1, <4>2, <4>3, <5>1
    <3> QED
      BY <3>3, <3>4
  <2> QED
    BY <2>3, <2>4
<1> HIDE DEF P
<1>5. \A i \in 0..n : i \in P
  BY <1>1, <1>3, <1>4, BoundedInduction
<1>6. /\ d.points = Visited(n) \cap 1..ts
      /\ d.exhausted <=> f[n] \in 1..ts
  BY <1>2
<1>7. ASSUME NEW t \in d.points PROVE t \in Times /\ t >= next /\ t <= ts /\ Point(rule, t)
  <2>1. PICK j \in 0..(n - 1) : t = f[j]
    BY <1>6
  <2>2. t \in 1..ts /\ j \in 0..n
    BY <1>1, <1>6
  <2> QED
    BY <1>1, <1>2, <1>5, <2>1, <2>2 DEF P
<1>8. ASSUME ~d.exhausted, NEW t \in Times, t >= next, t <= ts, Point(rule, t) PROVE t \in d.points
  <2>1. n \in 0..n /\ f[n] \in Ticks
    BY <1>1, <1>2
  <2>2. Past(n)
    BY <1>5, <2>1 DEF P
  <2>3. f[n] = 0 \/ f[n] > ts
    <3>1. f[n] \in Nat /\ ts \in Nat
      BY <1>1, <2>1
    <3> QED
      BY <1>6, <1>8, <3>1
  <2> HIDE DEF Visited
  <2>4. t \in Visited(n)
    BY <1>8, <2>2, <2>3
  <2> QED
    BY <1>1, <1>6, <1>8, <2>4
<1> QED
  BY <1>7, <1>8 DEF d

-----------------------------------------------------------------------------
(* The invariant.                                                          *)

ScheduleRows ==
  [status : {"PAUSED", "ACTIVE", "COMPLETED", "ERROR"}, next : 0..ZoneEnd,
   rule : Rules, overlap : {policy.overlap : policy \in Policies},
   misfire : {policy.misfire : policy \in Policies}]

\* An Occurrence row and its Execution agree.
RowsAgree == \A p \in Times : RowAgrees(occ[p], exec[p])

\* What the open transaction read is still right in the way the decisions need.
TxOK ==
  tx.phase = "DECIDED" =>
    /\ tx.seen \in [Times -> ExecStatus]
    /\ \A p \in Times : SeenBefore(tx.seen[p], exec[p])
    /\ tx.due = IF Due THEN CollectDuePoints(sched.rule, sched.next, now) ELSE NothingDue

\* next_run_at is a point of the rule.
NextOK == sched.next # 0 => Point(sched.rule, sched.next)

\* No Occurrence lies in the future, and none of a recurrence point beyond next_run_at.
RowsPast ==
  \A p \in Times : occ[p] # "NONE" => p <= now /\ (p % 2 = 0 => sched.next = 0 \/ p < sched.next)

\* Every point owed so far has its row, whatever the status of the Schedule.
Accounted ==
  /\ owedFrom \in 0..ZoneEnd
  /\ owedFrom # 0 =>
       \A t \in Times : t >= owedFrom /\ Point(sched.rule, t) /\ (sched.next = 0 \/ t < sched.next)
                        => occ[t] # "NONE"

SchedulerInv == SchedulerTypeOK /\ RowsAgree /\ TxOK /\ NextOK /\ RowsPast /\ Accounted

\* The rows as the transaction sees them.
RowsNow(seen) == [occ |-> occ, reason |-> reason, exec |-> exec, seen |-> seen]

\* The points the open transaction will fire or skip.
DuePoints == IF Due /\ ~tx.due.exhausted THEN tx.due.points ELSE {}

\* The policies of a Schedule row.
LEMMA PoliciesOK ==
  ASSUME NEW row \in ScheduleRows
  PROVE  row.overlap \in Overlaps /\ row.misfire \in MisfirePolicies /\ row.rule \in RuleSet
<1>1. PICK policy \in Policies : row.overlap = policy.overlap
  BY DEF ScheduleRows
<1>2. PICK other \in Policies : row.misfire = other.misfire
  BY DEF ScheduleRows
<1>3. policy.overlap \in Overlaps
  BY SchedulerBounds DEF Overlaps
<1>4. other.misfire \in MisfirePolicies
  BY SchedulerBounds DEF MisfirePolicies
<1>5. row.rule \in RuleSet
  BY RulesAssumption DEF ScheduleRows
<1> QED
  BY <1>1, <1>2, <1>3, <1>4, <1>5

\* Completing a Schedule changes its status only.
LEMMA CompleteOK ==
  ASSUME NEW row \in ScheduleRows, NEW s
  PROVE  LET x == CompleteSchedule(row, s)
         IN  x \in ScheduleRows /\ x.next = row.next /\ x.rule = row.rule
             /\ x.overlap = row.overlap /\ x.misfire = row.misfire
BY DEF CompleteSchedule, ScheduleRows

\* The points due: those of the rule from next_run_at to now, none with a row yet.
LEMMA DuePointsOK ==
  ASSUME SchedulerInv, tx.phase = "DECIDED"
  PROVE  /\ DuePoints \in SUBSET Times
         /\ \A t \in DuePoints : /\ sched.next # 0 /\ t >= sched.next /\ t <= now
                                 /\ t % 2 = 0 /\ occ[t] = "NONE"
         /\ Due /\ ~tx.due.exhausted =>
              \A t \in Times : t >= sched.next /\ t <= now /\ Point(sched.rule, t) => t \in DuePoints
<1>1. CASE ~(Due /\ ~tx.due.exhausted)
  BY <1>1 DEF DuePoints
<1>2. CASE Due /\ ~tx.due.exhausted
  <2> DEFINE d == CollectDuePoints(sched.rule, sched.next, now)
  <2>1. /\ tx.due = d /\ DuePoints = d.points
        /\ now \in Times /\ sched.next \in 1..now /\ Point(sched.rule, sched.next)
    BY <1>2 DEF SchedulerInv, SchedulerTypeOK, TxOK, NextOK, Due, DuePoints
  <2>2. sched.rule \in Rules /\ sched.rule \in RuleSet /\ sched.next \in Nat /\ now \in Nat
    BY RulesAssumption, SchedulerBounds DEF SchedulerInv, SchedulerTypeOK, Times
  <2>3. /\ d.points \in SUBSET Times
        /\ \A t \in d.points : t >= sched.next /\ t <= now /\ Point(sched.rule, t)
        /\ ~d.exhausted => \A t \in Times : t >= sched.next /\ t <= now /\ Point(sched.rule, t) => t \in d.points
    BY <2>1, <2>2, CollectOK
  <2> HIDE DEF d
  <2>4. ASSUME NEW t \in d.points PROVE t % 2 = 0 /\ occ[t] = "NONE" /\ sched.next # 0
    <3>1. t \in Times /\ t \in 0..ZoneEnd /\ t \in Nat /\ Point(sched.rule, t) /\ t >= sched.next
      BY <2>3, SchedulerBounds DEF Times
    <3>2. t % 2 = 0
      BY <2>2, <3>1, RulesAssumption
    <3>3. sched.next # 0
      BY <2>1
    <3> QED
      BY <2>2, <3>1, <3>2, <3>3 DEF SchedulerInv, RowsPast
  <2> QED
    BY <1>2, <2>1, <2>3, <2>4
<1> QED
  BY <1>1, <1>2

\* The final reconcile.
LEMMA ReconcileOK ==
  ASSUME NEW x, RowOK(x), NEW rows
  PROVE  LET y == Reconciled(x, rows)
         IN  RowOK(y) /\ Since(x, y, {}) /\ y.exec = x.exec
<1> DEFINE y == Reconciled(x, rows)
           new == [p \in Times |-> IF p \in rows /\ ActiveRow(x.occ[p])
                                   THEN ProjectOccurrence(x.exec[p], x.occ[p]) ELSE x.occ[p]]
<1>1. x \in RowStates /\ y = [x EXCEPT !.occ = new]
  BY DEF RowOK, Reconciled
<1>2. ASSUME NEW p \in Times
      PROVE  /\ new[p] \in OccurrenceStatus
             /\ RowAgrees(new[p], x.exec[p])
             /\ new[p] = "NONE" <=> x.occ[p] = "NONE"
             /\ new[p] = "SKIPPED" <=> x.occ[p] = "SKIPPED"
             /\ new[p] = "PLANNED" => x.occ[p] = "PLANNED"
  <2> DEFINE o == x.occ[p]
             e == x.exec[p]
  <2>1. o \in OccurrenceStatus /\ e \in ExecStatus /\ RowAgrees(o, e)
    BY <1>1 DEF RowOK, RowStates
  <2>2. new[p] = IF p \in rows /\ ActiveRow(o) THEN ProjectOccurrence(e, o) ELSE o
    OBVIOUS
  <2> HIDE DEF new, o, e
  <2>3. CASE p \in rows /\ ActiveRow(o)
    BY <2>1, <2>2, <2>3 DEF ActiveRow, ProjectOccurrence, RowAgrees, ExecStatus, OccurrenceStatus, o, e
  <2>4. CASE ~(p \in rows /\ ActiveRow(o))
    BY <2>1, <2>2, <2>4 DEF o, e
  <2> QED
    BY <2>3, <2>4
<1>3. new \in [Times -> OccurrenceStatus]
  BY <1>2
<1> HIDE DEF new, y
<1>4. y \in RowStates /\ y.occ = new /\ y.reason = x.reason /\ y.exec = x.exec /\ y.seen = x.seen
  BY <1>1, <1>3 DEF RowStates
<1>5. RowOK(y)
  BY <1>2, <1>4 DEF RowOK
<1>6. Since(x, y, {})
  BY <1>2, <1>4 DEF Since, Kept, Waits
<1> QED
  BY <1>4, <1>5, <1>6 DEF y

\* The rows a transaction starts from.
LEMMA RowsNowOK ==
  ASSUME SchedulerInv, NEW seen \in [Times -> ExecStatus],
         \A p \in Times : SeenBefore(seen[p], exec[p])
  PROVE  RowOK(RowsNow(seen))
BY DEF SchedulerInv, SchedulerTypeOK, RowsAgree, RowOK, RowStates, RowsNow

\* process_waiting_schedule.
LEMMA WaitingOK ==
  ASSUME SchedulerInv, NEW s, RowOK(s), NEW usable \in BOOLEAN
  PROVE  LET w == WaitingPass(s, usable)
         IN  /\ Passed(s, w.rows, {p \in Times : Held(s, p)}, sched.overlap)
             /\ w.sched \in ScheduleRows /\ w.sched.next = sched.next /\ w.sched.rule = sched.rule
             /\ w.sched.overlap = sched.overlap /\ w.sched.misfire = sched.misfire
<1> DEFINE T == {p \in Times : Held(s, p)}
           released == ReleaseWaiting(s, sched.overlap, usable)
           done == CompleteSchedule(sched, released)
<1>1. sched \in ScheduleRows
  BY DEF SchedulerInv, SchedulerTypeOK, ScheduleRows
<1>2. Passed(s, released, T, sched.overlap)
  BY <1>1, PoliciesOK, ReleaseOK
<1>3. Passed(s, s, T, sched.overlap)
  <2>1. Passed(s, s, {}, sched.overlap) /\ {} \subseteq T
    BY PassStart
  <2> HIDE DEF T
  <2> QED
    BY <2>1, PassWider
<1>4. /\ done \in ScheduleRows /\ done.next = sched.next /\ done.rule = sched.rule
      /\ done.overlap = sched.overlap /\ done.misfire = sched.misfire
  BY <1>1, CompleteOK
<1>5. WaitingPass(s, usable) \in {[rows |-> released, sched |-> done], [rows |-> s, sched |-> sched]}
  BY DEF WaitingPass
<1> HIDE DEF T, released, done
<1> QED
  BY <1>1, <1>2, <1>3, <1>4, <1>5 DEF T

\* process_due_schedule.
LEMMA DuePassOK ==
  ASSUME SchedulerInv, tx.phase = "DECIDED", NEW x, RowOK(x), NEW row \in ScheduleRows, row.next = sched.next,
         row.rule = sched.rule, NEW usable \in BOOLEAN
  PROVE  LET d == DuePass(x, row, usable)
         IN  /\ Passed(x, d.rows, DuePoints, sched.overlap)
             /\ \A t \in DuePoints : d.rows.occ[t] # "NONE"
             /\ d.sched \in ScheduleRows /\ d.sched.rule = sched.rule
             /\ d.sched.next = IF Due /\ ~tx.due.exhausted THEN NextScheduledAt(sched.rule, now) ELSE sched.next
<1> DEFINE d == DuePass(x, row, usable)
<1>1. sched \in ScheduleRows /\ now \in Times
  BY DEF SchedulerInv, SchedulerTypeOK, ScheduleRows
<1>2. CASE ~(Due /\ ~tx.due.exhausted)
  <2>1. DuePoints = {}
    BY <1>2 DEF DuePoints
  <2>2. Passed(x, x, {}, sched.overlap)
    BY PassStart
  <2>3. d.rows = x /\ d.sched \in {row, [row EXCEPT !.status = "ERROR"]}
    BY <1>2 DEF DuePass
  <2> HIDE DEF d
  <2>4. d.sched \in ScheduleRows /\ d.sched.rule = sched.rule /\ d.sched.next = sched.next
    BY <2>3 DEF ScheduleRows
  <2> QED
    BY <1>2, <2>1, <2>2, <2>3, <2>4 DEF d
<1>3. CASE Due /\ ~tx.due.exhausted
  <2> DEFINE fired == FireDue(x, tx.due.points, Missed(tx.due), usable)
             next == NextScheduledAt(sched.rule, now)
             moved == [row EXCEPT !.next = next]
             done == CompleteSchedule(moved, fired)
  <2>1. d.rows = fired /\ d.sched = done
    BY <1>3 DEF DuePass
  <2>2. DuePoints = tx.due.points /\ DuePoints \in SUBSET Times
    BY <1>3, DuePointsOK DEF DuePoints
  <2>3. Passed(x, fired, DuePoints, sched.overlap) /\ \A t \in DuePoints : fired.occ[t] # "NONE"
    <3> sched.misfire \in MisfirePolicies /\ sched.overlap \in Overlaps
      BY <1>1, PoliciesOK
    <3> QED
      BY <2>2, DueOK
  <2>4. next \in 0..ZoneEnd
    <3>1. now \in Ticks /\ sched.rule \in RuleSet
      BY <1>1, PoliciesOK, SchedulerBounds DEF Times, Ticks
    <3> QED
      BY <3>1, NextIsLeast, SchedulerBounds DEF LeastAfter, Ticks
  <2> HIDE DEF fired, next, d
  <2>5. moved \in ScheduleRows /\ moved.next = next /\ moved.rule = sched.rule
    BY <2>4 DEF ScheduleRows
  <2> HIDE DEF moved
  <2>6. done \in ScheduleRows /\ done.next = next /\ done.rule = sched.rule
    BY <2>5, CompleteOK
  <2> QED
    BY <1>3, <2>1, <2>3, <2>6 DEF d, next
<1> QED
  BY <1>2, <1>3

\* The rows a commit goes through: as they are, after the waiting pass, after the due
\* pass, reconciled.
Committed(w, f, z) ==
  /\ Passed(RowsNow(tx.seen), w, {p \in Times : occ[p] = "PLANNED"}, sched.overlap)
  /\ Passed(w, f, DuePoints, sched.overlap)
  /\ \A t \in DuePoints : f.occ[t] # "NONE"
  /\ RowOK(z) /\ Since(f, z, {}) /\ z.exec = f.exec
  /\ occ' = z.occ /\ reason' = z.reason /\ exec' = z.exec
  /\ sched' \in ScheduleRows /\ sched'.rule = sched.rule
  /\ sched'.next = IF Due /\ ~tx.due.exhausted THEN NextScheduledAt(sched.rule, now) ELSE sched.next

LEMMA CommitOK ==
  ASSUME SchedulerInv, CommitIteration
  PROVE  \E w, f, z : Committed(w, f, z)
<1> DEFINE s == RowsNow(tx.seen)
<1>1. PICK usable \in BOOLEAN :
        \E waited \in {WaitingPass(s, usable)} :
        \E result \in {DuePass(waited.rows, waited.sched, usable)} :
        \E rows \in {Reconciled(result.rows, tx.rows)} :
          /\ occ' = rows.occ /\ reason' = rows.reason
          /\ exec' = rows.exec /\ sched' = result.sched
  BY DEF CommitIteration, RowsNow
<1> DEFINE w == WaitingPass(s, usable)
           d == DuePass(w.rows, w.sched, usable)
           z == Reconciled(d.rows, tx.rows)
<1>2. tx.phase = "DECIDED"
  BY DEF CommitIteration
<1>3. RowOK(s)
  BY <1>2, RowsNowOK DEF SchedulerInv, TxOK
<1>4. occ' = z.occ /\ reason' = z.reason /\ exec' = z.exec /\ sched' = d.sched
  BY <1>1
<1>5. {p \in Times : Held(s, p)} \subseteq {p \in Times : occ[p] = "PLANNED"}
  BY DEF Held, RowsNow
<1> HIDE DEF s
<1>6. /\ Passed(s, w.rows, {p \in Times : Held(s, p)}, sched.overlap)
      /\ w.sched \in ScheduleRows /\ w.sched.next = sched.next /\ w.sched.rule = sched.rule
  BY <1>3, WaitingOK
<1>7. Passed(s, w.rows, {p \in Times : occ[p] = "PLANNED"}, sched.overlap) /\ RowOK(w.rows)
  BY <1>5, <1>6, PassWider DEF Passed
<1> HIDE DEF w
<1>8. /\ Passed(w.rows, d.rows, DuePoints, sched.overlap)
      /\ \A t \in DuePoints : d.rows.occ[t] # "NONE"
      /\ d.sched \in ScheduleRows /\ d.sched.rule = sched.rule
      /\ d.sched.next = IF Due /\ ~tx.due.exhausted THEN NextScheduledAt(sched.rule, now) ELSE sched.next
  BY <1>2, <1>6, <1>7, DuePassOK
<1> HIDE DEF d
<1>9. RowOK(z) /\ Since(d.rows, z, {}) /\ z.exec = d.rows.exec
  BY <1>8, ReconcileOK DEF Passed
<1> HIDE DEF z
<1>10. Committed(w.rows, d.rows, z)
  BY <1>4, <1>7, <1>8, <1>9 DEF Committed, s
<1> QED
  BY <1>10

-----------------------------------------------------------------------------
(* The invariant is inductive.                                             *)

LEMMA SchedulerInvInit ==
  ASSUME SchedulerInit
  PROVE  SchedulerInv
<1>1. PICK rule \in Rules, policy \in Policies :
        sched = [status |-> "PAUSED", next |-> 0, rule |-> rule,
                 overlap |-> policy.overlap, misfire |-> policy.misfire]
  BY DEF SchedulerInit
<1>2. SchedulerTypeOK
  <2>1. 1 \in Times /\ 0 \in 0..Horizon /\ 0 \in 0..ZoneEnd
    BY SchedulerBounds DEF Times
  <2>2. sched \in ScheduleRows
    BY <1>1, <2>1 DEF ScheduleRows
  <2>3. tx.phase = "IDLE" /\ tx.rows = {}
    BY DEF SchedulerInit, Idle
  <2> QED
    BY <2>1, <2>2, <2>3
    DEF SchedulerInit, SchedulerTypeOK, ScheduleRows, OccurrenceStatus, Reasons, ExecStatus
<1>3. RowsAgree /\ RowsPast
  BY DEF SchedulerInit, RowsAgree, RowAgrees, RowsPast
<1>4. TxOK /\ NextOK
  BY <1>1 DEF SchedulerInit, TxOK, NextOK, Idle
<1>5. Accounted
  BY SchedulerBounds DEF SchedulerInit, Accounted
<1> QED
  BY <1>2, <1>3, <1>4, <1>5 DEF SchedulerInv

\* The point computed by the API.
LEMMA NextNow ==
  ASSUME SchedulerInv
  PROVE  LET n == NextScheduledAt(sched.rule, now)
         IN  n \in 0..ZoneEnd /\ (n # 0 => Point(sched.rule, n) /\ n > now)
             /\ \A t \in Times : t > now /\ Point(sched.rule, t) => n # 0 /\ n <= t
<1>1. sched \in ScheduleRows /\ now \in Ticks /\ Times \subseteq Ticks
  BY SchedulerBounds DEF SchedulerInv, SchedulerTypeOK, ScheduleRows, Times, Ticks
<1>2. LeastAfter(sched.rule, now, NextScheduledAt(sched.rule, now))
  BY <1>1, PoliciesOK, NextIsLeast
<1>3. 0 \in 0..ZoneEnd /\ now \in Nat
  BY <1>1, SchedulerBounds DEF Ticks
<1> QED
  BY <1>1, <1>2, <1>3 DEF LeastAfter, Ticks

\* Actions that leave the rows and the Schedule alone.
LEMMA QuietStep ==
  ASSUME SchedulerInv, UNCHANGED <<sched, occ, reason, exec, owedFrom>>,
         now' \in Times, now' >= now, staging' \in 0..Horizon,
         tx'.phase \in {"IDLE", "DECIDED", "DOWN"}, tx'.rows \subseteq Times, TxOK'
  PROVE  SchedulerInv'
<1>1. SchedulerTypeOK'
  BY DEF SchedulerInv, SchedulerTypeOK
<1>2. now \in Nat /\ now' \in Nat /\ \A p \in Times : p \in Nat
  BY SchedulerBounds DEF SchedulerInv, SchedulerTypeOK, Times
<1>3. RowsPast'
  <2> SUFFICES ASSUME NEW p \in Times, occ[p] # "NONE"
               PROVE  p <= now' /\ (p % 2 = 0 => sched.next = 0 \/ p < sched.next)
    BY DEF RowsPast
  <2>1. p <= now /\ (p % 2 = 0 => sched.next = 0 \/ p < sched.next)
    BY DEF SchedulerInv, RowsPast
  <2> p <= now'
    BY <1>2, <2>1
  <2> QED
    BY <2>1
<1> QED
  BY <1>1, <1>3 DEF SchedulerInv, RowsAgree, NextOK, Accounted

\* Actions of the API on the Schedule row.
LEMMA ApiStep ==
  ASSUME SchedulerInv, tx.phase # "DECIDED", UNCHANGED <<now, occ, reason, exec, tx, staging>>,
         sched' \in ScheduleRows, owedFrom' \in 0..ZoneEnd,
         NextOK',
         sched'.next = 0 \/ sched'.next = sched.next \/ sched'.next > now,
         owedFrom' # 0 => \/ owedFrom' = sched'.next
                          \/ owedFrom' = owedFrom /\ sched'.next = sched.next /\ sched'.rule = sched.rule
  PROVE  SchedulerInv'
<1>1. SchedulerTypeOK'
  BY DEF SchedulerInv, SchedulerTypeOK, ScheduleRows
<1>2. RowsAgree' /\ TxOK'
  BY DEF SchedulerInv, RowsAgree, TxOK
<1>3. now \in Nat /\ sched.next \in Nat /\ sched'.next \in Nat /\ owedFrom' \in Nat /\ \A p \in Times : p \in Nat
  BY SchedulerBounds DEF SchedulerInv, SchedulerTypeOK, ScheduleRows, Times
<1>4. RowsPast'
  <2> SUFFICES ASSUME NEW p \in Times, occ[p] # "NONE"
               PROVE  p <= now /\ (p % 2 = 0 => sched'.next = 0 \/ p < sched'.next)
    BY DEF RowsPast
  <2>1. p <= now /\ (p % 2 = 0 => sched.next = 0 \/ p < sched.next)
    BY DEF SchedulerInv, RowsPast
  <2>2. CASE sched'.next = 0 \/ sched'.next > now
    BY <1>3, <2>1, <2>2
  <2>3. CASE sched'.next = sched.next
    BY <2>1, <2>3
  <2> QED
    BY <2>2, <2>3
<1>5. Accounted'
  <2>1. ASSUME owedFrom' # 0, NEW t \in Times, t >= owedFrom', Point(sched'.rule, t),
               sched'.next = 0 \/ t < sched'.next
        PROVE  occ'[t] # "NONE"
    <3>1. CASE owedFrom' = sched'.next
      BY <1>3, <2>1, <3>1
    <3>2. CASE owedFrom' = owedFrom /\ sched'.next = sched.next /\ sched'.rule = sched.rule
      BY <2>1, <3>2 DEF SchedulerInv, Accounted
    <3> QED
      BY <2>1, <3>1, <3>2
  <2> QED
    BY <2>1 DEF Accounted
<1> QED
  BY <1>1, <1>2, <1>4, <1>5 DEF SchedulerInv

\* Actions of the workers on an Execution and its Occurrence.
LEMMA WorkerStep ==
  ASSUME SchedulerInv, UNCHANGED <<now, sched, reason, tx, owedFrom>>, staging' \in 0..Horizon,
         occ' \in [Times -> OccurrenceStatus], exec' \in [Times -> ExecStatus],
         \A p \in Times : /\ RowAgrees(occ'[p], exec'[p])
                          /\ occ'[p] = "NONE" <=> occ[p] = "NONE"
                          /\ exec'[p] = "NONE" <=> exec[p] = "NONE"
                          /\ exec[p] \in ExecEnded => exec'[p] = exec[p]
  PROVE  SchedulerInv'
<1>1. SchedulerTypeOK'
  BY DEF SchedulerInv, SchedulerTypeOK, RowAgrees
<1>2. TxOK'
  <2> SUFFICES ASSUME tx.phase = "DECIDED"
               PROVE  \A p \in Times : SeenBefore(tx.seen[p], exec'[p])
    BY DEF SchedulerInv, TxOK, Due
  <2> SUFFICES ASSUME NEW p \in Times PROVE SeenBefore(tx.seen[p], exec'[p])
    OBVIOUS
  <2>1. SeenBefore(tx.seen[p], exec[p])
    BY DEF SchedulerInv, TxOK
  <2> QED
    BY <2>1 DEF SeenBefore
<1> QED
  BY <1>1, <1>2 DEF SchedulerInv, RowsAgree, RowsPast, NextOK, Accounted

\* A commit.
LEMMA CommitStep ==
  ASSUME SchedulerInv, CommitIteration
  PROVE  SchedulerInv'
<1>1. PICK w, f, z : Committed(w, f, z)
  BY CommitOK
<1>2. tx.phase = "DECIDED" /\ tx' = Idle /\ UNCHANGED <<now, staging, edits, owedFrom>>
  BY DEF CommitIteration
<1>3. SchedulerTypeOK'
  <2>1. z \in RowStates /\ \A p \in Times : RowAgrees(z.occ[p], z.exec[p])
    BY <1>1 DEF Committed, RowOK
  <2>2. tx'.phase = "IDLE" /\ tx'.rows = {}
    BY <1>2 DEF Idle
  <2> QED
    BY <1>1, <1>2, <2>1, <2>2 DEF SchedulerInv, SchedulerTypeOK, RowStates, Committed, ScheduleRows, RowAgrees
<1>4. RowsAgree' /\ TxOK'
  BY <1>1, <1>2 DEF Committed, RowOK, RowsAgree, TxOK, Idle
<1> DEFINE n == NextScheduledAt(sched.rule, now)
           fires == Due /\ ~tx.due.exhausted
<1>5. /\ n \in 0..ZoneEnd /\ (n # 0 => Point(sched.rule, n) /\ n > now)
      /\ \A t \in Times : t > now /\ Point(sched.rule, t) => n # 0 /\ n <= t
  BY NextNow
<1> HIDE DEF n, fires
<1>6. sched'.next = (IF fires THEN n ELSE sched.next) /\ sched'.rule = sched.rule
  BY <1>1 DEF Committed, n, fires
<1>7. NextOK'
  BY <1>5, <1>6 DEF SchedulerInv, NextOK
<1>8. now \in Nat /\ sched.next \in Nat /\ n \in Nat /\ \A p \in Times : p \in Nat
  BY <1>5, SchedulerBounds DEF SchedulerInv, SchedulerTypeOK, Times
<1>9. /\ DuePoints \in SUBSET Times /\ (~fires => DuePoints = {})
      /\ \A t \in DuePoints : t <= now
      /\ fires => \A t \in Times : t >= sched.next /\ t <= now /\ Point(sched.rule, t) => t \in DuePoints
  BY <1>2, DuePointsOK DEF DuePoints, fires
<1>10. ASSUME NEW p \in Times
       PROVE  occ'[p] = "NONE" <=> occ[p] = "NONE" /\ p \notin DuePoints
  <2> DEFINE s == RowsNow(tx.seen)
  <2>1. s.occ = occ
    BY DEF RowsNow
  <2>2. w.occ[p] = "NONE" <=> occ[p] = "NONE"
    <3> HIDE DEF s
    <3>1. CASE occ[p] = "PLANNED"
      BY <1>1, <2>1, <3>1 DEF Committed, Passed, s
    <3>2. CASE occ[p] # "PLANNED"
      BY <1>1, <2>1, <3>2 DEF Committed, Passed, Since, Kept, s
    <3> QED
      BY <3>1, <3>2
  <2>3. f.occ[p] = "NONE" <=> w.occ[p] = "NONE" /\ p \notin DuePoints
    <3>1. CASE p \in DuePoints
      BY <1>1, <3>1 DEF Committed
    <3>2. CASE p \notin DuePoints
      BY <1>1, <3>2 DEF Committed, Passed, Since, Kept
    <3> QED
      BY <3>1, <3>2
  <2>4. z.occ[p] = "NONE" <=> f.occ[p] = "NONE"
    BY <1>1 DEF Committed, Since, Kept
  <2> QED
    BY <1>1, <2>2, <2>3, <2>4 DEF Committed
<1>11. RowsPast'
  <2> SUFFICES ASSUME NEW p \in Times, occ'[p] # "NONE"
               PROVE  p <= now /\ (p % 2 = 0 => sched'.next = 0 \/ p < sched'.next)
    BY <1>2 DEF RowsPast
  <2>1. p <= now
    BY <1>9, <1>10 DEF SchedulerInv, RowsPast
  <2>2. CASE fires
    BY <1>5, <1>6, <1>8, <2>1, <2>2
  <2>3. CASE ~fires
    BY <1>6, <1>9, <1>10, <2>1, <2>3 DEF SchedulerInv, RowsPast
  <2> QED
    BY <2>2, <2>3
<1>12. Accounted'
  <2>1. owedFrom' = owedFrom /\ owedFrom \in 0..ZoneEnd
    BY <1>2 DEF SchedulerInv, Accounted
  <2>2. ASSUME owedFrom # 0, NEW t \in Times, t >= owedFrom, Point(sched.rule, t),
               sched'.next = 0 \/ t < sched'.next
        PROVE  occ'[t] # "NONE"
    <3>1. CASE sched.next = 0 \/ t < sched.next
      BY <1>10, <2>2, <3>1 DEF SchedulerInv, Accounted
    <3>2. CASE ~(sched.next = 0 \/ t < sched.next)
      <4>1. fires
        BY <1>6, <2>2, <3>2
      <4>2. t <= now
        BY <1>5, <1>6, <1>8, <2>2, <4>1
      <4>3. t \in DuePoints
        BY <1>8, <1>9, <2>2, <3>2, <4>1, <4>2
      <4> QED
        BY <1>10, <4>3
    <3> QED
      BY <3>1, <3>2
  <2> QED
    BY <1>6, <2>1, <2>2 DEF Accounted
<1> QED
  BY <1>3, <1>4, <1>7, <1>11, <1>12 DEF SchedulerInv

\* What a manual trigger does to the rows.
Triggered(s, x) ==
  /\ RowOK(s) /\ s.exec = exec
  /\ \A p \in Times \ {now} : s.occ[p] = occ[p] /\ s.reason[p] = reason[p]
  /\ s.occ[now] = "PLANNED" /\ occ[now] = "NONE"
  /\ Fired(s, x, now, sched.overlap)
  /\ occ' = x.occ /\ reason' = x.reason /\ exec' = x.exec

LEMMA TriggerOK ==
  ASSUME SchedulerInv, TriggerNow
  PROVE  \E s, x : Triggered(s, x)
<1> DEFINE s == [occ |-> [occ EXCEPT ![now] = "PLANNED"],
                 reason |-> [reason EXCEPT ![now] = "MANUAL_TRIGGER"],
                 exec |-> exec, seen |-> exec]
           x == TryFire(s, now, sched.overlap, TRUE)
<1>1. /\ now \in Times /\ occ \in [Times -> OccurrenceStatus] /\ reason \in [Times -> Reasons]
      /\ exec \in [Times -> ExecStatus] /\ sched \in ScheduleRows
      /\ \A p \in Times : RowAgrees(occ[p], exec[p])
  BY DEF SchedulerInv, SchedulerTypeOK, RowsAgree, ScheduleRows
<1>2. occ[now] = "NONE" /\ exec[now] = "NONE"
  BY <1>1 DEF TriggerNow, RowAgrees
<1>3. occ' = x.occ /\ reason' = x.reason /\ exec' = x.exec
  BY DEF TriggerNow
<1>4. /\ s.exec = exec /\ s.seen = exec /\ s.occ[now] = "PLANNED"
      /\ \A p \in Times \ {now} : s.occ[p] = occ[p] /\ s.reason[p] = reason[p]
  BY <1>1
<1>5. s \in RowStates
  BY <1>1 DEF RowStates, OccurrenceStatus, Reasons
<1> HIDE DEF s
<1>6. \A q \in Times : RowAgrees(s.occ[q], s.exec[q]) /\ SeenBefore(s.seen[q], s.exec[q])
  BY <1>1, <1>2, <1>4 DEF RowAgrees, SeenBefore
<1>7. RowOK(s)
  BY <1>5, <1>6 DEF RowOK
<1>8. sched.overlap \in Overlaps
  BY <1>1, PoliciesOK
<1>9. Fired(s, x, now, sched.overlap)
  BY <1>1, <1>7, <1>8, FireOK
<1> HIDE DEF x
<1>10. Triggered(s, x)
  BY <1>2, <1>3, <1>4, <1>7, <1>9 DEF Triggered
<1> QED
  BY <1>10

LEMMA TriggerStep ==
  ASSUME SchedulerInv, TriggerNow
  PROVE  SchedulerInv'
<1>1. PICK s, x : Triggered(s, x)
  BY TriggerOK
<1>2. tx.phase # "DECIDED" /\ UNCHANGED <<now, sched, tx, staging, edits, owedFrom>> /\ now \in TriggerTicks
  BY DEF TriggerNow, RowFree
<1>3. ASSUME NEW p \in Times
      PROVE  occ'[p] = "NONE" <=> occ[p] = "NONE" /\ p # now
  BY <1>1 DEF Triggered, Fired, Since, Kept
<1>4. x \in RowStates /\ \A p \in Times : RowAgrees(x.occ[p], x.exec[p])
  BY <1>1 DEF Triggered, Fired, RowOK
<1>5. SchedulerTypeOK'
  BY <1>1, <1>2, <1>4 DEF SchedulerInv, SchedulerTypeOK, RowStates, RowAgrees, Triggered
<1>6. RowsAgree'
  BY <1>1, <1>4 DEF RowsAgree, Triggered
<1>7. RowsPast'
  <2>1. now \in Nat /\ now % 2 = 1
    BY <1>2, RulesAssumption
  <2> QED
    BY <1>2, <1>3, <2>1 DEF SchedulerInv, RowsPast
<1>8. Accounted'
  BY <1>2, <1>3 DEF SchedulerInv, Accounted
<1> QED
  BY <1>2, <1>5, <1>6, <1>7, <1>8 DEF SchedulerInv, TxOK, NextOK

\* One step per action.
LEMMA SchedulerInvStep ==
  ASSUME SchedulerInv, [SchedulerNext]_svars
  PROVE  SchedulerInv'
<1>1. /\ now \in Times /\ now \in Nat /\ sched \in ScheduleRows
      /\ occ \in [Times -> OccurrenceStatus] /\ exec \in [Times -> ExecStatus]
      /\ tx.phase \in {"IDLE", "DECIDED", "DOWN"} /\ tx.rows \subseteq Times /\ staging \in 0..Horizon
      /\ \A p \in Times : RowAgrees(occ[p], exec[p])
      /\ NextOK /\ owedFrom \in 0..ZoneEnd
  BY SchedulerBounds DEF SchedulerInv, SchedulerTypeOK, RowsAgree, ScheduleRows, Times, Accounted
<1> DEFINE n == NextScheduledAt(sched.rule, now)
<1>2. n \in 0..ZoneEnd /\ (n # 0 => Point(sched.rule, n) /\ n > now)
  BY NextNow
<1> HIDE DEF n
<1>3. CASE Tick
  <2>1. now' \in Times /\ now' >= now
    BY <1>1, <1>3, SchedulerBounds DEF Tick, Times
  <2> QED
    BY <1>1, <1>3, <2>1, QuietStep DEF Tick, TxOK
<1>4. CASE Activate
  <2>1. /\ sched' = [sched EXCEPT !.status = "ACTIVE", !.next = n] /\ owedFrom' = n
        /\ tx.phase # "DECIDED" /\ UNCHANGED <<now, occ, reason, exec, tx, staging>>
    BY <1>4 DEF Activate, RowFree, n
  <2>2. sched' \in ScheduleRows /\ sched'.next = n /\ sched'.rule = sched.rule
    BY <1>1, <1>2, <2>1 DEF ScheduleRows
  <2>3. NextOK'
    BY <1>2, <2>2 DEF NextOK
  <2> QED
    BY <1>2, <2>1, <2>2, <2>3, ApiStep
<1>5. CASE Pause
  <2>1. /\ sched' = [sched EXCEPT !.status = "PAUSED"] /\ owedFrom' = owedFrom
        /\ tx.phase # "DECIDED" /\ UNCHANGED <<now, occ, reason, exec, tx, staging>>
    BY <1>5 DEF Pause, RowFree
  <2>2. sched' \in ScheduleRows /\ sched'.next = sched.next /\ sched'.rule = sched.rule
    BY <1>1, <2>1 DEF ScheduleRows
  <2>3. NextOK'
    BY <1>1, <2>2 DEF NextOK
  <2> QED
    BY <1>1, <2>1, <2>2, <2>3, ApiStep
<1>6. CASE ResumeSchedule
  <2> DEFINE m == IF sched.next # 0 THEN sched.next ELSE n
  <2>1. /\ sched' = [sched EXCEPT !.status = "ACTIVE", !.next = m]
        /\ owedFrom' = IF sched.next # 0 THEN owedFrom ELSE m
        /\ tx.phase # "DECIDED" /\ UNCHANGED <<now, occ, reason, exec, tx, staging>>
    BY <1>6 DEF ResumeSchedule, RowFree, n
  <2>2. m \in 0..ZoneEnd
    BY <1>1, <1>2 DEF ScheduleRows
  <2>3. m = n \/ m = sched.next
    OBVIOUS
  <2>4. /\ sched.next # 0 => m = sched.next /\ owedFrom' = owedFrom
        /\ sched.next = 0 => m = n /\ owedFrom' = n
    BY <2>1
  <2> HIDE DEF m
  <2>5. sched' \in ScheduleRows /\ sched'.next = m /\ sched'.rule = sched.rule
    BY <1>1, <2>1, <2>2 DEF ScheduleRows
  <2>6. NextOK'
    BY <1>1, <1>2, <2>3, <2>5 DEF NextOK
  <2> QED
    BY <1>1, <1>2, <2>1, <2>3, <2>4, <2>5, <2>6, ApiStep
<1>7. CASE EditSchedule
  <2>1. PICK rule \in Rules, policy \in Policies :
          sched' = [sched EXCEPT !.rule = rule, !.next = 0,
                                 !.overlap = policy.overlap, !.misfire = policy.misfire]
    BY <1>7 DEF EditSchedule
  <2>2. owedFrom' = 0 /\ tx.phase # "DECIDED" /\ UNCHANGED <<now, occ, reason, exec, tx, staging>>
    BY <1>7 DEF EditSchedule, RowFree
  <2>3. sched' \in ScheduleRows /\ sched'.next = 0
    <3>1. /\ policy.overlap \in {other.overlap : other \in Policies}
          /\ policy.misfire \in {other.misfire : other \in Policies}
          /\ 0 \in 0..ZoneEnd
      BY SchedulerBounds
    <3> DEFINE overlap == policy.overlap
               misfire == policy.misfire
    <3>2. /\ sched' = [status |-> sched.status, next |-> 0, rule |-> rule,
                       overlap |-> overlap, misfire |-> misfire]
          /\ sched.status \in {"PAUSED", "ACTIVE", "COMPLETED", "ERROR"}
      BY <1>1, <2>1 DEF ScheduleRows
    <3> HIDE DEF overlap, misfire
    <3>3. /\ overlap \in {other.overlap : other \in Policies}
          /\ misfire \in {other.misfire : other \in Policies}
      BY <3>1 DEF overlap, misfire
    <3> QED
      BY <3>1, <3>2, <3>3 DEF ScheduleRows
  <2>4. NextOK'
    BY <2>3 DEF NextOK
  <2>5. 0 \in 0..ZoneEnd
    BY SchedulerBounds
  <2> QED
    BY <2>2, <2>3, <2>4, <2>5, ApiStep
<1>8. CASE TriggerNow
  BY <1>8, TriggerStep
<1>9. CASE BeginIteration
  <2>1. /\ tx' = [phase |-> "DECIDED", rows |-> {p \in Times : ActiveRow(occ[p])}, seen |-> exec,
                  due |-> IF Due THEN CollectDuePoints(sched.rule, sched.next, now) ELSE NothingDue,
                  needs |-> ReplaceLocks(IF Due THEN CollectDuePoints(sched.rule, sched.next, now)
                                         ELSE NothingDue)]
        /\ UNCHANGED <<now, sched, occ, reason, exec, staging, edits, owedFrom>>
    BY <1>9 DEF BeginIteration
  <2>2. /\ tx'.phase = "DECIDED" /\ tx'.rows \subseteq Times /\ tx'.seen = exec
        /\ tx'.due = IF Due THEN CollectDuePoints(sched.rule, sched.next, now) ELSE NothingDue
    BY <2>1
  <2>3. TxOK'
    BY <1>1, <2>1, <2>2 DEF TxOK, Due, SeenBefore
  <2> QED
    BY <1>1, <2>1, <2>2, <2>3, QuietStep
<1>10. CASE CommitIteration
  BY <1>10, CommitStep
<1>11. CASE SchedulerDies
  <2>1. /\ tx'.phase = "DOWN" /\ tx'.rows = {}
        /\ UNCHANGED <<now, sched, occ, reason, exec, staging, edits, owedFrom>>
    BY <1>11 DEF SchedulerDies, Idle
  <2> QED
    BY <1>1, <2>1, QuietStep DEF TxOK
<1>12. CASE SchedulerRestarts
  <2>1. /\ tx'.phase = "IDLE" /\ tx'.rows = {}
        /\ UNCHANGED <<now, sched, occ, reason, exec, staging, edits, owedFrom>>
    BY <1>12 DEF SchedulerRestarts, Idle
  <2> QED
    BY <1>1, <2>1, QuietStep DEF TxOK
<1>13. CASE WorkerIsVictim
  <2>1. staging' \in 0..Horizon /\ UNCHANGED <<now, sched, occ, reason, exec, tx, edits, owedFrom>>
    BY <1>13, SchedulerBounds DEF WorkerIsVictim
  <2>2. TxOK'
    BY <2>1 DEF SchedulerInv, TxOK, Due
  <2> QED
    BY <1>1, <2>1, <2>2, QuietStep
<1>14. ASSUME NEW p \in Times, LockExecution(p) PROVE SchedulerInv'
  <2>1. staging' \in 0..Horizon /\ UNCHANGED <<now, sched, occ, reason, exec, tx, edits, owedFrom>>
    BY <1>14, SchedulerBounds DEF LockExecution, Times
  <2>2. TxOK'
    BY <2>1 DEF SchedulerInv, TxOK, Due
  <2> QED
    BY <1>1, <2>1, <2>2, QuietStep
<1>15. CASE LockOccurrence
  <2>1. staging \in Times /\ staging' \in 0..Horizon /\ UNCHANGED <<now, sched, reason, tx, owedFrom>>
    BY <1>1, <1>15, SchedulerBounds DEF LockOccurrence, Times
  <2>2. CASE Stageable(staging)
    <3>1. /\ exec' = [exec EXCEPT ![staging] = IF exec[staging] = "CREATED" THEN "QUEUED" ELSE "RUNNING"]
          /\ occ' = [occ EXCEPT ![staging] = IF occ[staging] = "PLANNED" THEN "ENQUEUED" ELSE "RUNNING"]
      BY <1>15, <2>2 DEF LockOccurrence
    <3>2. /\ occ' \in [Times -> OccurrenceStatus] /\ exec' \in [Times -> ExecStatus]
          /\ \A p \in Times \ {staging} : occ'[p] = occ[p] /\ exec'[p] = exec[p]
          /\ occ'[staging] \in {"ENQUEUED", "RUNNING"} /\ exec'[staging] \in {"QUEUED", "RUNNING"}
      BY <1>1, <2>1, <3>1 DEF OccurrenceStatus, ExecStatus
    <3>3. \/ exec[staging] = "CREATED" /\ occ[staging] = "PLANNED"
          \/ exec[staging] = "QUEUED" /\ occ[staging] = "ENQUEUED"
      BY <2>2 DEF Stageable
    <3>4. ASSUME NEW p \in Times
          PROVE  /\ RowAgrees(occ'[p], exec'[p])
                 /\ occ'[p] = "NONE" <=> occ[p] = "NONE"
                 /\ exec'[p] = "NONE" <=> exec[p] = "NONE"
                 /\ exec[p] \in ExecEnded => exec'[p] = exec[p]
      <4>1. CASE p = staging
        BY <3>2, <3>3, <4>1 DEF RowAgrees, ExecEnded
      <4>2. CASE p # staging
        BY <1>1, <3>2, <4>2
      <4> QED
        BY <4>1, <4>2
    <3> QED
      BY <2>1, <3>2, <3>4, WorkerStep
  <2>3. CASE ~Stageable(staging)
    <3>1. exec' = exec /\ occ' = occ
      BY <1>15, <2>3 DEF LockOccurrence
    <3> QED
      BY <1>1, <2>1, <3>1, WorkerStep
  <2> QED
    BY <2>2, <2>3
<1>16. ASSUME NEW p \in Times, NEW e \in ExecStatus, ExecutionMoves(p, e) PROVE SchedulerInv'
  <2>1. /\ exec' = [exec EXCEPT ![p] = e] /\ <<exec[p], e>> \in ExecutionSteps
        /\ UNCHANGED <<now, sched, occ, reason, tx, staging, owedFrom>>
    BY <1>16 DEF ExecutionMoves
  <2>2. /\ exec[p] \in {"RUNNING", "CALLING", "CANCEL_REQUESTED"} /\ e # "NONE"
    BY <2>1 DEF ExecutionSteps
  <2>3. exec' \in [Times -> ExecStatus] /\ exec'[p] = e /\ \A q \in Times \ {p} : exec'[q] = exec[q]
    BY <1>1, <2>1
  <2>4. ASSUME NEW q \in Times
        PROVE  /\ RowAgrees(occ'[q], exec'[q])
               /\ exec'[q] = "NONE" <=> exec[q] = "NONE"
               /\ exec[q] \in ExecEnded => exec'[q] = exec[q]
    <3>1. RowAgrees(occ[q], exec[q]) /\ occ'[q] = occ[q]
      BY <1>1, <2>1
    <3>2. CASE q = p
      BY <2>2, <2>3, <3>1, <3>2 DEF RowAgrees, ExecEnded
    <3>3. CASE q # p
      BY <2>3, <3>1, <3>3
    <3> QED
      BY <3>2, <3>3
  <2> QED
    BY <1>1, <2>1, <2>3, <2>4, WorkerStep
<1>17. CASE UNCHANGED svars
  <2>1. UNCHANGED <<now, sched, occ, reason, exec, tx, staging, owedFrom>>
    BY <1>17 DEF svars
  <2>2. TxOK'
    BY <2>1 DEF SchedulerInv, TxOK, Due
  <2> QED
    BY <1>1, <2>1, <2>2, QuietStep
<1> QED
  BY <1>3, <1>4, <1>5, <1>6, <1>7, <1>8, <1>9, <1>10, <1>11, <1>12, <1>13, <1>14, <1>15, <1>16, <1>17
  DEF SchedulerNext

-----------------------------------------------------------------------------
(* The theorems.                                                           *)

THEOREM SchedulerInvariance == SchedulerSpec => []SchedulerInv
<1>1. SchedulerInit => SchedulerInv
  BY SchedulerInvInit
<1>2. SchedulerInv /\ [SchedulerNext]_svars => SchedulerInv'
  BY SchedulerInvStep
<1> QED
  BY <1>1, <1>2, PTL DEF SchedulerSpec

\* Type correctness: every row keeps its type, and an Execution exists only under an
\* Occurrence row (models/schedule.py).
THEOREM SchedulerTypeCorrect == SchedulerSpec => []SchedulerTypeOK
<1>1. SchedulerInv => SchedulerTypeOK
  BY DEF SchedulerInv
<1> QED
  BY <1>1, SchedulerInvariance, PTL

\* recurrence.py: whatever the rule, the timezone and the instant, the next_run_at the
\* code searches for is the least point of the rule after that instant.
THEOREM NextRunIsLeastPoint == SchedulerSpec => []NextIsLeastPoint
<1>1. SchedulerInv => NextIsLeastPoint
  <2> SUFFICES ASSUME SchedulerInv, NEW rule \in Calendar
               PROVE  LET later == {t \in DOMAIN Zone : t > now /\ Point(rule, t)}
                      IN  NextScheduledAt(rule, now) =
                            IF later = {} THEN 0 ELSE CHOOSE t \in later : \A u \in later : t <= u
    BY DEF NextIsLeastPoint
  <2> DEFINE later == {t \in DOMAIN Zone : t > now /\ Point(rule, t)}
             n == NextScheduledAt(rule, now)
  <2>1. now \in Ticks /\ DOMAIN Zone = Ticks /\ rule \in RuleSet /\ \A t \in Ticks : t \in Nat
    BY SchedulerBounds, ZoneAssumption, RulesAssumption
    DEF SchedulerInv, SchedulerTypeOK, Ticks, Times
  <2>2. LeastAfter(rule, now, n)
    BY <2>1, NextIsLeast
  <2> HIDE DEF n
  <2>3. CASE later = {}
    <3>1. n = 0
      BY <2>1, <2>2, <2>3 DEF LeastAfter
    <3> QED
      BY <2>3, <3>1 DEF n
  <2>4. CASE later # {}
    <3>1. n \in later /\ \A u \in later : n <= u
      BY <2>1, <2>2, <2>4 DEF LeastAfter
    <3>2. \A t \in later : t \in Nat
      BY <2>1
    <3> HIDE DEF later
    <3>3. \A t \in later : (\A u \in later : t <= u) => t = n
      BY <3>1, <3>2
    <3>4. n = CHOOSE t \in later : \A u \in later : t <= u
      BY <3>1, <3>3
    <3> QED
      BY <2>4, <3>4 DEF n, later
  <2> QED
    BY <2>3, <2>4
<1> QED
  BY <1>1, SchedulerInvariance, PTL

\* runtime.py:193: no recurrence point is forgotten, whatever pauses, crashes, late
\* polls and configuration edits came between.
THEOREM NoPointForgotten == SchedulerSpec => []PointsAccounted
<1>1. SchedulerInv => PointsAccounted
  <2> SUFFICES ASSUME SchedulerInv, owedFrom # 0, NEW t \in owedFrom..now,
                      Point(sched.rule, t), sched.next = 0 \/ t < sched.next
               PROVE  occ[t] # "NONE"
    BY DEF PointsAccounted
  <2>1. t \in Times /\ t >= owedFrom
    BY SchedulerBounds DEF SchedulerInv, SchedulerTypeOK, Accounted, Times
  <2> QED
    BY <2>1 DEF SchedulerInv, Accounted
<1> QED
  BY <1>1, SchedulerInvariance, PTL

\* runtime.py:300: an Occurrence ends COMPLETED or FAILED only as its Execution did.
THEOREM OutcomesAgree == SchedulerSpec => []OutcomeAgrees
<1>1. SchedulerInv => OutcomeAgrees
  BY DEF SchedulerInv, RowsAgree, RowAgrees, OutcomeAgrees
<1> QED
  BY <1>1, SchedulerInvariance, PTL

\* runtime.py:532: under SKIP, QUEUE and REPLACE an Execution is created only when no
\* earlier Occurrence is live or held (CreatedAlone): the decision is taken on reads
\* without a lock, and the invariant keeps what was read right to the commit.
THEOREM FiredAlone == SchedulerSpec => CreatedAlone
<1> DEFINE Beside(p, q) ==
             (p % 2 = 0 \/ occ[q] # "NONE") /\ occ'[q] # "SKIPPED" =>
               /\ ~Live(exec'[q])
               /\ ~(occ'[q] = "PLANNED" /\ exec'[q] = "NONE" /\ reason'[q] \in WaitReasons)
           Created(p) == exec[p] = "NONE" /\ exec'[p] # "NONE" /\ sched.overlap # "ALLOW"
           A == \A p \in Times : Created(p) => \A q \in 1..(p - 1) : Beside(p, q)
<1>1. ASSUME SchedulerInv, [SchedulerNext]_svars PROVE A
  <2>1. CASE exec' = exec
    BY <2>1
  <2>2. ASSUME NEW p \in Times, NEW e \in ExecStatus, ExecutionMoves(p, e) PROVE A
    <3>1. exec' = [exec EXCEPT ![p] = e] /\ exec[p] # "NONE" /\ exec \in [Times -> ExecStatus]
      BY <1>1, <2>2 DEF ExecutionMoves, ExecutionSteps, SchedulerInv, SchedulerTypeOK
    <3>2. \A q \in Times : exec[q] = "NONE" => exec'[q] = "NONE"
      BY <3>1
    <3> QED
      BY <3>2
  <2>3. CASE LockOccurrence
    <3>1. CASE Stageable(staging)
      <4>1. /\ exec' = [exec EXCEPT ![staging] = IF @ = "CREATED" THEN "QUEUED" ELSE "RUNNING"]
            /\ exec \in [Times -> ExecStatus] /\ exec[staging] # "NONE"
        BY <1>1, <2>3, <3>1 DEF LockOccurrence, Stageable, SchedulerInv, SchedulerTypeOK
      <4>2. \A q \in Times : exec[q] = "NONE" => exec'[q] = "NONE"
        BY <4>1
      <4> QED
        BY <4>2
    <3>2. CASE ~Stageable(staging)
      BY <2>1, <2>3, <3>2 DEF LockOccurrence
    <3> QED
      BY <3>1, <3>2
  <2>4. ASSUME TriggerNow, NEW p \in Times, Created(p), NEW q \in 1..(p - 1), occ'[q] # "SKIPPED"
        PROVE  /\ ~Live(exec'[q])
               /\ ~(occ'[q] = "PLANNED" /\ exec'[q] = "NONE" /\ reason'[q] \in WaitReasons)
    <3>1. PICK s, x : Triggered(s, x)
      BY <1>1, <2>4, TriggerOK
    <3>2. p = now
      BY <2>4, <3>1 DEF Triggered, Fired, Since, Kept
    <3>3. Alone(x, p)
      BY <2>4, <3>1, <3>2 DEF Triggered, Fired
    <3> QED
      BY <2>4, <3>1, <3>3 DEF Triggered, Alone, Waits
  <2>5. ASSUME CommitIteration, NEW p \in Times, Created(p), NEW q \in 1..(p - 1),
               p % 2 = 0 \/ occ[q] # "NONE", occ'[q] # "SKIPPED"
        PROVE  /\ ~Live(exec'[q])
               /\ ~(occ'[q] = "PLANNED" /\ exec'[q] = "NONE" /\ reason'[q] \in WaitReasons)
    <3>1. PICK w, f, z : Committed(w, f, z)
      BY <1>1, <2>5, CommitOK
    <3> DEFINE s == RowsNow(tx.seen)
    <3>2. s.exec = exec /\ s.occ = occ
      BY DEF RowsNow
    <3> HIDE DEF s
    <3>3. q \in Times /\ q \in Nat /\ p \in Nat /\ q < p
      BY SchedulerBounds DEF Times
    <3>4. SUFFICES ~Live(z.exec[q]) /\ ~Waits(z, q)
      BY <3>1 DEF Committed, Waits
    <3>5. z.occ[q] # "SKIPPED" /\ Kept(f, z, q)
      BY <2>5, <3>1, <3>3 DEF Committed, Since
    <3>6. CASE w.exec[p] # "NONE"
      <4>1. Alone(w, p)
        BY <2>5, <3>1, <3>2, <3>6 DEF Committed, Passed, s
      <4>2. occ[p] = "PLANNED"
        BY <2>5, <3>1, <3>2, <3>6 DEF Committed, Passed, Since, Kept, s
      <4>3. q \notin DuePoints
        <5>1. SUFFICES ASSUME q \in DuePoints PROVE FALSE
          OBVIOUS
        <5>2. tx.phase = "DECIDED"
          BY <2>5 DEF CommitIteration
        <5>3. sched.next # 0 /\ q >= sched.next /\ occ[q] = "NONE"
          BY <1>1, <5>1, <5>2, DuePointsOK
        <5>4. p % 2 = 0
          BY <2>5, <5>3
        <5>5. p < sched.next /\ sched.next \in Nat
          BY <1>1, <4>2, <5>3, <5>4 DEF SchedulerInv, RowsPast, SchedulerTypeOK
        <5> QED
          BY <3>3, <5>3, <5>5
      <4>4. Kept(w, f, q)
        BY <3>1, <3>3, <4>3 DEF Committed, Passed, Since
      <4>5. ~Live(w.exec[q]) /\ ~Waits(w, q)
        BY <3>5, <4>1, <4>4 DEF Alone, Kept
      <4> QED
        BY <3>5, <4>4, <4>5 DEF Kept
    <3>7. CASE w.exec[p] = "NONE"
      <4>1. f.exec[p] # "NONE"
        BY <2>5, <3>1 DEF Committed
      <4>2. Alone(f, p)
        BY <2>5, <3>1, <3>7, <4>1 DEF Committed, Passed
      <4> QED
        BY <3>5, <4>2 DEF Alone, Kept
    <3> QED
      BY <3>6, <3>7
  <2>6. CASE TriggerNow
    BY <2>4, <2>6
  <2>7. CASE CommitIteration
    BY <2>5, <2>7
  <2>8. CASE Tick \/ Activate \/ Pause \/ ResumeSchedule \/ EditSchedule \/ BeginIteration
             \/ SchedulerDies \/ SchedulerRestarts \/ WorkerIsVictim
             \/ (\E p \in Times : LockExecution(p)) \/ UNCHANGED svars
    <3>1. exec' = exec
      BY <2>8 DEF Tick, Activate, Pause, ResumeSchedule, EditSchedule, BeginIteration, SchedulerDies,
                  SchedulerRestarts, WorkerIsVictim, LockExecution, svars
    <3> QED
      BY <2>1, <3>1
  <2> HIDE DEF A
  <2> QED
    BY <1>1, <2>2, <2>3, <2>6, <2>7, <2>8 DEF SchedulerNext
<1>2. SchedulerInv /\ [SchedulerNext]_svars => [A]_svars
  BY <1>1
<1>3. SchedulerSpec => [][A]_svars
  <2> HIDE DEF A
  <2> QED
    BY <1>2, SchedulerInvariance, PTL DEF SchedulerSpec
<1> QED
  BY <1>3 DEF CreatedAlone
=============================================================================
