--------------------------- MODULE OrchestratorProofs ---------------------------
(***************************************************************************)
(* Proofs about the Execution orchestrator: first WaveExecution, for every *)
(* Plan, any number of tasks, attempts and faults, then LoopRuntime, for   *)
(* every Plan of FOR_EACH and WHILE LOOPs and any number of crashes.       *)
(*                                                                         *)
(* Waves.  Any number of tasks may believe that they drive the Execution;  *)
(* the lease decides which of them does.  The invariant says what the      *)
(* lease is worth: whoever holds it live knows, from its own wave alone,   *)
(* which calls are in flight and which outcomes are unknown.  The          *)
(* transactions that do not compare the lease only ever end the Execution. *)
(*                                                                         *)
(* LOOPs.  The invariant says what a checkpoint is worth while the         *)
(* Execution is RUNNING: only the last iteration of a RUNNING LOOP is      *)
(* open, the gates of a WHILE keep step with its iterations, those of a    *)
(* FOR_EACH stay within its pin, and no row of a task that goes on has an  *)
(* unknown outcome.  The rows are counted by a recursive sum.              *)
(***************************************************************************)
EXTENDS WaveExecution, LoopRuntime, FiniteSetTheorems, SequenceTheorems, WellFoundedInduction, TLAPS

(* The inductive invariant, part by part.                                  *)

StepStates == StepTerminal \union {"PENDING", "READY", "RUNNING", "WAITING_APPROVAL"}
ExecStates == ExecTerminal \union {"QUEUED", "RUNNING", "WAITING_APPROVAL", "CANCEL_REQUESTED"}
Codes == {"NONE", "WHEN_FALSE", "UPSTREAM_SKIPPED", "STOPPED", "ERROR"}
Driven == {"RUNNING", "CANCEL_REQUESTED"}

\* The Plan passed validation: its order is one of all its Steps, and names no
\* other; the dependencies of a Step are Steps.
PlanSound ==
  /\ plan.steps \in Seq(PlanStep)
  /\ plan.maxParallelism \in Nat
  /\ plan.order \in Seq(Steps)
  /\ \A k \in Steps : \E i \in DOMAIN plan.order : plan.order[i] = k
  /\ \A k \in Steps : Deps(k) \subseteq Steps

\* Only a running task holds a token, no two hold the same, and only an
\* Execution that is being driven has one.
TokensSound ==
  /\ \A w \in Tasks : own[w] = 0 <=> task[w] = "idle"
  /\ \A v, w \in Tasks : v # w /\ own[v] = own[w] => own[v] = 0
  /\ leaseLive => lease # 0
  /\ lease # 0 => exec \in Driven

\* A Step is RUNNING exactly when its latest call is STARTED.
CallsMatch == \A k \in Steps : callSt[k] = "STARTED" <=> st[k] = "RUNNING"

\* The task with the live lease drives every call that is in flight, and every
\* call it waits for is in flight.
CallsOwned ==
  \A w \in Tasks : task[w] # "idle" /\ OwnsWave(w) =>
    \A k \in Steps : callSt[k] = "STARTED" <=> task[w] = "run" /\ out[w][k] = "called"

\* A TOOL whose policy asks for an approval is alone in its wave.
AskingAlone ==
  \A w \in Tasks : task[w] = "run" =>
    \A k \in Steps : out[w][k] # "none" /\ plan.steps[k].asks =>
      \A j \in Steps \ {k} : out[w][j] = "none"

\* The task with the live lease has yet to settle every unknown outcome.
UnknownsOwned ==
  \A w \in Tasks : task[w] # "idle" /\ OwnsWave(w) =>
    \A k \in Steps : st[k] = "UNKNOWN_OUTCOME" =>
      task[w] \in {"run", "settle"} /\ out[w][k] = "UNKNOWN_OUTCOME"

\* Attempts left: a Step that may still start has one, and an unsafe Step
\* that may still start has not started.
AttemptsLeft ==
  \A k \in Steps :
    /\ st[k] = "PENDING" => tries[k] = 0
    /\ st[k] \in {"READY", "WAITING_APPROVAL"} => tries[k] < MaxAttempts
    /\ ~plan.steps[k].safe /\ st[k] \in {"READY", "WAITING_APPROVAL"} => tries[k] = 0
    /\ ~plan.steps[k].safe => tries[k] <= 1

\* What a dependency must be for its dependents to go on.
DepsDone(s, k) ==
  \A d \in Deps(k) :
    s[d] = "SUCCEEDED" \/ ContinuableKnownFailure(plan.steps[d].onError, s[d])

\* No Step gets ahead of its dependencies.
DepsHold ==
  \A k \in Steps :
    tries[k] > 0 \/ st[k] \in {"READY", "RUNNING", "WAITING_APPROVAL"} => DepsDone(st, k)

\* A TOOL that waits for its approval keeps its slot.
Slots(s) == {k \in Steps : IsTool(k) /\ s[k] \in {"READY", "RUNNING", "WAITING_APPROVAL"}}

SlotsBounded == Cardinality(Slots(st)) <= plan.maxParallelism

\* Exactly the Execution that waits has a waiting Step, and just one.
OneWaits(s) ==
  \E k \in Steps : s[k] = "WAITING_APPROVAL" /\ \A j \in Steps \ {k} : s[j] # "WAITING_APPROVAL"

WaitsMatch ==
  /\ exec = "WAITING_APPROVAL" =>
       /\ OneWaits(st)
       /\ \A k \in Steps : callSt[k] # "STARTED" /\ st[k] # "UNKNOWN_OUTCOME"
  /\ exec \in Driven => \A k \in Steps : st[k] # "WAITING_APPROVAL"

\* Nothing has happened to an Execution in the queue.
QueuedIsNew == exec = "QUEUED" => \A k \in Steps : st[k] = "PENDING"

WaveInv ==
  /\ WaveTypeOK
  /\ PlanSound
  /\ TokensSound
  /\ CallsMatch
  /\ CallsOwned
  /\ AskingAlone
  /\ UnknownsOwned
  /\ AttemptsLeft
  /\ DepsHold
  /\ SlotsBounded
  /\ WaitsMatch
  /\ QueuedIsNew
  /\ SuccessIsComplete

-----------------------------------------------------------------------------
(* Induction up to a bound, over a set rather than a predicate.            *)

\* A nonempty set of naturals up to n has its least element.
LEMMA MinIsMember ==
  ASSUME NEW n \in Nat, NEW W, W \subseteq 0 .. n, W # {}
  PROVE  Min(W) \in W /\ \A y \in W : Min(W) <= y
<1> DEFINE Below(x) == {y \in W : y < x}
           T == {U \in SUBSET W : \E x \in W : U = Below(x)}
           R == StrictSubsetOrdering(W)
<1>1. IsFiniteSet(W)
  <2>1. IsFiniteSet(0 .. n)
    BY FS_Interval
  <2> QED
    BY <2>1, FS_Subset
<1> \A x \in W : Below(x) \in T
  OBVIOUS
<1>2. T \subseteq FiniteSubsetsOf(W) /\ T # {}
  <2> HIDE DEF Below
  <2> QED
    BY <1>1, FS_FiniteSubsetsOfFinite
<1>3. PICK t \in T : \A u \in T : ~(<<u, t>> \in R)
  <2> HIDE DEF T, R
  <2>1. IsWellFoundedOn(R, FiniteSubsetsOf(W))
    BY FS_StrictSubsetOrderingWellFounded DEF R
  <2> QED
    BY <1>2, <2>1, WFMin
<1>4. PICK m \in W : t = Below(m)
  OBVIOUS
<1>5. ASSUME NEW y \in W PROVE m <= y
  <2>1. SUFFICES ASSUME y < m PROVE FALSE
    OBVIOUS
  <2>2. Below(y) \subseteq Below(m)
    <3> SUFFICES ASSUME NEW z \in Below(y) PROVE z < m
      OBVIOUS
    <3> y \in Nat /\ m \in Nat /\ z \in Nat /\ z < y
      OBVIOUS
    <3> QED
      BY <2>1
  <2>3. y \in Below(m) /\ y \notin Below(y)
    BY <2>1
  <2>4. <<Below(y), Below(m)>> \in R
    <3> HIDE DEF Below
    <3> Below(y) \in SUBSET W /\ Below(m) \in SUBSET W
      BY DEF Below
    <3> QED
      BY <2>2, <2>3 DEF StrictSubsetOrdering
  <2> QED
    BY <1>3, <1>4, <2>2, <2>4
<1> QED
  BY <1>4, <1>5 DEF Min

\* A set that holds 0 and, with every number below n, the next one.
LEMMA BoundedInduction ==
  ASSUME NEW n \in Nat, NEW P, 0 \in P, \A i \in 1 .. n : i - 1 \in P => i \in P
  PROVE  \A i \in 0 .. n : i \in P
<1> DEFINE W == (0 .. n) \ P
<1>1. SUFFICES ASSUME W # {} PROVE FALSE
  OBVIOUS
<1>2. Min(W) \in W /\ \A y \in W : Min(W) <= y
  BY <1>1, MinIsMember
<1>3. PICK m \in W : \A y \in W : m <= y
  BY <1>2
<1>4. m \in 1 .. n /\ m - 1 \in 0 .. n
  OBVIOUS
<1>5. m - 1 \in P
  BY <1>3, <1>4
<1> QED
  BY <1>4, <1>5

\* The values along n steps, the i-th one by g[i], that start at s and stay in S.
Iterates(n, S, s, g) ==
  \E h \in [0 .. n -> S] : h[0] = s /\ \A i \in 1 .. n : h[i] = g[i][h[i - 1]]

\* They exist.
LEMMA IterationExists ==
  ASSUME NEW n \in Nat, NEW S, NEW s \in S, NEW g \in [1 .. n -> [S -> S]]
  PROVE  Iterates(n, S, s, g)
<1> DEFINE Upto(m, h) == h[0] = s /\ \A i \in 1 .. m : h[i] = g[i][h[i - 1]]
           P == {m \in 0 .. n : \E h \in [0 .. m -> S] : Upto(m, h)}
<1>1. 0 \in P
  <2> DEFINE z == [i \in 0 .. 0 |-> s]
  <2>1. z \in [0 .. 0 -> S] /\ Upto(0, z)
    OBVIOUS
  <2> HIDE DEF Upto, z
  <2> QED
    BY <2>1
<1>2. ASSUME NEW i \in 1 .. n, i - 1 \in P PROVE i \in P
  <2>1. PICK h \in [0 .. i - 1 -> S] : Upto(i - 1, h)
    BY <1>2
  <2> DEFINE x == [j \in 0 .. i |-> IF j = i THEN g[i][h[i - 1]] ELSE h[j]]
  <2>2. x \in [0 .. i -> S]
    OBVIOUS
  <2>3. Upto(i, x)
    <3>1. x[0] = s
      BY <2>1
    <3>2. ASSUME NEW j \in 1 .. i PROVE x[j] = g[j][x[j - 1]]
      <4>1. x[j - 1] = h[j - 1]
        OBVIOUS
      <4>2. CASE j = i
        BY <4>1, <4>2
      <4>3. CASE j # i
        BY <2>1, <4>1, <4>3
      <4> QED
        BY <4>2, <4>3
    <3> QED
      BY <3>1, <3>2
  <2> HIDE DEF Upto, x
  <2> QED
    BY <2>2, <2>3
<1> HIDE DEF P
<1>3. \A i \in 0 .. n : i \in P
  BY <1>1, <1>2, BoundedInduction
<1> QED
  BY <1>3 DEF P, Iterates

-----------------------------------------------------------------------------
(* What validation promises of a Plan.                                     *)

\* An order that has grown by Kahn's algorithm: no Step twice, and each after
\* its dependencies.
Grown(p, q) ==
  /\ q \in Seq(DOMAIN p.steps)
  /\ \A i, j \in DOMAIN q : q[i] = q[j] => i = j
  /\ \A i \in DOMAIN q : p.steps[q[i]].deps \subseteq ToSet(q)

Free(p, q) == {k \in DOMAIN p.steps \ ToSet(q) : p.steps[k].deps \subseteq ToSet(q)}

Grow(p, q) == IF Free(p, q) = {} THEN q ELSE Append(q, Min(Free(p, q)))

\* One more Step keeps the order free of repetitions and of foreign Steps.
LEMMA GrowKeeps ==
  ASSUME NEW p, p.steps \in Seq(PlanStep), NEW q, Grown(p, q)
  PROVE  Grown(p, Grow(p, q))
<1>1. CASE Free(p, q) = {}
  BY <1>1 DEF Grow
<1>2. CASE Free(p, q) # {}
  <2>1. Free(p, q) \subseteq DOMAIN p.steps /\ DOMAIN p.steps = 1 .. Len(p.steps)
    BY DEF Free
  <2>2. Len(p.steps) \in Nat /\ Free(p, q) \subseteq 0 .. Len(p.steps)
    BY <2>1
  <2>3. PICK k \in Free(p, q) : k = Min(Free(p, q))
    BY <1>2, <2>2, MinIsMember
  <2>4. /\ k \in DOMAIN p.steps
        /\ k \notin ToSet(q)
        /\ p.steps[k].deps \subseteq ToSet(q)
    BY <2>3 DEF Free
  <2> DEFINE x == Append(q, k)
  <2>5. /\ x \in Seq(DOMAIN p.steps)
        /\ Len(x) = Len(q) + 1
        /\ DOMAIN x = 1 .. Len(q) + 1
        /\ DOMAIN q = 1 .. Len(q)
        /\ Len(q) \in Nat
        /\ \A i \in DOMAIN q : x[i] = q[i]
        /\ x[Len(q) + 1] = k
    BY <2>4 DEF Grown
  <2>6. \A i \in DOMAIN q : q[i] # k
    BY <2>4 DEF ToSet
  <2> HIDE DEF x
  <2>7. ToSet(q) \subseteq ToSet(x)
    BY <2>5 DEF ToSet
  <2>8. \A i, j \in DOMAIN x : x[i] = x[j] => i = j
    <3> SUFFICES ASSUME NEW i \in DOMAIN x, NEW j \in DOMAIN x, x[i] = x[j] PROVE i = j
      OBVIOUS
    <3>1. i \in DOMAIN q \/ i = Len(q) + 1
      BY <2>5
    <3>2. j \in DOMAIN q \/ j = Len(q) + 1
      BY <2>5
    <3> QED
      BY <2>5, <2>6, <3>1, <3>2 DEF Grown
  <2>9. \A i \in DOMAIN x : p.steps[x[i]].deps \subseteq ToSet(x)
    BY <2>4, <2>5, <2>7 DEF Grown
  <2>10. Grow(p, q) = x
    BY <1>2, <2>3 DEF Grow, x
  <2> QED
    BY <2>5, <2>8, <2>9, <2>10 DEF Grown
<1> QED
  BY <1>1, <1>2

\* The order of a Plan, whether or not it holds every Step.
LEMMA OrderGrows ==
  ASSUME NEW p, p.steps \in Seq(PlanStep)
  PROVE  Grown(p, Order(p))
<1> DEFINE n == Len(p.steps)
           S == {q \in Seq(DOMAIN p.steps) : Grown(p, q)}
           g == [i \in 1 .. n |-> [q \in S |-> Grow(p, q)]]
           all == DOMAIN p.steps
           f[i \in 0 .. n] ==
             IF i = 0 THEN << >>
             ELSE LET prev == f[i - 1]
                      free == {k \in all \ ToSet(prev) : p.steps[k].deps \subseteq ToSet(prev)}
                  IN  IF free = {} THEN prev ELSE Append(prev, Min(free))
           Rec(h) == h = [i \in 0 .. n |-> IF i = 0 THEN << >> ELSE Grow(p, h[i - 1])]
<1>1. n \in Nat
  OBVIOUS
<1>2. << >> \in S
  BY DEF Grown
<1>3. \A q \in S : Grow(p, q) \in S
  BY GrowKeeps DEF Grown
<1>4. \E h : Rec(h)
  <2> HIDE DEF n, S
  <2>1. g \in [1 .. n -> [S -> S]]
    BY <1>3
  <2>2. PICK h \in [0 .. n -> S] : h[0] = << >> /\ \A i \in 1 .. n : h[i] = g[i][h[i - 1]]
    <3> HIDE DEF g
    <3>1. Iterates(n, S, << >>, g)
      BY <1>1, <1>2, <2>1, IterationExists
    <3> QED
      BY <3>1 DEF Iterates
  <2>3. ASSUME NEW i \in 1 .. n PROVE h[i] = Grow(p, h[i - 1])
    <3>1. h[i - 1] \in S
      BY <1>1
    <3> QED
      BY <2>2, <3>1
  <2>4. Rec(h)
    BY <1>1, <2>2, <2>3
  <2> QED
    BY <2>4
<1>5. f = CHOOSE h : Rec(h)
  BY DEF Grow, Free
<1>6. Rec(f)
  <2> HIDE DEF Rec, f
  <2> QED
    BY <1>4, <1>5
<1> HIDE DEF f, S
<1>7. \A i \in 0 .. n : f[i] \in S
  <2> DEFINE P == {i \in 0 .. n : f[i] \in S}
  <2>1. 0 \in P
    BY <1>1, <1>2, <1>6
  <2>2. ASSUME NEW i \in 1 .. n, i - 1 \in P PROVE i \in P
    <3>1. f[i] = Grow(p, f[i - 1])
      BY <1>1, <1>6
    <3> QED
      BY <1>3, <2>2, <3>1
  <2> HIDE DEF P
  <2>3. \A i \in 0 .. n : i \in P
    BY <1>1, <2>1, <2>2, BoundedInduction
  <2> QED
    BY <2>3 DEF P
<1>8. Order(p) = f[n]
  BY DEF Order, f
<1> QED
  BY <1>1, <1>7, <1>8 DEF S

\* A valid Plan: its order names every Step once, and every dependency is a Step.
LEMMA ValidPlanIsSound ==
  ASSUME NEW p \in Plans, ValidDag(p), plan = ToolJoinDag(p)
  PROVE  PlanSound
<1> DEFINE n == Len(p.steps)
           q == Order(p)
<1>1. p.steps \in Seq(PlanStep) /\ p.maxParallelism \in Nat
  BY WaveBounds
<1>2. n \in Nat /\ DOMAIN p.steps = 1 .. n
  BY <1>1
<1>3. Grown(p, q) /\ Len(q) = n
  BY <1>1, OrderGrows DEF ValidDag
<1>4. q \in [1 .. n -> 1 .. n] /\ DOMAIN q = 1 .. n
  BY <1>2, <1>3 DEF Grown
<1>5. \A k \in 1 .. n : \E i \in 1 .. n : q[i] = k
  <2>1. IsFiniteSet(1 .. n) /\ Cardinality(1 .. n) = n
    BY <1>2, FS_Interval
  <2>2. q \in Injection(1 .. n, 1 .. n)
    BY <1>3, <1>4 DEF Grown, Injection, IsInjective
  <2> HIDE DEF q, n
  <2>3. q \in Surjection(1 .. n, 1 .. n)
    BY <2>1, <2>2, FS_Injection
  <2> QED
    BY <2>3 DEF Surjection
<1>6. \A k \in 1 .. n : p.steps[k].deps \subseteq 1 .. n
  <2> SUFFICES ASSUME NEW k \in 1 .. n PROVE p.steps[k].deps \subseteq 1 .. n
    OBVIOUS
  <2>1. PICK i \in 1 .. n : q[i] = k
    BY <1>5
  <2>2. p.steps[k].deps \subseteq ToSet(q)
    BY <1>3, <1>4, <2>1 DEF Grown
  <2>3. ToSet(q) \subseteq 1 .. n
    BY <1>4 DEF ToSet
  <2> QED
    BY <2>2, <2>3
<1>7. /\ plan.steps = p.steps
      /\ plan.maxParallelism = p.maxParallelism
      /\ plan.order = q
  BY DEF ToolJoinDag
<1> HIDE DEF n, q
<1>8. Steps = 1 .. n /\ plan.order \in Seq(Steps) /\ DOMAIN plan.order = 1 .. n
  BY <1>2, <1>3, <1>4, <1>7 DEF Steps, Grown
<1>9. \A k \in Steps : \E i \in DOMAIN plan.order : plan.order[i] = k
  BY <1>5, <1>7, <1>8
<1> QED
  BY <1>1, <1>6, <1>7, <1>8, <1>9 DEF PlanSound, Deps

\* Steps have distinct positions in the order.
LEMMA Positions ==
  ASSUME PlanSound, NEW k \in Steps
  PROVE  Position(k) \in DOMAIN plan.order /\ plan.order[Position(k)] = k
BY DEF PlanSound, Position

\* FirstOf takes no more than it is asked for.
LEMMA FirstOfBounded ==
  ASSUME PlanSound, NEW S, S \subseteq Steps, NEW n \in Nat
  PROVE  /\ FirstOf(S, n) \subseteq S
         /\ IsFiniteSet(FirstOf(S, n))
         /\ Cardinality(FirstOf(S, n)) <= n
<1> DEFINE F == FirstOf(S, n)
           N == Len(plan.order)
<1>1. N \in Nat /\ DOMAIN plan.order = 1 .. N
  BY DEF PlanSound
<1>2. F \subseteq S
  BY DEF FirstOf
<1>3. IsFiniteSet(Steps)
  <2>1. Len(plan.steps) \in Nat /\ Steps = 1 .. Len(plan.steps)
    BY DEF PlanSound, Steps
  <2> QED
    BY <2>1, FS_Interval
<1>4. IsFiniteSet(S) /\ IsFiniteSet(F)
  BY <1>2, <1>3, FS_Subset
<1>5. Cardinality(F) \in Nat
  BY <1>4, FS_CardinalityType
<1>6. ASSUME Cardinality(F) > n PROVE FALSE
  <2>1. F # {}
    BY <1>5, <1>6, FS_EmptySet
  <2> DEFINE D(k) == N - Position(k)
             W == {D(k) : k \in F}
  <2>2. \A k \in F : Position(k) \in 1 .. N /\ D(k) \in 0 .. N
    BY <1>1, <1>2, Positions
  <2>3. W \subseteq 0 .. N /\ W # {}
    BY <2>1, <2>2
  <2>4. Min(W) \in W /\ \A y \in W : Min(W) <= y
    <3> HIDE DEF W, N
    <3> QED
      BY <1>1, <2>3, MinIsMember
  <2>5. PICK m \in F : \A k \in F : D(m) <= D(k)
    BY <2>4
  <2>6. \A k \in F : Position(k) <= Position(m)
    BY <1>1, <2>2, <2>5
  <2> DEFINE B == {j \in S : Position(j) < Position(m)}
  <2>7. F \ {m} \subseteq B
    <3> SUFFICES ASSUME NEW k \in F, k # m PROVE k \in B
      OBVIOUS
    <3>1. Position(k) # Position(m)
      BY <1>2, Positions
    <3> QED
      BY <1>1, <1>2, <2>2, <2>6, <3>1
  <2>8. Cardinality(B) < n
    BY DEF FirstOf
  <2>9. IsFiniteSet(B)
    BY <1>4, FS_Subset
  <2>10. Cardinality(F \ {m}) = Cardinality(F) - 1
    BY <1>4, FS_RemoveElement
  <2>11. Cardinality(F \ {m}) <= Cardinality(B) /\ Cardinality(B) \in Nat
    <3> HIDE DEF B, F
    <3> QED
      BY <2>7, <2>9, FS_Subset, FS_CardinalityType
  <2> HIDE DEF B, F
  <2> QED
    BY <1>5, <1>6, <2>8, <2>10, <2>11
<1> QED
  BY <1>2, <1>4, <1>5, <1>6

\* There is always a token that no task holds, and a new lease takes one.
LEMMA FreshToken ==
  ASSUME WaveTypeOK, NEW w \in Tasks, FreshLease(w)
  PROVE  /\ lease' \in Nat \ {0}
         /\ leaseLive' = TRUE
         /\ own' = [own EXCEPT ![w] = lease']
         /\ \A x \in Tasks : own[x] # lease'
<1> DEFINE c == Cardinality(Tasks)
           T == (1 .. c + 1) \ {own[x] : x \in Tasks}
<1>1. IsFiniteSet(Tasks) /\ c \in Nat
  BY WaveBounds, FS_CardinalityType
<1>2. T # {}
  <2>1. SUFFICES ASSUME \A t \in 1 .. c + 1 : \E x \in Tasks : own[x] = t PROVE FALSE
    OBVIOUS
  <2> DEFINE f == [t \in 1 .. c + 1 |-> CHOOSE x \in Tasks : own[x] = t]
  <2>2. f \in [1 .. c + 1 -> Tasks] /\ \A t \in 1 .. c + 1 : own[f[t]] = t
    BY <2>1
  <2> HIDE DEF f
  <2>3. IsFiniteSet(1 .. c + 1) /\ Cardinality(1 .. c + 1) = c + 1
    BY <1>1, FS_Interval
  <2>4. \E s, t \in 1 .. c + 1 : s # t /\ f[s] = f[t]
    BY <1>1, <2>2, <2>3, FS_PigeonHole
  <2> QED
    BY <2>2, <2>4
<1>3. T \subseteq 0 .. c + 1 /\ c + 1 \in Nat
  BY <1>1
<1>4. Min(T) \in T
  <2> HIDE DEF T
  <2> QED
    BY <1>2, <1>3, MinIsMember
<1>5. lease' = Min(T) /\ leaseLive' = TRUE /\ own' = [own EXCEPT ![w] = lease']
  BY DEF FreshLease
<1>6. lease' \in T
  BY <1>4, <1>5
<1> HIDE DEF c
<1> QED
  BY <1>1, <1>5, <1>6

-----------------------------------------------------------------------------
(* Local reconciliation: what the passes may do before the Execution is    *)
(* written back.                                                           *)

LocalRecs ==
  [st : [Steps -> StepStates], code : [Steps -> Codes], exec : ExecStates,
   req : [Steps -> RequestStates], stop : BOOLEAN]

KnownEnds == StepTerminal \ {"UNKNOWN_OUTCOME"}

\* A Step stays, ends without a call in flight, or an APPROVAL Step waits.
LocalChange(r, k) ==
  \/ r.st[k] = st[k]
  \/ st[k] \in {"PENDING", "READY"} /\ r.st[k] \in KnownEnds
  \/ /\ st[k] = "PENDING"
     /\ r.st[k] = "WAITING_APPROVAL"
     /\ ~IsTool(k)
     /\ DepsDone(r.st, k)

\* A local state between two passes over a running Execution.
Local(r) ==
  /\ r \in LocalRecs
  /\ \A k \in Steps : LocalChange(r, k)
  /\ ~r.stop => r.exec = "RUNNING" /\ \A k \in Steps : r.st[k] # "WAITING_APPROVAL"
  /\ r.stop => \/ r.exec \in {"FAILED", "TIMED_OUT"}
               \/ r.exec = "WAITING_APPROVAL" /\ OneWaits(r.st)

\* The database itself is a local state.
LEMMA LocalStart ==
  ASSUME WaveTypeOK, WaitsMatch, exec = "RUNNING"
  PROVE  Local(LocalState)
BY DEF WaveTypeOK, WaitsMatch, Driven, Local, LocalState, LocalRecs, LocalChange, StepStates,
       ExecStates, Codes

\* One Step ends.
LEMMA SetStepLocal ==
  ASSUME NEW r, Local(r), ~r.stop, NEW k \in Steps, r.st[k] \in {"PENDING", "READY"},
         NEW s \in KnownEnds, NEW c \in Codes
  PROVE  Local(SetStep(r, k, s, c)) /\ ~SetStep(r, k, s, c).stop
<1> DEFINE x == SetStep(r, k, s, c)
<1>1. r \in LocalRecs
  BY DEF Local
<1>2. x \in LocalRecs /\ x.stop = r.stop /\ x.exec = r.exec
  BY <1>1 DEF SetStep, LocalRecs, StepStates, KnownEnds
<1>3. x.st[k] = s /\ \A j \in Steps \ {k} : x.st[j] = r.st[j]
  BY <1>1 DEF SetStep, LocalRecs
<1> HIDE DEF x
<1>4. st[k] \in {"PENDING", "READY"}
  BY DEF Local, LocalChange, KnownEnds, StepTerminal
<1>5. \A j \in Steps : LocalChange(x, j)
  <2> SUFFICES ASSUME NEW j \in Steps PROVE LocalChange(x, j)
    OBVIOUS
  <2>1. LocalChange(r, j) /\ r.st[j] # "WAITING_APPROVAL"
    BY DEF Local
  <2> QED
    BY <1>3, <1>4, <2>1 DEF LocalChange
<1>6. \A j \in Steps : x.st[j] # "WAITING_APPROVAL"
  BY <1>3 DEF Local, KnownEnds, StepTerminal
<1> QED
  BY <1>2, <1>5, <1>6 DEF Local, x

\* Untouched Steps end; nothing else changes.
LEMMA StopUntouchedEffect ==
  ASSUME NEW r \in LocalRecs
  PROVE  /\ StopUntouched(r) \in LocalRecs
         /\ StopUntouched(r).exec = r.exec
         /\ StopUntouched(r).req = r.req
         /\ \A k \in Steps : \/ StopUntouched(r).st[k] = r.st[k]
                             \/ /\ r.st[k] \in {"PENDING", "READY"}
                                /\ StopUntouched(r).st[k] \in KnownEnds
<1> DEFINE y == StopUntouched(r)
<1>1. /\ y.st = [k \in Steps |->
                  CASE r.st[k] = "PENDING" -> "SKIPPED"
                    [] r.st[k] = "READY" /\ IsTool(k) /\ tries[k] = 0 -> "CANCELLED"
                    [] OTHER -> r.st[k]]
      /\ y.code = [k \in Steps |->
                    IF r.st[k] = "PENDING" \/ (r.st[k] = "READY" /\ IsTool(k) /\ tries[k] = 0)
                      THEN "STOPPED" ELSE r.code[k]]
      /\ y.exec = r.exec
      /\ y.req = r.req
  BY DEF StopUntouched, LocalRecs
<1>2. y = [r EXCEPT !.st = y.st, !.code = y.code]
  BY <1>1 DEF StopUntouched, LocalRecs
<1> HIDE DEF y
<1>3. \A k \in Steps : \/ y.st[k] = r.st[k]
                       \/ r.st[k] \in {"PENDING", "READY"} /\ y.st[k] \in KnownEnds
  BY <1>1 DEF KnownEnds, StepTerminal
<1>4. y.st \in [Steps -> StepStates]
  BY <1>1 DEF LocalRecs, StepStates, StepTerminal
<1>5. y.code \in [Steps -> Codes]
  BY <1>1 DEF LocalRecs, Codes
<1>6. [r EXCEPT !.st = y.st, !.code = y.code] \in LocalRecs
  BY <1>4, <1>5 DEF LocalRecs
<1> QED
  BY <1>1, <1>2, <1>3, <1>6 DEF y

\* The Execution stops.
LEMMA StopLocal ==
  ASSUME NEW r, Local(r), ~r.stop, NEW status \in {"FAILED", "TIMED_OUT"}
  PROVE  Local(StopWith(r, status))
<1> DEFINE x == StopWith(r, status)
           y == StopUntouched(r)
<1>1. r \in LocalRecs
  BY DEF Local
<1>2. /\ y \in LocalRecs
      /\ \A k \in Steps : \/ y.st[k] = r.st[k]
                          \/ r.st[k] \in {"PENDING", "READY"} /\ y.st[k] \in KnownEnds
  BY <1>1, StopUntouchedEffect
<1> HIDE DEF y
<1>3. x \in LocalRecs /\ x.st = y.st /\ x.stop = TRUE /\ x.exec = status
  BY <1>2 DEF StopWith, y, LocalRecs, ExecStates, ExecTerminal
<1> HIDE DEF x
<1>4. \A k \in Steps : LocalChange(x, k)
  <2> SUFFICES ASSUME NEW k \in Steps PROVE LocalChange(x, k)
    OBVIOUS
  <2>1. LocalChange(r, k) /\ r.st[k] # "WAITING_APPROVAL"
    BY DEF Local
  <2>2. \/ x.st[k] = r.st[k]
        \/ r.st[k] \in {"PENDING", "READY"} /\ x.st[k] \in KnownEnds
    BY <1>2, <1>3
  <2> QED
    BY <2>1, <2>2 DEF LocalChange, KnownEnds, StepTerminal
<1> QED
  BY <1>3, <1>4 DEF Local, x

\* A Step passes its gate, or is skipped, or stops the Execution.
LEMMA GateLocal ==
  ASSUME NEW r, Local(r), ~r.stop, NEW k \in Steps, r.st[k] = "PENDING", NEW x, Local(x)
  PROVE  Local(Gated(r, k, x))
<1>1. CASE plan.steps[k].gate = "ERROR"
  <2>1. Local(SetStep(r, k, "FAILED", "ERROR")) /\ ~SetStep(r, k, "FAILED", "ERROR").stop
    BY SetStepLocal DEF KnownEnds, StepTerminal, Codes
  <2>2. Local(StopWith(SetStep(r, k, "FAILED", "ERROR"), "FAILED"))
    BY <2>1, StopLocal
  <2> QED
    BY <1>1, <2>2 DEF Gated
<1>2. CASE plan.steps[k].gate = "FALSE"
  <2>1. Local(SetStep(r, k, "SKIPPED", "WHEN_FALSE"))
    BY SetStepLocal DEF KnownEnds, StepTerminal, Codes
  <2> QED
    BY <1>2, <2>1 DEF Gated
<1>3. CASE plan.steps[k].gate \notin {"ERROR", "FALSE"}
  BY <1>3 DEF Gated
<1> QED
  BY <1>1, <1>2, <1>3

\* An APPROVAL Step enters its wait.
LEMMA EnterLocal ==
  ASSUME PlanSound, NEW r, Local(r), ~r.stop, NEW k \in Steps, Eligible(r, k, "APPROVAL")
  PROVE  Local([SetStep(r, k, "WAITING_APPROVAL", "NONE") EXCEPT
                  !.req[k] = "PENDING", !.exec = "WAITING_APPROVAL", !.stop = TRUE])
<1> DEFINE y == SetStep(r, k, "WAITING_APPROVAL", "NONE")
           x == [y EXCEPT !.req[k] = "PENDING", !.exec = "WAITING_APPROVAL", !.stop = TRUE]
<1>1. r \in LocalRecs
  BY DEF Local
<1>2. /\ y \in LocalRecs
      /\ y.st[k] = "WAITING_APPROVAL"
      /\ \A j \in Steps \ {k} : y.st[j] = r.st[j]
  BY <1>1 DEF SetStep, LocalRecs, StepStates, Codes
<1> HIDE DEF y
<1>3. /\ x \in LocalRecs
      /\ x.st = y.st
      /\ x.stop = TRUE
      /\ x.exec = "WAITING_APPROVAL"
  BY <1>2 DEF LocalRecs, ExecStates, RequestStates
<1> HIDE DEF x
<1>4. /\ r.st[k] = "PENDING"
      /\ ~IsTool(k)
      /\ \A d \in Deps(k) : ProgressionComplete(r, d)
      /\ Deps(k) \subseteq Steps
  BY DEF Eligible, IsTool, PlanSound
<1>5. st[k] = "PENDING"
  BY <1>4 DEF Local, LocalChange, KnownEnds, StepTerminal
<1>6. DepsDone(x.st, k)
  <2> SUFFICES ASSUME NEW d \in Deps(k)
               PROVE  \/ x.st[d] = "SUCCEEDED"
                      \/ ContinuableKnownFailure(plan.steps[d].onError, x.st[d])
    BY DEF DepsDone
  <2>1. d # k
    BY <1>4 DEF ProgressionComplete, ContinuableKnownFailure
  <2>2. x.st[d] = r.st[d]
    BY <1>2, <1>3, <1>4, <2>1
  <2> QED
    BY <1>4, <2>2 DEF ProgressionComplete
<1>7. \A j \in Steps : LocalChange(x, j)
  <2> SUFFICES ASSUME NEW j \in Steps PROVE LocalChange(x, j)
    OBVIOUS
  <2>1. LocalChange(r, j) /\ r.st[j] # "WAITING_APPROVAL"
    BY DEF Local
  <2> QED
    BY <1>2, <1>3, <1>4, <1>5, <1>6, <2>1 DEF LocalChange
<1>8. OneWaits(x.st)
  BY <1>2, <1>3 DEF OneWaits, Local
<1>9. Local(x)
  BY <1>3, <1>7, <1>8 DEF Local
<1> QED
  BY <1>9 DEF x, y

\* The passes of a round.
PassNames == {"PRUNE", "CONDITION", "COMPLETE_APPROVAL", "ENTER_APPROVAL", "WHEN", "JOIN"}

\* Every pass over one Step keeps the local state sound.
LEMMA WorkLocal ==
  ASSUME PlanSound, NEW r, Local(r), NEW k \in Steps, NEW pass \in PassNames
  PROVE  Local(LocalWork(r, pass, k))
<1> USE DEF KnownEnds, StepTerminal, Codes
<1>1. Local(Prune(r, k))
  BY SetStepLocal DEF Prune
<1>2. Local(EvaluateCondition(r, k))
  <2>1. CASE ~r.stop /\ Eligible(r, k, "CONDITION")
    <3>1. r.st[k] = "PENDING"
      BY <2>1 DEF Eligible
    <3>2. Local(SetStep(r, k, "SUCCEEDED", "NONE"))
      BY <2>1, <3>1, SetStepLocal
    <3> QED
      BY <2>1, <3>1, <3>2, GateLocal DEF EvaluateCondition
  <2> QED
    BY <2>1 DEF EvaluateCondition
<1>3. Local(CompleteApproval(r, k))
  BY SetStepLocal, StopLocal DEF CompleteApproval
<1>4. Local(EnterApproval(r, k))
  <2>1. CASE ~r.stop /\ Eligible(r, k, "APPROVAL")
    <3>1. r.st[k] = "PENDING"
      BY <2>1 DEF Eligible
    <3>2. Local([SetStep(r, k, "WAITING_APPROVAL", "NONE") EXCEPT
                   !.req[k] = "PENDING", !.exec = "WAITING_APPROVAL", !.stop = TRUE])
      BY <2>1, EnterLocal
    <3>3. Local(Gated(r, k, [SetStep(r, k, "WAITING_APPROVAL", "NONE") EXCEPT
                   !.req[k] = "PENDING", !.exec = "WAITING_APPROVAL", !.stop = TRUE]))
      BY <2>1, <3>1, <3>2, GateLocal
    <3> QED
      BY <3>3 DEF EnterApproval
  <2> QED
    BY <2>1 DEF EnterApproval
<1>5. Local(GateTool(r, k))
  BY GateLocal DEF GateTool, Eligible
<1>6. Local(EvaluateJoin(r, k))
  <2>1. CASE ~r.stop /\ JoinBarrierReady(r, k)
    <3> DEFINE s == JoinPolicy(plan.steps[k].policy, {r.st[d] : d \in Deps(k)})
               c == IF s = "FAILED" THEN "ERROR" ELSE "NONE"
               j == SetStep(r, k, s, c)
               x == IF s = "SUCCEEDED" \/ ContinuableKnownFailure(plan.steps[k].onError, s)
                      THEN j ELSE StopWith(j, FailFastStatus(s))
    <3>1. r.st[k] = "PENDING"
      BY <2>1 DEF JoinBarrierReady
    <3>2. plan.steps[k].policy \in {"ALL_SUCCESS", "ANY_SUCCESS", "ALL_COMPLETE"}
      <4>1. plan.steps[k] \in PlanStep
        BY DEF PlanSound, Steps
      <4> QED
        BY <4>1 DEF PlanStep
    <3>3. s \in {"SUCCEEDED", "FAILED"}
      BY <3>2 DEF JoinPolicy
    <3>4. c \in Codes
      OBVIOUS
    <3> HIDE DEF s, c
    <3>5. Local(j) /\ ~j.stop
      BY <2>1, <3>1, <3>3, <3>4, SetStepLocal
    <3> HIDE DEF j
    <3>6. Local(StopWith(j, FailFastStatus(s)))
      BY <3>5, StopLocal DEF FailFastStatus
    <3>7. Local(x)
      BY <3>5, <3>6
    <3> HIDE DEF x
    <3>8. Local(Gated(r, k, x))
      BY <2>1, <3>1, <3>7, GateLocal
    <3>9. EvaluateJoin(r, k) = Gated(r, k, x)
      BY <2>1 DEF EvaluateJoin, x, j, c, s
    <3> QED
      BY <3>8, <3>9
  <2> QED
    BY <2>1 DEF EvaluateJoin
<1> QED
  BY <1>1, <1>2, <1>3, <1>4, <1>5, <1>6 DEF LocalWork, PassNames

\* A pass over every Step keeps it sound.
LEMMA PassLocal ==
  ASSUME PlanSound, NEW r, Local(r), NEW pass \in PassNames
  PROVE  Local(PassOver(r, pass))
<1> DEFINE n == Len(plan.order)
           S == {x \in LocalRecs : Local(x)}
           g == [i \in 1 .. n |-> [x \in S |-> LocalWork(x, pass, plan.order[i])]]
           f[i \in 0 .. n] ==
             IF i = 0 THEN r ELSE The({LocalWork(x, pass, plan.order[i]) : x \in {f[i - 1]}})
           RecT(h) == h = [i \in 0 .. n |->
                             IF i = 0 THEN r
                             ELSE The({LocalWork(x, pass, plan.order[i]) : x \in {h[i - 1]}})]
           Rec(h) == h = [i \in 0 .. n |->
                            IF i = 0 THEN r ELSE LocalWork(h[i - 1], pass, plan.order[i])]
<1>1. n \in Nat /\ DOMAIN plan.order = 1 .. n
  BY DEF PlanSound
<1>2. r \in S
  BY DEF Local
<1>3. ASSUME NEW x \in S, NEW i \in 1 .. n PROVE LocalWork(x, pass, plan.order[i]) \in S
  <2>1. plan.order[i] \in Steps
    BY <1>1 DEF PlanSound
  <2>2. Local(LocalWork(x, pass, plan.order[i]))
    BY <2>1, WorkLocal
  <2> QED
    BY <2>2 DEF Local
<1> HIDE DEF n, S
<1>4. \E h : Rec(h)
  <2>1. g \in [1 .. n -> [S -> S]]
    BY <1>3
  <2>2. PICK h \in [0 .. n -> S] : h[0] = r /\ \A i \in 1 .. n : h[i] = g[i][h[i - 1]]
    <3> HIDE DEF g
    <3>1. Iterates(n, S, r, g)
      BY <1>1, <1>2, <2>1, IterationExists
    <3> QED
      BY <3>1 DEF Iterates
  <2>3. ASSUME NEW i \in 1 .. n PROVE h[i] = LocalWork(h[i - 1], pass, plan.order[i])
    <3>1. h[i - 1] \in S
      BY <1>1
    <3> QED
      BY <2>2, <3>1
  <2>4. Rec(h)
    BY <1>1, <2>2, <2>3
  <2> QED
    BY <2>4
<1>5. \A h : RecT(h) <=> Rec(h)
  <2>1. \A h, i : The({LocalWork(x, pass, plan.order[i]) : x \in {h[i - 1]}}) = LocalWork(h[i - 1], pass, plan.order[i])
    BY DEF The
  <2> QED
    BY <2>1
<1>6. Rec(f)
  <2>1. f = CHOOSE h : RecT(h)
    OBVIOUS
  <2> HIDE DEF Rec, RecT, f
  <2> QED
    BY <1>4, <1>5, <2>1
<1> HIDE DEF f
<1>7. \A i \in 0 .. n : f[i] \in S
  <2> DEFINE P == {i \in 0 .. n : f[i] \in S}
  <2>1. 0 \in P
    BY <1>1, <1>2, <1>6
  <2>2. ASSUME NEW i \in 1 .. n, i - 1 \in P PROVE i \in P
    <3>1. f[i] = LocalWork(f[i - 1], pass, plan.order[i])
      BY <1>1, <1>6
    <3> QED
      BY <1>3, <2>2, <3>1
  <2> HIDE DEF P
  <2>3. \A i \in 0 .. n : i \in P
    BY <1>1, <2>1, <2>2, BoundedInduction
  <2> QED
    BY <2>3 DEF P
<1>8. PassOver(r, pass) = f[n]
  BY DEF PassOver, f, n
<1> QED
  BY <1>1, <1>7, <1>8 DEF S

\* So does a round of the six passes.
LEMMA RoundLocal ==
  ASSUME PlanSound, NEW r, Local(r)
  PROVE  Local(ReconcileRound(r))
<1> DEFINE r1 == PassOver(r, "PRUNE")
           r2 == PassOver(r1, "CONDITION")
           r3 == PassOver(r2, "COMPLETE_APPROVAL")
           r4 == PassOver(r3, "ENTER_APPROVAL")
           r5 == PassOver(r4, "WHEN")
<1>1. Local(r1)
  BY PassLocal DEF PassNames
<1> HIDE DEF r1
<1>2. Local(r2)
  BY <1>1, PassLocal DEF PassNames
<1> HIDE DEF r2
<1>3. Local(r3)
  BY <1>2, PassLocal DEF PassNames
<1> HIDE DEF r3
<1>4. Local(r4)
  BY <1>3, PassLocal DEF PassNames
<1> HIDE DEF r4
<1>5. Local(r5)
  BY <1>4, PassLocal DEF PassNames
<1> HIDE DEF r5
<1>6. Local(PassOver(r5, "JOIN"))
  BY <1>5, PassLocal DEF PassNames
<1> QED
  BY <1>6 DEF ReconcileRound, r1, r2, r3, r4, r5

\* And so do all of them: the result is one local state away from the database.
LEMMA ReconcileLocal ==
  ASSUME WaveTypeOK, PlanSound, WaitsMatch, exec = "RUNNING"
  PROVE  Local(LocalReconcile)
<1> DEFINE n == Len(plan.order)
           S == {x \in LocalRecs : Local(x)}
           g == [i \in 1 .. n |-> [x \in S |-> ReconcileRound(x)]]
           f[i \in 0 .. n] ==
             IF i = 0 THEN LocalState ELSE The({ReconcileRound(x) : x \in {f[i - 1]}})
           RecT(h) == h = [i \in 0 .. n |->
                             IF i = 0 THEN LocalState
                             ELSE The({ReconcileRound(x) : x \in {h[i - 1]}})]
           Rec(h) == h = [i \in 0 .. n |->
                            IF i = 0 THEN LocalState ELSE ReconcileRound(h[i - 1])]
<1>1. n \in Nat /\ DOMAIN plan.order = 1 .. n
  BY DEF PlanSound
<1>2. LocalState \in S
  BY LocalStart DEF Local
<1>3. ASSUME NEW x \in S, NEW i \in 1 .. n PROVE ReconcileRound(x) \in S
  <2>1. Local(ReconcileRound(x))
    BY RoundLocal
  <2> QED
    BY <2>1 DEF Local
<1> HIDE DEF n, S
<1>4. \E h : Rec(h)
  <2>1. g \in [1 .. n -> [S -> S]]
    BY <1>3
  <2>2. PICK h \in [0 .. n -> S] : h[0] = LocalState /\ \A i \in 1 .. n : h[i] = g[i][h[i - 1]]
    <3> HIDE DEF g
    <3>1. Iterates(n, S, LocalState, g)
      BY <1>1, <1>2, <2>1, IterationExists
    <3> QED
      BY <3>1 DEF Iterates
  <2>3. ASSUME NEW i \in 1 .. n PROVE h[i] = ReconcileRound(h[i - 1])
    <3>1. h[i - 1] \in S
      BY <1>1
    <3> QED
      BY <2>2, <3>1
  <2>4. Rec(h)
    BY <1>1, <2>2, <2>3
  <2> QED
    BY <2>4
<1>5. \A h : RecT(h) <=> Rec(h)
  <2>1. \A h, i : The({ReconcileRound(x) : x \in {h[i - 1]}}) = ReconcileRound(h[i - 1])
    BY DEF The
  <2> QED
    BY <2>1
<1>6. Rec(f)
  <2>1. f = CHOOSE h : RecT(h)
    OBVIOUS
  <2> HIDE DEF Rec, RecT, f
  <2> QED
    BY <1>4, <1>5, <2>1
<1> HIDE DEF f
<1>7. \A i \in 0 .. n : f[i] \in S
  <2> DEFINE P == {i \in 0 .. n : f[i] \in S}
  <2>1. 0 \in P
    BY <1>1, <1>2, <1>6
  <2>2. ASSUME NEW i \in 1 .. n, i - 1 \in P PROVE i \in P
    <3>1. f[i] = ReconcileRound(f[i - 1])
      BY <1>1, <1>6
    <3> QED
      BY <1>3, <2>2, <3>1
  <2> HIDE DEF P
  <2>3. \A i \in 0 .. n : i \in P
    BY <1>1, <2>1, <2>2, BoundedInduction
  <2> QED
    BY <2>3 DEF P
<1>8. LocalReconcile = f[n]
  BY DEF LocalReconcile, f, n
<1> QED
  BY <1>1, <1>7, <1>8 DEF S

-----------------------------------------------------------------------------
(* What a step does to one ExecutionStep.                                  *)

\* It stays, ends, waits, resumes, starts a call or is retried.
Stays(k) == st'[k] = st[k] /\ callSt'[k] = callSt[k] /\ tries'[k] = tries[k]

Finishes(k) ==
  /\ st[k] \notin StepTerminal
  /\ st'[k] \in StepTerminal
  /\ callSt'[k] # "STARTED"
  /\ tries'[k] = tries[k]

Suspends(k) ==
  /\ st[k] = "READY" \/ (st[k] = "PENDING" /\ ~IsTool(k) /\ DepsDone(st', k))
  /\ st'[k] = "WAITING_APPROVAL"
  /\ callSt'[k] = callSt[k]
  /\ tries'[k] = tries[k]

Resumes(k) ==
  /\ st[k] = "WAITING_APPROVAL"
  /\ st'[k] = "READY"
  /\ callSt'[k] = callSt[k]
  /\ tries'[k] = tries[k]

Starts(k) ==
  /\ st[k] = "READY"
  /\ st'[k] = "RUNNING"
  /\ callSt'[k] = "STARTED"
  /\ tries'[k] = tries[k] + 1

Retries(k) ==
  /\ st[k] = "RUNNING"
  /\ st'[k] = "READY"
  /\ callSt'[k] # "STARTED"
  /\ plan.steps[k].safe
  /\ tries[k] < MaxAttempts
  /\ tries'[k] = tries[k]

StepMove(k) == Stays(k) \/ Finishes(k) \/ Suspends(k) \/ Resumes(k) \/ Starts(k) \/ Retries(k)

\* A TOOL whose dependencies are done takes a free slot.
Promoted(k) ==
  /\ st[k] = "PENDING"
  /\ st'[k] = "READY"
  /\ callSt'[k] = callSt[k]
  /\ tries'[k] = tries[k]
  /\ DepsDone(st', k)

\* The promotions, at the claim and at the reservation of a wave.
Promotion == \E w \in Tasks : WaveClaim(w) \/ PrepareReserves(w)

\* A local state is written back.
LEMMA ApplyMoves ==
  ASSUME CallsMatch, NEW r, Local(r), NEW j \in Steps,
         st'[j] = r.st[j], st' = r.st, callSt' = callSt, tries' = tries
  PROVE  StepMove(j)
<1>1. CASE st'[j] = st[j]
  BY <1>1 DEF StepMove, Stays
<1>2. CASE st[j] \in {"PENDING", "READY"} /\ st'[j] \in KnownEnds
  BY <1>2 DEF StepMove, Finishes, KnownEnds, StepTerminal, CallsMatch
<1>3. CASE st[j] = "PENDING" /\ st'[j] = "WAITING_APPROVAL" /\ ~IsTool(j) /\ DepsDone(st', j)
  BY <1>3 DEF StepMove, Suspends
<1> QED
  BY <1>1, <1>2, <1>3 DEF Local, LocalChange

\* The fields of the local state of the database.
LEMMA LocalStateRec ==
  ASSUME WaveTypeOK
  PROVE  /\ LocalState \in LocalRecs
         /\ LocalState.st = st
         /\ LocalState.code = code
         /\ LocalState.exec = exec
         /\ LocalState.req = req
BY DEF WaveTypeOK, LocalState, LocalRecs, StepStates, ExecStates, Codes

\* What cancellation does over statuses s and calls c.
LEMMA CancelEffect ==
  ASSUME WaveTypeOK, NEW s \in [Steps -> StepStates], NEW c, ReconcileCancel(s, c)
  PROVE  /\ callSt' = c
         /\ st' \in [Steps -> StepStates]
         /\ req' \in [Steps -> RequestStates]
         /\ \A j \in Steps : \/ st'[j] = s[j]
                             \/ /\ s[j] \notin StepTerminal
                                /\ c[j] # "STARTED"
                                /\ st'[j] = "CANCELLED"
         /\ \/ /\ exec' = "CANCEL_REQUESTED"
               /\ st' = s
               /\ UNCHANGED <<lease, leaseLive, req>>
            \/ /\ exec' \in {"FAILED", "CANCELLED"}
               /\ \A j \in Steps : c[j] # "STARTED"
               /\ lease' = 0 /\ leaseLive' = FALSE
<1>1. exec' \in {"CANCEL_REQUESTED", "FAILED", "CANCELLED"} /\ callSt' = c
  BY DEF ReconcileCancel, CancelVerdict
<1>2. CASE exec' = "CANCEL_REQUESTED"
  BY <1>1, <1>2 DEF ReconcileCancel, WaveTypeOK
<1>3. CASE exec' # "CANCEL_REQUESTED"
  <2>1. /\ st' = CancelSafeSteps(s, c)
        /\ lease' = 0 /\ leaseLive' = FALSE
        /\ req' = [k \in Steps |-> IF req[k] = "PENDING" THEN "CANCELLED" ELSE req[k]]
    BY <1>3 DEF ReconcileCancel, DropLease, CancelPendingRequests
  <2>2. \A j \in Steps : c[j] # "STARTED"
    BY <1>3 DEF ReconcileCancel, CancelVerdict
  <2>3. req' \in [Steps -> RequestStates]
    BY <2>1 DEF WaveTypeOK, RequestStates
  <2>4. st' \in [Steps -> StepStates]
    BY <2>1 DEF CancelSafeSteps, StepStates, StepTerminal
  <2>5. \A j \in Steps : \/ st'[j] = s[j]
                         \/ s[j] \notin StepTerminal /\ c[j] # "STARTED" /\ st'[j] = "CANCELLED"
    BY <2>1 DEF CancelSafeSteps
  <2> QED
    BY <1>1, <1>3, <2>1, <2>2, <2>3, <2>4, <2>5
<1> QED
  BY <1>2, <1>3

-----------------------------------------------------------------------------
(* One step per action.                                                    *)


\* The Plan is pinned.
LEMMA PlanStays ==
  ASSUME [WaveNext]_waveVars
  PROVE  plan' = plan
<1>1. ASSUME NEW w \in Tasks, WaveClaim(w) PROVE plan' = plan
  BY <1>1 DEF WaveClaim, Go
<1>2. ASSUME NEW w \in Tasks, PrepareReturns(w) PROVE plan' = plan
  BY <1>2 DEF PrepareReturns, Return, Go
<1>3. ASSUME NEW w \in Tasks, PrepareCancels(w) PROVE plan' = plan
  BY <1>3 DEF PrepareCancels, Return, Go
<1>4. ASSUME NEW w \in Tasks, PrepareStops(w) PROVE plan' = plan
  BY <1>4 DEF PrepareStops, Return, Go
<1>5. ASSUME NEW w \in Tasks, PrepareReserves(w) PROVE plan' = plan
  BY <1>5 DEF PrepareReserves, Go
<1>6. ASSUME NEW w \in Tasks, Gathered(w) PROVE plan' = plan
  BY <1>6 DEF Gathered, Return, Go
<1>7. ASSUME NEW w \in Tasks, WaveStops(w) PROVE plan' = plan
  BY <1>7 DEF WaveStops, Return, Go
<1>8. ASSUME NEW w \in Tasks, WaveCancelled(w) PROVE plan' = plan
  BY <1>8 DEF WaveCancelled, Return, Go
<1>9. ASSUME NEW w \in Tasks, WaveStale(w) PROVE plan' = plan
  BY <1>9 DEF WaveStale, Go
<1>10. ASSUME NEW w \in Tasks, WaveSettles(w) PROVE plan' = plan
  BY <1>10 DEF WaveSettles, Return, Go
<1>11. ASSUME NEW w \in Tasks, Finalizes(w) PROVE plan' = plan
  BY <1>11 DEF Finalizes, Return, Go
<1>12. ASSUME NEW w \in Tasks, TaskDies(w) PROVE plan' = plan
  BY <1>12 DEF TaskDies, Return, Go
<1>13. ASSUME NEW w \in Tasks, NEW k \in Steps, RunNoop(w, k) PROVE plan' = plan
  BY <1>13 DEF RunNoop, Ends
<1>14. ASSUME NEW w \in Tasks, NEW k \in Steps, RunCancelled(w, k) PROVE plan' = plan
  BY <1>14 DEF RunCancelled, Ends
<1>15. ASSUME NEW w \in Tasks, NEW k \in Steps, RunWaits(w, k) PROVE plan' = plan
  BY <1>15 DEF RunWaits, MayRun, Ends, DropLease
<1>16. ASSUME NEW w \in Tasks, NEW k \in Steps, RunFails(w, k) PROVE plan' = plan
  BY <1>16 DEF RunFails, MayRun, Ends
<1>17. ASSUME NEW w \in Tasks, NEW k \in Steps, RunStarts(w, k) PROVE plan' = plan
  BY <1>17 DEF RunStarts, MayRun, Ends
<1>18. ASSUME NEW w \in Tasks, NEW k \in Steps, CallFenced(w, k) PROVE plan' = plan
  BY <1>18 DEF CallFenced, Ends, Return, Go
<1>19. ASSUME NEW w \in Tasks, NEW k \in Steps, GateCancelsCall(w, k) PROVE plan' = plan
  BY <1>19 DEF GateCancelsCall, Ends
<1>20. ASSUME NEW w \in Tasks, NEW k \in Steps, CallRetries(w, k) PROVE plan' = plan
  BY <1>20 DEF CallRetries, Ends
<1>21. ASSUME NEW w \in Tasks, NEW k \in Steps, CallEnds(w, k) PROVE plan' = plan
  BY <1>21 DEF CallEnds, Ends
<1>22. ASSUME NEW w \in Tasks, NEW k \in Steps, Resume(w, k) PROVE plan' = plan
  BY <1>22 DEF Resume, Waiting, Go
<1>23. ASSUME NEW k \in Steps, Approve(k) PROVE plan' = plan
  BY <1>23 DEF Approve, Waiting
<1>24. ASSUME NEW k \in Steps, Refuse(k) PROVE plan' = plan
  BY <1>24 DEF Refuse, Waiting
<1>25. CASE WaveCancel
  BY <1>25 DEF WaveCancel, DropLease, CancelPendingRequests
<1>26. CASE LeaseLapses
  BY <1>26 DEF LeaseLapses
<1>27. CASE RecoverCancelled
  BY <1>27 DEF RecoverCancelled, Expired
<1>28. CASE RecoverFatal
  BY <1>28 DEF RecoverFatal, Expired, DropLease
<1>29. CASE RecoverExhausted
  BY <1>29 DEF RecoverExhausted, Expired
<1>30. ASSUME NEW w \in Tasks, RecoverTakesOver(w) PROVE plan' = plan
  BY <1>30 DEF RecoverTakesOver, Expired, Go
<1>31. CASE UNCHANGED waveVars
  BY <1>31 DEF waveVars
<1> QED
  BY <1>1, <1>2, <1>3, <1>4, <1>5, <1>6, <1>7, <1>8, <1>9, <1>10, <1>11, <1>12, <1>13, <1>14,
     <1>15, <1>16, <1>17, <1>18, <1>19, <1>20, <1>21, <1>22, <1>23, <1>24, <1>25, <1>26, <1>27,
     <1>28, <1>29, <1>30, <1>31
  DEF WaveNext, TaskMoves, StepMoves, WaveRecovery


Moved(k) == StepMove(k) \/ (Promoted(k) /\ Promotion)

\* Completion writes the Execution, not its Steps.
LEMMA CompletedRec ==
  ASSUME NEW r, r \in LocalRecs
  PROVE  /\ Completed(r) \in LocalRecs
         /\ Completed(r).st = r.st
         /\ Completed(r).stop = r.stop
         /\ Completed(r).exec =
              IF NaturallyEnded(r) /\ ~r.stop THEN AggregateAllRequired(r) ELSE r.exec
         /\ Completed(r).code = r.code
BY DEF Completed, LocalRecs, AggregateAllRequired, ExecStates, ExecTerminal

\* The reservation promotes eligible TOOLs.
LEMMA ReserveEffect ==
  ASSUME NEW w \in Tasks, PrepareReserves(w), LocalReconcile \in LocalRecs
  PROVE  LET r == LocalReconcile
             used == ToolSlots(r)
             free == IF used >= plan.maxParallelism THEN 0 ELSE plan.maxParallelism - used
             promoted == FirstOf({k \in Steps : Eligible(r, k, "TOOL")}, free)
         IN  /\ ~r.stop
             /\ st' = [k \in Steps |-> IF k \in promoted THEN "READY" ELSE r.st[k]]
             /\ exec' = r.exec
             /\ code' = r.code
             /\ req' = r.req
             /\ IF r.exec # "RUNNING" THEN DropLease ELSE UNCHANGED <<lease, leaseLive>>
<1> DEFINE r == LocalReconcile
           used == ToolSlots(r)
           free == IF used >= plan.maxParallelism THEN 0 ELSE plan.maxParallelism - used
           promoted == FirstOf({k \in Steps : Eligible(r, k, "TOOL")}, free)
           x == [r EXCEPT !.st = [k \in Steps |-> IF k \in promoted THEN "READY" ELSE @[k]]]
<1>1. ~r.stop /\ Apply(x)
  BY DEF PrepareReserves
<1> HIDE DEF r, promoted
<1>2. /\ x.st = [k \in Steps |-> IF k \in promoted THEN "READY" ELSE r.st[k]]
      /\ x.exec = r.exec
      /\ x.code = r.code
      /\ x.req = r.req
  BY DEF LocalRecs, r
<1> HIDE DEF x
<1>3. /\ ~r.stop
      /\ st' = [k \in Steps |-> IF k \in promoted THEN "READY" ELSE r.st[k]]
      /\ exec' = r.exec
      /\ code' = r.code
      /\ req' = r.req
      /\ IF r.exec # "RUNNING" THEN DropLease ELSE UNCHANGED <<lease, leaseLive>>
  BY <1>1, <1>2 DEF Apply
<1> QED
  BY <1>3 DEF r, promoted

\* A written-back local state that left RUNNING has no lease.
LEMMA ApplyEnds ==
  ASSUME NEW r \in LocalRecs, r.exec # "RUNNING", Apply(r)
  PROVE  /\ st' = r.st /\ st' \in [Steps -> StepStates]
         /\ code' \in [Steps -> Codes]
         /\ req' \in [Steps -> RequestStates]
         /\ exec' = r.exec
         /\ lease' = 0 /\ leaseLive' = FALSE
BY DEF Apply, DropLease, LocalRecs

\* The Execution ends with its untouched Steps.
StopsOver(s) ==
  \A j \in Steps : \/ st'[j] = s[j]
                   \/ s[j] \in {"PENDING", "READY"} /\ st'[j] \in KnownEnds

\* Such a local state, written back.
LEMMA ApplyStop ==
  ASSUME NEW r \in LocalRecs, NEW e \in {"FAILED", "TIMED_OUT"},
         Apply([StopUntouched(r) EXCEPT !.exec = e]) \/ (r.exec = e /\ Apply(StopUntouched(r)))
  PROVE  /\ StopsOver(r.st) /\ st' \in [Steps -> StepStates]
         /\ code' \in [Steps -> Codes]
         /\ req' \in [Steps -> RequestStates]
         /\ exec' = e
         /\ lease' = 0 /\ leaseLive' = FALSE
<1> DEFINE y == StopUntouched(r)
           x == [y EXCEPT !.exec = e]
<1>1. /\ y \in LocalRecs
      /\ y.exec = r.exec
      /\ \A k \in Steps : \/ y.st[k] = r.st[k]
                          \/ r.st[k] \in {"PENDING", "READY"} /\ y.st[k] \in KnownEnds
  BY StopUntouchedEffect
<1>2. Apply(x) \/ (r.exec = e /\ Apply(y))
  OBVIOUS
<1> HIDE DEF y
<1>3. x \in LocalRecs /\ x.st = y.st /\ x.exec = e
  BY <1>1 DEF LocalRecs, ExecStates, ExecTerminal
<1> HIDE DEF x
<1>4. PICK z \in LocalRecs : Apply(z) /\ z.st = y.st /\ z.exec = e
  BY <1>1, <1>2, <1>3
<1>5. /\ st' = z.st /\ st' \in [Steps -> StepStates]
      /\ code' \in [Steps -> Codes]
      /\ req' \in [Steps -> RequestStates]
      /\ exec' = e
      /\ lease' = 0 /\ leaseLive' = FALSE
  BY <1>4, ApplyEnds
<1>6. StopsOver(r.st)
  BY <1>1, <1>4, <1>5 DEF StopsOver
<1> QED
  BY <1>5, <1>6

\* The outcomes of a wave stop the Execution.
LEMMA WaveStopsEffect ==
  ASSUME WaveTypeOK, NEW w \in Tasks, WaveStops(w)
  PROVE  /\ StopsOver(st) /\ st' \in [Steps -> StepStates]
         /\ code' \in [Steps -> Codes]
         /\ req' \in [Steps -> RequestStates]
         /\ exec' \in {"FAILED", "TIMED_OUT"}
         /\ lease' = 0 /\ leaseLive' = FALSE
<1>1. StopStatus(w) \in {"FAILED", "TIMED_OUT"}
  BY DEF WaveStops, StopStatus
<1>2. Apply([StopUntouched(LocalState) EXCEPT !.exec = StopStatus(w)])
  BY DEF WaveStops
<1> QED
  BY <1>1, <1>2, LocalStateRec, ApplyStop

\* One Step fails, and the Execution with it.
LEMMA StepFails ==
  ASSUME WaveTypeOK, NEW k \in Steps
  PROVE  LET r == [SetStep(LocalState, k, "FAILED", "ERROR") EXCEPT !.exec = "FAILED"]
         IN  /\ r \in LocalRecs
             /\ r.st = [st EXCEPT ![k] = "FAILED"]
             /\ r.exec = "FAILED"
<1> DEFINE y == SetStep(LocalState, k, "FAILED", "ERROR")
<1>1. LocalState \in LocalRecs /\ LocalState.st = st
  BY LocalStateRec
<1> HIDE DEF LocalState
<1>2. y \in LocalRecs /\ y.st = [st EXCEPT ![k] = "FAILED"]
  BY <1>1 DEF SetStep, LocalRecs, StepStates, StepTerminal, Codes
<1> HIDE DEF y
<1>3. LET r == [y EXCEPT !.exec = "FAILED"]
      IN  r \in LocalRecs /\ r.st = y.st /\ r.exec = "FAILED"
  BY <1>2 DEF LocalRecs, ExecStates, ExecTerminal
<1> QED
  BY <1>2, <1>3 DEF y

\* A rejection or an expiry.
LEMMA RefuseEffect ==
  ASSUME WaveTypeOK, NEW k \in Steps, Refuse(k)
  PROVE  /\ StopsOver([st EXCEPT ![k] = "FAILED"]) /\ st' \in [Steps -> StepStates]
         /\ code' \in [Steps -> Codes]
         /\ req' \in [Steps -> RequestStates]
         /\ exec' = "FAILED"
         /\ lease' = 0 /\ leaseLive' = FALSE
<1> DEFINE y == SetStep(LocalState, k, "FAILED", "ERROR")
           x == [y EXCEPT !.req[k] = "REFUSED", !.exec = "FAILED"]
<1>1. LocalState \in LocalRecs /\ LocalState.st = st
  BY LocalStateRec
<1>2. Apply(IF IsTool(k) THEN x ELSE StopUntouched(x))
  BY DEF Refuse
<1> HIDE DEF LocalState
<1>3. y \in LocalRecs /\ y.st = [st EXCEPT ![k] = "FAILED"]
  BY <1>1 DEF SetStep, LocalRecs, StepStates, StepTerminal, Codes
<1> HIDE DEF y
<1>4. x \in LocalRecs /\ x.st = y.st /\ x.exec = "FAILED"
  BY <1>3 DEF LocalRecs, ExecStates, ExecTerminal, RequestStates
<1> HIDE DEF x
<1>5. CASE IsTool(k)
  BY <1>2, <1>3, <1>4, <1>5, ApplyEnds DEF StopsOver
<1>6. CASE ~IsTool(k)
  BY <1>2, <1>3, <1>4, <1>6, ApplyStop
<1> QED
  BY <1>5, <1>6

\* An approved Step is READY again under a new lease, or the Execution fails.
LEMMA ResumeEffect ==
  ASSUME WaveTypeOK, NEW w \in Tasks, NEW k \in Steps, Resume(w, k)
  PROVE  \/ /\ exec' = "RUNNING"
            /\ FreshLease(w)
            /\ st' = [st EXCEPT ![k] = "READY"]
            /\ Go(w, "prepare")
            /\ UNCHANGED <<code, req>>
         \/ /\ StopsOver([st EXCEPT ![k] = "FAILED"]) /\ st' \in [Steps -> StepStates]
            /\ code' \in [Steps -> Codes]
            /\ req' \in [Steps -> RequestStates]
            /\ exec' = "FAILED"
            /\ lease' = 0 /\ leaseLive' = FALSE
            /\ UNCHANGED <<own, task>>
<1> DEFINE r == [SetStep(LocalState, k, "FAILED", "ERROR") EXCEPT !.exec = "FAILED"]
<1>1. CASE Apply(StopUntouched(r)) /\ UNCHANGED <<own, task>>
  <2>1. r \in LocalRecs /\ r.st = [st EXCEPT ![k] = "FAILED"] /\ r.exec = "FAILED"
    BY StepFails
  <2> HIDE DEF r
  <2> QED
    BY <1>1, <2>1, ApplyStop
<1> HIDE DEF r
<1> QED
  BY <1>1 DEF Resume, r

\* Exhausted calls fail.
LEMMA FailExhaustedRec ==
  ASSUME WaveTypeOK
  PROVE  /\ FailExhausted(LocalState) \in LocalRecs
         /\ \A k \in Steps : FailExhausted(LocalState).st[k] =
                              IF k \in Exhausted THEN "FAILED" ELSE st[k]
<1> DEFINE r == LocalState
           x == FailExhausted(r)
<1>1. r \in LocalRecs /\ r.st = st /\ r.code = code
  BY LocalStateRec
<1> HIDE DEF r
<1>2. /\ x.st = [k \in Steps |-> IF k \in Exhausted THEN "FAILED" ELSE r.st[k]]
      /\ x.code = [k \in Steps |-> IF k \in Exhausted THEN "ERROR" ELSE r.code[k]]
  BY <1>1 DEF FailExhausted, LocalRecs
<1>3. x = [r EXCEPT !.st = x.st, !.code = x.code]
  BY <1>1, <1>2 DEF FailExhausted, LocalRecs
<1> HIDE DEF x
<1>4. x.st \in [Steps -> StepStates] /\ x.code \in [Steps -> Codes]
  BY <1>1, <1>2 DEF LocalRecs, StepStates, StepTerminal, Codes
<1>5. [r EXCEPT !.st = x.st, !.code = x.code] \in LocalRecs
  BY <1>1, <1>4 DEF LocalRecs
<1> QED
  BY <1>1, <1>2, <1>3, <1>5 DEF x, r

\* An exhausted Step stops the Execution.
LEMMA ExhaustedEffect ==
  ASSUME WaveTypeOK, RecoverExhausted
  PROVE  /\ \A k \in Steps :
              \/ st'[k] = IF k \in Exhausted THEN "FAILED" ELSE st[k]
              \/ k \notin Exhausted /\ st[k] \in {"PENDING", "READY"} /\ st'[k] \in KnownEnds
         /\ st' \in [Steps -> StepStates]
         /\ code' \in [Steps -> Codes]
         /\ req' \in [Steps -> RequestStates]
         /\ exec' = "FAILED"
         /\ lease' = 0 /\ leaseLive' = FALSE
<1> DEFINE r == FailExhausted(LocalState)
<1>1. r \in LocalRecs /\ \A k \in Steps : r.st[k] = IF k \in Exhausted THEN "FAILED" ELSE st[k]
  BY FailExhaustedRec
<1>2. Apply([StopUntouched(r) EXCEPT !.exec = "FAILED"])
  BY DEF RecoverExhausted
<1> HIDE DEF r
<1>3. /\ StopsOver(r.st) /\ st' \in [Steps -> StepStates]
      /\ code' \in [Steps -> Codes]
      /\ req' \in [Steps -> RequestStates]
      /\ exec' = "FAILED"
      /\ lease' = 0 /\ leaseLive' = FALSE
  BY <1>1, <1>2, ApplyStop
<1>4. ASSUME NEW k \in Steps
      PROVE  \/ st'[k] = IF k \in Exhausted THEN "FAILED" ELSE st[k]
             \/ k \notin Exhausted /\ st[k] \in {"PENDING", "READY"} /\ st'[k] \in KnownEnds
  BY <1>1, <1>3 DEF StopsOver
<1> QED
  BY <1>3, <1>4


\* Every step moves every ExecutionStep in one of these ways.
LEMMA StepMoved ==
  ASSUME WaveInv, NEW j \in Steps, [WaveNext]_waveVars
  PROVE  Moved(j)
<1> /\ WaveTypeOK /\ PlanSound /\ TokensSound /\ CallsMatch /\ CallsOwned
    /\ WaitsMatch /\ QueuedIsNew
  BY DEF WaveInv
<1>1. ASSUME NEW w \in Tasks, WaveClaim(w) PROVE Moved(j)
  <2> DEFINE roots == FirstOf({k \in Steps : IsTool(k) /\ Deps(k) = {}}, plan.maxParallelism)
  <2>1. \A k \in roots : Deps(k) = {}
    BY DEF FirstOf
  <2>2. st[j] = "PENDING" /\ st'[j] = IF j \in roots THEN "READY" ELSE st[j]
    BY <1>1 DEF WaveClaim, QueuedIsNew
  <2> HIDE DEF roots
  <2>3. Promotion
    BY <1>1 DEF Promotion
  <2> QED
    BY <1>1, <2>1, <2>2, <2>3 DEF WaveClaim, Moved, StepMove, Stays, Promoted, DepsDone
<1>2. ASSUME NEW w \in Tasks, PrepareReturns(w) PROVE Moved(j)
  BY <1>2 DEF PrepareReturns, Return, Go, Moved, StepMove, Stays, waveDb
<1>3. ASSUME NEW w \in Tasks, PrepareCancels(w) PROVE Moved(j)
  <2>1. ReconcileCancel(st, callSt) /\ tries' = tries
    BY <1>3 DEF PrepareCancels
  <2>2. \/ st'[j] = st[j]
        \/ st[j] \notin StepTerminal /\ callSt[j] # "STARTED" /\ st'[j] = "CANCELLED"
    BY <2>1, CancelEffect DEF StepStates, WaveTypeOK
  <2>3. callSt' = callSt
    BY <2>1 DEF ReconcileCancel
  <2> QED
    BY <2>1, <2>2, <2>3 DEF Moved, StepMove, Stays, Finishes, StepTerminal
<1>4. ASSUME NEW w \in Tasks, PrepareStops(w) PROVE Moved(j)
  <2>1. exec = "RUNNING"
    BY <1>4 DEF PrepareStops, MayPrepareWave, RunningLease
  <2>2. Local(LocalReconcile)
    BY <2>1, ReconcileLocal
  <2>3. st' = LocalReconcile.st /\ callSt' = callSt /\ tries' = tries
    BY <1>4 DEF PrepareStops, Apply
  <2> QED
    BY <2>2, <2>3, ApplyMoves DEF Moved
<1>5. ASSUME NEW w \in Tasks, PrepareReserves(w) PROVE Moved(j)
  <2>1. exec = "RUNNING"
    BY <1>5 DEF PrepareReserves, MayPrepareWave, RunningLease
  <2>2. Local(LocalReconcile)
    BY <2>1, ReconcileLocal
  <2>3. PICK promoted :
          /\ \A k \in promoted : k \in Steps /\ Eligible(LocalReconcile, k, "TOOL")
          /\ st' = [k \in Steps |-> IF k \in promoted THEN "READY" ELSE LocalReconcile.st[k]]
    <3>1. LocalReconcile \in LocalRecs
      BY <2>2 DEF Local
    <3> QED
      BY <1>5, <3>1, ReserveEffect DEF FirstOf
  <2>4. callSt' = callSt /\ tries' = tries
    BY <1>5 DEF PrepareReserves
  <2>5. ~LocalReconcile.stop
    BY <1>5 DEF PrepareReserves
  <2>6. CASE j \in promoted
    <3>1. Promotion
      BY <1>5 DEF Promotion
    <3>2. st[j] = "PENDING" /\ st'[j] = "READY"
      BY <2>2, <2>3, <2>6 DEF Eligible, Local, LocalChange, KnownEnds, StepTerminal
    <3>3. DepsDone(st', j)
      <4> SUFFICES ASSUME NEW d \in Deps(j)
                   PROVE  \/ st'[d] = "SUCCEEDED"
                          \/ ContinuableKnownFailure(plan.steps[d].onError, st'[d])
        BY DEF DepsDone
      <4>1. d \in Steps /\ ProgressionComplete(LocalReconcile, d)
        BY <2>3, <2>6 DEF Eligible, PlanSound
      <4>2. d \notin promoted
        BY <2>3, <4>1 DEF Eligible, ProgressionComplete, ContinuableKnownFailure
      <4> QED
        BY <2>3, <4>1, <4>2 DEF ProgressionComplete
    <3> QED
      BY <2>4, <3>1, <3>2, <3>3 DEF Moved, Promoted
  <2>7. CASE j \notin promoted
    <3>1. st'[j] = LocalReconcile.st[j]
      BY <2>3, <2>7
    <3>2. LocalReconcile.st[j] # "WAITING_APPROVAL"
      BY <2>2, <2>5 DEF Local
    <3>3. st'[j] = st[j] \/ (st[j] \in {"PENDING", "READY"} /\ st'[j] \in KnownEnds)
      BY <2>2, <3>1, <3>2 DEF Local, LocalChange
    <3> QED
      BY <2>4, <3>3 DEF Moved, StepMove, Stays, Finishes, KnownEnds, StepTerminal, CallsMatch
  <2> QED
    BY <2>6, <2>7
<1>6. ASSUME NEW w \in Tasks, Gathered(w) PROVE Moved(j)
  BY <1>6 DEF Gathered, Return, Go, Moved, StepMove, Stays, waveDb
<1>7. ASSUME NEW w \in Tasks, WaveStops(w) PROVE Moved(j)
  <2>1. callSt' = callSt /\ tries' = tries
    BY <1>7 DEF WaveStops
  <2>2. \/ st'[j] = st[j]
        \/ st[j] \in {"PENDING", "READY"} /\ st'[j] \in KnownEnds
    BY <1>7, WaveStopsEffect DEF StopsOver
  <2> QED
    BY <2>1, <2>2 DEF Moved, StepMove, Stays, Finishes, KnownEnds, StepTerminal, CallsMatch
<1>8. ASSUME NEW w \in Tasks, WaveCancelled(w) PROVE Moved(j)
  <2>1. CASE exec = "CANCEL_REQUESTED" /\ lease = own[w]
    <3>1. ReconcileCancel(st, callSt) /\ tries' = tries
      BY <1>8, <2>1 DEF WaveCancelled
    <3>2. \/ st'[j] = st[j]
          \/ st[j] \notin StepTerminal /\ callSt[j] # "STARTED" /\ st'[j] = "CANCELLED"
      BY <3>1, CancelEffect DEF StepStates, WaveTypeOK
    <3>3. callSt' = callSt
      BY <3>1 DEF ReconcileCancel
    <3> QED
      BY <3>1, <3>2, <3>3 DEF Moved, StepMove, Stays, Finishes, StepTerminal
  <2>2. CASE ~(exec = "CANCEL_REQUESTED" /\ lease = own[w])
    BY <1>8, <2>2 DEF WaveCancelled, Moved, StepMove, Stays
  <2> QED
    BY <2>1, <2>2
<1>9. ASSUME NEW w \in Tasks, WaveStale(w) PROVE Moved(j)
  BY <1>9 DEF WaveStale, Go, Moved, StepMove, Stays, waveDb
<1>10. ASSUME NEW w \in Tasks, WaveSettles(w) PROVE Moved(j)
  <2>1. exec = "RUNNING"
    BY <1>10 DEF WaveSettles, RunningLease
  <2>2. Local(LocalReconcile)
    BY <2>1, ReconcileLocal
  <2>3. st' = LocalReconcile.st /\ callSt' = callSt /\ tries' = tries
    BY <1>10, <2>2, CompletedRec DEF WaveSettles, Apply, Local
  <2> QED
    BY <2>2, <2>3, ApplyMoves DEF Moved
<1>11. ASSUME NEW w \in Tasks, Finalizes(w) PROVE Moved(j)
  <2>1. CASE RunningLease(w)
    <3>1. Local(LocalReconcile)
      BY <2>1, ReconcileLocal DEF RunningLease
    <3>2. st' = LocalReconcile.st /\ callSt' = callSt /\ tries' = tries
      BY <1>11, <2>1, <3>1, CompletedRec DEF Finalizes, Apply, Local
    <3> QED
      BY <3>1, <3>2, ApplyMoves DEF Moved
  <2>2. CASE ~RunningLease(w)
    BY <1>11, <2>2 DEF Finalizes, Moved, StepMove, Stays
  <2> QED
    BY <2>1, <2>2
<1>12. ASSUME NEW w \in Tasks, TaskDies(w) PROVE Moved(j)
  BY <1>12 DEF TaskDies, Return, Go, Moved, StepMove, Stays, waveDb
<1>13. ASSUME NEW w \in Tasks, NEW k \in Steps, RunNoop(w, k) PROVE Moved(j)
  BY <1>13 DEF RunNoop, Ends, Moved, StepMove, Stays, waveDb
<1>14. ASSUME NEW w \in Tasks, NEW k \in Steps, RunCancelled(w, k) PROVE Moved(j)
  <2>1. ReconcileCancel(st, callSt) /\ tries' = tries
    BY <1>14 DEF RunCancelled
  <2>2. \/ st'[j] = st[j]
        \/ st[j] \notin StepTerminal /\ callSt[j] # "STARTED" /\ st'[j] = "CANCELLED"
    BY <2>1, CancelEffect DEF StepStates, WaveTypeOK
  <2>3. callSt' = callSt
    BY <2>1 DEF ReconcileCancel
  <2> QED
    BY <2>1, <2>2, <2>3 DEF Moved, StepMove, Stays, Finishes, StepTerminal
<1>15. ASSUME NEW w \in Tasks, NEW k \in Steps, RunWaits(w, k) PROVE Moved(j)
  BY <1>15 DEF RunWaits, MayRun, Moved, StepMove, Stays, Suspends, WaveTypeOK
<1>16. ASSUME NEW w \in Tasks, NEW k \in Steps, RunFails(w, k) PROVE Moved(j)
  BY <1>16 DEF RunFails, MayRun, Moved, StepMove, Stays, Finishes, WaveTypeOK, StepTerminal, CallsMatch
<1>17. ASSUME NEW w \in Tasks, NEW k \in Steps, RunStarts(w, k) PROVE Moved(j)
  BY <1>17 DEF RunStarts, MayRun, Moved, StepMove, Stays, Starts, WaveTypeOK
<1>18. ASSUME NEW w \in Tasks, NEW k \in Steps, CallFenced(w, k) PROVE Moved(j)
  BY <1>18 DEF CallFenced, Ends, Return, Go, Moved, StepMove, Stays, waveDb
<1>19. ASSUME NEW w \in Tasks, NEW k \in Steps, GateCancelsCall(w, k) PROVE Moved(j)
  <2>1. callSt[k] = "STARTED" /\ st[k] = "RUNNING"
    BY <1>19 DEF GateCancelsCall, Waved, CallsOwned, CallsMatch
  <2> DEFINE s == [st EXCEPT ![k] = "CANCELLED"]
             c == [callSt EXCEPT ![k] = "CANCELLED"]
  <2>2. ReconcileCancel(s, c) /\ tries' = tries
    BY <1>19 DEF GateCancelsCall
  <2>3. s \in [Steps -> StepStates]
    BY DEF WaveTypeOK, StepStates, StepTerminal
  <2> HIDE DEF s, c
  <2>4. \/ st'[j] = s[j]
        \/ s[j] \notin StepTerminal /\ c[j] # "STARTED" /\ st'[j] = "CANCELLED"
    BY <2>2, <2>3, CancelEffect
  <2>5. callSt' = c
    BY <2>2 DEF ReconcileCancel
  <2> QED
    BY <2>1, <2>2, <2>4, <2>5
    DEF Moved, StepMove, Stays, Finishes, StepTerminal, WaveTypeOK, s, c
<1>20. ASSUME NEW w \in Tasks, NEW k \in Steps, CallRetries(w, k) PROVE Moved(j)
  <2>1. callSt[k] = "STARTED" /\ st[k] = "RUNNING"
    BY <1>20 DEF CallRetries, Waved, CallsOwned, CallsMatch
  <2> QED
    BY <1>20, <2>1 DEF CallRetries, Moved, StepMove, Stays, Retries, WaveTypeOK
<1>21. ASSUME NEW w \in Tasks, NEW k \in Steps, CallEnds(w, k) PROVE Moved(j)
  <2>1. callSt[k] = "STARTED" /\ st[k] = "RUNNING"
    BY <1>21 DEF CallEnds, Waved, CallsOwned, CallsMatch
  <2>2. PICK o \in CallOutcomes(k) :
          LET s == [st EXCEPT ![k] = IF o = "PRE_SEND" THEN "FAILED" ELSE o]
              c == [callSt EXCEPT ![k] = IF o = "PRE_SEND" THEN "FAILED" ELSE o]
          IN  \/ ReconcileCancel(s, c)
              \/ st' = s /\ callSt' = c
    BY <1>21 DEF CallEnds
  <2> DEFINE e == IF o = "PRE_SEND" THEN "FAILED" ELSE o
             s == [st EXCEPT ![k] = e]
             c == [callSt EXCEPT ![k] = e]
  <2>3. e \in StepTerminal /\ e # "STARTED"
    BY DEF CallOutcomes, StepTerminal
  <2>4. ReconcileCancel(s, c) \/ (st' = s /\ callSt' = c)
    BY <2>2
  <2> HIDE DEF e
  <2>5. s \in [Steps -> StepStates]
    BY <2>3 DEF WaveTypeOK, StepStates
  <2> HIDE DEF s, c
  <2>6. /\ callSt' = c
        /\ \/ st'[j] = s[j]
           \/ s[j] \notin StepTerminal /\ c[j] # "STARTED" /\ st'[j] = "CANCELLED"
    BY <2>4, <2>5, CancelEffect
  <2>7. tries' = tries
    BY <1>21 DEF CallEnds
  <2> QED
    BY <2>1, <2>3, <2>6, <2>7
    DEF Moved, StepMove, Stays, Finishes, StepTerminal, WaveTypeOK, s, c
<1>22. ASSUME NEW w \in Tasks, NEW k \in Steps, Resume(w, k) PROVE Moved(j)
  <2>1. st[k] = "WAITING_APPROVAL" /\ callSt' = callSt /\ tries' = tries
    BY <1>22 DEF Resume, Waiting
  <2>2. CASE st' = [st EXCEPT ![k] = "READY"]
    BY <2>1, <2>2 DEF Moved, StepMove, Stays, Resumes, WaveTypeOK
  <2>3. CASE StopsOver([st EXCEPT ![k] = "FAILED"])
    BY <2>1, <2>3
    DEF StopsOver, Moved, StepMove, Stays, Finishes, KnownEnds, StepTerminal, CallsMatch, WaveTypeOK
  <2> QED
    BY <1>22, <2>2, <2>3, ResumeEffect
<1>23. ASSUME NEW k \in Steps, Approve(k) PROVE Moved(j)
  BY <1>23 DEF Approve, Waiting, Moved, StepMove, Stays, waveDb
<1>24. ASSUME NEW k \in Steps, Refuse(k) PROVE Moved(j)
  <2>1. st[k] = "WAITING_APPROVAL" /\ callSt' = callSt /\ tries' = tries
    BY <1>24 DEF Refuse, Waiting
  <2>2. StopsOver([st EXCEPT ![k] = "FAILED"])
    BY <1>24, RefuseEffect
  <2> QED
    BY <2>1, <2>2
    DEF StopsOver, Moved, StepMove, Stays, Finishes, KnownEnds, StepTerminal, CallsMatch, WaveTypeOK
<1>25. CASE WaveCancel
  BY <1>25 DEF WaveCancel, DropLease, CancelPendingRequests, CancelSafeSteps, Moved, StepMove,
    Stays, Finishes, StepTerminal, WaveTypeOK
<1>26. CASE LeaseLapses
  BY <1>26 DEF LeaseLapses, Moved, StepMove, Stays, waveDb
<1>27. CASE RecoverCancelled
  <2> DEFINE s == [k \in Steps |-> IF k \in Started THEN "UNKNOWN_OUTCOME" ELSE st[k]]
             c == [k \in Steps |-> IF k \in Started THEN "UNKNOWN_OUTCOME" ELSE callSt[k]]
  <2>1. ReconcileCancel(s, c) /\ tries' = tries
    BY <1>27 DEF RecoverCancelled
  <2>2. s \in [Steps -> StepStates]
    BY DEF WaveTypeOK, StepStates, StepTerminal
  <2> HIDE DEF s, c
  <2>3. \/ st'[j] = s[j]
        \/ s[j] \notin StepTerminal /\ c[j] # "STARTED" /\ st'[j] = "CANCELLED"
    BY <2>1, <2>2, CancelEffect
  <2>4. callSt' = c
    BY <2>1 DEF ReconcileCancel
  <2> QED
    BY <2>1, <2>3, <2>4
    DEF Moved, StepMove, Stays, Finishes, StepTerminal, CallsMatch, Started, s, c
<1>28. CASE RecoverFatal
  BY <1>28 DEF RecoverFatal, Expired, DropLease, Started, Moved, StepMove, Stays, Finishes,
    StepTerminal, WaveTypeOK, CallsMatch
<1>29. CASE RecoverExhausted
  <2>1. /\ tries' = tries
        /\ callSt'[j] = IF j \in Exhausted THEN "FAILED" ELSE callSt[j]
    BY <1>29 DEF RecoverExhausted
  <2>2. j \in Exhausted => st[j] = "RUNNING"
    BY DEF Exhausted, Started, CallsMatch
  <2>3. \/ j \in Exhausted /\ st'[j] = "FAILED"
        \/ j \notin Exhausted /\ st'[j] = st[j]
        \/ j \notin Exhausted /\ st[j] \in {"PENDING", "READY"} /\ st'[j] \in KnownEnds
    BY <1>29, ExhaustedEffect
  <2> QED
    BY <2>1, <2>2, <2>3
    DEF Moved, StepMove, Stays, Finishes, KnownEnds, StepTerminal, CallsMatch
<1>30. ASSUME NEW w \in Tasks, RecoverTakesOver(w) PROVE Moved(j)
  <2>1. /\ tries' = tries
        /\ callSt'[j] = IF j \in Started THEN "FAILED" ELSE callSt[j]
    BY <1>30 DEF RecoverTakesOver
  <2>2. st'[j] = IF j \in Started \ Exhausted THEN "READY"
                 ELSE IF j \in Exhausted THEN "FAILED" ELSE st[j]
    BY <1>30, LocalStateRec, FailExhaustedRec DEF RecoverTakesOver
  <2>3. j \in Started => st[j] = "RUNNING" /\ plan.steps[j].safe
    BY <1>30 DEF RecoverTakesOver, FatalUnknown, Started, CallsMatch
  <2>4. j \in Started \ Exhausted => tries[j] < MaxAttempts
    BY <2>3, WaveBounds DEF Exhausted, WaveTypeOK
  <2>5. Exhausted \subseteq Started
    BY DEF Exhausted
  <2> QED
    BY <2>1, <2>2, <2>3, <2>4, <2>5
    DEF Moved, StepMove, Stays, Finishes, Retries, StepTerminal
<1>31. CASE UNCHANGED waveVars
  BY <1>31 DEF waveVars, Moved, StepMove, Stays
<1> QED
  BY <1>1, <1>2, <1>3, <1>4, <1>5, <1>6, <1>7, <1>8, <1>9, <1>10, <1>11, <1>12, <1>13, <1>14,
     <1>15, <1>16, <1>17, <1>18, <1>19, <1>20, <1>21, <1>22, <1>23, <1>24, <1>25, <1>26, <1>27,
     <1>28, <1>29, <1>30, <1>31
  DEF WaveNext, TaskMoves, StepMoves, WaveRecovery

-----------------------------------------------------------------------------
(* What follows for a single Step from the ways it may move.               *)

\* A terminal Step keeps its status.
LEMMA StepsFinal ==
  ASSUME WaveInv, [WaveNext]_waveVars, NEW k \in Steps, st[k] \in StepTerminal
  PROVE  st'[k] = st[k]
<1>1. Moved(k)
  BY StepMoved
<1> QED
  BY <1>1 DEF Moved, StepMove, Stays, Finishes, Suspends, Resumes, Starts, Retries, Promoted,
              StepTerminal

\* A Step is RUNNING exactly while its call is STARTED.
LEMMA CallsMatchStep ==
  ASSUME WaveInv, [WaveNext]_waveVars
  PROVE  CallsMatch'
<1>1. plan' = plan
  BY PlanStays
<1>2. ASSUME NEW k \in Steps PROVE callSt'[k] = "STARTED" <=> st'[k] = "RUNNING"
  <2>1. Moved(k) /\ (callSt[k] = "STARTED" <=> st[k] = "RUNNING")
    BY StepMoved DEF WaveInv, CallsMatch
  <2> QED
    BY <2>1 DEF Moved, StepMove, Stays, Finishes, Suspends, Resumes, Starts, Retries, Promoted,
                StepTerminal
<1> QED
  BY <1>1, <1>2 DEF CallsMatch, Steps

\* Attempts are counted and stay within their limit.
LEMMA AttemptsStep ==
  ASSUME WaveInv, [WaveNext]_waveVars
  PROVE  AttemptsLeft' /\ \A k \in Steps : tries'[k] \in 0 .. MaxAttempts
<1>1. plan' = plan
  BY PlanStays
<1>2. ASSUME NEW k \in Steps
      PROVE  /\ st'[k] = "PENDING" => tries'[k] = 0
             /\ st'[k] \in {"READY", "WAITING_APPROVAL"} => tries'[k] < MaxAttempts
             /\ ~plan.steps[k].safe /\ st'[k] \in {"READY", "WAITING_APPROVAL"} => tries'[k] = 0
             /\ ~plan.steps[k].safe => tries'[k] <= 1
             /\ tries'[k] \in 0 .. MaxAttempts
  <2>1. /\ Moved(k)
        /\ tries[k] \in 0 .. MaxAttempts
        /\ MaxAttempts \in Nat \ {0}
        /\ st[k] = "PENDING" => tries[k] = 0
        /\ st[k] \in {"READY", "WAITING_APPROVAL"} => tries[k] < MaxAttempts
        /\ ~plan.steps[k].safe /\ st[k] \in {"READY", "WAITING_APPROVAL"} => tries[k] = 0
        /\ ~plan.steps[k].safe => tries[k] <= 1
    BY StepMoved, WaveBounds DEF WaveInv, AttemptsLeft, WaveTypeOK
  <2> QED
    BY <2>1 DEF Moved, StepMove, Stays, Finishes, Suspends, Resumes, Starts, Retries, Promoted,
                StepTerminal
<1> QED
  BY <1>1, <1>2 DEF AttemptsLeft, Steps

\* No Step gets ahead of its dependencies.
LEMMA DepsStep ==
  ASSUME WaveInv, [WaveNext]_waveVars
  PROVE  DepsHold'
<1>1. plan' = plan
  BY PlanStays
<1>2. ASSUME NEW k \in Steps,
             tries'[k] > 0 \/ st'[k] \in {"READY", "RUNNING", "WAITING_APPROVAL"}
      PROVE  DepsDone(st', k)
  <2>1. Moved(k) /\ tries[k] \in Nat
    BY StepMoved, WaveBounds DEF WaveInv, WaveTypeOK
  <2>2. \/ DepsDone(st', k)
        \/ tries[k] > 0 \/ st[k] \in {"READY", "RUNNING", "WAITING_APPROVAL"}
    BY <1>2, <2>1 DEF Moved, StepMove, Stays, Finishes, Suspends, Resumes, Starts, Retries,
                      Promoted, StepTerminal
  <2>3. CASE DepsDone(st, k)
    <3> SUFFICES ASSUME NEW d \in Deps(k) PROVE st'[d] = st[d]
      BY <2>3 DEF DepsDone
    <3>1. d \in Steps
      BY DEF WaveInv, PlanSound
    <3>2. st[d] \in StepTerminal
      BY <2>3 DEF DepsDone, ContinuableKnownFailure, StepTerminal
    <3> QED
      BY <3>1, <3>2, StepsFinal
  <2> QED
    BY <2>2, <2>3 DEF WaveInv, DepsHold
<1> QED
  BY <1>1, <1>2 DEF DepsHold, DepsDone, Steps, Deps

\* The Steps of a Plan are finitely many.
LEMMA StepsFinite ==
  ASSUME PlanSound
  PROVE  IsFiniteSet(Steps)
<1>1. Len(plan.steps) \in Nat /\ Steps = 1 .. Len(plan.steps)
  BY DEF PlanSound, Steps
<1> QED
  BY <1>1, FS_Interval

\* A smaller set of Steps is within the same limit.
LEMMA SmallerSet ==
  ASSUME PlanSound, NEW S, NEW T, S \subseteq T, T \subseteq Steps, NEW n \in Nat,
         Cardinality(T) <= n
  PROVE  Cardinality(S) <= n
<1>1. IsFiniteSet(T)
  BY StepsFinite, FS_Subset
<1>2. Cardinality(S) <= Cardinality(T) /\ Cardinality(S) \in Nat /\ Cardinality(T) \in Nat
  BY <1>1, FS_Subset, FS_CardinalityType
<1> QED
  BY <1>2

\* Only a promotion takes a slot, and it takes free ones.
LEMMA SlotsStep ==
  ASSUME WaveInv, [WaveNext]_waveVars
  PROVE  SlotsBounded'
<1> /\ PlanSound /\ SlotsBounded /\ WaveTypeOK /\ WaitsMatch /\ QueuedIsNew
    /\ plan.maxParallelism \in Nat
  BY DEF WaveInv, PlanSound
<1>1. plan' = plan
  BY PlanStays
<1>2. SUFFICES Cardinality(Slots(st')) <= plan.maxParallelism
  BY <1>1 DEF SlotsBounded, Slots, Steps, IsTool
<1>3. \A k \in Steps : Moved(k)
  BY StepMoved
<1>4. CASE ~Promotion
  <2>1. Slots(st') \subseteq Slots(st)
    BY <1>3, <1>4 DEF Slots, Moved, StepMove, Stays, Finishes, Suspends, Resumes, Starts, Retries,
                      StepTerminal
  <2> QED
    BY <2>1, SmallerSet DEF SlotsBounded, Slots
<1>5. ASSUME NEW w \in Tasks, WaveClaim(w) PROVE Cardinality(Slots(st')) <= plan.maxParallelism
  <2> DEFINE S == {k \in Steps : IsTool(k) /\ Deps(k) = {}}
             roots == FirstOf(S, plan.maxParallelism)
  <2>1. roots \subseteq Steps /\ Cardinality(roots) <= plan.maxParallelism
    BY FirstOfBounded
  <2>2. \A k \in Steps : st'[k] = IF k \in roots THEN "READY" ELSE "PENDING"
    BY <1>5 DEF WaveClaim, QueuedIsNew
  <2> HIDE DEF roots
  <2>3. Slots(st') \subseteq roots
    BY <2>2 DEF Slots
  <2> QED
    BY <2>1, <2>3, SmallerSet
<1>6. ASSUME NEW w \in Tasks, PrepareReserves(w)
      PROVE  Cardinality(Slots(st')) <= plan.maxParallelism
  <2> DEFINE r == LocalReconcile
             used == ToolSlots(r)
             free == IF used >= plan.maxParallelism THEN 0 ELSE plan.maxParallelism - used
             promoted == FirstOf({k \in Steps : Eligible(r, k, "TOOL")}, free)
             U == {k \in Steps : IsTool(k) /\ r.st[k] \in {"READY", "RUNNING"}}
  <2>1. Local(r)
    BY <1>6, ReconcileLocal DEF PrepareReserves, MayPrepareWave, RunningLease
  <2>2. r \in LocalRecs /\ used = Cardinality(U)
    BY <2>1 DEF Local, ToolSlots
  <2>3. ~r.stop /\ st' = [k \in Steps |-> IF k \in promoted THEN "READY" ELSE r.st[k]]
    BY <1>6, <2>2, ReserveEffect
  <2>4. \A k \in Steps : r.st[k] # "WAITING_APPROVAL"
    BY <2>1, <2>3 DEF Local
  <2>5. IsFiniteSet(U) /\ Cardinality(U) \in Nat
    BY StepsFinite, FS_Subset, FS_CardinalityType
  <2>6. Cardinality(U) <= plan.maxParallelism
    <3>1. U \subseteq Slots(st)
      BY <2>1 DEF Local, LocalChange, Slots, KnownEnds, StepTerminal
    <3> HIDE DEF U
    <3> QED
      BY <3>1, SmallerSet DEF SlotsBounded, Slots
  <2> HIDE DEF r, U, used
  <2>7. free \in Nat /\ Cardinality(U) + free <= plan.maxParallelism
    BY <2>2, <2>5, <2>6
  <2> HIDE DEF free
  <2>8. promoted \subseteq Steps /\ IsFiniteSet(promoted) /\ Cardinality(promoted) <= free
    BY <2>7, FirstOfBounded
  <2> HIDE DEF promoted
  <2>9. Slots(st') \subseteq U \cup promoted
    BY <2>3, <2>4 DEF Slots, U
  <2>10. /\ IsFiniteSet(U \cup promoted)
         /\ Cardinality(U \cup promoted) <= Cardinality(U) + Cardinality(promoted)
         /\ Cardinality(promoted) \in Nat
         /\ Cardinality(U \cup promoted) \in Nat
    <3>1. /\ IsFiniteSet(U \cup promoted)
          /\ Cardinality(U \cup promoted)
               = Cardinality(U) + Cardinality(promoted) - Cardinality(U \cap promoted)
      BY <2>5, <2>8, FS_Union
    <3>2. Cardinality(U \cap promoted) \in Nat /\ Cardinality(promoted) \in Nat
      BY <2>5, <2>8, FS_Intersection, FS_CardinalityType
    <3> QED
      BY <2>5, <3>1, <3>2, FS_CardinalityType
  <2>11. U \subseteq Steps
    BY DEF U
  <2>12. Cardinality(U \cup promoted) <= plan.maxParallelism
    BY <2>5, <2>7, <2>8, <2>10
  <2> QED
    BY <2>8, <2>9, <2>11, <2>12, SmallerSet
<1> QED
  BY <1>4, <1>5, <1>6 DEF Promotion

-----------------------------------------------------------------------------
(* What a step does to the Execution, its lease and the tasks.             *)

LeaseKept ==
  /\ UNCHANGED <<lease, leaseLive>>
  /\ exec' = exec \/ (exec = "RUNNING" /\ exec' = "CANCEL_REQUESTED")

LeaseLapsed == leaseLive' = FALSE /\ UNCHANGED <<lease, exec>>

LeaseDropped ==
  /\ lease' = 0 /\ leaseLive' = FALSE
  /\ exec' \in ExecTerminal \union {"WAITING_APPROVAL"}

\* Nothing is in flight, unknown or waited for.
Calm == \A k \in Steps : callSt'[k] # "STARTED" /\ st'[k] \notin {"UNKNOWN_OUTCOME", "WAITING_APPROVAL"}

LeaseTaken(w) ==
  /\ task[w] = "idle"
  /\ FreshLease(w)
  /\ exec' = "RUNNING"
  /\ Go(w, "prepare")
  /\ out' = out
  /\ Calm

LeaseMove == LeaseKept \/ LeaseLapsed \/ LeaseDropped \/ \E w \in Tasks : LeaseTaken(w)

\* Tasks go on, one returns, or one takes the lease.
TaskMove ==
  \/ own' = own /\ \A x \in Tasks : task'[x] = "idle" <=> task[x] = "idle"
  \/ \E w \in Tasks : own' = [own EXCEPT ![w] = 0] /\ task' = [task EXCEPT ![w] = "idle"]
  \/ \E w \in Tasks : LeaseTaken(w)

\* Whoever takes the lease finds a calm Execution, or makes it one.
LEMMA TakenCalm ==
  ASSUME WaveInv, NEW w \in Tasks,
         \/ WaveClaim(w)
         \/ RecoverTakesOver(w)
         \/ \E k \in Steps : Resume(w, k) /\ st' = [st EXCEPT ![k] = "READY"]
  PROVE  Calm
<1> /\ WaveTypeOK /\ CallsMatch /\ WaitsMatch /\ QueuedIsNew
  BY DEF WaveInv
<1>1. CASE WaveClaim(w)
  <2>1. \A k \in Steps : st[k] = "PENDING" /\ callSt[k] # "STARTED"
    BY <1>1 DEF WaveClaim, QueuedIsNew, CallsMatch
  <2>2. PICK roots : st' = [k \in Steps |-> IF k \in roots THEN "READY" ELSE st[k]]
    BY <1>1 DEF WaveClaim
  <2>3. callSt' = callSt
    BY <1>1 DEF WaveClaim
  <2> QED
    BY <2>1, <2>2, <2>3 DEF Calm
<1>2. CASE RecoverTakesOver(w)
  <2> SUFFICES ASSUME NEW k \in Steps
               PROVE  /\ callSt'[k] # "STARTED"
                      /\ st'[k] \notin {"UNKNOWN_OUTCOME", "WAITING_APPROVAL"}
    BY DEF Calm
  <2>1. callSt'[k] = IF k \in Started THEN "FAILED" ELSE callSt[k]
    BY <1>2 DEF RecoverTakesOver
  <2>2. st[k] \notin {"UNKNOWN_OUTCOME", "WAITING_APPROVAL"}
    BY <1>2 DEF RecoverTakesOver, Expired, FatalUnknown, WaitsMatch, Driven
  <2>3. st'[k] = IF k \in Started \ Exhausted THEN "READY" ELSE FailExhausted(LocalState).st[k]
    BY <1>2 DEF RecoverTakesOver
  <2>4. st'[k] \in {"READY", "FAILED", st[k]}
    BY <2>3, FailExhaustedRec
  <2> QED
    BY <2>1, <2>2, <2>4 DEF Started
<1>3. ASSUME NEW k \in Steps, Resume(w, k), st' = [st EXCEPT ![k] = "READY"] PROVE Calm
  <2>1. exec = "WAITING_APPROVAL" /\ st[k] = "WAITING_APPROVAL" /\ callSt' = callSt
    BY <1>3 DEF Resume, Waiting
  <2> QED
    BY <1>3, <2>1 DEF Calm, WaitsMatch, OneWaits, WaveTypeOK
<1> QED
  BY <1>1, <1>2, <1>3

\* A local state is written back after the reconciliation: the Execution goes
\* on under its lease or drops it.
LEMMA ApplyLease ==
  ASSUME NEW r, Local(r), exec = "RUNNING",
         Apply(r) \/ (Apply(Completed(r)))
  PROVE  LeaseKept \/ LeaseDropped
<1>1. r \in LocalRecs /\ r.exec \in {"RUNNING", "FAILED", "TIMED_OUT", "WAITING_APPROVAL"}
  BY DEF Local
<1>2. \/ Completed(r).exec = r.exec
      \/ Completed(r).exec \in ExecTerminal
  BY <1>1, CompletedRec DEF AggregateAllRequired, ExecTerminal
<1>3. PICK e : /\ e = r.exec \/ e \in ExecTerminal
               /\ exec' = e
               /\ IF e # "RUNNING" THEN DropLease ELSE UNCHANGED <<lease, leaseLive>>
  BY <1>2 DEF Apply
<1> QED
  BY <1>1, <1>3 DEF LeaseKept, LeaseDropped, DropLease, ExecTerminal

\* Cancellation keeps the lease or drops it.
LEMMA CancelLease ==
  ASSUME WaveTypeOK, exec \in Driven, NEW s \in [Steps -> StepStates], NEW c,
         ReconcileCancel(s, c)
  PROVE  LeaseKept \/ LeaseDropped
BY CancelEffect DEF LeaseKept, LeaseDropped, Driven, ExecTerminal

\* Every step keeps the lease, lets it lapse, drops it or takes a new one.
LEMMA LeaseMoved ==
  ASSUME WaveInv, [WaveNext]_waveVars
  PROVE  LeaseMove
<1> /\ WaveTypeOK /\ PlanSound /\ TokensSound /\ CallsMatch /\ WaitsMatch /\ QueuedIsNew
  BY DEF WaveInv
<1>1. ASSUME NEW w \in Tasks, WaveClaim(w) PROVE LeaseMove
  BY <1>1, TakenCalm DEF WaveClaim, LeaseMove, LeaseTaken
<1>2. ASSUME NEW w \in Tasks, PrepareReturns(w) PROVE LeaseMove
  BY <1>2 DEF PrepareReturns, Return, Go, waveDb, LeaseMove, LeaseKept
<1>3. ASSUME NEW w \in Tasks, PrepareCancels(w) PROVE LeaseMove
  <2>1. st \in [Steps -> StepStates] /\ exec \in Driven
    BY <1>3 DEF PrepareCancels, OwnsWave, WaveTypeOK, StepStates, Driven
  <2> QED
    BY <1>3, <2>1, CancelLease DEF PrepareCancels, LeaseMove
<1>4. ASSUME NEW w \in Tasks, PrepareStops(w) PROVE LeaseMove
  <2>1. exec = "RUNNING"
    BY <1>4 DEF PrepareStops, MayPrepareWave, RunningLease
  <2>2. Local(LocalReconcile)
    BY <2>1, ReconcileLocal
  <2> QED
    BY <1>4, <2>1, <2>2, ApplyLease DEF PrepareStops, LeaseMove
<1>5. ASSUME NEW w \in Tasks, PrepareReserves(w) PROVE LeaseMove
  <2>1. exec = "RUNNING"
    BY <1>5 DEF PrepareReserves, MayPrepareWave, RunningLease
  <2>2. Local(LocalReconcile)
    BY <2>1, ReconcileLocal
  <2>3. LocalReconcile \in LocalRecs
    BY <2>2 DEF Local
  <2>4. /\ ~LocalReconcile.stop
        /\ exec' = LocalReconcile.exec
        /\ IF LocalReconcile.exec # "RUNNING" THEN DropLease ELSE UNCHANGED <<lease, leaseLive>>
    BY <1>5, <2>3, ReserveEffect
  <2> QED
    BY <2>1, <2>2, <2>4 DEF Local, LeaseMove, LeaseKept
<1>6. ASSUME NEW w \in Tasks, Gathered(w) PROVE LeaseMove
  BY <1>6 DEF Gathered, Return, Go, waveDb, LeaseMove, LeaseKept
<1>7. ASSUME NEW w \in Tasks, WaveStops(w) PROVE LeaseMove
  BY <1>7, WaveStopsEffect DEF LeaseMove, LeaseDropped, ExecTerminal
<1>8. ASSUME NEW w \in Tasks, WaveCancelled(w) PROVE LeaseMove
  <2>1. CASE exec = "CANCEL_REQUESTED" /\ lease = own[w]
    <3>1. st \in [Steps -> StepStates] /\ exec \in Driven
      BY <2>1 DEF WaveTypeOK, StepStates, Driven
    <3> QED
      BY <1>8, <2>1, <3>1, CancelLease DEF WaveCancelled, LeaseMove
  <2>2. CASE ~(exec = "CANCEL_REQUESTED" /\ lease = own[w])
    BY <1>8, <2>2 DEF WaveCancelled, LeaseMove, LeaseKept
  <2> QED
    BY <2>1, <2>2
<1>9. ASSUME NEW w \in Tasks, WaveStale(w) PROVE LeaseMove
  BY <1>9 DEF WaveStale, Go, waveDb, LeaseMove, LeaseKept
<1>10. ASSUME NEW w \in Tasks, WaveSettles(w) PROVE LeaseMove
  <2>1. exec = "RUNNING"
    BY <1>10 DEF WaveSettles, MayPrepareWave, RunningLease
  <2>2. Local(LocalReconcile)
    BY <2>1, ReconcileLocal
  <2> QED
    BY <1>10, <2>1, <2>2, ApplyLease DEF WaveSettles, LeaseMove
<1>11. ASSUME NEW w \in Tasks, Finalizes(w) PROVE LeaseMove
  <2>1. CASE RunningLease(w)
    <3>1. exec = "RUNNING"
      BY <2>1 DEF RunningLease
    <3>2. Local(LocalReconcile)
      BY <3>1, ReconcileLocal
    <3> QED
      BY <1>11, <2>1, <3>1, <3>2, ApplyLease DEF Finalizes, LeaseMove
  <2>2. CASE ~RunningLease(w)
    BY <1>11, <2>2 DEF Finalizes, LeaseMove, LeaseKept
  <2> QED
    BY <2>1, <2>2
<1>12. ASSUME NEW w \in Tasks, TaskDies(w) PROVE LeaseMove
  BY <1>12 DEF TaskDies, Return, Go, waveDb, LeaseMove, LeaseKept
<1>13. ASSUME NEW w \in Tasks, NEW k \in Steps, RunNoop(w, k) PROVE LeaseMove
  BY <1>13 DEF RunNoop, Ends, waveDb, LeaseMove, LeaseKept
<1>14. ASSUME NEW w \in Tasks, NEW k \in Steps, RunCancelled(w, k) PROVE LeaseMove
  <2>1. st \in [Steps -> StepStates] /\ exec \in Driven
    BY <1>14 DEF RunCancelled, OwnsWave, WaveTypeOK, StepStates, Driven
  <2> QED
    BY <1>14, <2>1, CancelLease DEF RunCancelled, LeaseMove
<1>15. ASSUME NEW w \in Tasks, NEW k \in Steps, RunWaits(w, k) PROVE LeaseMove
  BY <1>15 DEF RunWaits, MayRun, Ends, DropLease, LeaseMove, LeaseDropped
<1>16. ASSUME NEW w \in Tasks, NEW k \in Steps, RunFails(w, k) PROVE LeaseMove
  BY <1>16 DEF RunFails, MayRun, Ends, LeaseMove, LeaseKept
<1>17. ASSUME NEW w \in Tasks, NEW k \in Steps, RunStarts(w, k) PROVE LeaseMove
  BY <1>17 DEF RunStarts, MayRun, Ends, LeaseMove, LeaseKept
<1>18. ASSUME NEW w \in Tasks, NEW k \in Steps, CallFenced(w, k) PROVE LeaseMove
  BY <1>18 DEF CallFenced, Ends, Return, Go, waveDb, LeaseMove, LeaseKept
<1>19. ASSUME NEW w \in Tasks, NEW k \in Steps, GateCancelsCall(w, k) PROVE LeaseMove
  <2>1. [st EXCEPT ![k] = "CANCELLED"] \in [Steps -> StepStates] /\ exec \in Driven
    BY <1>19 DEF GateCancelsCall, OwnsWave, WaveTypeOK, StepStates, StepTerminal, Driven
  <2> QED
    BY <1>19, <2>1, CancelLease DEF GateCancelsCall, LeaseMove
<1>20. ASSUME NEW w \in Tasks, NEW k \in Steps, CallRetries(w, k) PROVE LeaseMove
  BY <1>20 DEF CallRetries, Ends, LeaseMove, LeaseKept
<1>21. ASSUME NEW w \in Tasks, NEW k \in Steps, CallEnds(w, k) PROVE LeaseMove
  <2>1. exec \in Driven
    BY <1>21 DEF CallEnds, OwnsWave, Driven
  <2>2. PICK o \in CallOutcomes(k) :
          LET e == IF o = "PRE_SEND" THEN "FAILED" ELSE o
          IN  \/ ReconcileCancel([st EXCEPT ![k] = e], [callSt EXCEPT ![k] = e])
              \/ UNCHANGED <<exec, lease, leaseLive>>
    BY <1>21 DEF CallEnds
  <2> DEFINE e == IF o = "PRE_SEND" THEN "FAILED" ELSE o
             c == [callSt EXCEPT ![k] = e]
  <2>3. e \in StepTerminal
    BY DEF CallOutcomes, StepTerminal
  <2>4. \/ ReconcileCancel([st EXCEPT ![k] = e], c)
        \/ UNCHANGED <<exec, lease, leaseLive>>
    BY <2>2
  <2> HIDE DEF e, c
  <2>5. [st EXCEPT ![k] = e] \in [Steps -> StepStates]
    BY <2>3 DEF WaveTypeOK, StepStates
  <2> QED
    BY <2>1, <2>4, <2>5, CancelLease DEF LeaseMove, LeaseKept
<1>22. ASSUME NEW w \in Tasks, NEW k \in Steps, Resume(w, k) PROVE LeaseMove
  <2>1. task[w] = "idle" /\ out' = out
    BY <1>22 DEF Resume
  <2> QED
    BY <1>22, <2>1, ResumeEffect, TakenCalm DEF LeaseMove, LeaseDropped, LeaseTaken, ExecTerminal
<1>23. ASSUME NEW k \in Steps, Approve(k) PROVE LeaseMove
  BY <1>23 DEF Approve, Waiting, waveDb, LeaseMove, LeaseKept
<1>24. ASSUME NEW k \in Steps, Refuse(k) PROVE LeaseMove
  BY <1>24, RefuseEffect DEF LeaseMove, LeaseDropped, ExecTerminal
<1>25. CASE WaveCancel
  <2>1. CASE Started = {}
    BY <1>25, <2>1 DEF WaveCancel, DropLease, LeaseMove, LeaseDropped, ExecTerminal
  <2>2. CASE Started # {}
    <3>1. exec = "RUNNING"
      BY <1>25, <2>2 DEF WaveCancel, Started, WaitsMatch, QueuedIsNew, CallsMatch
    <3> QED
      BY <1>25, <2>2, <3>1 DEF WaveCancel, LeaseMove, LeaseKept
  <2> QED
    BY <2>1, <2>2
<1>26. CASE LeaseLapses
  BY <1>26 DEF LeaseLapses, LeaseMove, LeaseLapsed
<1>27. CASE RecoverCancelled
  <2> DEFINE s == [k \in Steps |-> IF k \in Started THEN "UNKNOWN_OUTCOME" ELSE st[k]]
             c == [k \in Steps |-> IF k \in Started THEN "UNKNOWN_OUTCOME" ELSE callSt[k]]
  <2>1. ReconcileCancel(s, c) /\ exec \in Driven
    BY <1>27 DEF RecoverCancelled, Expired, Driven
  <2>2. s \in [Steps -> StepStates]
    BY DEF WaveTypeOK, StepStates, StepTerminal
  <2> HIDE DEF s, c
  <2> QED
    BY <2>1, <2>2, CancelLease DEF LeaseMove
<1>28. CASE RecoverFatal
  BY <1>28 DEF RecoverFatal, Expired, DropLease, LeaseMove, LeaseDropped, ExecTerminal
<1>29. CASE RecoverExhausted
  BY <1>29, ExhaustedEffect DEF LeaseMove, LeaseDropped, ExecTerminal
<1>30. ASSUME NEW w \in Tasks, RecoverTakesOver(w) PROVE LeaseMove
  BY <1>30, TakenCalm DEF RecoverTakesOver, Expired, LeaseMove, LeaseTaken
<1>31. CASE UNCHANGED waveVars
  BY <1>31 DEF waveVars, LeaseMove, LeaseKept
<1> QED
  BY <1>1, <1>2, <1>3, <1>4, <1>5, <1>6, <1>7, <1>8, <1>9, <1>10, <1>11, <1>12, <1>13, <1>14,
     <1>15, <1>16, <1>17, <1>18, <1>19, <1>20, <1>21, <1>22, <1>23, <1>24, <1>25, <1>26, <1>27,
     <1>28, <1>29, <1>30, <1>31
  DEF WaveNext, TaskMoves, StepMoves, WaveRecovery

\* Every step leaves the tasks where they are, moves one on, ends one or starts
\* one under a new lease.
LEMMA TaskMoved ==
  ASSUME WaveInv, [WaveNext]_waveVars
  PROVE  TaskMove
<1> WaveTypeOK
  BY DEF WaveInv
<1>1. ASSUME NEW w \in Tasks, WaveClaim(w) PROVE TaskMove
  BY <1>1, TakenCalm DEF WaveClaim, TaskMove, LeaseTaken
<1>2. ASSUME NEW w \in Tasks, PrepareReturns(w) PROVE TaskMove
  BY <1>2 DEF PrepareReturns, Return, Go, TaskMove, WaveTypeOK
<1>3. ASSUME NEW w \in Tasks, PrepareCancels(w) PROVE TaskMove
  BY <1>3 DEF PrepareCancels, Return, Go, TaskMove, WaveTypeOK
<1>4. ASSUME NEW w \in Tasks, PrepareStops(w) PROVE TaskMove
  BY <1>4 DEF PrepareStops, Return, Go, TaskMove, WaveTypeOK
<1>5. ASSUME NEW w \in Tasks, PrepareReserves(w) PROVE TaskMove
  <2>1. PICK to \in {"finalize", "run"} : Go(w, to)
    BY <1>5 DEF PrepareReserves
  <2>2. own' = own /\ task[w] # "idle"
    BY <1>5 DEF PrepareReserves, MayPrepareWave
  <2> QED
    BY <2>1, <2>2 DEF TaskMove, Go, WaveTypeOK
<1>6. ASSUME NEW w \in Tasks, Gathered(w) PROVE TaskMove
  <2>1. CASE Return(w)
    BY <2>1 DEF TaskMove, Return, Go
  <2>2. CASE Go(w, "settle") /\ own' = own
    BY <1>6, <2>2 DEF Gathered, TaskMove, Go, WaveTypeOK
  <2> QED
    BY <1>6, <2>1, <2>2 DEF Gathered
<1>7. ASSUME NEW w \in Tasks, WaveStops(w) PROVE TaskMove
  BY <1>7 DEF WaveStops, Return, Go, TaskMove, WaveTypeOK
<1>8. ASSUME NEW w \in Tasks, WaveCancelled(w) PROVE TaskMove
  <2>1. CASE Return(w)
    BY <2>1 DEF TaskMove, Return, Go
  <2>2. CASE Go(w, "prepare") /\ own' = own
    BY <1>8, <2>2 DEF WaveCancelled, TaskMove, Go, WaveTypeOK
  <2> QED
    BY <1>8, <2>1, <2>2 DEF WaveCancelled
<1>9. ASSUME NEW w \in Tasks, WaveStale(w) PROVE TaskMove
  BY <1>9 DEF WaveStale, Go, TaskMove, WaveTypeOK
<1>10. ASSUME NEW w \in Tasks, WaveSettles(w) PROVE TaskMove
  <2>1. CASE Return(w)
    BY <2>1 DEF TaskMove, Return, Go
  <2>2. CASE Go(w, "prepare") /\ own' = own
    BY <1>10, <2>2 DEF WaveSettles, TaskMove, Go, WaveTypeOK
  <2> QED
    BY <1>10, <2>1, <2>2 DEF WaveSettles
<1>11. ASSUME NEW w \in Tasks, Finalizes(w) PROVE TaskMove
  BY <1>11 DEF Finalizes, Return, Go, TaskMove, WaveTypeOK
<1>12. ASSUME NEW w \in Tasks, TaskDies(w) PROVE TaskMove
  BY <1>12 DEF TaskDies, Return, Go, TaskMove, WaveTypeOK
<1>13. ASSUME NEW w \in Tasks, NEW k \in Steps, RunNoop(w, k) PROVE TaskMove
  BY <1>13 DEF RunNoop, Ends, TaskMove, WaveTypeOK
<1>14. ASSUME NEW w \in Tasks, NEW k \in Steps, RunCancelled(w, k) PROVE TaskMove
  BY <1>14 DEF RunCancelled, Ends, TaskMove, WaveTypeOK
<1>15. ASSUME NEW w \in Tasks, NEW k \in Steps, RunWaits(w, k) PROVE TaskMove
  BY <1>15 DEF RunWaits, MayRun, Ends, DropLease, TaskMove, WaveTypeOK
<1>16. ASSUME NEW w \in Tasks, NEW k \in Steps, RunFails(w, k) PROVE TaskMove
  BY <1>16 DEF RunFails, MayRun, Ends, TaskMove, WaveTypeOK
<1>17. ASSUME NEW w \in Tasks, NEW k \in Steps, RunStarts(w, k) PROVE TaskMove
  BY <1>17 DEF RunStarts, MayRun, Ends, TaskMove, WaveTypeOK
<1>18. ASSUME NEW w \in Tasks, NEW k \in Steps, CallFenced(w, k) PROVE TaskMove
  <2>1. CASE Return(w)
    BY <2>1 DEF TaskMove, Return, Go
  <2>2. CASE UNCHANGED <<task, own>>
    BY <2>2 DEF TaskMove
  <2> QED
    BY <1>18, <2>1, <2>2 DEF CallFenced
<1>19. ASSUME NEW w \in Tasks, NEW k \in Steps, GateCancelsCall(w, k) PROVE TaskMove
  BY <1>19 DEF GateCancelsCall, Ends, TaskMove, WaveTypeOK
<1>20. ASSUME NEW w \in Tasks, NEW k \in Steps, CallRetries(w, k) PROVE TaskMove
  BY <1>20 DEF CallRetries, Ends, TaskMove, WaveTypeOK
<1>21. ASSUME NEW w \in Tasks, NEW k \in Steps, CallEnds(w, k) PROVE TaskMove
  BY <1>21 DEF CallEnds, Ends, TaskMove, WaveTypeOK
<1>22. ASSUME NEW w \in Tasks, NEW k \in Steps, Resume(w, k) PROVE TaskMove
  <2>1. task[w] = "idle" /\ out' = out
    BY <1>22 DEF Resume
  <2> QED
    BY <1>22, <2>1, ResumeEffect, TakenCalm DEF TaskMove, LeaseTaken
<1>23. ASSUME NEW k \in Steps, Approve(k) PROVE TaskMove
  BY <1>23 DEF Approve, Waiting, TaskMove, WaveTypeOK
<1>24. ASSUME NEW k \in Steps, Refuse(k) PROVE TaskMove
  BY <1>24 DEF Refuse, Waiting, TaskMove, WaveTypeOK
<1>25. CASE WaveCancel
  BY <1>25 DEF WaveCancel, DropLease, CancelPendingRequests, TaskMove, WaveTypeOK
<1>26. CASE LeaseLapses
  BY <1>26 DEF LeaseLapses, TaskMove, WaveTypeOK
<1>27. CASE RecoverCancelled
  BY <1>27 DEF RecoverCancelled, Expired, TaskMove, WaveTypeOK
<1>28. CASE RecoverFatal
  BY <1>28 DEF RecoverFatal, Expired, DropLease, TaskMove, WaveTypeOK
<1>29. CASE RecoverExhausted
  BY <1>29 DEF RecoverExhausted, Expired, TaskMove, WaveTypeOK
<1>30. ASSUME NEW w \in Tasks, RecoverTakesOver(w) PROVE TaskMove
  BY <1>30, TakenCalm DEF RecoverTakesOver, Expired, TaskMove, LeaseTaken
<1>31. CASE UNCHANGED waveVars
  BY <1>31 DEF waveVars, TaskMove, WaveTypeOK
<1> QED
  BY <1>1, <1>2, <1>3, <1>4, <1>5, <1>6, <1>7, <1>8, <1>9, <1>10, <1>11, <1>12, <1>13, <1>14,
     <1>15, <1>16, <1>17, <1>18, <1>19, <1>20, <1>21, <1>22, <1>23, <1>24, <1>25, <1>26, <1>27,
     <1>28, <1>29, <1>30, <1>31
  DEF WaveNext, TaskMoves, StepMoves, WaveRecovery

\* Tokens are told apart.
LEMMA TokensStep ==
  ASSUME WaveInv, [WaveNext]_waveVars
  PROVE  TokensSound'
<1> /\ TokensSound /\ WaveTypeOK /\ LeaseMove /\ TaskMove
  BY LeaseMoved, TaskMoved DEF WaveInv
<1>1. ASSUME NEW w \in Tasks, LeaseTaken(w) PROVE TokensSound'
  <2>1. /\ lease' \in Nat \ {0}
        /\ own' = [own EXCEPT ![w] = lease']
        /\ \A x \in Tasks : own[x] # lease'
    BY <1>1, FreshToken DEF LeaseTaken
  <2>2. task' = [task EXCEPT ![w] = "prepare"] /\ exec' = "RUNNING"
    BY <1>1 DEF LeaseTaken, Go
  <2> QED
    BY <2>1, <2>2 DEF TokensSound, WaveTypeOK, Driven
<1>2. CASE ~\E w \in Tasks : LeaseTaken(w)
  <2>1. /\ leaseLive' => lease' # 0
        /\ lease' # 0 => exec' \in Driven
    BY <1>2 DEF LeaseMove, LeaseKept, LeaseLapsed, LeaseDropped, TokensSound, Driven
  <2>2. CASE own' = own /\ \A x \in Tasks : task'[x] = "idle" <=> task[x] = "idle"
    BY <2>1, <2>2 DEF TokensSound
  <2>3. ASSUME NEW w \in Tasks,
               own' = [own EXCEPT ![w] = 0], task' = [task EXCEPT ![w] = "idle"]
        PROVE  TokensSound'
    BY <2>1, <2>3 DEF TokensSound, WaveTypeOK
  <2> QED
    BY <1>2, <2>2, <2>3 DEF TaskMove
<1> QED
  BY <1>1, <1>2

-----------------------------------------------------------------------------
(* Types.                                                                  *)

Phases == {"idle", "prepare", "run", "settle", "finalize"}
Outcomes == StepTerminal \union {"none", "start", "called", "PRE_SEND", "NOOP", "WAIT"}

\* The columns of the Steps.
RowsTyped ==
  /\ st \in [Steps -> StepStates]
  /\ code \in [Steps -> Codes]
  /\ callSt \in [Steps -> StepTerminal \union {"NONE", "STARTED"}]
  /\ req \in [Steps -> RequestStates]

\* The tasks and the counters.
TasksTyped ==
  /\ cancelAt \in BOOLEAN
  /\ DOMAIN tries = Steps /\ tries = [k \in Steps |-> tries[k]]
  /\ task \in [Tasks -> Phases]
  /\ out \in [Tasks -> [Steps -> Outcomes]]
  /\ waveFaults \in 0 .. MaxWaveFaults

\* The columns of the Steps keep their types.
LEMMA RowsStep ==
  ASSUME WaveInv, [WaveNext]_waveVars
  PROVE  RowsTyped'
<1> /\ WaveTypeOK /\ PlanSound /\ WaitsMatch /\ RowsTyped /\ plan' = plan /\ Steps' = Steps
  BY PlanStays DEF WaveInv, WaveTypeOK, RowsTyped, StepStates, Codes, Steps
<1>1. ASSUME NEW w \in Tasks, WaveClaim(w) PROVE RowsTyped'
  BY <1>1 DEF WaveClaim, Go, RowsTyped, waveDb, StepStates, StepTerminal, Codes, RequestStates
<1>2. ASSUME NEW w \in Tasks, PrepareReturns(w) PROVE RowsTyped'
  BY <1>2 DEF PrepareReturns, Return, Go, RowsTyped, waveDb, StepStates, StepTerminal, Codes,
    RequestStates
<1>3. ASSUME NEW w \in Tasks, PrepareCancels(w) PROVE RowsTyped'
  <2>1. ReconcileCancel(st, callSt) /\ code' = code
    BY <1>3 DEF PrepareCancels
  <2> QED
    BY <2>1, CancelEffect DEF RowsTyped
<1>4. ASSUME NEW w \in Tasks, PrepareStops(w) PROVE RowsTyped'
  <2>1. exec = "RUNNING"
    BY <1>4 DEF PrepareStops, MayPrepareWave, RunningLease
  <2>2. LocalReconcile \in LocalRecs
    BY <2>1, ReconcileLocal DEF Local
  <2>3. LocalReconcile \in LocalRecs /\ Completed(LocalReconcile) \in LocalRecs
    BY <2>2, CompletedRec
  <2>4. PICK r \in LocalRecs : Apply(r) /\ callSt' = callSt
    BY <1>4, <2>3 DEF PrepareStops
  <2> QED
    BY <2>4 DEF RowsTyped, Apply, LocalRecs
<1>5. ASSUME NEW w \in Tasks, PrepareReserves(w) PROVE RowsTyped'
  <2>1. LocalReconcile \in LocalRecs
    BY <1>5, ReconcileLocal DEF Local, PrepareReserves, MayPrepareWave, RunningLease
  <2>2. callSt' = callSt
    BY <1>5 DEF PrepareReserves
  <2> QED
    BY <1>5, <2>1, <2>2, ReserveEffect DEF RowsTyped, LocalRecs, StepStates
<1>6. ASSUME NEW w \in Tasks, Gathered(w) PROVE RowsTyped'
  BY <1>6 DEF Gathered, Return, Go, RowsTyped, waveDb, StepStates, StepTerminal, Codes,
    RequestStates
<1>7. ASSUME NEW w \in Tasks, WaveStops(w) PROVE RowsTyped'
  <2>1. callSt' = callSt
    BY <1>7 DEF WaveStops
  <2> QED
    BY <1>7, <2>1, WaveStopsEffect DEF RowsTyped
<1>8. ASSUME NEW w \in Tasks, WaveCancelled(w) PROVE RowsTyped'
  <2>1. CASE ReconcileCancel(st, callSt) /\ code' = code
    BY <2>1, CancelEffect DEF RowsTyped
  <2>2. CASE UNCHANGED <<st, code, callSt, req>>
    BY <2>2 DEF RowsTyped
  <2> QED
    BY <1>8, <2>1, <2>2 DEF WaveCancelled
<1>9. ASSUME NEW w \in Tasks, WaveStale(w) PROVE RowsTyped'
  BY <1>9 DEF WaveStale, Go, RowsTyped, waveDb, StepStates, StepTerminal, Codes, RequestStates
<1>10. ASSUME NEW w \in Tasks, WaveSettles(w) PROVE RowsTyped'
  <2>1. exec = "RUNNING"
    BY <1>10 DEF WaveSettles, MayPrepareWave, RunningLease
  <2>2. LocalReconcile \in LocalRecs
    BY <2>1, ReconcileLocal DEF Local
  <2>3. LocalReconcile \in LocalRecs /\ Completed(LocalReconcile) \in LocalRecs
    BY <2>2, CompletedRec
  <2>4. PICK r \in LocalRecs : Apply(r) /\ callSt' = callSt
    BY <1>10, <2>3 DEF WaveSettles
  <2> QED
    BY <2>4 DEF RowsTyped, Apply, LocalRecs
<1>11. ASSUME NEW w \in Tasks, Finalizes(w) PROVE RowsTyped'
  <2>1. CASE RunningLease(w)
    <3>1. LocalReconcile \in LocalRecs
      BY <2>1, ReconcileLocal DEF Local, RunningLease
    <3>2. PICK r \in LocalRecs : Apply(r) /\ callSt' = callSt
      BY <1>11, <2>1, <3>1, CompletedRec DEF Finalizes
    <3> QED
      BY <3>2 DEF RowsTyped, Apply, LocalRecs
  <2>2. CASE ~RunningLease(w)
    BY <1>11, <2>2 DEF Finalizes, RowsTyped
  <2> QED
    BY <2>1, <2>2
<1>12. ASSUME NEW w \in Tasks, TaskDies(w) PROVE RowsTyped'
  BY <1>12 DEF TaskDies, Return, Go, RowsTyped, waveDb, StepStates, StepTerminal, Codes,
    RequestStates
<1>13. ASSUME NEW w \in Tasks, NEW k \in Steps, RunNoop(w, k) PROVE RowsTyped'
  BY <1>13 DEF RunNoop, Ends, RowsTyped, waveDb, StepStates, StepTerminal, Codes, RequestStates
<1>14. ASSUME NEW w \in Tasks, NEW k \in Steps, RunCancelled(w, k) PROVE RowsTyped'
  <2>1. ReconcileCancel(st, callSt) /\ code' = code
    BY <1>14 DEF RunCancelled
  <2> QED
    BY <2>1, CancelEffect DEF RowsTyped
<1>15. ASSUME NEW w \in Tasks, NEW k \in Steps, RunWaits(w, k) PROVE RowsTyped'
  BY <1>15 DEF RunWaits, MayRun, Ends, DropLease, RowsTyped, waveDb, StepStates, StepTerminal,
    Codes, RequestStates
<1>16. ASSUME NEW w \in Tasks, NEW k \in Steps, RunFails(w, k) PROVE RowsTyped'
  BY <1>16 DEF RunFails, MayRun, Ends, RowsTyped, waveDb, StepStates, StepTerminal, Codes,
    RequestStates
<1>17. ASSUME NEW w \in Tasks, NEW k \in Steps, RunStarts(w, k) PROVE RowsTyped'
  BY <1>17 DEF RunStarts, MayRun, Ends, RowsTyped, waveDb, StepStates, StepTerminal, Codes,
    RequestStates
<1>18. ASSUME NEW w \in Tasks, NEW k \in Steps, CallFenced(w, k) PROVE RowsTyped'
  BY <1>18 DEF CallFenced, Ends, Return, Go, RowsTyped, waveDb, StepStates, StepTerminal, Codes,
    RequestStates
<1>19. ASSUME NEW w \in Tasks, NEW k \in Steps, GateCancelsCall(w, k) PROVE RowsTyped'
  <2> DEFINE s == [st EXCEPT ![k] = "CANCELLED"]
             c == [callSt EXCEPT ![k] = "CANCELLED"]
  <2>1. ReconcileCancel(s, c) /\ code' = code
    BY <1>19 DEF GateCancelsCall
  <2>2. s \in [Steps -> StepStates] /\ c \in [Steps -> StepTerminal \union {"NONE", "STARTED"}]
    BY DEF RowsTyped, StepStates, StepTerminal
  <2> HIDE DEF s, c
  <2> QED
    BY <2>1, <2>2, CancelEffect DEF RowsTyped
<1>20. ASSUME NEW w \in Tasks, NEW k \in Steps, CallRetries(w, k) PROVE RowsTyped'
  BY <1>20 DEF CallRetries, Ends, RowsTyped, waveDb, StepStates, StepTerminal, Codes,
    RequestStates
<1>21. ASSUME NEW w \in Tasks, NEW k \in Steps, CallEnds(w, k) PROVE RowsTyped'
  <2>1. PICK o \in CallOutcomes(k) :
          LET e == IF o = "PRE_SEND" THEN "FAILED" ELSE o
              s == [st EXCEPT ![k] = e]
              c == [callSt EXCEPT ![k] = e]
          IN  /\ code' = [code EXCEPT ![k] = IF o = "SUCCEEDED" THEN "NONE" ELSE "ERROR"]
              /\ ReconcileCancel(s, c) \/ (st' = s /\ callSt' = c /\ req' = req)
    BY <1>21 DEF CallEnds
  <2> DEFINE e == IF o = "PRE_SEND" THEN "FAILED" ELSE o
             s == [st EXCEPT ![k] = e]
             c == [callSt EXCEPT ![k] = e]
  <2>2. e \in StepTerminal
    BY DEF CallOutcomes, StepTerminal
  <2>3. ReconcileCancel(s, c) \/ (st' = s /\ callSt' = c /\ req' = req)
    BY <2>1
  <2>4. code' \in [Steps -> Codes]
    BY <2>1 DEF RowsTyped, Codes
  <2> HIDE DEF e
  <2>5. s \in [Steps -> StepStates] /\ c \in [Steps -> StepTerminal \union {"NONE", "STARTED"}]
    BY <2>2 DEF RowsTyped, StepStates
  <2> HIDE DEF s, c
  <2> QED
    BY <2>3, <2>4, <2>5, CancelEffect DEF RowsTyped
<1>22. ASSUME NEW w \in Tasks, NEW k \in Steps, Resume(w, k) PROVE RowsTyped'
  <2>1. callSt' = callSt
    BY <1>22 DEF Resume
  <2>2. /\ st' \in [Steps -> StepStates]
        /\ code' \in [Steps -> Codes]
        /\ req' \in [Steps -> RequestStates]
    BY <1>22, ResumeEffect DEF RowsTyped, StepStates
  <2> QED
    BY <2>1, <2>2 DEF RowsTyped
<1>23. ASSUME NEW k \in Steps, Approve(k) PROVE RowsTyped'
  BY <1>23 DEF Approve, Waiting, RowsTyped, waveDb, StepStates, StepTerminal, Codes,
    RequestStates
<1>24. ASSUME NEW k \in Steps, Refuse(k) PROVE RowsTyped'
  <2>1. callSt' = callSt
    BY <1>24 DEF Refuse
  <2> QED
    BY <1>24, <2>1, RefuseEffect DEF RowsTyped
<1>25. CASE WaveCancel
  <2>1. st' \in [Steps -> StepStates]
    BY <1>25 DEF WaveCancel, CancelSafeSteps, RowsTyped, StepStates, StepTerminal
  <2>2. req' \in [Steps -> RequestStates]
    BY <1>25 DEF WaveCancel, CancelPendingRequests, RowsTyped, RequestStates
  <2> QED
    BY <1>25, <2>1, <2>2 DEF WaveCancel, RowsTyped
<1>26. CASE LeaseLapses
  BY <1>26 DEF LeaseLapses, RowsTyped, waveDb, StepStates, StepTerminal, Codes, RequestStates
<1>27. CASE RecoverCancelled
  <2> DEFINE s == [k \in Steps |-> IF k \in Started THEN "UNKNOWN_OUTCOME" ELSE st[k]]
             c == [k \in Steps |-> IF k \in Started THEN "UNKNOWN_OUTCOME" ELSE callSt[k]]
  <2>1. ReconcileCancel(s, c) /\ code' = code
    BY <1>27 DEF RecoverCancelled
  <2>2. s \in [Steps -> StepStates] /\ c \in [Steps -> StepTerminal \union {"NONE", "STARTED"}]
    BY DEF RowsTyped, StepStates, StepTerminal
  <2> HIDE DEF s, c
  <2> QED
    BY <2>1, <2>2, CancelEffect DEF RowsTyped
<1>28. CASE RecoverFatal
  BY <1>28 DEF RecoverFatal, Expired, DropLease, RowsTyped, waveDb, StepStates, StepTerminal,
    Codes, RequestStates
<1>29. CASE RecoverExhausted
  <2>1. callSt' \in [Steps -> StepTerminal \union {"NONE", "STARTED"}]
    BY <1>29 DEF RecoverExhausted, RowsTyped, StepTerminal
  <2> QED
    BY <1>29, <2>1, ExhaustedEffect DEF RowsTyped
<1>30. ASSUME NEW w \in Tasks, RecoverTakesOver(w) PROVE RowsTyped'
  <2>1. callSt' \in [Steps -> StepTerminal \union {"NONE", "STARTED"}]
    BY <1>30 DEF RecoverTakesOver, RowsTyped, StepTerminal
  <2> DEFINE r == FailExhausted(LocalState)
  <2>2. r \in LocalRecs
    BY FailExhaustedRec
  <2>3. /\ st' = [k \in Steps |-> IF k \in Started \ Exhausted THEN "READY" ELSE r.st[k]]
        /\ code' = r.code
        /\ req' = req
    BY <1>30 DEF RecoverTakesOver
  <2> HIDE DEF r
  <2> QED
    BY <2>1, <2>2, <2>3 DEF RowsTyped, LocalRecs, StepStates
<1>31. CASE UNCHANGED waveVars
  BY <1>31 DEF waveVars, RowsTyped, waveDb, StepStates, StepTerminal, Codes, RequestStates
<1> QED
  BY <1>1, <1>2, <1>3, <1>4, <1>5, <1>6, <1>7, <1>8, <1>9, <1>10, <1>11, <1>12, <1>13, <1>14,
     <1>15, <1>16, <1>17, <1>18, <1>19, <1>20, <1>21, <1>22, <1>23, <1>24, <1>25, <1>26, <1>27,
     <1>28, <1>29, <1>30, <1>31
  DEF WaveNext, TaskMoves, StepMoves, WaveRecovery

\* The tasks and the counters keep their types.
LEMMA TasksStep ==
  ASSUME WaveInv, [WaveNext]_waveVars
  PROVE  TasksTyped'
<1> USE WaveBounds
<1> /\ WaveTypeOK /\ TasksTyped /\ plan' = plan /\ Steps' = Steps
  BY PlanStays DEF WaveInv, WaveTypeOK, TasksTyped, Phases, Outcomes, Steps
<1>1. ASSUME NEW w \in Tasks, WaveClaim(w) PROVE TasksTyped'
  BY <1>1 DEF WaveClaim, Go, TasksTyped, Phases, Outcomes, StepTerminal
<1>2. ASSUME NEW w \in Tasks, PrepareReturns(w) PROVE TasksTyped'
  BY <1>2 DEF PrepareReturns, Return, Go, TasksTyped, Phases, Outcomes, StepTerminal, waveDb
<1>3. ASSUME NEW w \in Tasks, PrepareCancels(w) PROVE TasksTyped'
  BY <1>3 DEF PrepareCancels, Return, Go, TasksTyped, Phases, Outcomes, StepTerminal
<1>4. ASSUME NEW w \in Tasks, PrepareStops(w) PROVE TasksTyped'
  BY <1>4 DEF PrepareStops, Return, Go, TasksTyped, Phases, Outcomes, StepTerminal
<1>5. ASSUME NEW w \in Tasks, PrepareReserves(w) PROVE TasksTyped'
  <2>1. PICK to \in {"finalize", "run"} : Go(w, to)
    BY <1>5 DEF PrepareReserves
  <2>2. PICK wave : out' = [out EXCEPT ![w] = [k \in Steps |-> IF k \in wave THEN "start" ELSE "none"]]
    BY <1>5 DEF PrepareReserves
  <2>3. out' \in [Tasks -> [Steps -> Outcomes]]
    BY <2>2 DEF TasksTyped, Outcomes
  <2> QED
    BY <1>5, <2>1, <2>3 DEF PrepareReserves, Go, TasksTyped, Phases
<1>6. ASSUME NEW w \in Tasks, Gathered(w) PROVE TasksTyped'
  <2>1. Return(w) \/ (Go(w, "settle") /\ out' = out)
    BY <1>6 DEF Gathered
  <2>2. task' \in [Tasks -> Phases] /\ out' \in [Tasks -> [Steps -> Outcomes]]
    <3>1. CASE Return(w)
      BY <3>1 DEF Return, Go, TasksTyped, Phases, Outcomes
    <3>2. CASE ~Return(w)
      BY <2>1, <3>2 DEF Go, TasksTyped, Phases
    <3> QED
      BY <3>1, <3>2
  <2> QED
    BY <1>6, <2>2 DEF Gathered, TasksTyped, waveDb
<1>7. ASSUME NEW w \in Tasks, WaveStops(w) PROVE TasksTyped'
  BY <1>7 DEF WaveStops, Return, Go, TasksTyped, Phases, Outcomes, StepTerminal
<1>8. ASSUME NEW w \in Tasks, WaveCancelled(w) PROVE TasksTyped'
  <2>1. Return(w) \/ (Go(w, "prepare") /\ out' = out)
    BY <1>8 DEF WaveCancelled
  <2>2. task' \in [Tasks -> Phases] /\ out' \in [Tasks -> [Steps -> Outcomes]]
    <3>1. CASE Return(w)
      BY <3>1 DEF Return, Go, TasksTyped, Phases, Outcomes
    <3>2. CASE ~Return(w)
      BY <2>1, <3>2 DEF Go, TasksTyped, Phases
    <3> QED
      BY <3>1, <3>2
  <2> QED
    BY <1>8, <2>2 DEF WaveCancelled, TasksTyped
<1>9. ASSUME NEW w \in Tasks, WaveStale(w) PROVE TasksTyped'
  BY <1>9 DEF WaveStale, Go, TasksTyped, Phases, Outcomes, StepTerminal, waveDb
<1>10. ASSUME NEW w \in Tasks, WaveSettles(w) PROVE TasksTyped'
  BY <1>10 DEF WaveSettles, Return, Go, TasksTyped, Phases, Outcomes, StepTerminal
<1>11. ASSUME NEW w \in Tasks, Finalizes(w) PROVE TasksTyped'
  BY <1>11 DEF Finalizes, Return, Go, TasksTyped, Phases, Outcomes, StepTerminal
<1>12. ASSUME NEW w \in Tasks, TaskDies(w) PROVE TasksTyped'
  BY <1>12 DEF TaskDies, Return, Go, TasksTyped, Phases, Outcomes, StepTerminal, waveDb
<1>13. ASSUME NEW w \in Tasks, NEW k \in Steps, RunNoop(w, k) PROVE TasksTyped'
  BY <1>13 DEF RunNoop, Ends, TasksTyped, Phases, Outcomes, StepTerminal, waveDb
<1>14. ASSUME NEW w \in Tasks, NEW k \in Steps, RunCancelled(w, k) PROVE TasksTyped'
  <2>1. PICK o \in {"FAILED", "NOOP"} : Ends(w, k, o)
    BY <1>14 DEF RunCancelled
  <2> QED
    BY <1>14, <2>1 DEF RunCancelled, Ends, TasksTyped, Outcomes, StepTerminal
<1>15. ASSUME NEW w \in Tasks, NEW k \in Steps, RunWaits(w, k) PROVE TasksTyped'
  BY <1>15 DEF RunWaits, MayRun, Ends, DropLease, TasksTyped, Phases, Outcomes, StepTerminal
<1>16. ASSUME NEW w \in Tasks, NEW k \in Steps, RunFails(w, k) PROVE TasksTyped'
  <2>1. PICK o \in {"PRE_SEND", "TIMED_OUT"} : Ends(w, k, o)
    BY <1>16 DEF RunFails
  <2> QED
    BY <1>16, <2>1 DEF RunFails, Ends, TasksTyped, Outcomes, StepTerminal
<1>17. ASSUME NEW w \in Tasks, NEW k \in Steps, RunStarts(w, k) PROVE TasksTyped'
  BY <1>17 DEF RunStarts, MayRun, Ends, TasksTyped, Phases, Outcomes, StepTerminal
<1>18. ASSUME NEW w \in Tasks, NEW k \in Steps, CallFenced(w, k) PROVE TasksTyped'
  <2>1. Return(w) \/ (Ends(w, k, "NOOP") /\ task' = task)
    BY <1>18 DEF CallFenced
  <2>2. task' \in [Tasks -> Phases] /\ out' \in [Tasks -> [Steps -> Outcomes]]
    <3>1. CASE Return(w)
      BY <3>1 DEF Return, Go, TasksTyped, Phases, Outcomes
    <3>2. CASE Ends(w, k, "NOOP") /\ task' = task
      BY <3>2 DEF Ends, TasksTyped, Outcomes
    <3> QED
      BY <2>1, <3>1, <3>2
  <2> QED
    BY <1>18, <2>2 DEF CallFenced, TasksTyped, waveDb
<1>19. ASSUME NEW w \in Tasks, NEW k \in Steps, GateCancelsCall(w, k) PROVE TasksTyped'
  <2>1. PICK o \in {"CANCELLED", "NOOP"} : Ends(w, k, o)
    BY <1>19 DEF GateCancelsCall
  <2> QED
    BY <1>19, <2>1 DEF GateCancelsCall, Ends, TasksTyped, Outcomes, StepTerminal
<1>20. ASSUME NEW w \in Tasks, NEW k \in Steps, CallRetries(w, k) PROVE TasksTyped'
  BY <1>20 DEF CallRetries, Ends, TasksTyped, Phases, Outcomes, StepTerminal
<1>21. ASSUME NEW w \in Tasks, NEW k \in Steps, CallEnds(w, k) PROVE TasksTyped'
  <2>1. PICK o \in CallOutcomes(k) : Ends(w, k, o)
    BY <1>21 DEF CallEnds
  <2>2. o \in Outcomes
    BY DEF CallOutcomes, Outcomes, StepTerminal
  <2> QED
    BY <1>21, <2>1, <2>2 DEF CallEnds, Ends, TasksTyped
<1>22. ASSUME NEW w \in Tasks, NEW k \in Steps, Resume(w, k) PROVE TasksTyped'
  <2>1. task' \in [Tasks -> Phases]
    BY <1>22, ResumeEffect DEF Go, TasksTyped, Phases
  <2> QED
    BY <1>22, <2>1 DEF Resume, TasksTyped
<1>23. ASSUME NEW k \in Steps, Approve(k) PROVE TasksTyped'
  BY <1>23 DEF Approve, Waiting, TasksTyped, Phases, Outcomes, StepTerminal
<1>24. ASSUME NEW k \in Steps, Refuse(k) PROVE TasksTyped'
  BY <1>24 DEF Refuse, Waiting, TasksTyped, Phases, Outcomes, StepTerminal
<1>25. CASE WaveCancel
  BY <1>25 DEF WaveCancel, DropLease, CancelPendingRequests, TasksTyped, Phases, Outcomes,
    StepTerminal
<1>26. CASE LeaseLapses
  <2>1. waveFaults' \in 0 .. MaxWaveFaults
    BY <1>26 DEF LeaseLapses, TasksTyped
  <2> QED
    BY <1>26, <2>1 DEF LeaseLapses, TasksTyped
<1>27. CASE RecoverCancelled
  BY <1>27 DEF RecoverCancelled, Expired, TasksTyped, Phases, Outcomes, StepTerminal
<1>28. CASE RecoverFatal
  BY <1>28 DEF RecoverFatal, Expired, DropLease, TasksTyped, Phases, Outcomes, StepTerminal
<1>29. CASE RecoverExhausted
  BY <1>29 DEF RecoverExhausted, Expired, TasksTyped, Phases, Outcomes, StepTerminal
<1>30. ASSUME NEW w \in Tasks, RecoverTakesOver(w) PROVE TasksTyped'
  BY <1>30 DEF RecoverTakesOver, Expired, Go, TasksTyped, Phases, Outcomes, StepTerminal
<1>31. CASE UNCHANGED waveVars
  BY <1>31 DEF waveVars, TasksTyped, Phases, Outcomes, StepTerminal
<1> QED
  BY <1>1, <1>2, <1>3, <1>4, <1>5, <1>6, <1>7, <1>8, <1>9, <1>10, <1>11, <1>12, <1>13, <1>14,
     <1>15, <1>16, <1>17, <1>18, <1>19, <1>20, <1>21, <1>22, <1>23, <1>24, <1>25, <1>26, <1>27,
     <1>28, <1>29, <1>30, <1>31
  DEF WaveNext, TaskMoves, StepMoves, WaveRecovery

\* Every column keeps its type.
LEMMA TypeStep ==
  ASSUME WaveInv, [WaveNext]_waveVars
  PROVE  WaveTypeOK'
<1> WaveTypeOK /\ RowsTyped' /\ TasksTyped' /\ LeaseMove /\ TaskMove
  BY RowsStep, TasksStep, LeaseMoved, TaskMoved DEF WaveInv
<1>1. plan' = plan /\ Steps' = Steps
  BY PlanStays DEF Steps
<1>2. ASSUME NEW w \in Tasks, LeaseTaken(w)
      PROVE  lease' \in Nat /\ leaseLive' \in BOOLEAN /\ own' \in [Tasks -> Nat]
  <2>1. lease' \in Nat /\ leaseLive' = TRUE /\ own' = [own EXCEPT ![w] = lease']
    BY <1>2, FreshToken DEF LeaseTaken
  <2> QED
    BY <2>1 DEF WaveTypeOK
<1>3. lease' \in Nat /\ leaseLive' \in BOOLEAN
  <2>1. lease \in Nat /\ leaseLive \in BOOLEAN
    BY DEF WaveTypeOK
  <2>2. CASE LeaseKept
    BY <2>1, <2>2 DEF LeaseKept
  <2>3. CASE LeaseLapsed
    BY <2>1, <2>3 DEF LeaseLapsed
  <2>4. CASE LeaseDropped
    BY <2>4 DEF LeaseDropped
  <2> QED
    BY <1>2, <2>2, <2>3, <2>4 DEF LeaseMove
<1>4. own' \in [Tasks -> Nat]
  BY <1>2 DEF TaskMove, WaveTypeOK
<1>5. exec' \in ExecStates
  BY DEF LeaseMove, LeaseKept, LeaseLapsed, LeaseDropped, LeaseTaken, WaveTypeOK, ExecStates,
         ExecTerminal
<1>6. tries' \in [Steps -> 0 .. MaxAttempts]
  BY <1>1, AttemptsStep DEF TasksTyped
<1> QED
  BY <1>1, <1>3, <1>4, <1>5, <1>6
  DEF WaveTypeOK, RowsTyped, TasksTyped, StepStates, ExecStates, Codes, Phases, Outcomes

-----------------------------------------------------------------------------
(* What the owner of the lease knows.                                      *)

\* Task w knows which calls are in flight and which outcomes are unknown.
Knows(w) ==
  \A k \in Steps :
    /\ callSt[k] = "STARTED" <=> task[w] = "run" /\ out[w][k] = "called"
    /\ st[k] = "UNKNOWN_OUTCOME" => task[w] \in {"run", "settle"} /\ out[w][k] = "UNKNOWN_OUTCOME"

\* Task w drives the Execution.
Drives(w) == task[w] # "idle" /\ OwnsWave(w)

\* No two tasks drive it.
LEMMA OneOwner ==
  ASSUME TokensSound, NEW v \in Tasks, NEW w \in Tasks, OwnsWave(v), OwnsWave(w)
  PROVE  v = w
BY DEF TokensSound, OwnsWave

\* Who drives the Execution after a step has just taken the lease, or drove it
\* before.
LEMMA OwnerBefore ==
  ASSUME WaveInv, [WaveNext]_waveVars, NEW w \in Tasks, Drives(w)'
  PROVE  LeaseTaken(w) \/ (Drives(w) /\ LeaseKept)
<1> /\ TokensSound /\ WaveTypeOK /\ LeaseMove /\ TaskMove
  BY LeaseMoved, TaskMoved DEF WaveInv
<1>1. leaseLive' /\ lease' = own'[w] /\ exec' \in Driven /\ task'[w] # "idle"
  BY DEF Drives, OwnsWave, Driven
<1>2. ASSUME NEW x \in Tasks, LeaseTaken(x) PROVE LeaseTaken(w)
  <2>1. own' = [own EXCEPT ![x] = lease'] /\ \A y \in Tasks : own[y] # lease'
    BY <1>2, FreshToken DEF LeaseTaken
  <2>2. w = x
    BY <1>1, <2>1 DEF WaveTypeOK
  <2> QED
    BY <1>2, <2>2
<1>3. CASE ~\E x \in Tasks : LeaseTaken(x)
  <2>1. LeaseKept
    BY <1>1, <1>3 DEF LeaseMove, LeaseLapsed, LeaseDropped
  <2>2. own'[w] = own[w] /\ task[w] # "idle"
    <3>1. CASE own' = own /\ \A x \in Tasks : task'[x] = "idle" <=> task[x] = "idle"
      BY <1>1, <3>1
    <3>2. ASSUME NEW x \in Tasks, own' = [own EXCEPT ![x] = 0], task' = [task EXCEPT ![x] = "idle"]
          PROVE  own'[w] = own[w] /\ task[w] # "idle"
      BY <1>1, <3>2 DEF WaveTypeOK
    <3> QED
      BY <1>3, <3>1, <3>2 DEF TaskMove
  <2> QED
    BY <1>1, <2>1, <2>2 DEF LeaseKept, Drives, OwnsWave, Driven
<1> QED
  BY <1>2, <1>3

\* A step of another task that leaves calls and outcomes alone.
LEMMA KnowsKept ==
  ASSUME NEW w \in Tasks, Knows(w), plan' = plan,
         task'[w] = task[w], out'[w] = out[w], callSt' = callSt,
         \A k \in Steps : st'[k] = "UNKNOWN_OUTCOME" => st[k] = "UNKNOWN_OUTCOME"
  PROVE  Knows(w)'
BY DEF Knows, Steps

\* The return of another task.
LEMMA OthersReturn ==
  ASSUME WaveTypeOK, NEW w \in Tasks, NEW x \in Tasks, Return(x), task'[w] # "idle"
  PROVE  x # w /\ task'[w] = task[w] /\ out'[w] = out[w]
BY DEF Return, Go, WaveTypeOK

\* Local work leaves no outcome unknown that was known.
LEMMA NoNewUnknown ==
  ASSUME WaveInv, NEW w \in Tasks, NEW k \in Steps, st'[k] = "UNKNOWN_OUTCOME",
         PrepareStops(w) \/ PrepareReserves(w) \/ WaveSettles(w) \/ Finalizes(w)
  PROVE  st[k] = "UNKNOWN_OUTCOME"
<1> WaveTypeOK /\ PlanSound /\ WaitsMatch
  BY DEF WaveInv
<1>1. CASE ~RunningLease(w)
  BY <1>1 DEF PrepareStops, PrepareReserves, MayPrepareWave, WaveSettles, Finalizes
<1>2. CASE RunningLease(w)
  <2>1. Local(LocalReconcile)
    BY <1>2, ReconcileLocal DEF RunningLease
  <2>2. LocalReconcile \in LocalRecs
    BY <2>1 DEF Local
  <2>3. st'[k] = LocalReconcile.st[k]
    <3>1. CASE PrepareStops(w)
      BY <3>1 DEF PrepareStops, Apply
    <3>2. CASE PrepareReserves(w)
      BY <2>2, <3>2, ReserveEffect
    <3>3. CASE WaveSettles(w)
      BY <2>2, <3>3, CompletedRec DEF WaveSettles, Apply
    <3>4. CASE Finalizes(w)
      BY <1>2, <2>2, <3>4, CompletedRec DEF Finalizes, Apply
    <3> QED
      BY <3>1, <3>2, <3>3, <3>4
  <2> QED
    BY <2>1, <2>3 DEF Local, LocalChange, KnownEnds
<1> QED
  BY <1>1, <1>2

\* A wave that does not stop the Execution leaves nothing in flight or unknown.
LEMMA Settled ==
  ASSUME NEW w \in Tasks, Knows(w), task[w] = "settle", StopStatus(w) = "NONE"
  PROVE  \A k \in Steps : callSt[k] # "STARTED" /\ st[k] # "UNKNOWN_OUTCOME"
<1>1. \A k \in Steps : out[w][k] # "UNKNOWN_OUTCOME"
  BY DEF StopStatus, FatalOutcome
<1> QED
  BY <1>1 DEF Knows

\* The task that drives the Execution before and after a step knows what
\* happened.
LEMMA KnowsStep ==
  ASSUME WaveInv, NEW w \in Tasks, Drives(w), LeaseKept, Drives(w)', [WaveNext]_waveVars
  PROVE  Knows(w)'
<1> /\ WaveTypeOK /\ PlanSound /\ TokensSound /\ CallsMatch /\ WaitsMatch /\ QueuedIsNew
    /\ plan' = plan /\ Steps' = Steps
  BY PlanStays DEF WaveInv, Steps
<1> st \in [Steps -> StepStates]
  BY DEF WaveTypeOK, StepStates
<1> /\ Knows(w) /\ OwnsWave(w) /\ task[w] # "idle" /\ leaseLive
    /\ exec' \in Driven /\ leaseLive' /\ task'[w] # "idle"
  BY DEF WaveInv, Knows, Drives, CallsOwned, UnknownsOwned, OwnsWave, Driven
<1>1. ASSUME NEW x \in Tasks, WaveClaim(x) PROVE Knows(w)'
  BY <1>1 DEF WaveClaim, OwnsWave
<1>2. ASSUME NEW x \in Tasks, PrepareReturns(x) PROVE Knows(w)'
  <2>1. x # w /\ task'[w] = task[w] /\ out'[w] = out[w]
    BY <1>2, OthersReturn DEF PrepareReturns
  <2> QED
    BY <1>2, <2>1, KnowsKept DEF PrepareReturns, waveDb
<1>3. ASSUME NEW x \in Tasks, PrepareCancels(x) PROVE Knows(w)'
  <2>1. ReconcileCancel(st, callSt)
    BY <1>3 DEF PrepareCancels
  <2>2. st' = st /\ callSt' = callSt
    BY <2>1, CancelEffect
  <2>3. x # w /\ task'[w] = task[w] /\ out'[w] = out[w]
    BY <1>3, OthersReturn DEF PrepareCancels
  <2> QED
    BY <2>2, <2>3, KnowsKept
<1>4. ASSUME NEW x \in Tasks, PrepareStops(x) PROVE Knows(w)'
  <2>1. x # w
    BY <1>4, OthersReturn DEF PrepareStops
  <2> QED
    BY <1>4, <2>1, OneOwner DEF PrepareStops, MayPrepareWave, RunningLease
<1>5. ASSUME NEW x \in Tasks, PrepareReserves(x) PROVE Knows(w)'
  <2>1. x = w /\ task[w] = "prepare" /\ callSt' = callSt
    BY <1>5, OneOwner DEF PrepareReserves, MayPrepareWave, RunningLease
  <2>2. \A k \in Steps : callSt[k] # "STARTED" /\ st[k] # "UNKNOWN_OUTCOME"
    BY <2>1 DEF Knows
  <2>3. \A k \in Steps : st'[k] # "UNKNOWN_OUTCOME"
    BY <1>5, <2>2, NoNewUnknown
  <2>4. PICK wave : out' = [out EXCEPT ![w] = [k \in Steps |-> IF k \in wave THEN "start" ELSE "none"]]
    BY <1>5, <2>1 DEF PrepareReserves
  <2>5. \A k \in Steps : out'[w][k] # "called"
    BY <2>4 DEF WaveTypeOK
  <2> QED
    BY <2>1, <2>2, <2>3, <2>5 DEF Knows
<1>6. ASSUME NEW x \in Tasks, Gathered(x) PROVE Knows(w)'
  <2>1. CASE Return(x)
    <3>1. x # w /\ task'[w] = task[w] /\ out'[w] = out[w]
      BY <2>1, OthersReturn
    <3> QED
      BY <1>6, <3>1, KnowsKept DEF Gathered, waveDb
  <2>2. CASE Go(x, "settle") /\ out' = out
    <3>1. callSt' = callSt /\ st' = st /\ task[x] = "run"
      BY <1>6 DEF Gathered, waveDb
    <3>2. CASE x # w
      BY <2>2, <3>1, <3>2, KnowsKept DEF Go, WaveTypeOK
    <3>3. CASE x = w
      <4>1. \A k \in Steps : callSt[k] # "STARTED"
        BY <1>6, <3>3 DEF Gathered, Knows
      <4>2. task'[w] = "settle"
        BY <2>2, <3>3 DEF Go, WaveTypeOK
      <4> QED
        BY <2>2, <3>1, <4>1, <4>2 DEF Knows
    <3> QED
      BY <3>2, <3>3
  <2> QED
    BY <1>6, <2>1, <2>2 DEF Gathered
<1>7. ASSUME NEW x \in Tasks, WaveStops(x) PROVE Knows(w)'
  BY <1>7, WaveStopsEffect DEF OwnsWave, Drives
<1>8. ASSUME NEW x \in Tasks, WaveCancelled(x) PROVE Knows(w)'
  <2>1. st' = st /\ callSt' = callSt
    BY <1>8, CancelEffect DEF WaveCancelled
  <2>2. CASE Return(x)
    <3>1. x # w /\ task'[w] = task[w] /\ out'[w] = out[w]
      BY <2>2, OthersReturn
    <3> QED
      BY <2>1, <3>1, KnowsKept
  <2>3. CASE Go(x, "prepare") /\ out' = out
    <3>1. CASE x # w
      BY <2>1, <2>3, <3>1, KnowsKept DEF Go, WaveTypeOK
    <3>2. CASE x = w
      <4>1. task[w] = "settle" /\ StopStatus(w) = "NONE"
        BY <1>8, <3>2 DEF WaveCancelled
      <4>2. \A k \in Steps : callSt[k] # "STARTED" /\ st[k] # "UNKNOWN_OUTCOME"
        BY <4>1, Settled
      <4> QED
        BY <2>1, <2>3, <3>2, <4>2 DEF Knows, Go, WaveTypeOK
    <3> QED
      BY <3>1, <3>2
  <2> QED
    BY <1>8, <2>2, <2>3 DEF WaveCancelled
<1>9. ASSUME NEW x \in Tasks, WaveStale(x) PROVE Knows(w)'
  <2>1. x # w
    BY <1>9 DEF WaveStale, RunningLease, OwnsWave, CancelRequested
  <2> QED
    BY <1>9, <2>1, KnowsKept DEF WaveStale, waveDb, Go, WaveTypeOK
<1>10. ASSUME NEW x \in Tasks, WaveSettles(x) PROVE Knows(w)'
  <2>1. x = w
    BY <1>10, OneOwner DEF WaveSettles, RunningLease
  <2>2. \A k \in Steps : callSt[k] # "STARTED" /\ st[k] # "UNKNOWN_OUTCOME"
    BY <1>10, <2>1, Settled DEF WaveSettles
  <2>3. \A k \in Steps : st'[k] # "UNKNOWN_OUTCOME"
    BY <1>10, <2>2, NoNewUnknown
  <2>4. Go(w, "prepare") /\ callSt' = callSt
    BY <1>10, <2>1, OthersReturn DEF WaveSettles
  <2> QED
    BY <2>2, <2>3, <2>4 DEF Knows, Go, WaveTypeOK
<1>11. ASSUME NEW x \in Tasks, Finalizes(x) PROVE Knows(w)'
  <2>1. x # w /\ task'[w] = task[w] /\ out'[w] = out[w]
    BY <1>11, OthersReturn DEF Finalizes
  <2>2. ~RunningLease(x)
    BY <2>1, OneOwner DEF RunningLease
  <2> QED
    BY <1>11, <2>1, <2>2, KnowsKept DEF Finalizes
<1>12. ASSUME NEW x \in Tasks, TaskDies(x) PROVE Knows(w)'
  <2>1. x # w /\ task'[w] = task[w] /\ out'[w] = out[w]
    BY <1>12, OthersReturn DEF TaskDies
  <2> QED
    BY <1>12, <2>1, KnowsKept DEF TaskDies, waveDb
<1>13. ASSUME NEW x \in Tasks, NEW k \in Steps, RunNoop(x, k) PROVE Knows(w)'
  <2>1. callSt' = callSt /\ st' = st /\ task' = task /\ task[x] = "run" /\ out[x][k] = "start"
    BY <1>13 DEF RunNoop, Waved, waveDb
  <2>2. CASE x # w
    BY <1>13, <2>1, <2>2, KnowsKept DEF RunNoop, Ends, WaveTypeOK
  <2>3. CASE x = w
    BY <1>13, <2>1, <2>3 DEF RunNoop, Ends, WaveTypeOK, Knows
  <2> QED
    BY <2>2, <2>3
<1>14. ASSUME NEW x \in Tasks, NEW k \in Steps, RunCancelled(x, k) PROVE Knows(w)'
  <2>1. x = w /\ task[w] = "run" /\ out[w][k] = "start" /\ task' = task
    BY <1>14, OneOwner DEF RunCancelled, Waved
  <2>2. ReconcileCancel(st, callSt)
    BY <1>14 DEF RunCancelled
  <2>3. st' = st /\ callSt' = callSt
    BY <2>2, CancelEffect
  <2>4. PICK o \in {"FAILED", "NOOP"} : Ends(w, k, o)
    BY <1>14, <2>1 DEF RunCancelled
  <2> QED
    BY <2>1, <2>3, <2>4 DEF Ends, Knows, WaveTypeOK
<1>15. ASSUME NEW x \in Tasks, NEW k \in Steps, RunWaits(x, k) PROVE Knows(w)'
  BY <1>15 DEF RunWaits, DropLease
<1>16. ASSUME NEW x \in Tasks, NEW k \in Steps, RunFails(x, k) PROVE Knows(w)'
  <2>1. x = w /\ task[w] = "run" /\ out[w][k] = "start" /\ task' = task
    BY <1>16, OneOwner DEF RunFails, Waved, MayRun
  <2>2. PICK o \in {"PRE_SEND", "TIMED_OUT"} : Ends(w, k, o)
    BY <1>16, <2>1 DEF RunFails
  <2>3. PICK s \in {"FAILED", "TIMED_OUT"} : st' = [st EXCEPT ![k] = s]
    BY <1>16 DEF RunFails
  <2>4. callSt' = callSt
    BY <1>16 DEF RunFails
  <2> QED
    BY <2>1, <2>2, <2>3, <2>4 DEF Ends, Knows, WaveTypeOK
<1>17. ASSUME NEW x \in Tasks, NEW k \in Steps, RunStarts(x, k) PROVE Knows(w)'
  <2>1. x = w /\ task[w] = "run" /\ out[w][k] = "start" /\ task' = task
    BY <1>17, OneOwner DEF RunStarts, Waved, MayRun
  <2> QED
    BY <1>17, <2>1 DEF RunStarts, Ends, Knows, WaveTypeOK
<1>18. ASSUME NEW x \in Tasks, NEW k \in Steps, CallFenced(x, k) PROVE Knows(w)'
  <2>1. x # w
    BY <1>18 DEF CallFenced
  <2>2. out'[w] = out[w] /\ task'[w] = task[w]
    BY <1>18, <2>1 DEF CallFenced, Ends, Return, Go, WaveTypeOK
  <2> QED
    BY <1>18, <2>2, KnowsKept DEF CallFenced, waveDb
<1>19. ASSUME NEW x \in Tasks, NEW k \in Steps, GateCancelsCall(x, k) PROVE Knows(w)'
  <2>1. x = w /\ task[w] = "run" /\ out[w][k] = "called" /\ task' = task
    BY <1>19, OneOwner DEF GateCancelsCall, Waved
  <2> DEFINE s == [st EXCEPT ![k] = "CANCELLED"]
             c == [callSt EXCEPT ![k] = "CANCELLED"]
  <2>2. ReconcileCancel(s, c)
    BY <1>19 DEF GateCancelsCall
  <2>3. s \in [Steps -> StepStates]
    BY DEF WaveTypeOK, StepStates, StepTerminal
  <2> HIDE DEF s, c
  <2>4. st' = s /\ callSt' = c
    BY <2>2, <2>3, CancelEffect
  <2>5. PICK o \in {"CANCELLED", "NOOP"} : Ends(w, k, o)
    BY <1>19, <2>1 DEF GateCancelsCall
  <2> QED
    BY <2>1, <2>4, <2>5 DEF Ends, Knows, WaveTypeOK, s, c
<1>20. ASSUME NEW x \in Tasks, NEW k \in Steps, CallRetries(x, k) PROVE Knows(w)'
  <2>1. x = w /\ task[w] = "run" /\ out[w][k] = "called" /\ task' = task
    BY <1>20, OneOwner DEF CallRetries, Waved
  <2> QED
    BY <1>20, <2>1 DEF CallRetries, Ends, Knows, WaveTypeOK
<1>21. ASSUME NEW x \in Tasks, NEW k \in Steps, CallEnds(x, k) PROVE Knows(w)'
  <2>1. x = w /\ task[w] = "run" /\ out[w][k] = "called" /\ task' = task
    BY <1>21, OneOwner DEF CallEnds, Waved
  <2>2. PICK o \in CallOutcomes(k) :
          LET e == IF o = "PRE_SEND" THEN "FAILED" ELSE o
              s == [st EXCEPT ![k] = e]
              c == [callSt EXCEPT ![k] = e]
          IN  /\ Ends(w, k, o)
              /\ ReconcileCancel(s, c) \/ (st' = s /\ callSt' = c)
    BY <1>21, <2>1 DEF CallEnds
  <2> DEFINE e == IF o = "PRE_SEND" THEN "FAILED" ELSE o
             s == [st EXCEPT ![k] = e]
             c == [callSt EXCEPT ![k] = e]
  <2>3. /\ e \in StepTerminal
        /\ e = "UNKNOWN_OUTCOME" => o = "UNKNOWN_OUTCOME"
        /\ o # "called" /\ e # "STARTED"
    BY DEF CallOutcomes, StepTerminal
  <2>4. Ends(w, k, o) /\ (ReconcileCancel(s, c) \/ (st' = s /\ callSt' = c))
    BY <2>2
  <2> HIDE DEF e
  <2>5. s \in [Steps -> StepStates]
    BY <2>3 DEF WaveTypeOK, StepStates
  <2> HIDE DEF s, c
  <2>6. st' = s /\ callSt' = c
    BY <2>4, <2>5, CancelEffect
  <2> QED
    BY <2>1, <2>3, <2>4, <2>6 DEF Ends, Knows, WaveTypeOK, s, c
<1>22. ASSUME NEW x \in Tasks, NEW k \in Steps, Resume(x, k) PROVE Knows(w)'
  BY <1>22 DEF Resume, Waiting, OwnsWave
<1>23. ASSUME NEW k \in Steps, Approve(k) PROVE Knows(w)'
  BY <1>23 DEF Approve, Waiting, OwnsWave
<1>24. ASSUME NEW k \in Steps, Refuse(k) PROVE Knows(w)'
  BY <1>24 DEF Refuse, Waiting, OwnsWave
<1>25. CASE WaveCancel
  <2>1. /\ callSt' = callSt /\ task' = task /\ out' = out
        /\ \A k \in Steps : st'[k] = "UNKNOWN_OUTCOME" => st[k] = "UNKNOWN_OUTCOME"
    BY <1>25 DEF WaveCancel, CancelSafeSteps
  <2> QED
    BY <2>1, KnowsKept
<1>26. CASE LeaseLapses
  BY <1>26 DEF LeaseLapses
<1>27. CASE RecoverCancelled
  BY <1>27 DEF RecoverCancelled, Expired, OwnsWave
<1>28. CASE RecoverFatal
  BY <1>28 DEF RecoverFatal, Expired, OwnsWave
<1>29. CASE RecoverExhausted
  BY <1>29 DEF RecoverExhausted, Expired, OwnsWave
<1>30. ASSUME NEW x \in Tasks, RecoverTakesOver(x) PROVE Knows(w)'
  BY <1>30 DEF RecoverTakesOver, Expired, OwnsWave
<1>31. CASE UNCHANGED waveVars
  BY <1>31, KnowsKept DEF waveVars
<1> QED
  BY <1>1, <1>2, <1>3, <1>4, <1>5, <1>6, <1>7, <1>8, <1>9, <1>10, <1>11, <1>12, <1>13, <1>14,
     <1>15, <1>16, <1>17, <1>18, <1>19, <1>20, <1>21, <1>22, <1>23, <1>24, <1>25, <1>26, <1>27,
     <1>28, <1>29, <1>30, <1>31
  DEF WaveNext, TaskMoves, StepMoves, WaveRecovery

\* The live lease is worth what it says, after every step.
LEMMA OwnedStep ==
  ASSUME WaveInv, [WaveNext]_waveVars
  PROVE  CallsOwned' /\ UnknownsOwned'
<1>1. Steps' = Steps
  BY PlanStays DEF Steps
<1>2. ASSUME NEW w \in Tasks, Drives(w)' PROVE Knows(w)'
  <2>1. CASE LeaseTaken(w)
    BY <1>1, <2>1 DEF LeaseTaken, Calm, Knows, Go, WaveInv, WaveTypeOK
  <2>2. CASE Drives(w) /\ LeaseKept
    BY <1>2, <2>2, KnowsStep
  <2> QED
    BY <1>2, <2>1, <2>2, OwnerBefore
<1> QED
  BY <1>1, <1>2 DEF CallsOwned, UnknownsOwned, Knows, Drives

-----------------------------------------------------------------------------
(* A TOOL that asks for an approval is alone in its wave.                  *)

\* The first of a nonempty set is one Step.
LEMMA FirstOfOne ==
  ASSUME PlanSound, NEW S, S \subseteq Steps, S # {}
  PROVE  \E m : FirstOf(S, 1) = {m}
<1> DEFINE N == Len(plan.order)
           W == {Position(k) : k \in S}
<1>1. N \in Nat /\ DOMAIN plan.order = 1 .. N
  BY DEF PlanSound
<1>2. W \subseteq 0 .. N /\ W # {}
  BY <1>1, Positions
<1>3. Min(W) \in W /\ \A y \in W : Min(W) <= y
  <2> HIDE DEF W, N
  <2> QED
    BY <1>1, <1>2, MinIsMember
<1>4. PICK m \in S : \A j \in S : Position(m) <= Position(j)
  BY <1>3
<1>5. {j \in S : Position(j) < Position(m)} = {}
  <2> SUFFICES ASSUME NEW j \in S, Position(j) < Position(m) PROVE FALSE
    OBVIOUS
  <2>1. Position(j) \in 0 .. N /\ Position(m) \in 0 .. N
    BY <1>2
  <2> QED
    BY <1>1, <1>4, <2>1
<1>6. m \in FirstOf(S, 1)
  BY <1>5, FS_EmptySet DEF FirstOf
<1>7. IsFiniteSet(FirstOf(S, 1)) /\ Cardinality(FirstOf(S, 1)) <= 1
  BY FirstOfBounded
<1>8. Cardinality(FirstOf(S, 1)) \in Nat /\ Cardinality(FirstOf(S, 1)) # 0
  BY <1>6, <1>7, FS_EmptySet, FS_CardinalityType
<1>9. Cardinality(FirstOf(S, 1)) = 1
  BY <1>7, <1>8
<1> QED
  BY <1>7, <1>9, FS_Singleton

\* If a TOOL of the wave asks, the wave is that TOOL.
LEMMA ApprovalWaveAlone ==
  ASSUME PlanSound, NEW ready, ready \subseteq Steps, NEW k \in ApprovalWave(ready),
         plan.steps[k].asks, NEW j \in ApprovalWave(ready)
  PROVE  j = k
<1> DEFINE S == {i \in ready : plan.steps[i].asks}
<1>1. ApprovalWave(ready) = IF FirstOf(S, 1) = {} THEN ready ELSE FirstOf(S, 1)
  BY DEF ApprovalWave
<1>2. CASE S = {}
  BY <1>1, <1>2 DEF FirstOf
<1>3. CASE S # {}
  <2>1. S \subseteq Steps
    OBVIOUS
  <2> HIDE DEF S
  <2>2. PICK m : FirstOf(S, 1) = {m}
    BY <1>3, <2>1, FirstOfOne
  <2> QED
    BY <1>1, <2>2
<1> QED
  BY <1>2, <1>3

\* The wave of task w was running and has the same Steps.
SameWave(w) == task[w] = "run" /\ \A k \in Steps : out'[w][k] = "none" <=> out[w][k] = "none"

\* A running wave was reserved by this step or was running before, with the
\* same Steps.
LEMMA WaveStays ==
  ASSUME WaveInv, NEW w \in Tasks, task'[w] = "run", [WaveNext]_waveVars
  PROVE  SameWave(w) \/ PrepareReserves(w)
<1> WaveTypeOK
  BY DEF WaveInv
<1>1. ASSUME NEW x \in Tasks, WaveClaim(x) PROVE SameWave(w) \/ PrepareReserves(w)
  BY <1>1 DEF WaveClaim, Go, SameWave, WaveTypeOK
<1>2. ASSUME NEW x \in Tasks, PrepareReturns(x) PROVE SameWave(w) \/ PrepareReserves(w)
  BY <1>2 DEF PrepareReturns, Return, Go, SameWave, WaveTypeOK
<1>3. ASSUME NEW x \in Tasks, PrepareCancels(x) PROVE SameWave(w) \/ PrepareReserves(w)
  BY <1>3 DEF PrepareCancels, Return, Go, SameWave, WaveTypeOK
<1>4. ASSUME NEW x \in Tasks, PrepareStops(x) PROVE SameWave(w) \/ PrepareReserves(w)
  BY <1>4 DEF PrepareStops, Return, Go, SameWave, WaveTypeOK
<1>5. ASSUME NEW x \in Tasks, PrepareReserves(x) PROVE SameWave(w) \/ PrepareReserves(w)
  <2>1. CASE x = w
    BY <1>5, <2>1
  <2>2. CASE x # w
    BY <1>5, <2>2 DEF PrepareReserves, Go, SameWave, WaveTypeOK
  <2> QED
    BY <2>1, <2>2
<1>6. ASSUME NEW x \in Tasks, Gathered(x) PROVE SameWave(w) \/ PrepareReserves(w)
  <2>1. CASE Return(x)
    BY <2>1 DEF Return, Go, SameWave, WaveTypeOK
  <2>2. CASE Go(x, "settle") /\ out' = out
    BY <2>2 DEF Go, SameWave, WaveTypeOK
  <2> QED
    BY <1>6, <2>1, <2>2 DEF Gathered
<1>7. ASSUME NEW x \in Tasks, WaveStops(x) PROVE SameWave(w) \/ PrepareReserves(w)
  BY <1>7 DEF WaveStops, Return, Go, SameWave, WaveTypeOK
<1>8. ASSUME NEW x \in Tasks, WaveCancelled(x) PROVE SameWave(w) \/ PrepareReserves(w)
  <2>1. CASE Return(x)
    BY <2>1 DEF Return, Go, SameWave, WaveTypeOK
  <2>2. CASE Go(x, "prepare") /\ out' = out
    BY <2>2 DEF Go, SameWave, WaveTypeOK
  <2> QED
    BY <1>8, <2>1, <2>2 DEF WaveCancelled
<1>9. ASSUME NEW x \in Tasks, WaveStale(x) PROVE SameWave(w) \/ PrepareReserves(w)
  BY <1>9 DEF WaveStale, Go, SameWave, WaveTypeOK
<1>10. ASSUME NEW x \in Tasks, WaveSettles(x) PROVE SameWave(w) \/ PrepareReserves(w)
  <2>1. CASE Return(x)
    BY <2>1 DEF Return, Go, SameWave, WaveTypeOK
  <2>2. CASE Go(x, "prepare") /\ out' = out
    BY <2>2 DEF Go, SameWave, WaveTypeOK
  <2> QED
    BY <1>10, <2>1, <2>2 DEF WaveSettles
<1>11. ASSUME NEW x \in Tasks, Finalizes(x) PROVE SameWave(w) \/ PrepareReserves(w)
  BY <1>11 DEF Finalizes, Return, Go, SameWave, WaveTypeOK
<1>12. ASSUME NEW x \in Tasks, TaskDies(x) PROVE SameWave(w) \/ PrepareReserves(w)
  BY <1>12 DEF TaskDies, Return, Go, SameWave, WaveTypeOK, Waved
<1>13. ASSUME NEW x \in Tasks, NEW k \in Steps, RunNoop(x, k)
      PROVE  SameWave(w) \/ PrepareReserves(w)
  BY <1>13 DEF RunNoop, Ends, SameWave, WaveTypeOK, Waved
<1>14. ASSUME NEW x \in Tasks, NEW k \in Steps, RunCancelled(x, k)
      PROVE  SameWave(w) \/ PrepareReserves(w)
  <2>1. PICK o \in {"FAILED", "NOOP"} : Ends(x, k, o)
    BY <1>14 DEF RunCancelled
  <2>2. out[x][k] = "start" /\ task' = task
    BY <1>14 DEF RunCancelled, MayRun, Waved
  <2> QED
    BY <2>1, <2>2 DEF Ends, SameWave, WaveTypeOK
<1>15. ASSUME NEW x \in Tasks, NEW k \in Steps, RunWaits(x, k)
      PROVE  SameWave(w) \/ PrepareReserves(w)
  BY <1>15 DEF RunWaits, MayRun, Ends, DropLease, SameWave, WaveTypeOK, Waved
<1>16. ASSUME NEW x \in Tasks, NEW k \in Steps, RunFails(x, k)
      PROVE  SameWave(w) \/ PrepareReserves(w)
  <2>1. PICK o \in {"PRE_SEND", "TIMED_OUT"} : Ends(x, k, o)
    BY <1>16 DEF RunFails
  <2>2. out[x][k] = "start" /\ task' = task
    BY <1>16 DEF RunFails, MayRun, Waved
  <2> QED
    BY <2>1, <2>2 DEF Ends, SameWave, WaveTypeOK
<1>17. ASSUME NEW x \in Tasks, NEW k \in Steps, RunStarts(x, k)
      PROVE  SameWave(w) \/ PrepareReserves(w)
  BY <1>17 DEF RunStarts, MayRun, Ends, SameWave, WaveTypeOK, Waved
<1>18. ASSUME NEW x \in Tasks, NEW k \in Steps, CallFenced(x, k)
      PROVE  SameWave(w) \/ PrepareReserves(w)
  <2>1. CASE Return(x)
    BY <2>1 DEF Return, Go, SameWave, WaveTypeOK
  <2>2. CASE Ends(x, k, "NOOP") /\ task' = task
    BY <1>18, <2>2 DEF CallFenced, Waved, Ends, SameWave, WaveTypeOK
  <2> QED
    BY <1>18, <2>1, <2>2 DEF CallFenced
<1>19. ASSUME NEW x \in Tasks, NEW k \in Steps, GateCancelsCall(x, k)
      PROVE  SameWave(w) \/ PrepareReserves(w)
  <2>1. PICK o \in {"CANCELLED", "NOOP"} : Ends(x, k, o)
    BY <1>19 DEF GateCancelsCall
  <2>2. out[x][k] = "called" /\ task' = task
    BY <1>19 DEF GateCancelsCall, MayRun, Waved
  <2> QED
    BY <2>1, <2>2 DEF Ends, SameWave, WaveTypeOK
<1>20. ASSUME NEW x \in Tasks, NEW k \in Steps, CallRetries(x, k)
      PROVE  SameWave(w) \/ PrepareReserves(w)
  BY <1>20 DEF CallRetries, Ends, SameWave, WaveTypeOK, Waved
<1>21. ASSUME NEW x \in Tasks, NEW k \in Steps, CallEnds(x, k)
      PROVE  SameWave(w) \/ PrepareReserves(w)
  <2>1. PICK o \in CallOutcomes(k) : Ends(x, k, o)
    BY <1>21 DEF CallEnds
  <2>2. o # "none" /\ out[x][k] = "called" /\ task' = task
    BY <1>21 DEF CallOutcomes, CallEnds, Waved
  <2> QED
    BY <2>1, <2>2 DEF Ends, SameWave, WaveTypeOK
<1>22. ASSUME NEW x \in Tasks, NEW k \in Steps, Resume(x, k)
      PROVE  SameWave(w) \/ PrepareReserves(w)
  <2>1. out' = out /\ (task' = task \/ Go(x, "prepare"))
    BY <1>22 DEF Resume
  <2> QED
    BY <2>1 DEF Go, SameWave, WaveTypeOK
<1>23. ASSUME NEW k \in Steps, Approve(k) PROVE SameWave(w) \/ PrepareReserves(w)
  BY <1>23 DEF Approve, Waiting, SameWave, WaveTypeOK, Waved
<1>24. ASSUME NEW k \in Steps, Refuse(k) PROVE SameWave(w) \/ PrepareReserves(w)
  BY <1>24 DEF Refuse, Waiting, SameWave, WaveTypeOK, Waved
<1>25. CASE WaveCancel
  BY <1>25 DEF WaveCancel, DropLease, CancelPendingRequests, SameWave, WaveTypeOK
<1>26. CASE LeaseLapses
  BY <1>26 DEF LeaseLapses, SameWave, WaveTypeOK
<1>27. CASE RecoverCancelled
  BY <1>27 DEF RecoverCancelled, Expired, SameWave, WaveTypeOK
<1>28. CASE RecoverFatal
  BY <1>28 DEF RecoverFatal, Expired, DropLease, SameWave, WaveTypeOK
<1>29. CASE RecoverExhausted
  BY <1>29 DEF RecoverExhausted, Expired, SameWave, WaveTypeOK
<1>30. ASSUME NEW x \in Tasks, RecoverTakesOver(x) PROVE SameWave(w) \/ PrepareReserves(w)
  BY <1>30 DEF RecoverTakesOver, Expired, Go, SameWave, WaveTypeOK, Waved
<1>31. CASE UNCHANGED waveVars
  BY <1>31 DEF waveVars, SameWave, WaveTypeOK
<1> QED
  BY <1>1, <1>2, <1>3, <1>4, <1>5, <1>6, <1>7, <1>8, <1>9, <1>10, <1>11, <1>12, <1>13, <1>14,
     <1>15, <1>16, <1>17, <1>18, <1>19, <1>20, <1>21, <1>22, <1>23, <1>24, <1>25, <1>26, <1>27,
     <1>28, <1>29, <1>30, <1>31
  DEF WaveNext, TaskMoves, StepMoves, WaveRecovery

\* A TOOL that asks stays alone in its wave.
LEMMA AloneStep ==
  ASSUME WaveInv, [WaveNext]_waveVars
  PROVE  AskingAlone'
<1> /\ WaveTypeOK /\ PlanSound /\ AskingAlone /\ plan' = plan /\ Steps' = Steps
  BY PlanStays DEF WaveInv, Steps
<1> SUFFICES ASSUME NEW w \in Tasks, task'[w] = "run",
                    NEW k \in Steps, out'[w][k] # "none", plan.steps[k].asks,
                    NEW j \in Steps \ {k}
             PROVE  out'[w][j] = "none"
  BY DEF AskingAlone
<1>1. CASE SameWave(w)
  BY <1>1 DEF SameWave, AskingAlone
<1>2. CASE PrepareReserves(w)
  <2>1. PICK ready \in SUBSET Steps :
          out' = [out EXCEPT ![w] = [i \in Steps |-> IF i \in ApprovalWave(ready) THEN "start" ELSE "none"]]
    BY <1>2 DEF PrepareReserves
  <2>2. \A i \in Steps : out'[w][i] = IF i \in ApprovalWave(ready) THEN "start" ELSE "none"
    BY <2>1 DEF WaveTypeOK
  <2>3. CASE j \in ApprovalWave(ready)
    <3>1. k \in ApprovalWave(ready)
      BY <2>2
    <3> QED
      BY <2>3, <3>1, ApprovalWaveAlone
  <2> QED
    BY <2>2, <2>3
<1> QED
  BY <1>1, <1>2, WaveStays

-----------------------------------------------------------------------------
(* Waits and completion.                                                   *)

\* Local work of the driving task, written back with nothing in flight.
LEMMA LocalWaits ==
  ASSUME WaveInv, plan' = plan, NEW w \in Tasks, RunningLease(w),
         PrepareStops(w) \/ WaveSettles(w) \/ Finalizes(w)
  PROVE  WaitsMatch'
<1> /\ WaveTypeOK /\ PlanSound /\ WaitsMatch /\ Steps' = Steps /\ exec = "RUNNING"
  BY DEF WaveInv, RunningLease, Steps
<1> DEFINE r == LocalReconcile
<1>1. Local(r) /\ r \in LocalRecs
  BY ReconcileLocal DEF Local
<1>2. st' = r.st /\ callSt' = callSt
  BY <1>1, CompletedRec DEF PrepareStops, WaveSettles, Finalizes, Apply
<1>3. exec' = r.exec \/ (~r.stop /\ exec' \in {"SUCCEEDED", "PARTIALLY_SUCCEEDED", "FAILED"})
  <2>1. Completed(r).exec = r.exec \/ (~r.stop /\ Completed(r).exec = AggregateAllRequired(r))
    BY <1>1, CompletedRec
  <2>2. AggregateAllRequired(r) \in {"SUCCEEDED", "PARTIALLY_SUCCEEDED", "FAILED"}
    BY DEF AggregateAllRequired
  <2> HIDE DEF r
  <2> QED
    BY <2>1, <2>2 DEF PrepareStops, WaveSettles, Finalizes, Apply, r
<1>4. Knows(w)
  BY DEF WaveInv, CallsOwned, UnknownsOwned, Knows, RunningLease, PrepareStops, MayPrepareWave,
         WaveSettles, Finalizes
<1>5. \A k \in Steps : callSt[k] # "STARTED" /\ st[k] # "UNKNOWN_OUTCOME"
  <2>1. CASE WaveSettles(w)
    BY <1>4, <2>1, Settled DEF WaveSettles
  <2>2. CASE PrepareStops(w) \/ Finalizes(w)
    BY <1>4, <2>2 DEF PrepareStops, MayPrepareWave, Finalizes, Knows
  <2> QED
    BY <2>1, <2>2
<1>6. \A k \in Steps : callSt'[k] # "STARTED" /\ st'[k] # "UNKNOWN_OUTCOME"
  BY <1>2, <1>5, NoNewUnknown
<1> HIDE DEF r
<1> QED
  BY <1>1, <1>2, <1>3, <1>6 DEF Local, WaitsMatch, OneWaits, Driven

\* Exactly the Execution that waits has a waiting Step, after every step.
LEMMA WaitsStep ==
  ASSUME WaveInv, [WaveNext]_waveVars
  PROVE  WaitsMatch'
<1> /\ WaveTypeOK /\ PlanSound /\ WaitsMatch /\ QueuedIsNew /\ CallsMatch
    /\ plan' = plan /\ Steps' = Steps /\ st \in [Steps -> StepStates]
  BY PlanStays DEF WaveInv, Steps, WaveTypeOK, StepStates
<1>1. ASSUME NEW w \in Tasks, WaveClaim(w) PROVE WaitsMatch'
  <2>1. LeaseTaken(w)
    BY <1>1, TakenCalm DEF WaveClaim, LeaseTaken
  <2> QED
    BY <2>1 DEF LeaseTaken, Calm, WaitsMatch
<1>2. ASSUME NEW w \in Tasks, PrepareReturns(w) PROVE WaitsMatch'
  BY <1>2 DEF PrepareReturns, Return, Go, waveDb, WaitsMatch, OneWaits, Driven
<1>3. ASSUME NEW w \in Tasks, PrepareCancels(w) PROVE WaitsMatch'
  <2>1. ReconcileCancel(st, callSt) /\ exec \in Driven
    BY <1>3 DEF PrepareCancels, OwnsWave, Driven
  <2> QED
    BY <2>1, CancelEffect DEF WaitsMatch, Driven
<1>4. ASSUME NEW w \in Tasks, PrepareStops(w) PROVE WaitsMatch'
  BY <1>4, LocalWaits DEF PrepareStops, MayPrepareWave
<1>5. ASSUME NEW w \in Tasks, PrepareReserves(w) PROVE WaitsMatch'
  <2>1. Local(LocalReconcile) /\ LocalReconcile \in LocalRecs
    BY <1>5, ReconcileLocal DEF PrepareReserves, MayPrepareWave, RunningLease, Local
  <2>2. exec' = "RUNNING" /\ \A k \in Steps : st'[k] # "WAITING_APPROVAL"
    BY <1>5, <2>1, ReserveEffect DEF Local
  <2> QED
    BY <2>2 DEF WaitsMatch
<1>6. ASSUME NEW w \in Tasks, Gathered(w) PROVE WaitsMatch'
  BY <1>6 DEF Gathered, Return, Go, waveDb, WaitsMatch, OneWaits, Driven
<1>7. ASSUME NEW w \in Tasks, WaveStops(w) PROVE WaitsMatch'
  BY <1>7, WaveStopsEffect DEF WaitsMatch, Driven
<1>8. ASSUME NEW w \in Tasks, WaveCancelled(w) PROVE WaitsMatch'
  <2>1. CASE exec = "CANCEL_REQUESTED" /\ ReconcileCancel(st, callSt)
    BY <2>1, CancelEffect DEF WaitsMatch, Driven
  <2>2. CASE UNCHANGED <<exec, st, callSt>>
    BY <2>2 DEF WaitsMatch, OneWaits
  <2> QED
    BY <1>8, <2>1, <2>2 DEF WaveCancelled
<1>9. ASSUME NEW w \in Tasks, WaveStale(w) PROVE WaitsMatch'
  BY <1>9 DEF WaveStale, Go, waveDb, WaitsMatch, OneWaits, Driven
<1>10. ASSUME NEW w \in Tasks, WaveSettles(w) PROVE WaitsMatch'
  BY <1>10, LocalWaits DEF WaveSettles
<1>11. ASSUME NEW w \in Tasks, Finalizes(w) PROVE WaitsMatch'
  <2>1. CASE RunningLease(w)
    BY <1>11, <2>1, LocalWaits
  <2>2. CASE ~RunningLease(w)
    BY <1>11, <2>2 DEF Finalizes, WaitsMatch, OneWaits
  <2> QED
    BY <2>1, <2>2
<1>12. ASSUME NEW w \in Tasks, TaskDies(w) PROVE WaitsMatch'
  BY <1>12 DEF TaskDies, Return, Go, waveDb, WaitsMatch, OneWaits, Driven
<1>13. ASSUME NEW w \in Tasks, NEW k \in Steps, RunNoop(w, k) PROVE WaitsMatch'
  BY <1>13 DEF RunNoop, Ends, waveDb, WaitsMatch, OneWaits, Driven
<1>14. ASSUME NEW w \in Tasks, NEW k \in Steps, RunCancelled(w, k) PROVE WaitsMatch'
  <2>1. ReconcileCancel(st, callSt) /\ exec \in Driven
    BY <1>14 DEF RunCancelled, OwnsWave, Driven
  <2> QED
    BY <2>1, CancelEffect DEF WaitsMatch, Driven
<1>15. ASSUME NEW w \in Tasks, NEW k \in Steps, RunWaits(w, k) PROVE WaitsMatch'
  <2>1. /\ task[w] = "run" /\ out[w][k] = "start" /\ plan.steps[k].asks
        /\ OwnsWave(w) /\ exec \in Driven
        /\ st' = [st EXCEPT ![k] = "WAITING_APPROVAL"]
        /\ callSt' = callSt /\ exec' = "WAITING_APPROVAL"
    BY <1>15 DEF RunWaits, MayRun, Waved, OwnsWave, Driven
  <2>2. \A j \in Steps \ {k} : out[w][j] = "none"
    BY <2>1 DEF WaveInv, AskingAlone
  <2>3. \A j \in Steps : callSt[j] # "STARTED" /\ st[j] # "UNKNOWN_OUTCOME"
    BY <2>1, <2>2 DEF WaveInv, CallsOwned, UnknownsOwned
  <2> QED
    BY <2>1, <2>3 DEF WaitsMatch, OneWaits, WaveTypeOK, Driven
<1>16. ASSUME NEW w \in Tasks, NEW k \in Steps, RunFails(w, k) PROVE WaitsMatch'
  <2>1. exec \in Driven /\ exec' = exec
    BY <1>16 DEF RunFails, MayRun, OwnsWave, Driven
  <2>2. \A j \in Steps : st'[j] # "WAITING_APPROVAL"
    BY <1>16, <2>1 DEF RunFails, WaitsMatch, WaveTypeOK
  <2> QED
    BY <2>1, <2>2 DEF WaitsMatch, Driven
<1>17. ASSUME NEW w \in Tasks, NEW k \in Steps, RunStarts(w, k) PROVE WaitsMatch'
  <2>1. exec \in Driven /\ exec' = exec
    BY <1>17 DEF RunStarts, MayRun, OwnsWave, Driven
  <2>2. \A j \in Steps : st'[j] # "WAITING_APPROVAL"
    BY <1>17, <2>1 DEF RunStarts, WaitsMatch, WaveTypeOK
  <2> QED
    BY <2>1, <2>2 DEF WaitsMatch, Driven
<1>18. ASSUME NEW w \in Tasks, NEW k \in Steps, CallFenced(w, k) PROVE WaitsMatch'
  BY <1>18 DEF CallFenced, Ends, Return, Go, waveDb, WaitsMatch, OneWaits, Driven
<1>19. ASSUME NEW w \in Tasks, NEW k \in Steps, GateCancelsCall(w, k) PROVE WaitsMatch'
  <2> DEFINE s == [st EXCEPT ![k] = "CANCELLED"]
             c == [callSt EXCEPT ![k] = "CANCELLED"]
  <2>1. ReconcileCancel(s, c) /\ exec \in Driven
    BY <1>19 DEF GateCancelsCall, OwnsWave, Driven
  <2>2. s \in [Steps -> StepStates] /\ \A j \in Steps : s[j] # "WAITING_APPROVAL"
    BY <2>1 DEF StepStates, StepTerminal, WaitsMatch
  <2> HIDE DEF s, c
  <2> QED
    BY <2>1, <2>2, CancelEffect DEF WaitsMatch, Driven
<1>20. ASSUME NEW w \in Tasks, NEW k \in Steps, CallRetries(w, k) PROVE WaitsMatch'
  <2>1. exec \in Driven /\ exec' = exec
    BY <1>20 DEF CallRetries, OwnsWave, Driven
  <2>2. \A j \in Steps : st'[j] # "WAITING_APPROVAL"
    BY <1>20, <2>1 DEF CallRetries, WaitsMatch, WaveTypeOK
  <2> QED
    BY <2>1, <2>2 DEF WaitsMatch, Driven
<1>21. ASSUME NEW w \in Tasks, NEW k \in Steps, CallEnds(w, k) PROVE WaitsMatch'
  <2>1. exec \in Driven
    BY <1>21 DEF CallEnds, OwnsWave, Driven
  <2>2. PICK o \in CallOutcomes(k) :
          LET e == IF o = "PRE_SEND" THEN "FAILED" ELSE o
              s == [st EXCEPT ![k] = e]
              c == [callSt EXCEPT ![k] = e]
          IN  ReconcileCancel(s, c) \/ (st' = s /\ callSt' = c /\ exec' = exec)
    BY <1>21 DEF CallEnds
  <2> DEFINE e == IF o = "PRE_SEND" THEN "FAILED" ELSE o
             s == [st EXCEPT ![k] = e]
             c == [callSt EXCEPT ![k] = e]
  <2>3. e \in StepTerminal
    BY DEF CallOutcomes, StepTerminal
  <2>4. ReconcileCancel(s, c) \/ (st' = s /\ callSt' = c /\ exec' = exec)
    BY <2>2
  <2> HIDE DEF e
  <2>5. s \in [Steps -> StepStates] /\ \A j \in Steps : s[j] # "WAITING_APPROVAL"
    BY <2>1, <2>3 DEF StepStates, StepTerminal, WaitsMatch
  <2> HIDE DEF s, c
  <2> QED
    BY <2>1, <2>4, <2>5, CancelEffect DEF WaitsMatch, Driven
<1>22. ASSUME NEW w \in Tasks, NEW k \in Steps, Resume(w, k) PROVE WaitsMatch'
  <2>1. CASE exec' = "FAILED"
    BY <2>1 DEF WaitsMatch, Driven
  <2>2. CASE exec' = "RUNNING" /\ st' = [st EXCEPT ![k] = "READY"]
    BY <1>22, <2>2, TakenCalm DEF Calm, WaitsMatch
  <2> QED
    BY <1>22, <2>1, <2>2, ResumeEffect
<1>23. ASSUME NEW k \in Steps, Approve(k) PROVE WaitsMatch'
  BY <1>23 DEF Approve, Waiting, waveDb, WaitsMatch, OneWaits, Driven
<1>24. ASSUME NEW k \in Steps, Refuse(k) PROVE WaitsMatch'
  BY <1>24, RefuseEffect DEF WaitsMatch, Driven
<1>25. CASE WaveCancel
  <2>1. CASE Started = {}
    BY <1>25, <2>1 DEF WaveCancel, WaitsMatch, Driven
  <2>2. CASE Started # {}
    <3>1. exec = "RUNNING"
      BY <1>25, <2>2 DEF WaveCancel, Started, WaitsMatch, QueuedIsNew, CallsMatch
    <3>2. \A j \in Steps : st'[j] # "WAITING_APPROVAL"
      BY <1>25, <3>1 DEF WaveCancel, CancelSafeSteps, WaitsMatch, Driven
    <3> QED
      BY <1>25, <2>2, <3>2 DEF WaveCancel, WaitsMatch
  <2> QED
    BY <2>1, <2>2
<1>26. CASE LeaseLapses
  BY <1>26 DEF LeaseLapses, waveDb, WaitsMatch, OneWaits, Driven
<1>27. CASE RecoverCancelled
  <2> DEFINE s == [k \in Steps |-> IF k \in Started THEN "UNKNOWN_OUTCOME" ELSE st[k]]
             c == [k \in Steps |-> IF k \in Started THEN "UNKNOWN_OUTCOME" ELSE callSt[k]]
  <2>1. ReconcileCancel(s, c) /\ exec \in Driven
    BY <1>27 DEF RecoverCancelled, Expired, Driven
  <2>2. s \in [Steps -> StepStates] /\ \A j \in Steps : s[j] # "WAITING_APPROVAL"
    BY <2>1 DEF StepStates, StepTerminal, WaitsMatch
  <2> HIDE DEF s, c
  <2> QED
    BY <2>1, <2>2, CancelEffect DEF WaitsMatch, Driven
<1>28. CASE RecoverFatal
  BY <1>28 DEF RecoverFatal, WaitsMatch, Driven
<1>29. CASE RecoverExhausted
  BY <1>29, ExhaustedEffect DEF WaitsMatch, Driven
<1>30. ASSUME NEW w \in Tasks, RecoverTakesOver(w) PROVE WaitsMatch'
  <2>1. LeaseTaken(w)
    BY <1>30, TakenCalm DEF RecoverTakesOver, Expired, LeaseTaken
  <2> QED
    BY <2>1 DEF LeaseTaken, Calm, WaitsMatch
<1>31. CASE UNCHANGED waveVars
  BY <1>31 DEF waveVars, waveDb, WaitsMatch, OneWaits, Driven
<1> QED
  BY <1>1, <1>2, <1>3, <1>4, <1>5, <1>6, <1>7, <1>8, <1>9, <1>10, <1>11, <1>12, <1>13, <1>14,
     <1>15, <1>16, <1>17, <1>18, <1>19, <1>20, <1>21, <1>22, <1>23, <1>24, <1>25, <1>26, <1>27,
     <1>28, <1>29, <1>30, <1>31
  DEF WaveNext, TaskMoves, StepMoves, WaveRecovery

\* An Execution in the queue, or a successful one, is left alone; it becomes
\* successful at the end of a wave or in the finalization.
Completes(w) == RunningLease(w) /\ (WaveSettles(w) \/ Finalizes(w))

Rests == exec' = exec /\ UNCHANGED <<st, code>>

\* Every other step leaves such an Execution and its Steps as they are.
LEMMA Resting ==
  ASSUME WaveInv, exec' \in {"QUEUED", "SUCCEEDED", "PARTIALLY_SUCCEEDED"}, [WaveNext]_waveVars
  PROVE  Rests \/ \E v \in Tasks : Completes(v)
<1> /\ WaveTypeOK /\ PlanSound /\ WaitsMatch /\ st \in [Steps -> StepStates]
  BY DEF WaveInv, WaveTypeOK, StepStates
<1>1. ASSUME NEW w \in Tasks, WaveClaim(w) PROVE Rests \/ \E v \in Tasks : Completes(v)
  BY <1>1 DEF WaveClaim
<1>2. ASSUME NEW w \in Tasks, PrepareReturns(w) PROVE Rests \/ \E v \in Tasks : Completes(v)
  BY <1>2 DEF PrepareReturns, Return, Go, waveDb, Rests
<1>3. ASSUME NEW w \in Tasks, PrepareCancels(w) PROVE Rests \/ \E v \in Tasks : Completes(v)
  <2>1. ReconcileCancel(st, callSt)
    BY <1>3 DEF PrepareCancels
  <2> QED
    BY <2>1, CancelEffect
<1>4. ASSUME NEW w \in Tasks, PrepareStops(w) PROVE Rests \/ \E v \in Tasks : Completes(v)
  <2>1. Local(LocalReconcile)
    BY <1>4, ReconcileLocal DEF PrepareStops, MayPrepareWave, RunningLease
  <2>2. LocalReconcile.stop /\ exec' = LocalReconcile.exec
    BY <1>4 DEF PrepareStops, Apply
  <2> QED
    BY <2>1, <2>2 DEF Local
<1>5. ASSUME NEW w \in Tasks, PrepareReserves(w) PROVE Rests \/ \E v \in Tasks : Completes(v)
  <2>1. Local(LocalReconcile) /\ LocalReconcile \in LocalRecs
    BY <1>5, ReconcileLocal DEF PrepareReserves, MayPrepareWave, RunningLease, Local
  <2> QED
    BY <1>5, <2>1, ReserveEffect DEF Local
<1>6. ASSUME NEW w \in Tasks, Gathered(w) PROVE Rests \/ \E v \in Tasks : Completes(v)
  BY <1>6 DEF Gathered, Return, Go, waveDb, Rests
<1>7. ASSUME NEW w \in Tasks, WaveStops(w) PROVE Rests \/ \E v \in Tasks : Completes(v)
  BY <1>7, WaveStopsEffect
<1>8. ASSUME NEW w \in Tasks, WaveCancelled(w) PROVE Rests \/ \E v \in Tasks : Completes(v)
  <2>1. CASE ReconcileCancel(st, callSt)
    BY <2>1, CancelEffect
  <2>2. CASE UNCHANGED <<exec, st, code>>
    BY <2>2 DEF Rests
  <2> QED
    BY <1>8, <2>1, <2>2 DEF WaveCancelled
<1>9. ASSUME NEW w \in Tasks, WaveStale(w) PROVE Rests \/ \E v \in Tasks : Completes(v)
  BY <1>9 DEF WaveStale, Go, waveDb, Rests
<1>10. ASSUME NEW w \in Tasks, WaveSettles(w) PROVE Rests \/ \E v \in Tasks : Completes(v)
  BY <1>10 DEF WaveSettles, Completes
<1>11. ASSUME NEW w \in Tasks, Finalizes(w) PROVE Rests \/ \E v \in Tasks : Completes(v)
  BY <1>11 DEF Finalizes, Completes, Rests
<1>12. ASSUME NEW w \in Tasks, TaskDies(w) PROVE Rests \/ \E v \in Tasks : Completes(v)
  BY <1>12 DEF TaskDies, Return, Go, waveDb, Rests
<1>13. ASSUME NEW w \in Tasks, NEW k \in Steps, RunNoop(w, k)
      PROVE  Rests \/ \E v \in Tasks : Completes(v)
  BY <1>13 DEF RunNoop, Ends, waveDb, Rests
<1>14. ASSUME NEW w \in Tasks, NEW k \in Steps, RunCancelled(w, k)
      PROVE  Rests \/ \E v \in Tasks : Completes(v)
  <2>1. ReconcileCancel(st, callSt)
    BY <1>14 DEF RunCancelled
  <2> QED
    BY <2>1, CancelEffect
<1>15. ASSUME NEW w \in Tasks, NEW k \in Steps, RunWaits(w, k)
      PROVE  Rests \/ \E v \in Tasks : Completes(v)
  BY <1>15 DEF RunWaits
<1>16. ASSUME NEW w \in Tasks, NEW k \in Steps, RunFails(w, k)
      PROVE  Rests \/ \E v \in Tasks : Completes(v)
  BY <1>16 DEF RunFails, MayRun, OwnsWave
<1>17. ASSUME NEW w \in Tasks, NEW k \in Steps, RunStarts(w, k)
      PROVE  Rests \/ \E v \in Tasks : Completes(v)
  BY <1>17 DEF RunStarts, MayRun, OwnsWave
<1>18. ASSUME NEW w \in Tasks, NEW k \in Steps, CallFenced(w, k)
      PROVE  Rests \/ \E v \in Tasks : Completes(v)
  BY <1>18 DEF CallFenced, Ends, Return, Go, waveDb, Rests
<1>19. ASSUME NEW w \in Tasks, NEW k \in Steps, GateCancelsCall(w, k)
      PROVE  Rests \/ \E v \in Tasks : Completes(v)
  <2>1. [st EXCEPT ![k] = "CANCELLED"] \in [Steps -> StepStates]
    BY DEF StepStates, StepTerminal
  <2> QED
    BY <1>19, <2>1, CancelEffect DEF GateCancelsCall
<1>20. ASSUME NEW w \in Tasks, NEW k \in Steps, CallRetries(w, k)
      PROVE  Rests \/ \E v \in Tasks : Completes(v)
  BY <1>20 DEF CallRetries, OwnsWave
<1>21. ASSUME NEW w \in Tasks, NEW k \in Steps, CallEnds(w, k)
      PROVE  Rests \/ \E v \in Tasks : Completes(v)
  <2>1. exec \in Driven
    BY <1>21 DEF CallEnds, OwnsWave, Driven
  <2>2. PICK o \in CallOutcomes(k) :
          LET e == IF o = "PRE_SEND" THEN "FAILED" ELSE o
          IN  \/ ReconcileCancel([st EXCEPT ![k] = e], [callSt EXCEPT ![k] = e])
              \/ exec' = exec
    BY <1>21 DEF CallEnds
  <2> DEFINE e == IF o = "PRE_SEND" THEN "FAILED" ELSE o
             c == [callSt EXCEPT ![k] = e]
  <2>3. e \in StepTerminal
    BY DEF CallOutcomes, StepTerminal
  <2>4. ReconcileCancel([st EXCEPT ![k] = e], c) \/ exec' = exec
    BY <2>2
  <2> HIDE DEF e, c
  <2>5. [st EXCEPT ![k] = e] \in [Steps -> StepStates]
    BY <2>3 DEF StepStates
  <2> QED
    BY <2>1, <2>4, <2>5, CancelEffect DEF Driven
<1>22. ASSUME NEW w \in Tasks, NEW k \in Steps, Resume(w, k)
      PROVE  Rests \/ \E v \in Tasks : Completes(v)
  BY <1>22, ResumeEffect
<1>23. ASSUME NEW k \in Steps, Approve(k) PROVE Rests \/ \E v \in Tasks : Completes(v)
  BY <1>23 DEF Approve, Rests
<1>24. ASSUME NEW k \in Steps, Refuse(k) PROVE Rests \/ \E v \in Tasks : Completes(v)
  BY <1>24, RefuseEffect
<1>25. CASE WaveCancel
  BY <1>25 DEF WaveCancel
<1>26. CASE LeaseLapses
  BY <1>26 DEF LeaseLapses, waveDb, Rests
<1>27. CASE RecoverCancelled
  <2>1. [k \in Steps |-> IF k \in Started THEN "UNKNOWN_OUTCOME" ELSE st[k]] \in [Steps -> StepStates]
    BY DEF StepStates, StepTerminal
  <2> QED
    BY <1>27, <2>1, CancelEffect DEF RecoverCancelled
<1>28. CASE RecoverFatal
  BY <1>28 DEF RecoverFatal
<1>29. CASE RecoverExhausted
  BY <1>29, ExhaustedEffect
<1>30. ASSUME NEW w \in Tasks, RecoverTakesOver(w) PROVE Rests \/ \E v \in Tasks : Completes(v)
  BY <1>30 DEF RecoverTakesOver, Expired
<1>31. CASE UNCHANGED waveVars
  BY <1>31 DEF waveVars, waveDb, Rests
<1> QED
  BY <1>1, <1>2, <1>3, <1>4, <1>5, <1>6, <1>7, <1>8, <1>9, <1>10, <1>11, <1>12, <1>13, <1>14,
     <1>15, <1>16, <1>17, <1>18, <1>19, <1>20, <1>21, <1>22, <1>23, <1>24, <1>25, <1>26, <1>27,
     <1>28, <1>29, <1>30, <1>31
  DEF WaveNext, TaskMoves, StepMoves, WaveRecovery

\* Completion tells the truth.
LEMMA CompletionStep ==
  ASSUME WaveInv, [WaveNext]_waveVars
  PROVE  QueuedIsNew' /\ SuccessIsComplete'
<1> /\ WaveTypeOK /\ PlanSound /\ WaitsMatch /\ plan' = plan /\ Steps' = Steps
  BY PlanStays DEF WaveInv, Steps
<1>1. CASE exec' \notin {"QUEUED", "SUCCEEDED", "PARTIALLY_SUCCEEDED"}
  BY <1>1 DEF QueuedIsNew, SuccessIsComplete
<1>2. CASE Rests
  BY <1>2 DEF Rests, WaveInv, QueuedIsNew, SuccessIsComplete, NaturallyEnded, IntentionalSkip,
              LocalState
<1>3. ASSUME NEW w \in Tasks, Completes(w), exec' \in {"QUEUED", "SUCCEEDED", "PARTIALLY_SUCCEEDED"}
      PROVE  QueuedIsNew' /\ SuccessIsComplete'
  <2> DEFINE r == LocalReconcile
  <2>1. Local(r) /\ r \in LocalRecs
    BY <1>3, ReconcileLocal DEF Completes, RunningLease, Local
  <2>2. st' = r.st /\ code' = r.code /\ exec' = Completed(r).exec
    BY <1>3, <2>1, CompletedRec DEF Completes, WaveSettles, Finalizes, Apply
  <2>3. NaturallyEnded(r) /\ exec' = AggregateAllRequired(r)
    BY <1>3, <2>1, <2>2, CompletedRec DEF Local
  <2>4. \A k \in Steps : st'[k] # "UNKNOWN_OUTCOME"
    <3>1. Knows(w)
      BY <1>3 DEF WaveInv, CallsOwned, UnknownsOwned, Knows, Completes, RunningLease, WaveSettles,
                  Finalizes
    <3>2. \A k \in Steps : st[k] # "UNKNOWN_OUTCOME"
      <4>1. CASE WaveSettles(w)
        BY <3>1, <4>1, Settled DEF WaveSettles
      <4>2. CASE Finalizes(w)
        BY <3>1, <4>2 DEF Finalizes, Knows
      <4> QED
        BY <1>3, <4>1, <4>2 DEF Completes
    <3> QED
      BY <1>3, <3>2, NoNewUnknown DEF Completes
  <2> HIDE DEF r
  <2>5. CASE exec' = "SUCCEEDED"
    <3>1. /\ \A k \in Steps : plan.steps[k].required =>
               r.st[k] = "SUCCEEDED" \/ IntentionalSkip(r, k)
          /\ \A k \in Steps : plan.steps[k].onError = "MARK_PARTIAL" =>
               r.st[k] \notin {"FAILED", "TIMED_OUT"}
      BY <2>3, <2>5 DEF AggregateAllRequired
    <3> QED
      BY <2>2, <2>3, <2>4, <2>5, <3>1
      DEF QueuedIsNew, SuccessIsComplete, NaturallyEnded, IntentionalSkip, LocalState
  <2>6. CASE exec' # "SUCCEEDED"
    <3>1. exec' # "QUEUED"
      BY <2>3 DEF AggregateAllRequired
    <3> QED
      BY <2>4, <2>6, <3>1 DEF QueuedIsNew, SuccessIsComplete
  <2> QED
    BY <2>5, <2>6
<1> QED
  BY <1>1, <1>2, <1>3, Resting

-----------------------------------------------------------------------------
(* The theorems.                                                           *)

\* Only an Execution that is being driven starts a call.
LEMMA StartsAreDriven ==
  ASSUME [WaveNext]_waveVars
  PROVE  tries' = tries \/ exec \in Driven
<1>1. ASSUME NEW w \in Tasks, WaveClaim(w) PROVE tries' = tries \/ exec \in Driven
  BY <1>1 DEF WaveClaim
<1>2. ASSUME NEW w \in Tasks, PrepareReturns(w) PROVE tries' = tries \/ exec \in Driven
  BY <1>2 DEF PrepareReturns, waveDb
<1>3. ASSUME NEW w \in Tasks, PrepareCancels(w) PROVE tries' = tries \/ exec \in Driven
  BY <1>3 DEF PrepareCancels
<1>4. ASSUME NEW w \in Tasks, PrepareStops(w) PROVE tries' = tries \/ exec \in Driven
  BY <1>4 DEF PrepareStops
<1>5. ASSUME NEW w \in Tasks, PrepareReserves(w) PROVE tries' = tries \/ exec \in Driven
  BY <1>5 DEF PrepareReserves
<1>6. ASSUME NEW w \in Tasks, Gathered(w) PROVE tries' = tries \/ exec \in Driven
  BY <1>6 DEF Gathered, waveDb
<1>7. ASSUME NEW w \in Tasks, WaveStops(w) PROVE tries' = tries \/ exec \in Driven
  BY <1>7 DEF WaveStops
<1>8. ASSUME NEW w \in Tasks, WaveCancelled(w) PROVE tries' = tries \/ exec \in Driven
  BY <1>8 DEF WaveCancelled
<1>9. ASSUME NEW w \in Tasks, WaveStale(w) PROVE tries' = tries \/ exec \in Driven
  BY <1>9 DEF WaveStale, waveDb
<1>10. ASSUME NEW w \in Tasks, WaveSettles(w) PROVE tries' = tries \/ exec \in Driven
  BY <1>10 DEF WaveSettles
<1>11. ASSUME NEW w \in Tasks, Finalizes(w) PROVE tries' = tries \/ exec \in Driven
  BY <1>11 DEF Finalizes
<1>12. ASSUME NEW w \in Tasks, TaskDies(w) PROVE tries' = tries \/ exec \in Driven
  BY <1>12 DEF TaskDies, waveDb
<1>13. ASSUME NEW w \in Tasks, NEW k \in Steps, RunNoop(w, k)
      PROVE  tries' = tries \/ exec \in Driven
  BY <1>13 DEF RunNoop, waveDb
<1>14. ASSUME NEW w \in Tasks, NEW k \in Steps, RunCancelled(w, k)
      PROVE  tries' = tries \/ exec \in Driven
  BY <1>14 DEF RunCancelled
<1>15. ASSUME NEW w \in Tasks, NEW k \in Steps, RunWaits(w, k)
      PROVE  tries' = tries \/ exec \in Driven
  BY <1>15 DEF RunWaits
<1>16. ASSUME NEW w \in Tasks, NEW k \in Steps, RunFails(w, k)
      PROVE  tries' = tries \/ exec \in Driven
  BY <1>16 DEF RunFails
<1>17. ASSUME NEW w \in Tasks, NEW k \in Steps, RunStarts(w, k)
      PROVE  tries' = tries \/ exec \in Driven
  BY <1>17 DEF RunStarts, MayRun, OwnsWave, Driven
<1>18. ASSUME NEW w \in Tasks, NEW k \in Steps, CallFenced(w, k)
      PROVE  tries' = tries \/ exec \in Driven
  BY <1>18 DEF CallFenced, waveDb
<1>19. ASSUME NEW w \in Tasks, NEW k \in Steps, GateCancelsCall(w, k)
      PROVE  tries' = tries \/ exec \in Driven
  BY <1>19 DEF GateCancelsCall
<1>20. ASSUME NEW w \in Tasks, NEW k \in Steps, CallRetries(w, k)
      PROVE  tries' = tries \/ exec \in Driven
  BY <1>20 DEF CallRetries
<1>21. ASSUME NEW w \in Tasks, NEW k \in Steps, CallEnds(w, k)
      PROVE  tries' = tries \/ exec \in Driven
  BY <1>21 DEF CallEnds
<1>22. ASSUME NEW w \in Tasks, NEW k \in Steps, Resume(w, k)
      PROVE  tries' = tries \/ exec \in Driven
  BY <1>22 DEF Resume
<1>23. ASSUME NEW k \in Steps, Approve(k) PROVE tries' = tries \/ exec \in Driven
  BY <1>23 DEF Approve
<1>24. ASSUME NEW k \in Steps, Refuse(k) PROVE tries' = tries \/ exec \in Driven
  BY <1>24 DEF Refuse
<1>25. CASE WaveCancel
  BY <1>25 DEF WaveCancel
<1>26. CASE LeaseLapses
  BY <1>26 DEF LeaseLapses
<1>27. CASE RecoverCancelled
  BY <1>27 DEF RecoverCancelled
<1>28. CASE RecoverFatal
  BY <1>28 DEF RecoverFatal
<1>29. CASE RecoverExhausted
  BY <1>29 DEF RecoverExhausted
<1>30. ASSUME NEW w \in Tasks, RecoverTakesOver(w) PROVE tries' = tries \/ exec \in Driven
  BY <1>30 DEF RecoverTakesOver
<1>31. CASE UNCHANGED waveVars
  BY <1>31 DEF waveVars
<1> QED
  BY <1>1, <1>2, <1>3, <1>4, <1>5, <1>6, <1>7, <1>8, <1>9, <1>10, <1>11, <1>12, <1>13, <1>14,
     <1>15, <1>16, <1>17, <1>18, <1>19, <1>20, <1>21, <1>22, <1>23, <1>24, <1>25, <1>26, <1>27,
     <1>28, <1>29, <1>30, <1>31
  DEF WaveNext, TaskMoves, StepMoves, WaveRecovery

\* A queued Execution of a validated Plan satisfies the invariant.
LEMMA InitInvariant == WaveInit => WaveInv
<1> SUFFICES ASSUME WaveInit PROVE WaveInv
  OBVIOUS
<1>1. PICK p \in Plans : ValidDag(p) /\ plan = ToolJoinDag(p)
  BY DEF WaveInit
<1>2. PlanSound
  BY <1>1, ValidPlanIsSound
<1>3. WaveTypeOK
  <2>1. plan \in {ToolJoinDag(q) : q \in Plans}
    BY <1>1
  <2>2. /\ tries \in [Steps -> 0 .. MaxAttempts]
        /\ waveFaults \in 0 .. MaxWaveFaults
    BY WaveBounds DEF WaveInit
  <2>3. /\ st \in [Steps -> StepTerminal \union {"PENDING", "READY", "RUNNING", "WAITING_APPROVAL"}]
        /\ code \in [Steps -> {"NONE", "WHEN_FALSE", "UPSTREAM_SKIPPED", "STOPPED", "ERROR"}]
        /\ callSt \in [Steps -> StepTerminal \union {"NONE", "STARTED"}]
        /\ req \in [Steps -> RequestStates]
    BY DEF WaveInit, RequestStates
  <2> QED
    BY <2>1, <2>2, <2>3 DEF WaveInit, WaveTypeOK
<1>4. SlotsBounded
  <2>1. Slots(st) = {}
    BY DEF WaveInit, Slots
  <2> QED
    BY <1>2, <2>1, FS_EmptySet DEF SlotsBounded, PlanSound
<1>5. TokensSound /\ CallsMatch /\ CallsOwned /\ AskingAlone /\ UnknownsOwned
  BY DEF WaveInit, TokensSound, CallsMatch, CallsOwned, AskingAlone, UnknownsOwned
<1>6. AttemptsLeft /\ DepsHold
  BY <1>3, WaveBounds DEF WaveInit, WaveTypeOK, AttemptsLeft, DepsHold
<1>7. WaitsMatch /\ QueuedIsNew /\ SuccessIsComplete
  BY DEF WaveInit, WaitsMatch, Driven, QueuedIsNew, SuccessIsComplete
<1> QED
  BY <1>2, <1>3, <1>4, <1>5, <1>6, <1>7 DEF WaveInv

\* Every step keeps it.
LEMMA InvariantStep == WaveInv /\ [WaveNext]_waveVars => WaveInv'
<1> SUFFICES ASSUME WaveInv, [WaveNext]_waveVars PROVE WaveInv'
  OBVIOUS
<1>1. PlanSound'
  BY PlanStays DEF WaveInv, PlanSound, Steps, Deps
<1> QED
  BY <1>1, TypeStep, TokensStep, CallsMatchStep, OwnedStep, AloneStep, AttemptsStep, DepsStep,
     SlotsStep, WaitsStep, CompletionStep
  DEF WaveInv

\* The inductive invariant holds in every reachable state.
THEOREM InvariantHolds == WaveSpec => []WaveInv
BY InitInvariant, InvariantStep, PTL DEF WaveSpec

\* The Execution, its Steps and the tasks that drive it keep their types; no
\* Step is attempted more often than its policy allows.
THEOREM WaveTypeCorrect == WaveSpec => []WaveTypeOK
<1>1. WaveInv => WaveTypeOK
  BY DEF WaveInv
<1> QED
  BY <1>1, InvariantHolds, PTL

\* Claim, reservation, inline retry, approval resume and recovery together never
\* hold more TOOL Steps READY or RUNNING than the Plan allows.
THEOREM ParallelismIsBounded == WaveSpec => []ParallelismBounded
<1>1. WaveInv => ParallelismBounded
  <2> SUFFICES ASSUME WaveInv PROVE ParallelismBounded
    OBVIOUS
  <2> DEFINE S == {k \in Steps : IsTool(k) /\ st[k] \in {"READY", "RUNNING"}}
             T == Slots(st)
  <2>1. /\ PlanSound /\ plan.maxParallelism \in Nat
        /\ Cardinality(T) <= plan.maxParallelism
        /\ S \subseteq T /\ T \subseteq Steps
    BY DEF WaveInv, PlanSound, SlotsBounded, Slots
  <2> HIDE DEF S, T
  <2>2. Cardinality(S) <= plan.maxParallelism
    BY <2>1, SmallerSet
  <2> QED
    BY <2>2 DEF ParallelismBounded, S
<1> QED
  BY <1>1, InvariantHolds, PTL

\* A TOOL whose call was started had, and keeps, dependencies that let it go on.
THEOREM StartsFollowDependencies == WaveSpec => []StartedAfterDependencies
<1>1. WaveInv => StartedAfterDependencies
  <2> SUFFICES ASSUME WaveInv, NEW k \in Steps, tries[k] > 0, NEW d \in Deps(k)
               PROVE  \/ st[d] = "SUCCEEDED"
                      \/ st[d] \in {"FAILED", "TIMED_OUT"} /\ plan.steps[d].onError # "FAIL_EXECUTION"
    BY DEF StartedAfterDependencies
  <2>1. DepsDone(st, k)
    BY DEF WaveInv, DepsHold
  <2> QED
    BY <2>1 DEF DepsDone, ContinuableKnownFailure
<1> QED
  BY <1>1, InvariantHolds, PTL

\* A TOOL that is not safe to retry is started at most once, whoever drives it.
THEOREM UnsafeStepsStartOnce == WaveSpec => []UnsafeStartsOnce
<1>1. WaveInv => UnsafeStartsOnce
  BY DEF WaveInv, AttemptsLeft, UnsafeStartsOnce
<1> QED
  BY <1>1, InvariantHolds, PTL

\* An Execution that waits for an approval has no lease, exactly one waiting Step
\* and no call in flight.
THEOREM WaitsAreQuiet == WaveSpec => []WaitIsQuiet
<1>1. WaveInv => WaitIsQuiet
  <2> SUFFICES ASSUME WaveInv, exec = "WAITING_APPROVAL"
               PROVE  /\ lease = 0
                      /\ Started = {}
                      /\ Cardinality({k \in Steps : st[k] = "WAITING_APPROVAL"}) = 1
    BY DEF WaitIsQuiet
  <2>1. lease = 0
    BY DEF WaveInv, TokensSound, Driven
  <2>2. OneWaits(st) /\ Started = {}
    BY DEF WaveInv, WaitsMatch, Started
  <2>3. PICK k : {j \in Steps : st[j] = "WAITING_APPROVAL"} = {k}
    BY <2>2 DEF OneWaits
  <2> QED
    BY <2>1, <2>2, <2>3, FS_Singleton
<1> QED
  BY <1>1, InvariantHolds, PTL

\* SUCCEEDED means that every required Step succeeded or was skipped on purpose and
\* nothing is left unfinished; no success hides an unknown outcome.
THEOREM SuccessesAreComplete == WaveSpec => []SuccessIsComplete
<1>1. WaveInv => SuccessIsComplete
  BY DEF WaveInv
<1> QED
  BY <1>1, InvariantHolds, PTL

\* No late outcome, settlement, cancellation or recovery changes a terminal Step,
\* and a terminal Execution starts nothing.
THEOREM TerminalStepsStay == WaveSpec => StepsAreFinal
<1> DEFINE Final == /\ \A k \in Steps : st[k] \in StepTerminal => st'[k] = st[k]
                    /\ exec \in ExecTerminal => tries' = tries
<1>1. WaveInv /\ [WaveNext]_waveVars => Final
  <2> SUFFICES ASSUME WaveInv, [WaveNext]_waveVars PROVE Final
    OBVIOUS
  <2>1. \A k \in Steps : st[k] \in StepTerminal => st'[k] = st[k]
    BY StepsFinal
  <2>2. exec \in ExecTerminal => tries' = tries
    BY StartsAreDriven DEF ExecTerminal, Driven
  <2> QED
    BY <2>1, <2>2
<1>2. WaveInv /\ [WaveNext]_waveVars => [Final]_waveVars
  BY <1>1
<1> QED
  BY <1>2, InvariantHolds, PTL DEF WaveSpec, StepsAreFinal

-----------------------------------------------------------------------------
(* LOOPs: sums over the rows of a Plan.                                    *)

LEMMA TotalSteps ==
  ASSUME NEW n \in Nat, NEW v \in [1 .. n -> Nat]
  PROVE  \E f \in [0 .. n -> Nat] :
           f[0] = 0 /\ (\A i \in 1 .. n : f[i] = f[i - 1] + v[i]) /\ Total(v) = f[n]
<1> DEFINE g == [i \in 1 .. n |-> [x \in Nat |-> x + v[i]]]
           f[i \in 0 .. n] == IF i = 0 THEN 0 ELSE f[i - 1] + v[i]
           Rec(h) == h = [i \in 0 .. n |-> IF i = 0 THEN 0 ELSE h[i - 1] + v[i]]
<1>1. Len(v) = n
  OBVIOUS
<1>2. \E h \in [0 .. n -> Nat] : h[0] = 0 /\ \A i \in 1 .. n : h[i] = g[i][h[i - 1]]
  <2>1. g \in [1 .. n -> [Nat -> Nat]]
    OBVIOUS
  <2> HIDE DEF g
  <2>2. Iterates(n, Nat, 0, g)
    BY <2>1, IterationExists
  <2> QED
    BY <2>2 DEF Iterates
<1>3. PICK h \in [0 .. n -> Nat] : h[0] = 0 /\ \A i \in 1 .. n : h[i] = g[i][h[i - 1]]
  BY <1>2
<1>4. \A i \in 1 .. n : h[i] = h[i - 1] + v[i]
  <2> SUFFICES ASSUME NEW i \in 1 .. n PROVE h[i] = h[i - 1] + v[i]
    OBVIOUS
  <2>1. h[i - 1] \in Nat
    OBVIOUS
  <2> QED
    BY <1>3, <2>1
<1>5. Rec(h)
  BY <1>3, <1>4
<1>6. Rec(f)
  <2>1. f = CHOOSE x : Rec(x)
    OBVIOUS
  <2> HIDE DEF Rec, f
  <2> QED
    BY <1>5, <2>1
<1>7. Total(v) = f[n]
  BY <1>1 DEF Total
<1> HIDE DEF f
<1>8. f[0] = 0 /\ \A i \in 1 .. n : f[i] = f[i - 1] + v[i]
  <2>1. ASSUME NEW i \in 0 .. n PROVE f[i] = IF i = 0 THEN 0 ELSE f[i - 1] + v[i]
    BY <1>6
  <2>2. 0 \in 0 .. n /\ \A i \in 1 .. n : i \in 0 .. n /\ i # 0
    OBVIOUS
  <2> QED
    BY <2>1, <2>2
<1>9. \A i \in 0 .. n : f[i] \in Nat
  <2> DEFINE P == {i \in 0 .. n : f[i] \in Nat}
  <2>1. 0 \in P
    BY <1>8
  <2>2. ASSUME NEW i \in 1 .. n, i - 1 \in P PROVE i \in P
    BY <1>8, <2>2
  <2> HIDE DEF P
  <2>3. \A i \in 0 .. n : i \in P
    BY <2>1, <2>2, BoundedInduction
  <2> QED
    BY <2>3 DEF P
<1>10. f \in [0 .. n -> Nat]
  <2>1. f = [i \in 0 .. n |-> f[i]]
    <3>1. f = [i \in 0 .. n |-> IF i = 0 THEN 0 ELSE f[i - 1] + v[i]]
      BY <1>6
    <3> HIDE DEF Rec
    <3> QED
      BY <3>1, Zenon
  <2> QED
    BY <1>9, <2>1
<1> QED
  BY <1>7, <1>8, <1>10

\* A sum is a natural number.
LEMMA TotalType ==
  ASSUME NEW n \in Nat, NEW v \in [1 .. n -> Nat]
  PROVE  Total(v) \in Nat
BY TotalSteps

\* A sum after one of its terms grew.
LEMMA TotalGrows ==
  ASSUME NEW n \in Nat, NEW v \in [1 .. n -> Nat], NEW w \in [1 .. n -> Nat], NEW l \in 1 .. n, NEW d \in Nat,
         w[l] = v[l] + d, \A i \in 1 .. n : i # l => w[i] = v[i]
  PROVE  Total(w) = Total(v) + d
<1>1. PICK f \in [0 .. n -> Nat] : f[0] = 0 /\ (\A i \in 1 .. n : f[i] = f[i - 1] + v[i]) /\ Total(v) = f[n]
  BY TotalSteps
<1>2. PICK g \in [0 .. n -> Nat] : g[0] = 0 /\ (\A i \in 1 .. n : g[i] = g[i - 1] + w[i]) /\ Total(w) = g[n]
  BY TotalSteps
<1> DEFINE P == {i \in 0 .. n : g[i] = f[i] + (IF i < l THEN 0 ELSE d)}
<1>3. 0 \in P
  BY <1>1, <1>2
<1>4. ASSUME NEW i \in 1 .. n, i - 1 \in P PROVE i \in P
  <2>1. f[i] = f[i - 1] + v[i] /\ g[i] = g[i - 1] + w[i]
    BY <1>1, <1>2
  <2>2. /\ i - 1 \in 0 .. n /\ i \in 0 .. n
        /\ f[i - 1] \in Nat /\ g[i - 1] \in Nat /\ v[i] \in Nat /\ w[i] \in Nat
    OBVIOUS
  <2>3. g[i - 1] = f[i - 1] + (IF i - 1 < l THEN 0 ELSE d)
    BY <1>4
  <2>4. g[i] = f[i] + (IF i < l THEN 0 ELSE d)
    <3>1. CASE i = l
      BY <2>1, <2>2, <2>3, <3>1
    <3>2. CASE i < l
      <4>1. w[i] = v[i]
        BY <3>2
      <4> QED
        BY <2>1, <2>2, <2>3, <3>2, <4>1
    <3>3. CASE i > l
      <4>1. w[i] = v[i]
        BY <3>3
      <4> QED
        BY <2>1, <2>2, <2>3, <3>3, <4>1
    <3> QED
      BY <3>1, <3>2, <3>3
  <2> QED
    BY <2>2, <2>4
<1> HIDE DEF P
<1>5. \A i \in 0 .. n : i \in P
  BY <1>3, <1>4, BoundedInduction
<1>6. g[n] = f[n] + d
  BY <1>5 DEF P
<1> QED
  BY <1>1, <1>2, <1>6

-----------------------------------------------------------------------------
(* LOOPs: rows, and what holds of them while their Execution is RUNNING.   *)

KidStates == RowTerminal \union {"PENDING", "READY", "RETRY", "RUNNING"}
KnownKidEnds == RowTerminal \ {"UNKNOWN_OUTCOME"}
LoopEnds == {"CANCEL_REQUESTED", "COMPLETED", "FAILED", "TIMED_OUT", "CANCELLED"}
LoopErrors == {"NONE", "WHEN_FALSE", "MAX_ITERATIONS", "TIMEOUT", "OTHER"}

LoopRow(l) ==
  [st : RowTerminal \union {"PENDING", "RUNNING"}, err : LoopErrors, pin : Int, hist : Seq(BOOLEAN),
   kids : Seq([Body(l) -> KidStates]), late : BOOLEAN, completed : Int]

LoopRows ==
  {v \in [LoopsOf(lplan) -> UNION {LoopRow(l) : l \in LoopsOf(lplan)}] :
     \A l \in LoopsOf(lplan) : v[l] \in LoopRow(l)}

LoopRecs == [loop : LoopRows, exec : LoopEnds \union {"RUNNING"}, raised : BOOLEAN]

\* The gates of a WHILE keep step with its iterations.
WhileInv(l, x) ==
  /\ Len(x.kids) <= Cfg(l).maxIterations
  /\ TrueGates(x.hist, Len(x.kids))
  /\ x.st \in {"RUNNING", "TIMED_OUT"} => Len(x.hist) = Len(x.kids) /\ Len(x.kids) > 0
  /\ x.st = "SUCCEEDED" =>
       Len(x.hist) = Len(x.kids) + 1 /\ ~x.hist[Len(x.kids) + 1] /\ x.completed = Len(x.kids)
  /\ x.st = "FAILED" =>
       /\ x.err = "MAX_ITERATIONS" /\ Len(x.kids) = Cfg(l).maxIterations
       /\ Len(x.hist) = Len(x.kids) + 1 /\ x.hist[Len(x.kids) + 1]

\* The iterations of a FOR_EACH stay within the collection it pinned.
ForEachInv(l, x) ==
  /\ Len(x.kids) > 0 => Len(x.kids) <= x.pin
  /\ x.st = "RUNNING" => x.pin \in 0 .. Cfg(l).maxIterations
  /\ x.st = "SUCCEEDED" => Len(x.kids) = x.pin /\ x.completed = x.pin

ModeInv(l, x) == IF Cfg(l).mode = "WHILE" THEN WhileInv(l, x) ELSE ForEachInv(l, x)

\* Only the last iteration of a RUNNING LOOP is open.
RowInv(l, x) ==
  /\ \A n \in 1 .. Len(x.kids) - 1 : \A b \in Body(l) : x.kids[n][b] \in KnownKidEnds
  /\ x.st \in {"PENDING", "RUNNING", "SKIPPED", "SUCCEEDED", "TIMED_OUT", "FAILED"}
  /\ x.st \in {"PENDING", "SKIPPED"} => Len(x.kids) = 0 /\ Len(x.hist) = 0
  /\ x.st # "RUNNING" => \A n \in 1 .. Len(x.kids) : \A b \in Body(l) : x.kids[n][b] \in RowTerminal
  /\ ModeInv(l, x)

\* No call of the row has an unknown outcome.
Known(l, x) == \A n \in 1 .. Len(x.kids) : \A b \in Body(l) : x.kids[n][b] # "UNKNOWN_OUTCOME"

Fits(r) == r \in LoopRecs /\ Rows(r) <= lplan.maxSteps

\* A local state between two LOOPs of a pass.
LoopSound(r) ==
  /\ Fits(r)
  /\ r.exec = "RUNNING" /\ ~r.raised =>
       \A l \in LoopsOf(lplan) : RowInv(l, r.loop[l]) /\ Known(l, r.loop[l])

\* All but the row of l.
SoundBut(r, l) ==
  /\ Fits(r) /\ r.exec = "RUNNING" /\ r.raised = FALSE
  /\ \A m \in LoopsOf(lplan) \ {l} : RowInv(m, r.loop[m]) /\ Known(m, r.loop[m])

LoopInv ==
  /\ lplan \in LoopPlans
  /\ lexec \in LoopEnds \union {"RUNNING"}
  /\ llease \in {"none", "live", "expired"}
  /\ driver \in {"idle", "prepare", "run", "stop"}
  /\ loopFaults \in 0 .. MaxLoopFaults
  /\ loop \in LoopRows
  /\ Rows(LoopLocal) <= lplan.maxSteps
  /\ lexec = "RUNNING" => \A l \in LoopsOf(lplan) : RowInv(l, loop[l])
  /\ lexec = "RUNNING" /\ driver \in {"prepare", "run"} => \A l \in LoopsOf(lplan) : Known(l, loop[l])

\* The numbers of a Plan.
LEMMA PlanNumbers ==
  ASSUME lplan \in LoopPlans
  PROVE  /\ Len(lplan.loops) \in Nat /\ LoopsOf(lplan) = 1 .. Len(lplan.loops)
         /\ lplan.maxSteps \in Nat /\ Len(lplan.loops) <= lplan.maxSteps
         /\ \A l \in LoopsOf(lplan) :
              /\ Cfg(l).size \in Nat /\ Cfg(l).maxIterations \in Nat /\ Cfg(l).bodies \in Nat
              /\ Cfg(l).gate \in {"TRUE", "FALSE", "ERROR"}
<1>1. /\ lplan.loops \in Seq({lplan.loops[l] : l \in DOMAIN lplan.loops})
      /\ lplan.maxSteps \in Nat /\ Len(lplan.loops) <= lplan.maxSteps
      /\ \A l \in DOMAIN lplan.loops :
           /\ lplan.loops[l].size \in Nat /\ lplan.loops[l].maxIterations \in Nat
           /\ lplan.loops[l].bodies \in Nat /\ lplan.loops[l].gate \in {"TRUE", "FALSE", "ERROR"}
  BY LoopPlansAssumption, Zenon
<1>2. Len(lplan.loops) \in Nat /\ DOMAIN lplan.loops = 1 .. Len(lplan.loops)
  BY <1>1
<1> QED
  BY <1>1, <1>2 DEF LoopsOf, Cfg

\* A sequence changed element by element.
LEMMA MapSeq ==
  ASSUME NEW S, NEW s \in Seq(S), NEW T, NEW f \in [1 .. Len(s) -> T]
  PROVE  f \in Seq(T) /\ Len(f) = Len(s) /\ DOMAIN f = 1 .. Len(s)
<1>1. Len(s) \in Nat
  OBVIOUS
<1>2. f \in Seq(T)
  BY <1>1, SeqDef
<1> QED
  BY <1>1, <1>2

\* A sequence is a function.
LEMMA SeqFun ==
  ASSUME NEW S, NEW s \in Seq(S)
  PROVE  s \in [1 .. Len(s) -> S]
BY SeqDef

\* A row and its parts.
LEMMA RowParts ==
  ASSUME lplan \in LoopPlans, NEW v \in LoopRows, NEW l \in LoopsOf(lplan)
  PROVE  /\ v[l] \in LoopRow(l)
         /\ v[l].kids \in Seq([Body(l) -> KidStates]) /\ Len(v[l].kids) \in Nat
         /\ DOMAIN v[l].kids = 1 .. Len(v[l].kids)
         /\ v[l].hist \in Seq(BOOLEAN) /\ Len(v[l].hist) \in Nat
<1>1. v[l] \in LoopRow(l)
  BY DEF LoopRows
<1> QED
  BY <1>1 DEF LoopRow

\* The sequence of rows.
LEMMA RowsDomain ==
  ASSUME lplan \in LoopPlans, NEW v \in LoopRows
  PROVE  DOMAIN v = LoopsOf(lplan) /\ Len(v) = Len(lplan.loops)
<1>1. DOMAIN v = LoopsOf(lplan)
  BY DEF LoopRows
<1>2. v \in [1 .. Len(lplan.loops) -> UNION {LoopRow(l) : l \in LoopsOf(lplan)}]
  BY PlanNumbers DEF LoopRows
<1>3. Len(lplan.loops) \in Nat
  BY PlanNumbers
<1>4. Len(v) = Len(lplan.loops)
  BY <1>2, <1>3
<1> QED
  BY <1>1, <1>4

\* The rows behind the count.
Materialized(r) == [l \in LoopsOf(lplan) |-> Len(r.loop[l].kids) * Cfg(l).bodies]

LEMMA ProductNat == ASSUME NEW a \in Nat, NEW b \in Nat PROVE a * b \in Nat
OBVIOUS

LEMMA ProductNext == ASSUME NEW a \in Nat, NEW b \in Nat PROVE (a + 1) * b = a * b + b
OBVIOUS

LEMMA RowsCount ==
  ASSUME lplan \in LoopPlans, NEW r \in LoopRecs
  PROVE  /\ Materialized(r) \in [1 .. Len(lplan.loops) -> Nat]
         /\ Rows(r) = Len(lplan.loops) + Total(Materialized(r))
         /\ Rows(r) \in Nat
<1>1. r.loop \in LoopRows
  BY DEF LoopRecs
<1>2. LoopsOf(lplan) = 1 .. Len(lplan.loops) /\ Len(lplan.loops) \in Nat
  BY PlanNumbers
<1>3. \A l \in LoopsOf(lplan) : Len(r.loop[l].kids) * Cfg(l).bodies \in Nat
  <2> SUFFICES ASSUME NEW l \in LoopsOf(lplan) PROVE Len(r.loop[l].kids) * Cfg(l).bodies \in Nat
    OBVIOUS
  <2>1. Len(r.loop[l].kids) \in Nat /\ Cfg(l).bodies \in Nat
    BY <1>1, RowParts, PlanNumbers
  <2> QED
    BY <2>1, ProductNat
<1>4. Materialized(r) \in [1 .. Len(lplan.loops) -> Nat]
  BY <1>2, <1>3 DEF Materialized
<1>5. Materialized(r) = [l \in DOMAIN r.loop |-> Current(r, l) * Cfg(l).bodies]
  BY <1>1, RowsDomain DEF Materialized, Current
<1>6. Rows(r) = Len(lplan.loops) + Total(Materialized(r))
  BY <1>1, <1>5, RowsDomain DEF Rows
<1>7. Total(Materialized(r)) \in Nat
  BY <1>2, <1>4, TotalType
<1> QED
  BY <1>2, <1>4, <1>6, <1>7

\* The count depends on the number of iterations only.
LEMMA RowsSame ==
  ASSUME lplan \in LoopPlans, NEW r \in LoopRecs, NEW s \in LoopRecs,
         \A l \in LoopsOf(lplan) : Len(s.loop[l].kids) = Len(r.loop[l].kids)
  PROVE  Rows(s) = Rows(r)
<1>1. Materialized(s) = Materialized(r)
  BY DEF Materialized
<1> QED
  BY <1>1, RowsCount

\* One more iteration is one more body.
LEMMA RowsGrow ==
  ASSUME lplan \in LoopPlans, NEW r \in LoopRecs, NEW s \in LoopRecs, NEW l \in LoopsOf(lplan),
         Len(s.loop[l].kids) = Len(r.loop[l].kids) + 1,
         \A m \in LoopsOf(lplan) \ {l} : Len(s.loop[m].kids) = Len(r.loop[m].kids)
  PROVE  Rows(s) = Rows(r) + Cfg(l).bodies
<1> DEFINE n == Len(lplan.loops)
           v == Materialized(r)
           w == Materialized(s)
<1>1. n \in Nat /\ l \in 1 .. n /\ Cfg(l).bodies \in Nat /\ LoopsOf(lplan) = 1 .. n
  BY PlanNumbers
<1>2. v \in [1 .. n -> Nat] /\ w \in [1 .. n -> Nat]
  BY RowsCount
<1>3. Len(r.loop[l].kids) \in Nat
  BY RowParts DEF LoopRecs
<1>4. w[l] = v[l] + Cfg(l).bodies
  <2>1. w[l] = (Len(r.loop[l].kids) + 1) * Cfg(l).bodies /\ v[l] = Len(r.loop[l].kids) * Cfg(l).bodies
    BY DEF Materialized
  <2> QED
    BY <1>1, <1>3, <2>1, ProductNext
<1>5. \A i \in 1 .. n : i # l => w[i] = v[i]
  BY <1>1 DEF Materialized
<1>6. Total(v) \in Nat /\ Rows(r) = n + Total(v) /\ Rows(s) = n + Total(w)
  BY <1>1, <1>2, RowsCount, TotalType
<1> HIDE DEF v, w, n
<1>7. Total(w) = Total(v) + Cfg(l).bodies
  BY <1>1, <1>2, <1>4, <1>5, TotalGrows
<1> QED
  BY <1>1, <1>6, <1>7

-----------------------------------------------------------------------------
(* LOOPs: one row written, and every row stopped.                          *)

LEMMA PutFacts ==
  ASSUME lplan \in LoopPlans, NEW r \in LoopRecs, NEW l \in LoopsOf(lplan), NEW y \in LoopRow(l)
  PROVE  /\ Put(r, l, y) \in LoopRecs
         /\ Put(r, l, y).exec = r.exec /\ Put(r, l, y).raised = r.raised
         /\ Put(r, l, y).loop[l] = y
         /\ \A m \in LoopsOf(lplan) \ {l} : Put(r, l, y).loop[m] = r.loop[m]
<1> DEFINE v == [r.loop EXCEPT ![l] = y]
<1>1. r.loop \in LoopRows
  BY DEF LoopRecs
<1>2. v \in LoopRows
  BY <1>1 DEF LoopRows
<1>3. v[l] = y /\ \A m \in LoopsOf(lplan) \ {l} : v[m] = r.loop[m]
  BY <1>1 DEF LoopRows
<1> HIDE DEF v
<1>4. Put(r, l, y) = [r EXCEPT !.loop = v]
  BY DEF Put, v
<1>5. /\ Put(r, l, y) \in LoopRecs /\ Put(r, l, y).loop = v
      /\ Put(r, l, y).exec = r.exec /\ Put(r, l, y).raised = r.raised
  BY <1>2, <1>4 DEF LoopRecs
<1> QED
  BY <1>3, <1>5

\* A row written with as many iterations as it had.
LEMMA PutFits ==
  ASSUME lplan \in LoopPlans, NEW r, NEW l \in LoopsOf(lplan), SoundBut(r, l), NEW y \in LoopRow(l),
         Len(y.kids) = Len(r.loop[l].kids)
  PROVE  SoundBut(Put(r, l, y), l) /\ Put(r, l, y).loop[l] = y
<1> DEFINE s == Put(r, l, y)
<1>1. r \in LoopRecs /\ Rows(r) <= lplan.maxSteps /\ r.exec = "RUNNING" /\ r.raised = FALSE
  BY DEF SoundBut, Fits
<1>2. /\ s \in LoopRecs /\ s.exec = r.exec /\ s.raised = r.raised /\ s.loop[l] = y
      /\ \A m \in LoopsOf(lplan) \ {l} : s.loop[m] = r.loop[m]
  BY <1>1, PutFacts
<1> HIDE DEF s
<1>3. Rows(s) = Rows(r)
  BY <1>1, <1>2, RowsSame
<1>4. SoundBut(s, l)
  BY <1>1, <1>2, <1>3 DEF SoundBut, Fits
<1> QED
  BY <1>2, <1>4 DEF s

\* The last row.
LEMMA SoundAll ==
  ASSUME NEW r, NEW l, SoundBut(r, l), RowInv(l, r.loop[l]), Known(l, r.loop[l])
  PROVE  LoopSound(r)
BY DEF SoundBut, LoopSound

\* The rows of an iteration that are not terminal are stopped.
LEMMA StopRowsFacts ==
  ASSUME NEW l, NEW kids \in Seq([Body(l) -> KidStates])
  PROVE  /\ StopRows(kids) \in Seq([Body(l) -> KidStates]) /\ Len(StopRows(kids)) = Len(kids)
         /\ \A n \in 1 .. Len(kids) : \A b \in Body(l) : StopRows(kids)[n][b] = Untouched(kids[n][b])
<1>1. \A s \in KidStates : Untouched(s) \in KidStates
  BY DEF Untouched, KidStates, RowTerminal
<1>2. \A n \in 1 .. Len(kids) : kids[n] \in [Body(l) -> KidStates] /\ DOMAIN kids[n] = Body(l)
  OBVIOUS
<1>3. DOMAIN kids = 1 .. Len(kids)
  OBVIOUS
<1>4. StopRows(kids) = [n \in 1 .. Len(kids) |-> [b \in Body(l) |-> Untouched(kids[n][b])]]
  BY <1>2, <1>3, Zenon DEF StopRows
<1>5. StopRows(kids) \in [1 .. Len(kids) -> [Body(l) -> KidStates]]
  <2>1. ASSUME NEW n \in 1 .. Len(kids)
        PROVE  [b \in Body(l) |-> Untouched(kids[n][b])] \in [Body(l) -> KidStates]
    BY <1>1, <1>2
  <2> QED
    BY <1>4, <2>1
<1>6. StopRows(kids) \in Seq([Body(l) -> KidStates]) /\ Len(StopRows(kids)) = Len(kids)
  BY <1>5, MapSeq
<1> QED
  BY <1>4, <1>6

\* A stopped Execution keeps its rows within the limit.
LEMMA StopAllSound ==
  ASSUME lplan \in LoopPlans, NEW r, Fits(r), NEW status \in LoopEnds
  PROVE  LoopSound(StopAll(r, status)) /\ StopAll(r, status).raised = r.raised
<1> DEFINE stop(l) == [r.loop[l] EXCEPT !.st = Untouched(@), !.kids = StopRows(@)]
           v == [l \in DOMAIN r.loop |-> stop(l)]
           s == [r EXCEPT !.exec = status, !.loop = v]
<1>1. r \in LoopRecs /\ Rows(r) <= lplan.maxSteps /\ r.loop \in LoopRows
  BY DEF Fits, LoopRecs
<1>2. DOMAIN r.loop = LoopsOf(lplan)
  BY <1>1, RowsDomain
<1>3. ASSUME NEW l \in LoopsOf(lplan)
      PROVE  stop(l) \in LoopRow(l) /\ Len(stop(l).kids) = Len(r.loop[l].kids)
  <2>1. r.loop[l] \in LoopRow(l)
    BY <1>1, RowParts
  <2>2. StopRows(r.loop[l].kids) \in Seq([Body(l) -> KidStates]) /\ Len(StopRows(r.loop[l].kids)) = Len(r.loop[l].kids)
    BY <1>1, RowParts, StopRowsFacts
  <2>3. Untouched(r.loop[l].st) \in RowTerminal \union {"PENDING", "RUNNING"}
    BY <2>1 DEF LoopRow, Untouched, RowTerminal
  <2> QED
    BY <2>1, <2>2, <2>3 DEF LoopRow
<1>4. v \in LoopRows /\ \A l \in LoopsOf(lplan) : Len(v[l].kids) = Len(r.loop[l].kids)
  <2> HIDE DEF stop
  <2> QED
    BY <1>2, <1>3 DEF LoopRows
<1>5. StopAll(r, status) = s
  BY <1>1 DEF StopAll, LoopRecs
<1> HIDE DEF v
<1>6. s \in LoopRecs /\ s.exec = status /\ s.loop = v /\ s.raised = r.raised
  BY <1>1, <1>4 DEF LoopRecs
<1> HIDE DEF s
<1>7. Rows(s) = Rows(r)
  BY <1>1, <1>4, <1>6, RowsSame
<1>8. status # "RUNNING"
  BY DEF LoopEnds
<1> QED
  BY <1>1, <1>5, <1>6, <1>7, <1>8 DEF LoopSound, Fits

LEMMA FailClosedSound ==
  ASSUME lplan \in LoopPlans, NEW r, Fits(r)
  PROVE  LoopSound(FailClosed(r))
BY StopAllSound DEF FailClosed, LoopEnds

\* The row of a LOOP but for its status.
Restated(x, y, s, e) ==
  /\ y.st = s /\ y.err = e
  /\ y.kids = x.kids /\ y.hist = x.hist /\ y.pin = x.pin /\ y.completed = x.completed

\* The status of one row.
LEMMA SetLoopFacts ==
  ASSUME lplan \in LoopPlans, NEW r, NEW l \in LoopsOf(lplan), SoundBut(r, l),
         NEW s \in RowTerminal \union {"PENDING", "RUNNING"}, NEW e \in LoopErrors
  PROVE  /\ SoundBut(SetLoop(r, l, s, e), l)
         /\ Restated(r.loop[l], SetLoop(r, l, s, e).loop[l], s, e)
         /\ SetLoop(r, l, s, e).loop[l] \in LoopRow(l)
<1> DEFINE y == [r.loop[l] EXCEPT !.st = s, !.err = e]
<1>1. r.loop[l] \in LoopRow(l)
  BY RowParts DEF SoundBut, Fits, LoopRecs
<1>2. y \in LoopRow(l) /\ y.kids = r.loop[l].kids /\ Restated(r.loop[l], y, s, e)
  BY <1>1 DEF LoopRow, Restated
<1>3. SetLoop(r, l, s, e) = Put(r, l, y)
  BY DEF SetLoop
<1> HIDE DEF y
<1>4. SoundBut(Put(r, l, y), l) /\ Put(r, l, y).loop[l] = y
  BY <1>2, PutFits
<1> QED
  BY <1>2, <1>3, <1>4

\* A LOOP that cannot go on fails the Execution.
LEMMA FailLoopSound ==
  ASSUME lplan \in LoopPlans, NEW r, NEW l \in LoopsOf(lplan), SoundBut(r, l)
  PROVE  LoopSound(FailClosed(SetLoop(r, l, "FAILED", "OTHER")))
<1>1. SoundBut(SetLoop(r, l, "FAILED", "OTHER"), l)
  BY SetLoopFacts DEF RowTerminal, LoopErrors
<1> QED
  BY <1>1, FailClosedSound DEF SoundBut

-----------------------------------------------------------------------------
(* LOOPs: error policy, gates, iterations and the pass over all LOOPs.     *)

\* A LOOP that failed or timed out stops its children, and the Execution with it
\* where its policy says so.
LEMMA ErrorPolicySound ==
  ASSUME lplan \in LoopPlans, NEW r, NEW l \in LoopsOf(lplan), SoundBut(r, l),
         r.loop[l].st \in {"FAILED", "TIMED_OUT"}, ModeInv(l, r.loop[l]), Known(l, r.loop[l])
  PROVE  LoopSound(ErrorPolicy(r, l))
<1> DEFINE x == r.loop[l]
           y == [x EXCEPT !.kids = StopRows(@)]
           s == StopChildren(r, l)
           open == \E n \in DOMAIN x.kids : \E b \in Body(l) : x.kids[n][b] \in {"RUNNING", "RETRY"}
<1>0. Fits(r)
  BY DEF SoundBut
<1>1. x \in LoopRow(l) /\ x.kids \in Seq([Body(l) -> KidStates]) /\ DOMAIN x.kids = 1 .. Len(x.kids)
  BY RowParts DEF SoundBut, Fits, LoopRecs
<1>2. /\ StopRows(x.kids) \in Seq([Body(l) -> KidStates]) /\ Len(StopRows(x.kids)) = Len(x.kids)
      /\ \A n \in 1 .. Len(x.kids) : \A b \in Body(l) : StopRows(x.kids)[n][b] = Untouched(x.kids[n][b])
  BY <1>1, StopRowsFacts
<1>3. /\ y \in LoopRow(l) /\ y.kids = StopRows(x.kids) /\ y.st = x.st /\ y.err = x.err /\ y.pin = x.pin
      /\ y.hist = x.hist /\ y.completed = x.completed
  BY <1>1, <1>2 DEF LoopRow
<1>4. s = Put(r, l, y)
  BY DEF StopChildren
<1>5. SoundBut(s, l) /\ s.loop[l] = y
  <2> HIDE DEF y, s
  <2> QED
    BY <1>2, <1>3, <1>4, PutFits
<1>6. CASE open
  <2>1. ErrorPolicy(r, l) = FailClosed(r)
    BY <1>6 DEF ErrorPolicy
  <2> QED
    BY <1>0, <2>1, FailClosedSound
<1>7. CASE ~open
  <2>1. ErrorPolicy(r, l) = IF Cfg(l).onError = "FAIL_EXECUTION" THEN StopAll(s, x.st) ELSE s
    BY <1>7 DEF ErrorPolicy
  <2>2. LoopSound(StopAll(s, x.st))
    <3>1. x.st \in LoopEnds
      BY DEF LoopEnds
    <3> HIDE DEF s, x
    <3> QED
      BY <1>5, <3>1, StopAllSound DEF SoundBut
  <2>3. \A n \in 1 .. Len(y.kids) : \A b \in Body(l) : y.kids[n][b] \in KnownKidEnds
    <3> SUFFICES ASSUME NEW n \in 1 .. Len(x.kids), NEW b \in Body(l)
                 PROVE  Untouched(x.kids[n][b]) \in KnownKidEnds
      BY <1>2, <1>3
    <3>1. x.kids[n][b] \in KidStates /\ x.kids[n][b] \notin {"RUNNING", "RETRY", "UNKNOWN_OUTCOME"}
      BY <1>1, <1>7 DEF Known
    <3> HIDE DEF x
    <3> QED
      BY <3>1 DEF Untouched, KidStates, KnownKidEnds, RowTerminal
  <2>4. ModeInv(l, y)
    <3>1. ModeInv(l, x) /\ Len(y.kids) = Len(x.kids)
      BY <1>2, <1>3
    <3> HIDE DEF x, y
    <3> QED
      BY <1>3, <3>1 DEF ModeInv, WhileInv, ForEachInv
  <2>5. Len(y.kids) \in Nat /\ y.st \in {"FAILED", "TIMED_OUT"}
    BY <1>1, <1>2, <1>3
  <2> HIDE DEF y, s
  <2>6. RowInv(l, y) /\ Known(l, y)
    BY <2>3, <2>4, <2>5 DEF RowInv, Known, KnownKidEnds
  <2>7. LoopSound(s)
    BY <1>5, <2>6, SoundAll
  <2> QED
    BY <2>1, <2>2, <2>7
<1> QED
  BY <1>6, <1>7

\* The row with one more iteration.
Longer(l, x) == [x EXCEPT !.kids = Append(@, [b \in Body(l) |-> "PENDING"])]

LEMMA LongerFacts ==
  ASSUME NEW l, NEW x \in LoopRow(l)
  PROVE  /\ Longer(l, x) \in LoopRow(l) /\ Len(Longer(l, x).kids) = Len(x.kids) + 1
         /\ Longer(l, x).st = x.st /\ Longer(l, x).err = x.err /\ Longer(l, x).pin = x.pin
         /\ Longer(l, x).hist = x.hist /\ Longer(l, x).completed = x.completed
         /\ \A n \in 1 .. Len(x.kids) : Longer(l, x).kids[n] = x.kids[n]
         /\ Longer(l, x).kids[Len(x.kids) + 1] = [b \in Body(l) |-> "PENDING"]
<1> DEFINE e == [b \in Body(l) |-> "PENDING"]
<1>1. x.kids \in Seq([Body(l) -> KidStates]) /\ e \in [Body(l) -> KidStates]
  BY DEF LoopRow, KidStates
<1> HIDE DEF e
<1>2. /\ Append(x.kids, e) \in Seq([Body(l) -> KidStates]) /\ Len(Append(x.kids, e)) = Len(x.kids) + 1
      /\ \A n \in 1 .. Len(x.kids) : Append(x.kids, e)[n] = x.kids[n]
      /\ Append(x.kids, e)[Len(x.kids) + 1] = e
  BY <1>1
<1>3. Longer(l, x) = [x EXCEPT !.kids = Append(x.kids, e)]
  BY DEF Longer, e
<1>4. /\ Longer(l, x) \in LoopRow(l) /\ Longer(l, x).kids = Append(x.kids, e)
      /\ Longer(l, x).st = x.st /\ Longer(l, x).err = x.err /\ Longer(l, x).pin = x.pin
      /\ Longer(l, x).hist = x.hist /\ Longer(l, x).completed = x.completed
  BY <1>2, <1>3 DEF LoopRow
<1> QED
  BY <1>2, <1>4 DEF e

\* The next iteration, over finished ones, or the exception.
LEMMA MaterializeSound ==
  ASSUME lplan \in LoopPlans, NEW r, NEW l \in LoopsOf(lplan), SoundBut(r, l), r.loop[l].st = "RUNNING",
         \A n \in 1 .. Len(r.loop[l].kids) : \A b \in Body(l) : r.loop[l].kids[n][b] \in KnownKidEnds,
         ModeInv(l, Longer(l, r.loop[l]))
  PROVE  LoopSound(Materialize(r, l))
<1> DEFINE x == r.loop[l]
           y == Longer(l, x)
           s == Put(r, l, y)
<1>1. r \in LoopRecs /\ Rows(r) <= lplan.maxSteps /\ r.exec = "RUNNING" /\ r.raised = FALSE
  BY DEF SoundBut, Fits
<1>2. x \in LoopRow(l) /\ Len(x.kids) \in Nat
  BY <1>1, RowParts DEF LoopRecs
<1>3. Cfg(l).bodies \in Nat /\ lplan.maxSteps \in Nat /\ Rows(r) \in Nat
  BY <1>1, PlanNumbers, RowsCount
<1>4. CASE Rows(r) + Cfg(l).bodies > lplan.maxSteps
  <2> DEFINE t == [r EXCEPT !.raised = TRUE]
  <2>1. Materialize(r, l) = t
    BY <1>4 DEF Materialize
  <2>2. t \in LoopRecs /\ t.loop = r.loop /\ t.raised
    BY <1>1 DEF LoopRecs
  <2> HIDE DEF t
  <2>3. Rows(t) = Rows(r)
    BY <1>1, <2>2, RowsSame
  <2> QED
    BY <1>1, <2>1, <2>2, <2>3 DEF LoopSound, Fits
<1>5. CASE ~(Rows(r) + Cfg(l).bodies > lplan.maxSteps)
  <2>1. Materialize(r, l) = s
    BY <1>5 DEF Materialize, Longer
  <2>2. /\ y \in LoopRow(l) /\ Len(y.kids) = Len(x.kids) + 1 /\ y.st = x.st
        /\ \A n \in 1 .. Len(x.kids) : y.kids[n] = x.kids[n]
        /\ y.kids[Len(x.kids) + 1] = [b \in Body(l) |-> "PENDING"]
    <3> HIDE DEF x
    <3> QED
      BY <1>2, LongerFacts
  <2>3. ModeInv(l, y) /\ x.st = "RUNNING"
    OBVIOUS
  <2>4. \A n \in 1 .. Len(x.kids) : \A b \in Body(l) : x.kids[n][b] \in KnownKidEnds
    OBVIOUS
  <2>5. /\ s \in LoopRecs /\ s.exec = r.exec /\ s.raised = r.raised /\ s.loop[l] = y
        /\ \A m \in LoopsOf(lplan) \ {l} : s.loop[m] = r.loop[m]
    <3> HIDE DEF y
    <3> QED
      BY <1>1, <2>2, PutFacts
  <2>6. Len(s.loop[l].kids) = Len(r.loop[l].kids) + 1
    BY <2>2, <2>5
  <2> HIDE DEF s, y
  <2>7. Rows(s) = Rows(r) + Cfg(l).bodies
    BY <1>1, <2>5, <2>6, RowsGrow
  <2>8. SoundBut(s, l)
    BY <1>1, <1>3, <1>5, <2>5, <2>7 DEF SoundBut, Fits
  <2> HIDE DEF x
  <2>9. RowInv(l, y)
    <3>1. \A n \in 1 .. Len(y.kids) - 1 : \A b \in Body(l) : y.kids[n][b] \in KnownKidEnds
      BY <1>2, <2>2, <2>4
    <3> QED
      BY <2>2, <2>3, <3>1 DEF RowInv
  <2>10. Known(l, y)
    <3> SUFFICES ASSUME NEW n \in 1 .. Len(y.kids), NEW b \in Body(l) PROVE y.kids[n][b] # "UNKNOWN_OUTCOME"
      BY DEF Known
    <3>1. CASE n = Len(x.kids) + 1
      BY <2>2, <3>1
    <3>2. CASE n # Len(x.kids) + 1
      <4>1. n \in 1 .. Len(x.kids)
        BY <1>2, <2>2, <3>2
      <4> QED
        BY <2>2, <2>4, <4>1 DEF KnownKidEnds
    <3> QED
      BY <3>1, <3>2
  <2> QED
    BY <2>1, <2>5, <2>8, <2>9, <2>10, SoundAll
<1> QED
  BY <1>4, <1>5

\* A LOOP that succeeds.
LEMMA SucceedSound ==
  ASSUME lplan \in LoopPlans, NEW r, NEW l \in LoopsOf(lplan), SoundBut(r, l), NEW n \in Int,
         \A i \in 1 .. Len(r.loop[l].kids) : \A b \in Body(l) : r.loop[l].kids[i][b] \in KnownKidEnds,
         Cfg(l).mode = "WHILE" =>
           LET x == r.loop[l]
           IN  /\ Len(x.kids) <= Cfg(l).maxIterations /\ TrueGates(x.hist, Len(x.kids))
               /\ Len(x.hist) = Len(x.kids) + 1 /\ ~x.hist[Len(x.kids) + 1] /\ n = Len(x.kids),
         Cfg(l).mode # "WHILE" => Len(r.loop[l].kids) = r.loop[l].pin /\ n = r.loop[l].pin
  PROVE  LoopSound(SucceedLoop(r, l, n))
<1> DEFINE x == r.loop[l]
           y == [x EXCEPT !.st = "SUCCEEDED", !.err = "NONE", !.completed = n]
<1>1. x \in LoopRow(l) /\ Len(x.kids) \in Nat
  BY RowParts DEF SoundBut, Fits, LoopRecs
<1>2. /\ y \in LoopRow(l) /\ y.kids = x.kids /\ y.hist = x.hist /\ y.pin = x.pin
      /\ y.st = "SUCCEEDED" /\ y.completed = n
  BY <1>1 DEF LoopRow, RowTerminal, LoopErrors
<1>3. SucceedLoop(r, l, n) = Put(r, l, y)
  BY DEF SucceedLoop
<1>4. ModeInv(l, y)
  <2> HIDE DEF y
  <2>1. CASE Cfg(l).mode = "WHILE"
    BY <1>2, <2>1 DEF ModeInv, WhileInv
  <2>2. CASE Cfg(l).mode # "WHILE"
    BY <1>2, <2>2 DEF ModeInv, ForEachInv
  <2> QED
    BY <2>1, <2>2
<1>5. RowInv(l, y) /\ Known(l, y)
  <2>1. \A i \in 1 .. Len(y.kids) : \A b \in Body(l) : y.kids[i][b] \in KnownKidEnds
    BY <1>2
  <2>2. Len(y.kids) \in Nat
    BY <1>1, <1>2
  <2> HIDE DEF y
  <2> QED
    BY <1>2, <1>4, <2>1, <2>2 DEF RowInv, Known, KnownKidEnds
<1> HIDE DEF y
<1>6. SoundBut(Put(r, l, y), l) /\ Put(r, l, y).loop[l] = y
  BY <1>2, PutFits
<1> QED
  BY <1>3, <1>5, <1>6, SoundAll

\* A WHILE about to look at the gate of its next iteration.
Gateable(l, x) ==
  /\ x.st = "RUNNING"
  /\ \A i \in 1 .. Len(x.kids) : \A b \in Body(l) : x.kids[i][b] \in KnownKidEnds
  /\ Len(x.kids) <= Cfg(l).maxIterations
  /\ TrueGates(x.hist, Len(x.kids))
  /\ Len(x.hist) = Len(x.kids)

\* The history after one more gate.
PassedGate(l, x, b) == [x EXCEPT !.hist = Append(@, b)]

LEMMA PassedGateFacts ==
  ASSUME NEW l, NEW x \in LoopRow(l), NEW b \in BOOLEAN, Gateable(l, x)
  PROVE  /\ PassedGate(l, x, b) \in LoopRow(l)
         /\ PassedGate(l, x, b).kids = x.kids /\ PassedGate(l, x, b).st = x.st /\ PassedGate(l, x, b).pin = x.pin
         /\ TrueGates(PassedGate(l, x, b).hist, Len(x.kids))
         /\ Len(PassedGate(l, x, b).hist) = Len(x.kids) + 1 /\ (PassedGate(l, x, b).hist[Len(x.kids) + 1] <=> b)
<1> DEFINE h == Append(x.hist, b)
<1>1. x.hist \in Seq(BOOLEAN) /\ Len(x.hist) = Len(x.kids) /\ Len(x.hist) \in Nat
  BY DEF LoopRow, Gateable
<1>2. /\ h \in Seq(BOOLEAN) /\ Len(h) = Len(x.hist) + 1 /\ (h[Len(x.hist) + 1] <=> b)
      /\ \A i \in 1 .. Len(x.hist) : h[i] = x.hist[i]
  BY <1>1
<1>3. \A i \in 1 .. Len(x.kids) : x.hist[i]
  BY DEF Gateable, TrueGates
<1> HIDE DEF h
<1>4. /\ PassedGate(l, x, b) \in LoopRow(l) /\ PassedGate(l, x, b).hist = h
      /\ PassedGate(l, x, b).kids = x.kids /\ PassedGate(l, x, b).st = x.st /\ PassedGate(l, x, b).pin = x.pin
  BY <1>2 DEF PassedGate, LoopRow, h
<1>5. TrueGates(h, Len(x.kids))
  <2>1. \A i \in 1 .. Len(x.kids) : h[i]
    BY <1>1, <1>2, <1>3
  <2> QED
    BY <1>1, <1>2, <2>1 DEF TrueGates
<1> QED
  BY <1>1, <1>2, <1>4, <1>5

\* A WHILE whose next gate was true.
Open(l, x) ==
  /\ x.st = "RUNNING"
  /\ \A i \in 1 .. Len(x.kids) : \A b \in Body(l) : x.kids[i][b] \in KnownKidEnds
  /\ Len(x.kids) <= Cfg(l).maxIterations
  /\ Len(x.hist) = Len(x.kids) + 1
  /\ TrueGates(x.hist, Len(x.kids)) /\ x.hist[Len(x.kids) + 1]

\* A true gate: the limits, then the next iteration.
LEMMA WhileContinuesSound ==
  ASSUME lplan \in LoopPlans, NEW r, NEW l \in LoopsOf(lplan), SoundBut(r, l), Cfg(l).mode = "WHILE",
         Open(l, r.loop[l]), NEW n, n = Len(r.loop[l].kids) + 1
  PROVE  LoopSound(WhileContinues(r, l, n))
<1> DEFINE x == r.loop[l]
<1>0. x \in LoopRow(l) /\ Len(x.kids) \in Nat /\ Cfg(l).maxIterations \in Nat
  BY RowParts, PlanNumbers DEF SoundBut, Fits, LoopRecs
<1>1. /\ x \in LoopRow(l) /\ x.st = "RUNNING"
      /\ TrueGates(x.hist, Len(x.kids)) /\ Len(x.hist) = Len(x.kids) + 1 /\ x.hist[Len(x.kids) + 1]
  BY <1>0 DEF Open
<1>2. /\ \A i \in 1 .. Len(x.kids) : \A b \in Body(l) : x.kids[i][b] \in KnownKidEnds
      /\ Len(x.kids) <= Cfg(l).maxIterations /\ Len(x.kids) \in Nat /\ Cfg(l).maxIterations \in Nat
  BY <1>0 DEF Open
<1>3. CASE BeyondMaxIterations(r, l, n)
  <2> DEFINE s == SetLoop(r, l, "FAILED", "MAX_ITERATIONS")
             y == s.loop[l]
  <2>1. SoundBut(s, l) /\ Restated(x, y, "FAILED", "MAX_ITERATIONS")
    BY SetLoopFacts DEF RowTerminal, LoopErrors
  <2>2. y.st = "FAILED" /\ y.err = "MAX_ITERATIONS" /\ y.kids = x.kids /\ y.hist = x.hist
    BY <2>1 DEF Restated
  <2>3. Len(x.kids) = Cfg(l).maxIterations
    BY <1>1, <1>2, <1>3 DEF BeyondMaxIterations
  <2> HIDE DEF y, x
  <2>4. ModeInv(l, y)
    BY <1>1, <1>2, <2>2, <2>3 DEF ModeInv, WhileInv
  <2>5. Known(l, y)
    BY <1>2, <2>2 DEF Known, KnownKidEnds
  <2>6. WhileContinues(r, l, n) = ErrorPolicy(s, l)
    BY <1>3 DEF WhileContinues
  <2> HIDE DEF s
  <2> QED
    BY <2>1, <2>2, <2>4, <2>5, <2>6, ErrorPolicySound DEF y
<1>4. CASE ~BeyondMaxIterations(r, l, n) /\ ~WhileNextFits(r, l)
  BY <1>4, FailLoopSound DEF WhileContinues
<1>5. CASE ~BeyondMaxIterations(r, l, n) /\ WhileNextFits(r, l)
  <2> DEFINE y == Longer(l, x)
  <2>1. Len(y.kids) = Len(x.kids) + 1 /\ y.st = x.st /\ y.hist = x.hist
    <3> HIDE DEF x
    <3> QED
      BY <1>0, LongerFacts
  <2>2. Len(x.kids) + 1 <= Cfg(l).maxIterations
    BY <1>1, <1>2, <1>5 DEF BeyondMaxIterations
  <2>3. TrueGates(x.hist, Len(x.kids) + 1)
    <3> HIDE DEF x
    <3>1. \A i \in 1 .. Len(x.kids) + 1 : x.hist[i]
      BY <1>1, <1>2 DEF TrueGates
    <3> QED
      BY <1>1, <1>2, <3>1 DEF TrueGates
  <2>4. ModeInv(l, y)
    <3> HIDE DEF y, x
    <3> QED
      BY <1>1, <1>2, <2>1, <2>2, <2>3 DEF ModeInv, WhileInv
  <2>5. WhileContinues(r, l, n) = Materialize(r, l)
    BY <1>5 DEF WhileContinues
  <2> QED
    BY <1>1, <1>2, <2>4, <2>5, MaterializeSound
<1> QED
  BY <1>3, <1>4, <1>5

\* One gate of a WHILE.
LEMMA WhileGateSound ==
  ASSUME lplan \in LoopPlans, NEW r, NEW l \in LoopsOf(lplan), SoundBut(r, l), Cfg(l).mode = "WHILE",
         Gateable(l, r.loop[l]), NEW n, n = Len(r.loop[l].kids) + 1, NEW s \in WhileGate(r, l, n)
  PROVE  LoopSound(s)
<1> DEFINE x == r.loop[l]
<1>1. x \in LoopRow(l) /\ Len(x.kids) \in Nat /\ Len(x.hist) = Len(x.kids)
  BY RowParts DEF SoundBut, Fits, LoopRecs, Gateable
<1>2. GateResults(r, l, n) = BOOLEAN
  BY <1>1 DEF GateResults
<1>3. ASSUME NEW b \in BOOLEAN
      PROVE  SoundBut(Record(r, l, n, b), l) /\ Record(r, l, n, b).loop[l] = PassedGate(l, x, b)
  <2> DEFINE y == PassedGate(l, x, b)
  <2>1. Record(r, l, n, b) = Put(r, l, y)
    BY <1>1 DEF Record, PassedGate
  <2>2. y \in LoopRow(l) /\ y.kids = x.kids
    <3> HIDE DEF x
    <3>1. Gateable(l, x)
      BY DEF x
    <3> QED
      BY <1>1, <3>1, PassedGateFacts
  <2> HIDE DEF y
  <2> QED
    BY <2>1, <2>2, PutFits DEF y
<1>4. CASE s = FailClosed(SetLoop(r, l, "FAILED", "OTHER"))
  BY <1>4, FailLoopSound
<1>5. ASSUME NEW b \in BOOLEAN, b, s = WhileContinues(Record(r, l, n, b), l, n) PROVE LoopSound(s)
  <2> DEFINE q == Record(r, l, n, b)
             z == PassedGate(l, x, b)
  <2>1. SoundBut(q, l) /\ q.loop[l] = z
    BY <1>3
  <2>2. /\ z.kids = x.kids /\ z.st = x.st /\ TrueGates(z.hist, Len(x.kids))
        /\ Len(z.hist) = Len(x.kids) + 1 /\ (z.hist[Len(x.kids) + 1] <=> b)
    BY <1>1, PassedGateFacts
  <2> HIDE DEF q, z
  <2>3. Open(l, z)
    BY <1>5, <2>2 DEF Gateable, Open
  <2>4. s = WhileContinues(q, l, n)
    BY <1>5 DEF q
  <2> QED
    BY <2>1, <2>2, <2>3, <2>4, WhileContinuesSound
<1>6. ASSUME NEW b \in BOOLEAN, ~b, s = WhileEnds(Record(r, l, n, b), l, n) PROVE LoopSound(s)
  <2> DEFINE q == Record(r, l, n, b)
             z == PassedGate(l, x, b)
  <2>1. SoundBut(q, l) /\ q.loop[l] = z
    BY <1>3
  <2>2. /\ z.kids = x.kids /\ z.st = x.st /\ TrueGates(z.hist, Len(x.kids))
        /\ Len(z.hist) = Len(x.kids) + 1 /\ ~z.hist[Len(x.kids) + 1]
    BY <1>1, <1>6, PassedGateFacts
  <2> HIDE DEF q, z
  <2>3. /\ Len(x.kids) <= Cfg(l).maxIterations
        /\ \A i \in 1 .. Len(x.kids) : \A c \in Body(l) : x.kids[i][c] \in KnownKidEnds
    BY DEF Gateable
  <2>4. s = SucceedLoop(q, l, Len(x.kids))
    <3>1. n - 1 = Len(x.kids)
      BY <1>1
    <3> QED
      BY <1>6, <3>1 DEF WhileEnds, q
  <2> HIDE DEF x
  <2>5. Len(x.kids) \in Int
    BY <1>1
  <2> QED
    BY <2>1, <2>2, <2>3, <2>4, <2>5, SucceedSound
<1>7. \/ s = FailClosed(SetLoop(r, l, "FAILED", "OTHER"))
      \/ \E b \in BOOLEAN : s = IF b THEN WhileContinues(Record(r, l, n, b), l, n)
                                     ELSE WhileEnds(Record(r, l, n, b), l, n)
  BY <1>2, Zenon DEF WhileGate
<1> QED
  BY <1>4, <1>5, <1>6, <1>7, Zenon

\* All rows but l, from all rows.
LEMMA SoundSplit ==
  ASSUME NEW r, LoopSound(r), r.exec = "RUNNING", ~r.raised, NEW l \in LoopsOf(lplan)
  PROVE  SoundBut(r, l) /\ RowInv(l, r.loop[l]) /\ Known(l, r.loop[l])
BY DEF LoopSound, SoundBut, Fits, LoopRecs

\* A FOR_EACH within its pin has room for one more iteration.
LEMMA LongerForEach ==
  ASSUME NEW l, NEW x \in LoopRow(l), Cfg(l).mode # "WHILE", Cfg(l).maxIterations \in Nat,
         x.st = "RUNNING", x.pin \in 0 .. Cfg(l).maxIterations, Len(x.kids) < x.pin
  PROVE  ModeInv(l, Longer(l, x))
<1> DEFINE z == Longer(l, x)
<1>1. Len(z.kids) = Len(x.kids) + 1 /\ z.st = x.st /\ z.pin = x.pin
  BY LongerFacts
<1>2. Len(x.kids) \in Nat
  BY DEF LoopRow
<1> HIDE DEF z
<1>3. ModeInv(l, z)
  BY <1>1, <1>2 DEF ModeInv, ForEachInv
<1> QED
  BY <1>3 DEF z

\* The pin, the limits, then the first iteration.
LEMMA StartForEachSound ==
  ASSUME lplan \in LoopPlans, NEW r, NEW l \in LoopsOf(lplan), SoundBut(r, l),
         Cfg(l).mode # "WHILE", Len(r.loop[l].kids) = 0
  PROVE  LoopSound(StartForEach(r, l))
<1> DEFINE y == [r.loop[l] EXCEPT !.st = "RUNNING", !.err = "NONE", !.pin = Cfg(l).size]
           s == PinCollection(r, l)
           x == s.loop[l]
<1>1. r.loop[l] \in LoopRow(l)
  BY RowParts DEF SoundBut, Fits, LoopRecs
<1>2. Cfg(l).size \in Nat /\ Cfg(l).maxIterations \in Nat
  BY PlanNumbers
<1>3. y \in LoopRow(l) /\ y.st = "RUNNING" /\ y.pin = Cfg(l).size /\ Len(y.kids) = 0
  <2> DEFINE p == Cfg(l).size
             z == r.loop[l]
  <2>1. p \in Int /\ z \in LoopRow(l) /\ Len(z.kids) = 0
    BY <1>1, <1>2
  <2>2. y = [z EXCEPT !.st = "RUNNING", !.err = "NONE", !.pin = p]
    OBVIOUS
  <2> HIDE DEF p, z, y
  <2>3. y \in LoopRow(l) /\ y.st = "RUNNING" /\ y.pin = p /\ y.kids = z.kids
    BY <2>1, <2>2 DEF LoopRow, LoopErrors
  <2> QED
    BY <2>1, <2>3 DEF p
<1>4. s = Put(r, l, y)
  BY DEF PinCollection
<1> HIDE DEF y
<1>5. SoundBut(s, l) /\ x = y
  BY <1>3, <1>4, PutFits
<1> HIDE DEF s
<1>6. x \in LoopRow(l) /\ x.st = "RUNNING" /\ x.pin = Cfg(l).size /\ Len(x.kids) = 0
  BY <1>3, <1>5
<1>7. CASE Cfg(l).size > Cfg(l).maxIterations
  <2> DEFINE q == SetLoop(s, l, "FAILED", "MAX_ITERATIONS")
  <2>1. SoundBut(q, l) /\ Restated(x, q.loop[l], "FAILED", "MAX_ITERATIONS")
    BY <1>5, SetLoopFacts DEF RowTerminal, LoopErrors
  <2>2. StartForEach(r, l) = ErrorPolicy(q, l)
    BY <1>7 DEF StartForEach, s
  <2> HIDE DEF q
  <2>3. q.loop[l].st = "FAILED" /\ Len(q.loop[l].kids) = 0
    BY <1>6, <2>1 DEF Restated
  <2>4. ModeInv(l, q.loop[l]) /\ Known(l, q.loop[l])
    BY <2>3 DEF ModeInv, ForEachInv, Known
  <2> QED
    BY <2>1, <2>2, <2>3, <2>4, ErrorPolicySound
<1>8. CASE Cfg(l).size <= Cfg(l).maxIterations /\ ~FitsGlobally(s)
  <2>1. StartForEach(r, l) = FailClosed(SetLoop(s, l, "FAILED", "OTHER"))
    BY <1>2, <1>8 DEF StartForEach, s
  <2> QED
    BY <1>5, <2>1, FailLoopSound
<1>9. CASE Cfg(l).size <= Cfg(l).maxIterations /\ FitsGlobally(s) /\ Cfg(l).size = 0
  <2>1. StartForEach(r, l) = SucceedLoop(s, l, 0)
    BY <1>2, <1>9 DEF StartForEach, s
  <2> QED
    BY <1>5, <1>6, <1>9, <2>1, SucceedSound
<1>10. CASE Cfg(l).size <= Cfg(l).maxIterations /\ FitsGlobally(s) /\ Cfg(l).size # 0
  <2>1. StartForEach(r, l) = Materialize(s, l)
    BY <1>2, <1>10 DEF StartForEach, s
  <2>2. ModeInv(l, Longer(l, x))
    <3> HIDE DEF x
    <3>1. x.pin \in 0 .. Cfg(l).maxIterations /\ Len(x.kids) < x.pin
      BY <1>2, <1>6, <1>10
    <3> QED
      BY <1>2, <1>6, <3>1, LongerForEach
  <2>3. \A n \in 1 .. Len(x.kids) : \A b \in Body(l) : x.kids[n][b] \in KnownKidEnds
    BY <1>6
  <2> QED
    BY <1>5, <1>6, <2>1, <2>2, <2>3, MaterializeSound
<1> QED
  BY <1>2, <1>7, <1>8, <1>9, <1>10

\* A LOOP starts.
LEMMA StartLoopSound ==
  ASSUME lplan \in LoopPlans, NEW r, LoopSound(r), r.exec = "RUNNING", ~r.raised, NEW l \in LoopsOf(lplan),
         r.loop[l].st = "PENDING", NEW s \in StartLoop(r, l)
  PROVE  LoopSound(s)
<1> DEFINE x == r.loop[l]
<1>1. SoundBut(r, l) /\ RowInv(l, x) /\ Known(l, x)
  BY SoundSplit
<1>2. Len(x.kids) = 0 /\ Len(x.hist) = 0
  BY <1>1 DEF RowInv
<1>3. Cfg(l).gate \in {"TRUE", "FALSE", "ERROR"} /\ Cfg(l).maxIterations \in Nat
  BY PlanNumbers
<1>4. CASE Cfg(l).gate = "FALSE"
  <2>1. s = SetLoop(r, l, "SKIPPED", "WHEN_FALSE")
    BY <1>4 DEF StartLoop
  <2>2. SoundBut(s, l) /\ Restated(x, s.loop[l], "SKIPPED", "WHEN_FALSE")
    BY <1>1, <2>1, SetLoopFacts DEF RowTerminal, LoopErrors
  <2>3. s.loop[l].st = "SKIPPED" /\ Len(s.loop[l].kids) = 0 /\ Len(s.loop[l].hist) = 0
    BY <1>2, <2>2 DEF Restated
  <2>4. ModeInv(l, s.loop[l])
    BY <1>3, <2>3 DEF ModeInv, ForEachInv, WhileInv, TrueGates
  <2>5. RowInv(l, s.loop[l]) /\ Known(l, s.loop[l])
    BY <2>3, <2>4 DEF RowInv, Known
  <2> QED
    BY <2>2, <2>5, SoundAll
<1>5. CASE Cfg(l).gate = "ERROR"
  <2>1. s = FailClosed(SetLoop(r, l, "FAILED", "OTHER"))
    BY <1>5 DEF StartLoop
  <2> QED
    BY <1>1, <2>1, FailLoopSound
<1>6. CASE Cfg(l).gate = "TRUE" /\ Cfg(l).mode = "WHILE"
  <2> DEFINE q == SetLoop(r, l, "RUNNING", "NONE")
  <2>1. s \in WhileGate(q, l, 1)
    BY <1>6 DEF StartLoop
  <2>2. SoundBut(q, l) /\ Restated(x, q.loop[l], "RUNNING", "NONE")
    BY <1>1, SetLoopFacts DEF RowTerminal, LoopErrors
  <2> HIDE DEF q
  <2>3. q.loop[l].st = "RUNNING" /\ Len(q.loop[l].kids) = 0 /\ Len(q.loop[l].hist) = 0
    BY <1>2, <2>2 DEF Restated
  <2>4. Gateable(l, q.loop[l]) /\ 1 = Len(q.loop[l].kids) + 1
    BY <1>3, <2>3 DEF Gateable, TrueGates
  <2> QED
    BY <1>6, <2>1, <2>2, <2>4, WhileGateSound
<1>7. CASE Cfg(l).gate = "TRUE" /\ Cfg(l).mode # "WHILE"
  <2>1. s = StartForEach(r, l)
    BY <1>7 DEF StartLoop
  <2> QED
    BY <1>1, <1>2, <1>7, <2>1, StartForEachSound
<1> QED
  BY <1>3, <1>4, <1>5, <1>6, <1>7

\* A RUNNING LOOP ends by its timeout, waits, or goes on.
LEMMA AdvanceLoopSound ==
  ASSUME lplan \in LoopPlans, NEW r, LoopSound(r), r.exec = "RUNNING", ~r.raised, NEW l \in LoopsOf(lplan),
         r.loop[l].st = "RUNNING", NEW s \in AdvanceLoop(r, l)
  PROVE  LoopSound(s)
<1> DEFINE x == r.loop[l]
           waits == Current(r, l) > 0 /\ ~IterationComplete(r, l)
<1>1. SoundBut(r, l) /\ RowInv(l, x) /\ Known(l, x)
  BY SoundSplit
<1>2. x \in LoopRow(l) /\ Len(x.kids) \in Nat /\ x.pin \in Int
  BY <1>1, RowParts DEF SoundBut, Fits, LoopRecs, LoopRow
<1>3. CASE x.late
  <2> DEFINE q == SetLoop(r, l, "TIMED_OUT", "TIMEOUT")
  <2>1. s = ErrorPolicy(q, l)
    BY <1>3 DEF AdvanceLoop
  <2>2. SoundBut(q, l) /\ Restated(x, q.loop[l], "TIMED_OUT", "TIMEOUT")
    BY <1>1, SetLoopFacts DEF RowTerminal, LoopErrors
  <2> HIDE DEF q
  <2>3. ModeInv(l, x) /\ x.st = "RUNNING"
    BY <1>1 DEF RowInv
  <2> HIDE DEF x
  <2>4. ModeInv(l, q.loop[l])
    BY <2>2, <2>3 DEF ModeInv, WhileInv, ForEachInv, Restated
  <2>5. Known(l, q.loop[l]) /\ q.loop[l].st = "TIMED_OUT"
    BY <1>1, <2>2 DEF Known, Restated
  <2> QED
    BY <2>1, <2>2, <2>4, <2>5, ErrorPolicySound
<1>4. CASE ~x.late /\ waits
  BY <1>4 DEF AdvanceLoop
<1>5. CASE ~x.late /\ ~waits
  <2>1. \A i \in 1 .. Len(x.kids) : \A b \in Body(l) : x.kids[i][b] \in KnownKidEnds
    <3> SUFFICES ASSUME NEW i \in 1 .. Len(x.kids), NEW b \in Body(l) PROVE x.kids[i][b] \in KnownKidEnds
      OBVIOUS
    <3>1. CASE i # Len(x.kids)
      <4>1. i \in 1 .. Len(x.kids) - 1
        BY <1>2, <3>1
      <4> QED
        BY <1>1, <4>1 DEF RowInv
    <3>2. CASE i = Len(x.kids)
      <4>1. x.kids[i][b] \in RowTerminal
        BY <1>2, <1>5, <3>2 DEF IterationComplete, Current
      <4> QED
        BY <1>1, <4>1 DEF Known, KnownKidEnds
    <3> QED
      BY <3>1, <3>2
  <2>2. CASE Cfg(l).mode = "WHILE"
    <3>1. s \in WhileGate(r, l, Len(x.kids) + 1)
      BY <1>5, <2>2 DEF AdvanceLoop, Current
    <3>2. WhileInv(l, x)
      BY <1>1, <2>2 DEF RowInv, ModeInv
    <3>3. Gateable(l, x)
      BY <2>1, <3>2 DEF Gateable, WhileInv
    <3> QED
      BY <1>1, <2>2, <3>1, <3>3, WhileGateSound
  <2>3. CASE Cfg(l).mode # "WHILE"
    <3>1. s = AdvanceForEach(r, l)
      BY <1>5, <2>3 DEF AdvanceLoop
    <3>2. ForEachInv(l, x) /\ Cfg(l).maxIterations \in Nat
      BY <1>1, <2>3, PlanNumbers DEF RowInv, ModeInv
    <3>3. x.pin \in 0 .. Cfg(l).maxIterations /\ (Len(x.kids) > 0 => Len(x.kids) <= x.pin)
      BY <3>2 DEF ForEachInv
    <3>4. CASE Len(x.kids) < x.pin
      <4>1. s = Materialize(r, l)
        BY <3>1, <3>4 DEF AdvanceForEach, Current
      <4>2. ModeInv(l, Longer(l, x))
        <5>1. x.st = "RUNNING"
          OBVIOUS
        <5> HIDE DEF x
        <5> QED
          BY <1>2, <2>3, <3>2, <3>3, <3>4, <5>1, LongerForEach
      <4> QED
        BY <1>1, <2>1, <4>1, <4>2, MaterializeSound
    <3>5. CASE ~(Len(x.kids) < x.pin)
      <4>1. s = SucceedLoop(r, l, x.pin)
        BY <3>1, <3>5 DEF AdvanceForEach, Current
      <4>2. Len(x.kids) = x.pin
        BY <1>2, <3>2, <3>3, <3>5
      <4> QED
        BY <1>1, <1>2, <2>1, <2>3, <4>1, <4>2, SucceedSound
    <3> QED
      BY <3>4, <3>5
  <2> QED
    BY <2>2, <2>3
<1> QED
  BY <1>3, <1>4, <1>5

LEMMA ReconcileLoopSound ==
  ASSUME lplan \in LoopPlans, NEW r, LoopSound(r), NEW l \in LoopsOf(lplan), NEW s \in ReconcileLoop(r, l)
  PROVE  LoopSound(s)
<1>1. CASE r.exec # "RUNNING" \/ r.raised
  BY <1>1 DEF ReconcileLoop
<1>2. CASE r.exec = "RUNNING" /\ ~r.raised
  <2>1. CASE r.loop[l].st = "PENDING"
    BY <1>2, <2>1, StartLoopSound DEF ReconcileLoop
  <2>2. CASE r.loop[l].st = "RUNNING"
    BY <1>2, <2>2, AdvanceLoopSound DEF ReconcileLoop
  <2>3. CASE r.loop[l].st \notin {"PENDING", "RUNNING"}
    BY <1>2, <2>3 DEF ReconcileLoop
  <2> QED
    BY <2>1, <2>2, <2>3
<1> QED
  BY <1>1, <1>2

\* The states after l LOOPs of the pass are sound, so the whole pass is.
LEMMA ReconcileLoopsSound ==
  ASSUME lplan \in LoopPlans, loop \in LoopRows, LoopSound(LoopLocal), NEW s \in ReconcileLoops
  PROVE  LoopSound(s)
<1> DEFINE n == Len(lplan.loops)
           S == SUBSET {r \in LoopRecs : LoopSound(r)}
           g == [l \in 1 .. n |-> [Q \in S |-> UNION {ReconcileLoop(r, l) : r \in Q}]]
           pass[l \in 0 .. n] ==
             IF l = 0 THEN {LoopLocal} ELSE UNION {ReconcileLoop(r, l) : r \in pass[l - 1]}
           Rec(h) == h = [l \in 0 .. n |->
                            IF l = 0 THEN {LoopLocal} ELSE UNION {ReconcileLoop(r, l) : r \in h[l - 1]}]
<1>1. n \in Nat /\ LoopsOf(lplan) = 1 .. n /\ Len(loop) = n
  BY PlanNumbers, RowsDomain
<1>2. {LoopLocal} \in S
  BY DEF LoopSound, Fits
<1>3. ASSUME NEW l \in 1 .. n, NEW Q \in S PROVE UNION {ReconcileLoop(r, l) : r \in Q} \in S
  <2> SUFFICES ASSUME NEW r \in Q, NEW q \in ReconcileLoop(r, l) PROVE q \in LoopRecs /\ LoopSound(q)
    OBVIOUS
  <2>1. LoopSound(r) /\ l \in LoopsOf(lplan)
    BY <1>1
  <2>2. LoopSound(q)
    BY <2>1, ReconcileLoopSound
  <2> QED
    BY <2>2 DEF LoopSound, Fits
<1>4. g \in [1 .. n -> [S -> S]]
  <2> HIDE DEF S, n
  <2> QED
    BY <1>3
<1> HIDE DEF S, n
<1>5. PICK h \in [0 .. n -> S] : h[0] = {LoopLocal} /\ \A i \in 1 .. n : h[i] = g[i][h[i - 1]]
  <2> HIDE DEF g
  <2>1. Iterates(n, S, {LoopLocal}, g)
    BY <1>1, <1>2, <1>4, IterationExists
  <2> QED
    BY <2>1 DEF Iterates
<1>6. ASSUME NEW i \in 1 .. n PROVE h[i] = UNION {ReconcileLoop(r, i) : r \in h[i - 1]}
  <2>1. i - 1 \in 0 .. n
    BY <1>1
  <2>2. h[i - 1] \in S
    BY <2>1
  <2> QED
    BY <1>5, <2>2
<1>7. Rec(h)
  <2>1. ASSUME NEW i \in 0 .. n
        PROVE  h[i] = IF i = 0 THEN {LoopLocal} ELSE UNION {ReconcileLoop(r, i) : r \in h[i - 1]}
    <3>1. CASE i = 0
      BY <1>5, <3>1
    <3>2. CASE i # 0
      <4>1. i \in 1 .. n
        BY <1>1, <3>2
      <4> QED
        BY <1>6, <3>2, <4>1
    <3> QED
      BY <3>1, <3>2
  <2> QED
    BY <2>1
<1>8. Rec(pass)
  <2>1. pass = CHOOSE x : Rec(x)
    OBVIOUS
  <2> HIDE DEF Rec, pass
  <2> QED
    BY <1>7, <2>1
<1>9. ReconcileLoops = pass[n]
  BY <1>1 DEF ReconcileLoops
<1> HIDE DEF pass
<1>10. \A i \in 0 .. n : pass[i] = IF i = 0 THEN {LoopLocal} ELSE UNION {ReconcileLoop(r, i) : r \in pass[i - 1]}
  BY <1>8
<1> DEFINE P == {i \in 0 .. n : pass[i] \in S}
<1>11. 0 \in P
  <2>1. 0 \in 0 .. n
    BY <1>1
  <2>2. pass[0] = {LoopLocal}
    BY <1>10, <2>1
  <2> QED
    BY <1>2, <2>1, <2>2
<1>12. ASSUME NEW i \in 1 .. n, i - 1 \in P PROVE i \in P
  <2>1. i \in 0 .. n /\ i # 0 /\ pass[i - 1] \in S
    BY <1>1, <1>12
  <2>2. pass[i] = UNION {ReconcileLoop(r, i) : r \in pass[i - 1]}
    BY <1>10, <2>1
  <2>3. pass[i] \in S
    BY <1>3, <2>1, <2>2
  <2> QED
    BY <2>1, <2>3
<1> HIDE DEF P
<1>13. \A i \in 0 .. n : i \in P
  BY <1>1, <1>11, <1>12, BoundedInduction
<1>14. pass[n] \in S
  BY <1>1, <1>13 DEF P
<1> QED
  BY <1>9, <1>14 DEF S

-----------------------------------------------------------------------------
(* LOOPs: rows changed child by child, and the invariant after a step.     *)

\* As many iterations as before.
SameLength(v, w) == \A l \in LoopsOf(lplan) : Len(w[l].kids) = Len(v[l].kids)

\* A row whose terminal children stay, and whose own state does.
Kept(l, x, y) ==
  /\ Len(y.kids) = Len(x.kids)
  /\ y.st = x.st /\ y.err = x.err /\ y.pin = x.pin /\ y.hist = x.hist /\ y.completed = x.completed
  /\ \A n \in 1 .. Len(x.kids) : \A b \in Body(l) :
       x.kids[n][b] \in RowTerminal => y.kids[n][b] = x.kids[n][b]

LEMMA RowKept ==
  ASSUME NEW l, NEW x \in LoopRow(l), NEW y, Kept(l, x, y), RowInv(l, x)
  PROVE  RowInv(l, y)
<1>1. Len(x.kids) \in Nat /\ Len(y.kids) = Len(x.kids)
  BY DEF LoopRow, Kept
<1>2. /\ y.st = x.st /\ y.err = x.err /\ y.pin = x.pin /\ y.hist = x.hist /\ y.completed = x.completed
      /\ \A n \in 1 .. Len(x.kids) : \A b \in Body(l) :
           x.kids[n][b] \in RowTerminal => y.kids[n][b] = x.kids[n][b]
  BY DEF Kept
<1>3. \A n \in 1 .. Len(y.kids) - 1 : \A b \in Body(l) : y.kids[n][b] \in KnownKidEnds
  <2> SUFFICES ASSUME NEW n \in 1 .. Len(x.kids) - 1, NEW b \in Body(l) PROVE y.kids[n][b] \in KnownKidEnds
    BY <1>1
  <2>1. x.kids[n][b] \in KnownKidEnds /\ n \in 1 .. Len(x.kids)
    BY <1>1 DEF RowInv
  <2> QED
    BY <1>2, <2>1 DEF KnownKidEnds
<1>4. y.st # "RUNNING" => \A n \in 1 .. Len(y.kids) : \A b \in Body(l) : y.kids[n][b] \in RowTerminal
  BY <1>1, <1>2 DEF RowInv
<1>5. ModeInv(l, y)
  <2>1. ModeInv(l, x)
    BY DEF RowInv
  <2> QED
    BY <1>1, <1>2, <2>1 DEF ModeInv, WhileInv, ForEachInv
<1>6. /\ y.st \in {"PENDING", "RUNNING", "SKIPPED", "SUCCEEDED", "TIMED_OUT", "FAILED"}
      /\ y.st \in {"PENDING", "SKIPPED"} => Len(y.kids) = 0 /\ Len(y.hist) = 0
  BY <1>1, <1>2 DEF RowInv
<1> QED
  BY <1>3, <1>4, <1>5, <1>6 DEF RowInv

\* Children written one by one.
Written(x, s, f) == [x EXCEPT !.st = s, !.kids = f]

LEMMA KidsWritten ==
  ASSUME NEW l, NEW x \in LoopRow(l), NEW s \in RowTerminal \union {"PENDING", "RUNNING"},
         NEW f \in [1 .. Len(x.kids) -> [Body(l) -> KidStates]]
  PROVE  /\ Written(x, s, f) \in LoopRow(l) /\ Written(x, s, f).kids = f
         /\ Len(Written(x, s, f).kids) = Len(x.kids)
         /\ Written(x, s, f).st = s /\ Written(x, s, f).err = x.err /\ Written(x, s, f).pin = x.pin
         /\ Written(x, s, f).hist = x.hist /\ Written(x, s, f).completed = x.completed
<1>1. x.kids \in Seq([Body(l) -> KidStates])
  BY DEF LoopRow
<1>2. f \in Seq([Body(l) -> KidStates]) /\ Len(f) = Len(x.kids)
  BY <1>1, MapSeq
<1>3. /\ Written(x, s, f) \in LoopRow(l) /\ Written(x, s, f).kids = f
      /\ Written(x, s, f).st = s /\ Written(x, s, f).err = x.err /\ Written(x, s, f).pin = x.pin
      /\ Written(x, s, f).hist = x.hist /\ Written(x, s, f).completed = x.completed
  BY <1>2 DEF LoopRow, Written
<1> QED
  BY <1>2, <1>3

LEMMA KidsRewritten ==
  ASSUME NEW l, NEW x \in LoopRow(l), NEW f \in [1 .. Len(x.kids) -> [Body(l) -> KidStates]],
         NEW y, y = [x EXCEPT !.kids = f]
  PROVE  /\ y \in LoopRow(l) /\ y.kids = f /\ Len(y.kids) = Len(x.kids)
         /\ y.st = x.st /\ y.err = x.err /\ y.pin = x.pin /\ y.hist = x.hist /\ y.completed = x.completed
<1>1. x.kids \in Seq([Body(l) -> KidStates])
  BY DEF LoopRow
<1>2. f \in Seq([Body(l) -> KidStates]) /\ Len(f) = Len(x.kids)
  BY <1>1, MapSeq
<1>3. /\ y \in LoopRow(l) /\ y.kids = f
      /\ y.st = x.st /\ y.err = x.err /\ y.pin = x.pin /\ y.hist = x.hist /\ y.completed = x.completed
  BY <1>2 DEF LoopRow
<1> QED
  BY <1>2, <1>3

\* Row by row.
LEMMA RowsWritten ==
  ASSUME lplan \in LoopPlans, NEW w, w = [l \in LoopsOf(lplan) |-> w[l]],
         \A l \in LoopsOf(lplan) : w[l] \in LoopRow(l)
  PROVE  w \in LoopRows
BY DEF LoopRows

\* The rows of a wave are reserved.
LEMMA ReserveFacts ==
  ASSUME lplan \in LoopPlans, NEW r \in LoopRecs
  PROVE  /\ Reserve(r) \in LoopRows /\ SameLength(r.loop, Reserve(r))
         /\ \A l \in LoopsOf(lplan) :
              /\ Kept(l, r.loop[l], Reserve(r)[l])
              /\ Known(l, r.loop[l]) => Known(l, Reserve(r)[l])
<1> DEFINE v == r.loop
           w == Reserve(r)
<1>1. v \in LoopRows /\ DOMAIN v = LoopsOf(lplan)
  BY RowsDomain DEF LoopRecs
<1>2. ASSUME NEW l \in LoopsOf(lplan)
      PROVE  /\ w[l] \in LoopRow(l) /\ Kept(l, v[l], w[l]) /\ (Known(l, v[l]) => Known(l, w[l]))
  <2> DEFINE x == v[l]
             f == [n \in 1 .. Len(x.kids) |-> [b \in Body(l) |->
                     IF KidEligible(r, l, n, b) THEN "READY" ELSE x.kids[n][b]]]
  <2>1. /\ x \in LoopRow(l) /\ x.kids \in Seq([Body(l) -> KidStates]) /\ DOMAIN x.kids = 1 .. Len(x.kids)
    BY <1>1, RowParts DEF LoopRow
  <2>2. \A n \in 1 .. Len(x.kids) : x.kids[n] \in [Body(l) -> KidStates]
    BY <2>1
  <2>3. f \in [1 .. Len(x.kids) -> [Body(l) -> KidStates]]
    BY <2>2 DEF KidStates
  <2>4. w[l] = [x EXCEPT !.kids = f]
    <3>1. w[l] = [x EXCEPT !.kids = [n \in DOMAIN x.kids |-> [b \in DOMAIN x.kids[n] |->
                     IF KidEligible(r, l, n, b) THEN "READY" ELSE x.kids[n][b]]]]
      BY <1>1 DEF Reserve
    <3>2. \A n \in DOMAIN x.kids : DOMAIN x.kids[n] = Body(l)
      BY <2>1, <2>2
    <3>3. [n \in DOMAIN x.kids |-> [b \in DOMAIN x.kids[n] |->
                     IF KidEligible(r, l, n, b) THEN "READY" ELSE x.kids[n][b]]] = f
      <4> HIDE DEF x
      <4> QED
        BY <2>1, <3>2, Zenon
    <3> HIDE DEF x, f
    <3> QED
      BY <3>1, <3>3
  <2>6. /\ w[l] \in LoopRow(l) /\ Len(w[l].kids) = Len(x.kids) /\ w[l].kids = f
        /\ w[l].st = x.st /\ w[l].err = x.err /\ w[l].pin = x.pin /\ w[l].hist = x.hist
        /\ w[l].completed = x.completed
    <3> HIDE DEF f, x, w
    <3> QED
      BY <2>1, <2>3, <2>4, KidsRewritten
  <2>7. \A n \in 1 .. Len(x.kids) : \A b \in Body(l) :
          f[n][b] = IF KidEligible(r, l, n, b) THEN "READY" ELSE x.kids[n][b]
    OBVIOUS
  <2>8. \A n \in 1 .. Len(x.kids) : \A b \in Body(l) : KidEligible(r, l, n, b) => x.kids[n][b] = "PENDING"
    BY DEF KidEligible
  <2> HIDE DEF f, x, w
  <2>9. Kept(l, x, w[l])
    BY <2>6, <2>7, <2>8 DEF Kept, RowTerminal
  <2>10. Known(l, x) => Known(l, w[l])
    BY <2>6, <2>7 DEF Known
  <2> QED
    BY <2>6, <2>9, <2>10 DEF x
<1>3. w = [l \in LoopsOf(lplan) |-> w[l]]
  BY <1>1 DEF Reserve
<1> HIDE DEF w, v
<1>4. w \in LoopRows
  BY <1>2, <1>3, RowsWritten
<1>5. SameLength(v, w)
  BY <1>2 DEF SameLength, Kept
<1> QED
  BY <1>2, <1>4, <1>5 DEF w, v

\* Every open row ends; a call in flight stays.
LEMMA EndRowsFacts ==
  ASSUME lplan \in LoopPlans, NEW v \in LoopRows, NEW s \in {"CANCELLED", "FAILED"}
  PROVE  EndRows(v, s) \in LoopRows /\ SameLength(v, EndRows(v, s))
<1> DEFINE w == EndRows(v, s)
<1>1. DOMAIN v = LoopsOf(lplan)
  BY RowsDomain
<1>2. ASSUME NEW l \in LoopsOf(lplan)
      PROVE  w[l] \in LoopRow(l) /\ Len(w[l].kids) = Len(v[l].kids)
  <2> DEFINE x == v[l]
             t == IF x.st \in RowTerminal THEN x.st ELSE s
             f == [n \in 1 .. Len(x.kids) |-> [b \in Body(l) |->
                     IF x.kids[n][b] \in RowTerminal \union {"RUNNING"} THEN x.kids[n][b] ELSE s]]
  <2>1. /\ x \in LoopRow(l) /\ x.kids \in Seq([Body(l) -> KidStates]) /\ DOMAIN x.kids = 1 .. Len(x.kids)
        /\ t \in RowTerminal \union {"PENDING", "RUNNING"}
    BY RowParts DEF LoopRow, RowTerminal
  <2>2. \A n \in 1 .. Len(x.kids) : x.kids[n] \in [Body(l) -> KidStates]
    BY <2>1
  <2>3. f \in [1 .. Len(x.kids) -> [Body(l) -> KidStates]]
    BY <2>2 DEF KidStates, RowTerminal
  <2>4. w[l] = Written(x, t, f)
    <3> DEFINE g == [n \in DOMAIN x.kids |-> [b \in DOMAIN x.kids[n] |->
                     IF x.kids[n][b] \in RowTerminal \union {"RUNNING"} THEN x.kids[n][b] ELSE s]]
    <3>1. w[l] = [x EXCEPT !.st = t, !.kids = g]
      BY <1>1, <2>1 DEF EndRows, LoopRow
    <3>2. \A n \in DOMAIN x.kids : DOMAIN x.kids[n] = Body(l)
      BY <2>1, <2>2
    <3>3. g = f
      <4> HIDE DEF x
      <4> QED
        BY <2>1, <3>2, Zenon
    <3> HIDE DEF x, f, g
    <3> QED
      BY <3>1, <3>3 DEF Written
  <2> HIDE DEF f, t, x, w
  <2>5. w[l] \in LoopRow(l) /\ Len(w[l].kids) = Len(x.kids)
    BY <2>1, <2>3, <2>4, KidsWritten
  <2> QED
    BY <2>5 DEF x
<1>3. w = [l \in LoopsOf(lplan) |-> w[l]]
  BY <1>1 DEF EndRows
<1> HIDE DEF w
<1>4. w \in LoopRows /\ SameLength(v, w)
  BY <1>2, <1>3, RowsWritten DEF SameLength
<1> QED
  BY <1>4 DEF w

\* The calls in flight get another status.
LEMMA ReplaceFacts ==
  ASSUME lplan \in LoopPlans, NEW v \in LoopRows, NEW to \in KidStates
  PROVE  /\ Replace(v, "RUNNING", to) \in LoopRows /\ SameLength(v, Replace(v, "RUNNING", to))
         /\ \A l \in LoopsOf(lplan) :
              /\ Kept(l, v[l], Replace(v, "RUNNING", to)[l])
              /\ \A n \in 1 .. Len(v[l].kids) : \A b \in Body(l) :
                   Replace(v, "RUNNING", to)[l].kids[n][b] =
                     IF v[l].kids[n][b] = "RUNNING" THEN to ELSE v[l].kids[n][b]
<1> DEFINE w == Replace(v, "RUNNING", to)
<1>1. DOMAIN v = LoopsOf(lplan)
  BY RowsDomain
<1>2. ASSUME NEW l \in LoopsOf(lplan)
      PROVE  /\ w[l] \in LoopRow(l) /\ Kept(l, v[l], w[l])
             /\ \A n \in 1 .. Len(v[l].kids) : \A b \in Body(l) :
                  w[l].kids[n][b] = IF v[l].kids[n][b] = "RUNNING" THEN to ELSE v[l].kids[n][b]
  <2> DEFINE x == v[l]
             f == [n \in 1 .. Len(x.kids) |-> [b \in Body(l) |->
                     IF x.kids[n][b] = "RUNNING" THEN to ELSE x.kids[n][b]]]
  <2>1. /\ x \in LoopRow(l) /\ x.kids \in Seq([Body(l) -> KidStates]) /\ DOMAIN x.kids = 1 .. Len(x.kids)
    BY RowParts DEF LoopRow
  <2>2. \A n \in 1 .. Len(x.kids) : x.kids[n] \in [Body(l) -> KidStates]
    BY <2>1
  <2>3. f \in [1 .. Len(x.kids) -> [Body(l) -> KidStates]]
    BY <2>2
  <2>4. w[l] = [x EXCEPT !.kids = f]
    <3> DEFINE g == [n \in DOMAIN x.kids |-> [b \in DOMAIN x.kids[n] |->
                     IF x.kids[n][b] = "RUNNING" THEN to ELSE x.kids[n][b]]]
    <3>1. w[l] = [x EXCEPT !.kids = g]
      BY <1>1 DEF Replace
    <3>2. \A n \in DOMAIN x.kids : DOMAIN x.kids[n] = Body(l)
      BY <2>1, <2>2
    <3>3. g = f
      <4> HIDE DEF x
      <4> QED
        BY <2>1, <3>2, Zenon
    <3> HIDE DEF x, f, g
    <3> QED
      BY <3>1, <3>3
  <2>6. /\ w[l] \in LoopRow(l) /\ Len(w[l].kids) = Len(x.kids) /\ w[l].kids = f
        /\ w[l].st = x.st /\ w[l].err = x.err /\ w[l].pin = x.pin /\ w[l].hist = x.hist
        /\ w[l].completed = x.completed
    <3> HIDE DEF f, x, w
    <3> QED
      BY <2>1, <2>3, <2>4, KidsRewritten
  <2>7. \A n \in 1 .. Len(x.kids) : \A b \in Body(l) :
          f[n][b] = IF x.kids[n][b] = "RUNNING" THEN to ELSE x.kids[n][b]
    OBVIOUS
  <2> HIDE DEF f, x, w
  <2>8. Kept(l, x, w[l])
    BY <2>6, <2>7 DEF Kept, RowTerminal
  <2> QED
    BY <2>6, <2>7, <2>8 DEF x
<1>3. w = [l \in LoopsOf(lplan) |-> w[l]]
  BY <1>1 DEF Replace
<1> HIDE DEF w
<1>4. w \in LoopRows
  BY <1>2, <1>3, RowsWritten
<1>5. SameLength(v, w)
  BY <1>2 DEF SameLength, Kept
<1> QED
  BY <1>2, <1>4, <1>5 DEF w

\* The invariant after a step, said of the Plan before it.
LEMMA LoopCarry ==
  ASSUME lplan \in LoopPlans, lplan' = lplan, NEW r \in LoopRecs, loop' = r.loop,
         Rows(r) <= lplan.maxSteps,
         lexec' \in LoopEnds \union {"RUNNING"}, llease' \in {"none", "live", "expired"},
         driver' \in {"idle", "prepare", "run", "stop"}, loopFaults' \in 0 .. MaxLoopFaults,
         lexec' = "RUNNING" => \A l \in LoopsOf(lplan) : RowInv(l, r.loop[l]),
         lexec' = "RUNNING" /\ driver' \in {"prepare", "run"} => \A l \in LoopsOf(lplan) : Known(l, r.loop[l])
  PROVE  LoopInv'
<1>1. Rows(LoopLocal)' = Rows(r)
  BY DEF Rows, LoopLocal, Current, Cfg
<1>2. (loop \in LoopRows)'
  <2>1. LoopRows' = LoopRows
    <3> DEFINE Row(p, l) ==
                 [st : RowTerminal \union {"PENDING", "RUNNING"}, err : LoopErrors, pin : Int, hist : Seq(BOOLEAN),
                  kids : Seq([1 .. p.loops[l].bodies -> KidStates]), late : BOOLEAN, completed : Int]
               Within(p) == {v \in [LoopsOf(p) -> UNION {Row(p, l) : l \in LoopsOf(p)}] :
                               \A l \in LoopsOf(p) : v[l] \in Row(p, l)}
    <3>1. LoopRows = Within(lplan) /\ LoopRows' = Within(lplan')
      BY Zenon DEF LoopRows, LoopRow, Body, Cfg
    <3> HIDE DEF Within
    <3> QED
      BY <3>1
  <2>2. loop' \in LoopRows
    BY DEF LoopRecs
  <2> QED
    BY <2>1, <2>2
<1>3. ASSUME lexec' = "RUNNING" PROVE (\A l \in LoopsOf(lplan) : RowInv(l, loop[l]))'
  BY <1>3 DEF RowInv, ModeInv, WhileInv, ForEachInv, LoopsOf, Body, Cfg
<1>4. ASSUME lexec' = "RUNNING", driver' \in {"prepare", "run"}
      PROVE  (\A l \in LoopsOf(lplan) : Known(l, loop[l]))'
  BY <1>4 DEF Known, LoopsOf, Body, Cfg
<1>5. (Rows(LoopLocal) <= lplan.maxSteps)'
  BY <1>1
<1> QED
  BY <1>2, <1>3, <1>4, <1>5 DEF LoopInv

\* The same after a step that adds no iteration.
LEMMA LoopKeeps ==
  ASSUME LoopInv, lplan' = lplan, loop' \in LoopRows, SameLength(loop, loop'),
         lexec' \in LoopEnds \union {"RUNNING"}, llease' \in {"none", "live", "expired"},
         driver' \in {"idle", "prepare", "run", "stop"}, loopFaults' \in 0 .. MaxLoopFaults,
         lexec' = "RUNNING" => \A l \in LoopsOf(lplan) : RowInv(l, loop'[l]),
         lexec' = "RUNNING" /\ driver' \in {"prepare", "run"} => \A l \in LoopsOf(lplan) : Known(l, loop'[l])
  PROVE  LoopInv'
<1> DEFINE r == [loop |-> loop', exec |-> lexec', raised |-> FALSE]
<1>1. lplan \in LoopPlans /\ Rows(LoopLocal) <= lplan.maxSteps /\ LoopLocal \in LoopRecs /\ LoopLocal.loop = loop
  BY DEF LoopInv, LoopLocal, LoopRecs
<1>2. r \in LoopRecs /\ r.loop = loop'
  BY DEF LoopRecs
<1> HIDE DEF r
<1>3. Rows(r) = Rows(LoopLocal)
  BY <1>1, <1>2, RowsSame DEF SameLength
<1> QED
  BY <1>1, <1>2, <1>3, LoopCarry

\* Nothing about the rows changes.
LEMMA LoopRests ==
  ASSUME LoopInv, lplan' = lplan, loop' = loop, lexec' = lexec, llease' \in {"none", "live", "expired"},
         driver' \in {"idle", "prepare", "run", "stop"}, loopFaults' \in 0 .. MaxLoopFaults,
         lexec = "RUNNING" /\ driver' \in {"prepare", "run"} => \A l \in LoopsOf(lplan) : Known(l, loop[l])
  PROVE  LoopInv'
BY LoopKeeps DEF LoopInv, SameLength

LEMMA LoopInitInv == LoopInit => LoopInv
<1> SUFFICES ASSUME LoopInit PROVE LoopInv
  OBVIOUS
<1> DEFINE x == [st |-> "PENDING", err |-> "NONE", pin |-> -1, hist |-> << >>, kids |-> << >>,
                 late |-> FALSE, completed |-> -1]
           n == Len(lplan.loops)
<1>1. lplan \in LoopPlans /\ lexec = "RUNNING" /\ llease = "live" /\ driver = "prepare" /\ loopFaults = 0
  BY DEF LoopInit
<1>2. loop = [l \in LoopsOf(lplan) |-> x]
  BY DEF LoopInit
<1>3. n \in Nat /\ LoopsOf(lplan) = 1 .. n /\ lplan.maxSteps \in Nat /\ n <= lplan.maxSteps
  BY <1>1, PlanNumbers
<1>4. \A l \in LoopsOf(lplan) : x \in LoopRow(l)
  <2> SUFFICES ASSUME NEW l \in LoopsOf(lplan) PROVE x \in LoopRow(l)
    OBVIOUS
  <2>1. << >> \in Seq([Body(l) -> KidStates]) /\ << >> \in Seq(BOOLEAN) /\ -1 \in Int
    OBVIOUS
  <2> QED
    BY <2>1 DEF LoopRow, LoopErrors
<1>5. /\ x.st = "PENDING" /\ Len(x.kids) = 0 /\ Len(x.hist) = 0
  OBVIOUS
<1> HIDE DEF x
<1>6. loop \in LoopRows
  BY <1>2, <1>4 DEF LoopRows
<1>7. \A l \in LoopsOf(lplan) : RowInv(l, loop[l]) /\ Known(l, loop[l])
  <2> SUFFICES ASSUME NEW l \in LoopsOf(lplan) PROVE RowInv(l, x) /\ Known(l, x)
    BY <1>2
  <2>1. Cfg(l).maxIterations \in Nat
    BY <1>1, PlanNumbers
  <2>2. ModeInv(l, x)
    BY <1>5, <2>1 DEF ModeInv, WhileInv, ForEachInv, TrueGates
  <2> QED
    BY <1>5, <2>2 DEF RowInv, Known
<1>8. Rows(LoopLocal) <= lplan.maxSteps
  <2> DEFINE r == LoopLocal
             v == Materialized(r)
  <2>1. r \in LoopRecs /\ r.loop = loop
    BY <1>1, <1>6 DEF LoopRecs, LoopLocal
  <2> HIDE DEF r
  <2>2. \A i \in 1 .. n : v[i] = 0
    <3> SUFFICES ASSUME NEW i \in 1 .. n PROVE v[i] = 0
      OBVIOUS
    <3>1. v[i] = Len(loop[i].kids) * Cfg(i).bodies /\ Cfg(i).bodies \in Nat
      BY <1>1, <1>3, <2>1, PlanNumbers DEF Materialized
    <3>2. Len(loop[i].kids) = 0
      BY <1>2, <1>3, <1>5
    <3> QED
      BY <3>1, <3>2
  <2>3. v \in [1 .. n -> Nat] /\ Rows(r) = n + Total(v)
    BY <1>1, <2>1, RowsCount
  <2> HIDE DEF v, n
  <2>4. PICK f \in [0 .. n -> Nat] : f[0] = 0 /\ (\A i \in 1 .. n : f[i] = f[i - 1] + v[i]) /\ Total(v) = f[n]
    BY <1>3, <2>3, TotalSteps
  <2> DEFINE P == {i \in 0 .. n : f[i] = 0}
  <2>5. 0 \in P
    BY <1>3, <2>4
  <2>6. ASSUME NEW i \in 1 .. n, i - 1 \in P PROVE i \in P
    <3>1. f[i] = f[i - 1] + v[i] /\ f[i - 1] = 0 /\ v[i] = 0
      BY <2>2, <2>4, <2>6
    <3> QED
      BY <1>3, <3>1
  <2> HIDE DEF P
  <2>7. \A i \in 0 .. n : i \in P
    BY <1>3, <2>5, <2>6, BoundedInduction
  <2>8. Total(v) = 0
    BY <1>3, <2>4, <2>7 DEF P
  <2> QED
    BY <1>3, <2>3, <2>8 DEF r
<1> QED
  BY <1>1, <1>6, <1>7, <1>8, LoopFaultsAssumption DEF LoopInv

-----------------------------------------------------------------------------
(* LOOPs: every action keeps the invariant.                                *)

LEMMA PrepareKeeps ==
  ASSUME LoopInv, LoopPrepare
  PROVE  LoopInv'
<1>1. /\ lplan \in LoopPlans /\ loop \in LoopRows /\ driver = "prepare" /\ lexec = "RUNNING"
      /\ llease \in {"none", "live", "expired"} /\ loopFaults \in 0 .. MaxLoopFaults
      /\ Rows(LoopLocal) <= lplan.maxSteps
      /\ \A l \in LoopsOf(lplan) : RowInv(l, loop[l]) /\ Known(l, loop[l])
  BY DEF LoopInv, LoopPrepare
<1>2. LoopLocal \in LoopRecs /\ LoopLocal.loop = loop
  BY <1>1 DEF LoopLocal, LoopRecs
<1>3. LoopSound(LoopLocal)
  BY <1>1, <1>2 DEF LoopSound, Fits
<1>4. PICK r \in (IF DagAccepts THEN ReconcileLoops ELSE {FailClosed(LoopLocal)}) :
        /\ loop' = IF r.raised THEN loop ELSE IF r.exec = "RUNNING" THEN Reserve(r) ELSE r.loop
        /\ lexec' = IF r.raised THEN lexec
                    ELSE IF r.exec = "RUNNING" /\ Ended(r) THEN "COMPLETED" ELSE r.exec
        /\ llease' = IF lexec' = "RUNNING" THEN llease ELSE "none"
        /\ driver' = IF r.raised \/ lexec' # "RUNNING" \/ ~HasReady(loop') THEN "idle" ELSE "run"
  BY Zenon DEF LoopPrepare
<1>5. LoopSound(r)
  <2>1. CASE DagAccepts
    BY <1>1, <1>3, <2>1, ReconcileLoopsSound
  <2>2. CASE ~DagAccepts
    <3>1. r = FailClosed(LoopLocal)
      BY <2>2
    <3> QED
      BY <1>1, <1>3, <3>1, FailClosedSound DEF LoopSound
  <2> QED
    BY <2>1, <2>2
<1>6. r \in LoopRecs /\ Rows(r) <= lplan.maxSteps /\ r.exec \in LoopEnds \union {"RUNNING"}
  BY <1>5 DEF LoopSound, Fits, LoopRecs
<1>7. lplan' = lplan /\ loopFaults' = loopFaults
  BY DEF LoopPrepare
<1>8. llease' \in {"none", "live", "expired"} /\ driver' \in {"idle", "prepare", "run", "stop"}
  BY <1>1, <1>4
<1>9. CASE r.raised
  <2>1. loop' = loop /\ lexec' = lexec /\ driver' = "idle"
    BY <1>4, <1>9
  <2> QED
    BY <1>1, <1>7, <1>8, <2>1, LoopRests
<1>10. CASE ~r.raised /\ r.exec # "RUNNING"
  <2>1. loop' = r.loop /\ lexec' = r.exec
    BY <1>4, <1>10
  <2> QED
    BY <1>1, <1>6, <1>7, <1>8, <1>10, <2>1, LoopCarry
<1>11. CASE ~r.raised /\ r.exec = "RUNNING"
  <2> DEFINE s == [r EXCEPT !.loop = Reserve(r)]
  <2>1. loop' = Reserve(r) /\ lexec' \in LoopEnds \union {"RUNNING"}
    BY <1>4, <1>11 DEF LoopEnds
  <2>2. /\ Reserve(r) \in LoopRows /\ SameLength(r.loop, Reserve(r))
        /\ \A l \in LoopsOf(lplan) :
             /\ Kept(l, r.loop[l], Reserve(r)[l])
             /\ Known(l, r.loop[l]) => Known(l, Reserve(r)[l])
    BY <1>1, <1>6, ReserveFacts
  <2>3. s \in LoopRecs /\ s.loop = Reserve(r)
    BY <1>6, <2>2 DEF LoopRecs
  <2> HIDE DEF s
  <2>4. Rows(s) = Rows(r)
    BY <1>1, <1>6, <2>2, <2>3, RowsSame DEF SameLength
  <2>5. \A l \in LoopsOf(lplan) : RowInv(l, Reserve(r)[l]) /\ Known(l, Reserve(r)[l])
    <3> SUFFICES ASSUME NEW l \in LoopsOf(lplan) PROVE RowInv(l, Reserve(r)[l]) /\ Known(l, Reserve(r)[l])
      OBVIOUS
    <3>1. RowInv(l, r.loop[l]) /\ Known(l, r.loop[l])
      BY <1>5, <1>11 DEF LoopSound
    <3>2. r.loop[l] \in LoopRow(l)
      BY <1>1, <1>6, RowParts DEF LoopRecs
    <3> QED
      BY <2>2, <3>1, <3>2, RowKept
  <2> QED
    BY <1>1, <1>6, <1>7, <1>8, <2>1, <2>3, <2>4, <2>5, LoopCarry
<1> QED
  BY <1>9, <1>10, <1>11

\* A child of the Plan.
LEMMA KidsFacts ==
  ASSUME LoopInv, NEW S, NEW k \in Kids(S)
  PROVE  \E l \in LoopsOf(lplan) : \E n \in 1 .. Len(loop[l].kids) : \E b \in Body(l) :
           k = <<l, n, b>> /\ loop[l].kids[n][b] \in S
<1>1. lplan \in LoopPlans /\ loop \in LoopRows
  BY DEF LoopInv
<1>2. DOMAIN loop = LoopsOf(lplan) /\ \A l \in LoopsOf(lplan) : DOMAIN loop[l].kids = 1 .. Len(loop[l].kids)
  BY <1>1, RowsDomain, RowParts
<1>3. PICK l \in DOMAIN loop : \E n \in DOMAIN loop[l].kids :
        k \in {<<l, n, b>> : b \in {i \in Body(l) : loop[l].kids[n][i] \in S}}
  BY DEF Kids
<1> QED
  BY <1>2, <1>3, Zenon

\* One child whose row was not terminal gets a status.
LEMMA SetKidFacts ==
  ASSUME LoopInv, NEW l \in LoopsOf(lplan), NEW n \in 1 .. Len(loop[l].kids), NEW b \in Body(l), NEW s \in KidStates
  PROVE  /\ SetKid(loop, <<l, n, b>>, s) \in LoopRows
         /\ SetKid(loop, <<l, n, b>>, s)[l].kids[n][b] = s
         /\ \A m \in LoopsOf(lplan) :
              /\ Len(SetKid(loop, <<l, n, b>>, s)[m].kids) = Len(loop[m].kids)
              /\ SetKid(loop, <<l, n, b>>, s)[m].st = loop[m].st
              /\ \A i \in 1 .. Len(loop[m].kids) : \A c \in Body(m) :
                   <<m, i, c>> # <<l, n, b>> => SetKid(loop, <<l, n, b>>, s)[m].kids[i][c] = loop[m].kids[i][c]
              /\ loop[l].kids[n][b] \notin RowTerminal => Kept(m, loop[m], SetKid(loop, <<l, n, b>>, s)[m])
<1> DEFINE x == loop[l]
           f == [x.kids EXCEPT ![n] = [x.kids[n] EXCEPT ![b] = s]]
           y == [x EXCEPT !.kids = f]
           w == SetKid(loop, <<l, n, b>>, s)
<1>1. lplan \in LoopPlans /\ loop \in LoopRows /\ DOMAIN loop = LoopsOf(lplan)
  BY RowsDomain DEF LoopInv
<1>2. /\ x \in LoopRow(l) /\ x.kids \in Seq([Body(l) -> KidStates]) /\ DOMAIN x.kids = 1 .. Len(x.kids)
      /\ x.kids \in [1 .. Len(x.kids) -> [Body(l) -> KidStates]]
  BY <1>1, RowParts, SeqFun
<1>3. w = [loop EXCEPT ![l] = y]
  BY DEF SetKid
<1>4. /\ f \in [1 .. Len(x.kids) -> [Body(l) -> KidStates]] /\ f[n][b] = s
      /\ \A i \in 1 .. Len(x.kids) : \A c \in Body(l) : (i # n \/ c # b) => f[i][c] = x.kids[i][c]
  <2> HIDE DEF x
  <2>1. n \in 1 .. Len(x.kids)
    BY DEF x
  <2> QED
    BY <1>2, <2>1
<1>5. /\ y \in LoopRow(l) /\ y.kids = f /\ Len(y.kids) = Len(x.kids)
      /\ y.st = x.st /\ y.err = x.err /\ y.pin = x.pin /\ y.hist = x.hist /\ y.completed = x.completed
  <2> HIDE DEF f, x
  <2> QED
    BY <1>2, <1>4, KidsRewritten
<1> HIDE DEF y, f
<1>6. w \in LoopRows /\ w[l] = y /\ \A m \in LoopsOf(lplan) \ {l} : w[m] = loop[m]
  BY <1>1, <1>3, <1>5 DEF LoopRows
<1> HIDE DEF w
<1>7. ASSUME loop[l].kids[n][b] \notin RowTerminal PROVE Kept(l, x, y)
  BY <1>4, <1>5, <1>7 DEF Kept
<1>8. \A m \in LoopsOf(lplan) : Kept(m, loop[m], loop[m])
  BY DEF Kept
<1>9. w[l].kids[n][b] = s
  BY <1>4, <1>5, <1>6
<1>10. ASSUME NEW m \in LoopsOf(lplan)
       PROVE  /\ Len(w[m].kids) = Len(loop[m].kids) /\ w[m].st = loop[m].st
              /\ \A i \in 1 .. Len(loop[m].kids) : \A c \in Body(m) :
                   <<m, i, c>> # <<l, n, b>> => w[m].kids[i][c] = loop[m].kids[i][c]
              /\ loop[l].kids[n][b] \notin RowTerminal => Kept(m, loop[m], w[m])
  <2>1. CASE m = l
    BY <1>4, <1>5, <1>6, <1>7, <2>1
  <2>2. CASE m # l
    BY <1>6, <1>8, <2>2
  <2> QED
    BY <2>1, <2>2
<1> QED
  BY <1>6, <1>9, <1>10 DEF w

\* A child starts or ends.
LEMMA KidKeeps ==
  ASSUME LoopInv, NEW k \in Kids({"READY", "RETRY", "RUNNING"}), NEW s \in KidStates,
         loop' = SetKid(loop, k, s), lplan' = lplan, loopFaults' = loopFaults,
         lexec' \in LoopEnds \union {"RUNNING"}, lexec' = "RUNNING" => lexec = "RUNNING",
         llease' \in {"none", "live", "expired"}, driver' \in {"idle", "prepare", "run", "stop"},
         lexec' = "RUNNING" /\ driver' \in {"prepare", "run"} =>
           driver \in {"prepare", "run"} /\ s # "UNKNOWN_OUTCOME"
  PROVE  LoopInv'
<1>a. PICK l \in LoopsOf(lplan) : \E n \in 1 .. Len(loop[l].kids) : \E b \in Body(l) :
        k = <<l, n, b>> /\ loop[l].kids[n][b] \in {"READY", "RETRY", "RUNNING"}
  BY KidsFacts
<1>b. PICK n \in 1 .. Len(loop[l].kids) : \E b \in Body(l) :
        k = <<l, n, b>> /\ loop[l].kids[n][b] \in {"READY", "RETRY", "RUNNING"}
  BY <1>a
<1>1. PICK b \in Body(l) : k = <<l, n, b>> /\ loop[l].kids[n][b] \in {"READY", "RETRY", "RUNNING"}
  BY <1>b
<1>2. loop[l].kids[n][b] \notin RowTerminal
  BY <1>1 DEF RowTerminal
<1>3. /\ loop' \in LoopRows /\ loop'[l].kids[n][b] = s
      /\ \A m \in LoopsOf(lplan) :
           /\ Len(loop'[m].kids) = Len(loop[m].kids) /\ Kept(m, loop[m], loop'[m])
           /\ \A i \in 1 .. Len(loop[m].kids) : \A c \in Body(m) :
                <<m, i, c>> # <<l, n, b>> => loop'[m].kids[i][c] = loop[m].kids[i][c]
  BY <1>1, <1>2, SetKidFacts
<1>4. SameLength(loop, loop')
  BY <1>3 DEF SameLength
<1>5. ASSUME lexec' = "RUNNING", NEW m \in LoopsOf(lplan) PROVE RowInv(m, loop'[m])
  <2>1. RowInv(m, loop[m]) /\ loop[m] \in LoopRow(m)
    BY <1>5, RowParts DEF LoopInv
  <2> QED
    BY <1>3, <2>1, RowKept
<1>6. ASSUME lexec' = "RUNNING", driver' \in {"prepare", "run"}, NEW m \in LoopsOf(lplan)
      PROVE  Known(m, loop'[m])
  <2>1. Known(m, loop[m])
    BY <1>6 DEF LoopInv
  <2> SUFFICES ASSUME NEW i \in 1 .. Len(loop[m].kids), NEW c \in Body(m)
               PROVE  loop'[m].kids[i][c] # "UNKNOWN_OUTCOME"
    BY <1>3 DEF Known
  <2>2. CASE m = l /\ i = n /\ c = b
    BY <1>3, <1>6, <2>2
  <2>3. CASE ~(m = l /\ i = n /\ c = b)
    <3>1. loop'[m].kids[i][c] = loop[m].kids[i][c]
      BY <1>3, <2>3
    <3> QED
      BY <2>1, <3>1 DEF Known
  <2> QED
    BY <2>2, <2>3
<1>7. loopFaults' \in 0 .. MaxLoopFaults
  BY DEF LoopInv
<1> QED
  BY <1>3, <1>4, <1>5, <1>6, <1>7, LoopKeeps

LEMMA SettleKeeps ==
  ASSUME LoopInv, LoopSettle
  PROVE  LoopInv'
<1>1. /\ lplan \in LoopPlans /\ lplan' = lplan /\ loop \in LoopRows /\ lexec = "RUNNING"
      /\ loopFaults' \in 0 .. MaxLoopFaults /\ Rows(LoopLocal) <= lplan.maxSteps
  BY DEF LoopInv, LoopSettle
<1>2. CASE driver = "stop"
  <2> DEFINE s == StopAll(LoopLocal, "FAILED")
  <2>1. Fits(LoopLocal)
    BY <1>1 DEF Fits, LoopLocal, LoopRecs
  <2>2. LoopSound(s)
    BY <1>1, <2>1, StopAllSound DEF LoopEnds
  <2>3. loop' = s.loop /\ lexec' = "FAILED" /\ llease' = "none" /\ driver' = "idle"
    BY <1>2 DEF LoopSettle
  <2> HIDE DEF s
  <2>4. s \in LoopRecs /\ Rows(s) <= lplan.maxSteps /\ "FAILED" \in LoopEnds
    BY <2>2 DEF LoopSound, Fits, LoopEnds
  <2> QED
    BY <1>1, <2>3, <2>4, LoopCarry
<1>3. CASE driver # "stop"
  <2>1. loop' = loop /\ lexec' = lexec /\ llease' = llease /\ driver' = "prepare" /\ driver = "run"
    BY <1>3 DEF LoopSettle
  <2>2. llease \in {"none", "live", "expired"} /\ \A l \in LoopsOf(lplan) : Known(l, loop[l])
    BY <1>1, <2>1 DEF LoopInv
  <2> QED
    BY <1>1, <2>1, <2>2, LoopRests
<1> QED
  BY <1>2, <1>3

LEMMA TimeoutKeeps ==
  ASSUME LoopInv, NEW l \in DOMAIN loop, LoopTimeout(l)
  PROVE  LoopInv'
<1> DEFINE x == loop[l]
           y == [x EXCEPT !.late = TRUE]
<1>1. /\ lplan \in LoopPlans /\ loop \in LoopRows /\ loop' = [loop EXCEPT ![l] = y]
      /\ UNCHANGED <<lplan, lexec, llease, driver, loopFaults>>
  BY DEF LoopInv, LoopTimeout
<1>2. l \in LoopsOf(lplan) /\ x \in LoopRow(l)
  BY <1>1, RowsDomain, RowParts
<1>3. /\ y \in LoopRow(l) /\ y.kids = x.kids /\ y.st = x.st /\ y.err = x.err /\ y.pin = x.pin
      /\ y.hist = x.hist /\ y.completed = x.completed
  <2> HIDE DEF x
  <2> QED
    BY <1>2 DEF LoopRow
<1> HIDE DEF y
<1>4. loop' \in LoopRows /\ loop'[l] = y /\ \A m \in LoopsOf(lplan) \ {l} : loop'[m] = loop[m]
  BY <1>1, <1>2, <1>3 DEF LoopRows
<1>5. \A m \in LoopsOf(lplan) : loop'[m].kids = loop[m].kids /\ Kept(m, loop[m], loop'[m])
  BY <1>3, <1>4 DEF Kept
<1>6. SameLength(loop, loop')
  BY <1>5 DEF SameLength
<1>7. ASSUME lexec = "RUNNING", NEW m \in LoopsOf(lplan) PROVE RowInv(m, loop'[m])
  <2>1. RowInv(m, loop[m]) /\ loop[m] \in LoopRow(m)
    BY <1>1, <1>7, RowParts DEF LoopInv
  <2> QED
    BY <1>5, <2>1, RowKept
<1>8. ASSUME lexec = "RUNNING", driver \in {"prepare", "run"}, NEW m \in LoopsOf(lplan) PROVE Known(m, loop'[m])
  <2>1. Known(m, loop[m])
    BY <1>8 DEF LoopInv
  <2> QED
    BY <1>5, <2>1 DEF Known
<1>9. /\ lexec \in LoopEnds \union {"RUNNING"} /\ llease \in {"none", "live", "expired"}
      /\ driver \in {"idle", "prepare", "run", "stop"} /\ loopFaults \in 0 .. MaxLoopFaults
  BY DEF LoopInv
<1> QED
  BY <1>1, <1>4, <1>6, <1>7, <1>8, <1>9, LoopKeeps

LEMMA RecoverKeeps ==
  ASSUME LoopInv, LoopRecover
  PROVE  LoopInv'
<1>1. /\ lplan \in LoopPlans /\ lplan' = lplan /\ loop \in LoopRows
      /\ loopFaults' \in 0 .. MaxLoopFaults /\ driver \in {"idle", "prepare", "run", "stop"}
  BY DEF LoopInv, LoopRecover
<1>2. CASE lexec = "RUNNING" /\ RecoveryAccepts /\ UnsafeInFlight = {}
  <2> DEFINE w == Replace(loop, "RUNNING", "RETRY")
  <2>1. loop' = w /\ driver' = "prepare" /\ llease' = "live" /\ lexec' = lexec
    BY <1>2 DEF LoopRecover
  <2>2. "RETRY" \in KidStates
    BY DEF KidStates
  <2>3. /\ w \in LoopRows /\ SameLength(loop, w)
        /\ \A l \in LoopsOf(lplan) :
             /\ Kept(l, loop[l], w[l])
             /\ \A n \in 1 .. Len(loop[l].kids) : \A b \in Body(l) :
                  w[l].kids[n][b] = IF loop[l].kids[n][b] = "RUNNING" THEN "RETRY" ELSE loop[l].kids[n][b]
    BY <1>1, <2>2, ReplaceFacts
  <2> HIDE DEF w
  <2>4. ASSUME NEW l \in LoopsOf(lplan) PROVE RowInv(l, w[l])
    <3>1. RowInv(l, loop[l]) /\ loop[l] \in LoopRow(l)
      BY <1>1, <1>2, RowParts DEF LoopInv
    <3> QED
      BY <2>3, <3>1, RowKept
  <2>5. ASSUME NEW l \in LoopsOf(lplan) PROVE Known(l, w[l])
    <3>1. Len(w[l].kids) = Len(loop[l].kids)
      BY <2>3 DEF SameLength
    <3> SUFFICES ASSUME NEW n \in 1 .. Len(loop[l].kids), NEW b \in Body(l), w[l].kids[n][b] = "UNKNOWN_OUTCOME"
                 PROVE  FALSE
      BY <3>1 DEF Known
    <3>2. loop[l].kids[n][b] = "UNKNOWN_OUTCOME"
      BY <2>3
    <3>3. l \in DOMAIN loop /\ n \in DOMAIN loop[l].kids
      BY <1>1, RowsDomain, RowParts
    <3>5. <<l, n, b>> \in Kids({"UNKNOWN_OUTCOME"})
      BY <3>2, <3>3 DEF Kids
    <3> QED
      BY <1>2, <3>5 DEF UnsafeInFlight
  <2>6. lexec' \in LoopEnds \union {"RUNNING"}
    BY <1>2, <2>1
  <2> QED
    BY <1>1, <2>1, <2>3, <2>4, <2>5, <2>6, LoopKeeps
<1>3. CASE ~(lexec = "RUNNING" /\ RecoveryAccepts /\ UnsafeInFlight = {})
  <2> DEFINE u == EndRows(loop, "FAILED")
             w == Replace(u, "RUNNING", "UNKNOWN_OUTCOME")
  <2>1. loop' = w /\ lexec' = "FAILED" /\ llease' = "none" /\ driver' = driver
    BY <1>3 DEF LoopRecover
  <2>2. u \in LoopRows /\ SameLength(loop, u)
    BY <1>1, EndRowsFacts
  <2> HIDE DEF u
  <2>3. w \in LoopRows /\ SameLength(u, w)
    BY <1>1, <2>2, ReplaceFacts DEF KidStates, RowTerminal
  <2> HIDE DEF w
  <2>4. SameLength(loop, w) /\ "FAILED" \in LoopEnds
    BY <2>2, <2>3 DEF SameLength, LoopEnds
  <2> QED
    BY <1>1, <2>1, <2>3, <2>4, LoopKeeps
<1> QED
  BY <1>2, <1>3

LEMMA LoopInvStep == LoopInv /\ [LoopNext]_loopVars => LoopInv'
<1> SUFFICES ASSUME LoopInv, [LoopNext]_loopVars PROVE LoopInv'
  OBVIOUS
<1>0. /\ lplan \in LoopPlans /\ loop \in LoopRows /\ lexec \in LoopEnds \union {"RUNNING"}
      /\ llease \in {"none", "live", "expired"} /\ driver \in {"idle", "prepare", "run", "stop"}
      /\ loopFaults \in 0 .. MaxLoopFaults
      /\ lexec = "RUNNING" /\ driver \in {"prepare", "run"} => \A l \in LoopsOf(lplan) : Known(l, loop[l])
  BY DEF LoopInv
<1>k. Kids({"READY", "RETRY"}) \subseteq Kids({"READY", "RETRY", "RUNNING"})
      /\ Kids({"RUNNING"}) \subseteq Kids({"READY", "RETRY", "RUNNING"})
  BY DEF Kids
<1>1. CASE LoopPrepare
  BY <1>1, PrepareKeeps
<1>2. ASSUME NEW k \in Kids({"READY", "RETRY"}), StartKid(k) PROVE LoopInv'
  <2>1. /\ loop' = SetKid(loop, k, "RUNNING") /\ lplan' = lplan /\ loopFaults' = loopFaults
        /\ lexec' = lexec /\ llease' = llease /\ driver' = driver
    BY <1>2 DEF StartKid
  <2>2. "RUNNING" \in KidStates /\ k \in Kids({"READY", "RETRY", "RUNNING"})
    BY <1>2, <1>k DEF KidStates
  <2> QED
    BY <1>0, <2>1, <2>2, KidKeeps
<1>3. ASSUME NEW k \in Kids({"RUNNING"}), NEW o \in {"SUCCEEDED", "FAILED", "UNKNOWN_OUTCOME"}, EndKid(k, o)
      PROVE  LoopInv'
  <2>1. /\ loop' = SetKid(loop, k, o) /\ lplan' = lplan /\ loopFaults' = loopFaults
        /\ driver \in {"run", "stop"}
    BY <1>3 DEF EndKid
  <2>2. o \in KidStates /\ k \in Kids({"READY", "RETRY", "RUNNING"})
    BY <1>3, <1>k DEF KidStates, RowTerminal
  <2>3. CASE lexec = "RUNNING"
    <3>1. lexec' = lexec /\ llease' = llease /\ driver' = IF Stopped(k[1], o) THEN "stop" ELSE driver
      BY <1>3, <2>3 DEF EndKid
    <3>2. driver' \in {"prepare", "run"} => driver \in {"prepare", "run"} /\ o # "UNKNOWN_OUTCOME"
      BY <2>1, <3>1 DEF Stopped
    <3>3. driver' \in {"idle", "prepare", "run", "stop"}
      BY <2>1, <3>1
    <3> QED
      BY <1>0, <2>1, <2>2, <3>1, <3>2, <3>3, KidKeeps
  <2>4. CASE lexec # "RUNNING"
    <3>1. \/ lexec' = lexec /\ llease' = llease /\ driver' = driver
          \/ lexec' \in {"FAILED", "CANCELLED"} /\ llease' = "none" /\ driver' = "idle"
      BY <1>3, <2>4 DEF EndKid
    <3>2. lexec' \in LoopEnds /\ lexec' # "RUNNING"
      BY <1>0, <2>4, <3>1 DEF LoopEnds
    <3> QED
      BY <1>0, <2>1, <2>2, <3>1, <3>2, KidKeeps
  <2> QED
    BY <2>3, <2>4
<1>4. CASE LoopSettle
  BY <1>4, SettleKeeps
<1>5. ASSUME NEW l \in DOMAIN loop, LoopTimeout(l) PROVE LoopInv'
  BY <1>5, TimeoutKeeps
<1>6. CASE LoopCancel
  <2> DEFINE w == EndRows(loop, "CANCELLED")
  <2>1. /\ loop' = w /\ lplan' = lplan /\ loopFaults' = loopFaults
        /\ lexec' \in {"CANCELLED", "CANCEL_REQUESTED"} /\ llease' \in {"none", llease} /\ driver' \in {"idle", driver}
    BY <1>6 DEF LoopCancel
  <2>2. w \in LoopRows /\ SameLength(loop, w)
    BY <1>0, EndRowsFacts
  <2> HIDE DEF w
  <2>3. lexec' \in LoopEnds /\ lexec' # "RUNNING"
    BY <2>1 DEF LoopEnds
  <2>4. llease' \in {"none", "live", "expired"} /\ driver' \in {"idle", "prepare", "run", "stop"}
    BY <1>0, <2>1
  <2> QED
    BY <1>0, <2>1, <2>2, <2>3, <2>4, LoopKeeps
<1>7. CASE LoopCrash
  <2>1. /\ UNCHANGED <<lplan, lexec, llease, loop>> /\ driver' = "idle"
        /\ loopFaults' = loopFaults + 1 /\ loopFaults < MaxLoopFaults
    BY <1>7 DEF LoopCrash
  <2>2. loopFaults' \in 0 .. MaxLoopFaults
    BY <1>0, <2>1, LoopFaultsAssumption
  <2> QED
    BY <1>0, <2>1, <2>2, LoopRests
<1>8. CASE LoopLeaseExpires
  <2>1. UNCHANGED <<lplan, lexec, driver, loop, loopFaults>> /\ llease' = "expired"
    BY <1>8 DEF LoopLeaseExpires
  <2> QED
    BY <1>0, <2>1, LoopRests
<1>9. CASE LoopRecover
  BY <1>9, RecoverKeeps
<1>10. CASE UNCHANGED loopVars
  BY <1>0, <1>10, LoopRests DEF loopVars
<1> QED
  BY <1>1, <1>2, <1>3, <1>4, <1>5, <1>6, <1>7, <1>8, <1>9, <1>10 DEF LoopNext

-----------------------------------------------------------------------------
(* LOOPs: the theorems.                                                    *)

THEOREM LoopInvariantHolds == LoopSpec => []LoopInv
BY LoopInitInv, LoopInvStep, PTL DEF LoopSpec

\* The LOOP rows, their control evidence and their children keep their types.
THEOREM LoopTypeCorrect == LoopSpec => []LoopTypeOK
<1>1. LoopInv => LoopTypeOK
  <2> SUFFICES ASSUME LoopInv PROVE LoopTypeOK
    OBVIOUS
  <2>1. lplan \in LoopPlans /\ loop \in LoopRows /\ DOMAIN loop = LoopsOf(lplan)
    BY RowsDomain DEF LoopInv
  <2>2. ASSUME NEW l \in DOMAIN loop
        PROVE  /\ loop[l].st \in RowTerminal \union {"PENDING", "RUNNING"}
               /\ loop[l].hist \in Seq(BOOLEAN)
               /\ \A n \in DOMAIN loop[l].kids :
                    loop[l].kids[n] \in [Body(l) -> RowTerminal \union {"PENDING", "READY", "RETRY", "RUNNING"}]
    <3>1. /\ loop[l] \in LoopRow(l) /\ loop[l].kids \in Seq([Body(l) -> KidStates])
          /\ DOMAIN loop[l].kids = 1 .. Len(loop[l].kids) /\ loop[l].hist \in Seq(BOOLEAN)
      BY <2>1, RowParts
    <3>2. loop[l].st \in RowTerminal \union {"PENDING", "RUNNING"}
      BY <3>1 DEF LoopRow
    <3>3. \A n \in DOMAIN loop[l].kids : loop[l].kids[n] \in [Body(l) -> KidStates]
      BY <3>1
    <3> QED
      BY <3>1, <3>2, <3>3 DEF KidStates
  <2> QED
    BY <2>1, <2>2 DEF LoopInv, LoopTypeOK, LoopEnds
<1> QED
  BY <1>1, LoopInvariantHolds, PTL

\* The DAG validation and the recovery of a RUNNING Execution never refuse the
\* checkpoints its own reconciliation has written.
THEOREM CheckpointsAreAccepted == LoopSpec => []CheckpointsHold
<1>1. LoopInv => CheckpointsHold
  <2> SUFFICES ASSUME LoopInv, lexec = "RUNNING" PROVE DagAccepts /\ RecoveryAccepts
    BY DEF CheckpointsHold
  <2>1. lplan \in LoopPlans /\ loop \in LoopRows /\ DOMAIN loop = LoopsOf(lplan)
    BY RowsDomain DEF LoopInv
  <2>2. ASSUME NEW l \in DOMAIN loop
        PROVE  /\ loop[l].kids # << >> => IterationShapes(l)
               /\ Cfg(l).mode = "WHILE" => WhileControlState(l)
               /\ Cfg(l).mode = "WHILE" => WhileCheckpoint(l)
               /\ Cfg(l).mode # "WHILE" => ForEachCheckpoint(l)
    <3> DEFINE x == loop[l]
    <3>1. /\ x.kids \in Seq([Body(l) -> KidStates]) /\ Len(x.kids) \in Nat /\ DOMAIN x.kids = 1 .. Len(x.kids)
          /\ x.hist \in Seq(BOOLEAN) /\ Len(x.hist) \in Nat
      BY <2>1, RowParts
    <3>2. RowInv(l, x)
      BY <2>1 DEF LoopInv
    <3>3. \A n \in 1 .. Len(x.kids) : DOMAIN x.kids[n] = Body(l)
      BY <3>1
    <3>4. (x.kids # << >> <=> Len(x.kids) > 0) /\ (x.hist = << >> <=> Len(x.hist) = 0)
      BY <3>1
    <3>5. x.st # "RUNNING" => AllTerminal(x)
      BY <3>1, <3>2, <3>3 DEF RowInv, AllTerminal
    <3>6. /\ \A n \in DOMAIN x.kids : n < Len(x.kids) =>
               \A b \in Body(l) : x.kids[n][b] \in RowTerminal /\ x.kids[n][b] # "UNKNOWN_OUTCOME"
      <4> SUFFICES ASSUME NEW n \in DOMAIN x.kids, n < Len(x.kids), NEW b \in Body(l)
                   PROVE  x.kids[n][b] \in RowTerminal /\ x.kids[n][b] # "UNKNOWN_OUTCOME"
        OBVIOUS
      <4>1. n \in 1 .. Len(x.kids) - 1
        BY <3>1
      <4> QED
        BY <3>2, <4>1 DEF RowInv, KnownKidEnds
    <3>7. x.st \in {"PENDING", "SKIPPED"} => Len(x.kids) = 0 /\ Len(x.hist) = 0
      BY <3>2 DEF RowInv
    <3>8. x.st \in {"PENDING", "RUNNING", "SKIPPED", "SUCCEEDED", "TIMED_OUT", "FAILED"}
      BY <3>2 DEF RowInv
    <3>w. Cfg(l).mode = "WHILE" => WhileInv(l, x)
      BY <3>2 DEF RowInv, ModeInv
    <3>f. Cfg(l).mode # "WHILE" => ForEachInv(l, x)
      BY <3>2 DEF RowInv, ModeInv
    <3>9. x.kids # << >> => IterationShapes(l)
      <4> SUFFICES ASSUME x.kids # << >> PROVE IterationShapes(l)
        OBVIOUS
      <4>1. CASE Cfg(l).mode = "WHILE"
        BY <3>6, <3>w, <4>1 DEF IterationShapes, WhileInv
      <4>2. CASE Cfg(l).mode # "WHILE"
        BY <3>4, <3>6, <3>f, <4>2 DEF IterationShapes, ForEachInv
      <4> QED
        BY <4>1, <4>2
    <3>10. x.kids # << >> => Topology(l)
      BY <3>5, <3>6, <3>9, <3>8 DEF Topology, RowTerminal
    <3>11. ASSUME Cfg(l).mode = "WHILE" PROVE WhileControlState(l) /\ WhileCheckpoint(l)
      <4>1. WhileInv(l, x) /\ TrueGates(x.hist, Len(x.kids))
        BY <3>11, <3>w DEF WhileInv
      <4>2. CASE x.st = "RUNNING"
        <5>1. Len(x.hist) = Len(x.kids) /\ Len(x.kids) > 0
          BY <4>1, <4>2 DEF WhileInv
        <5>2. RunningWhile(x)
          BY <3>1, <4>1, <5>1 DEF RunningWhile
        <5> QED
          BY <3>1, <3>4, <3>10, <4>1, <4>2, <5>1, <5>2 DEF WhileControlState, WhileCheckpoint
      <4>3. CASE x.st = "SUCCEEDED"
        <5>1. SucceededWhile(x)
          BY <3>5, <4>1, <4>3 DEF WhileInv, SucceededWhile
        <5> QED
          BY <4>3, <5>1 DEF WhileControlState, WhileCheckpoint
      <4>4. CASE x.st = "FAILED"
        <5>1. x.err = "MAX_ITERATIONS" /\ Len(x.kids) = Cfg(l).maxIterations
          BY <4>1, <4>4 DEF WhileInv
        <5>2. Len(x.hist) = Len(x.kids) + 1 /\ x.hist[Len(x.kids) + 1]
          BY <4>1, <4>4 DEF WhileInv
        <5>3. TrueGates(x.hist, Len(x.kids) + 1)
          <6>1. \A i \in 1 .. Len(x.kids) + 1 : x.hist[i]
            BY <3>1, <4>1, <5>2 DEF TrueGates
          <6> QED
            BY <3>1, <5>2, <6>1 DEF TrueGates
        <5>4. LimitedWhile(l)
          BY <3>5, <4>4, <5>1, <5>2, <5>3 DEF LimitedWhile
        <5> QED
          BY <4>4, <5>4 DEF WhileControlState, WhileCheckpoint
      <4>5. CASE x.st = "TIMED_OUT"
        <5>1. Len(x.hist) = Len(x.kids)
          BY <4>1, <4>5 DEF WhileInv
        <5> QED
          BY <3>1, <4>1, <4>5, <5>1 DEF WhileControlState, WhileCheckpoint
      <4>6. CASE x.st \in {"SKIPPED", "PENDING"}
        BY <3>4, <3>7, <4>6 DEF WhileControlState, WhileCheckpoint
      <4> QED
        BY <3>8, <4>2, <4>3, <4>4, <4>5, <4>6
    <3>12. ASSUME Cfg(l).mode # "WHILE" PROVE ForEachCheckpoint(l)
      BY <3>5, <3>10, <3>12, <3>f DEF ForEachInv, ForEachCheckpoint
    <3> QED
      BY <3>9, <3>11, <3>12
  <2> QED
    BY <2>2 DEF DagAccepts, RecoveryAccepts
<1> QED
  BY <1>1, LoopInvariantHolds, PTL

\* The children of one LOOP.
Cells(l, a, c) == {<<l, m, b>> : m \in 1 .. a, b \in 1 .. c}

LEMMA CellsCount ==
  ASSUME NEW l, NEW a \in Nat, NEW c \in Nat
  PROVE  IsFiniteSet(Cells(l, a, c)) /\ Cardinality(Cells(l, a, c)) <= a * c
<1> DEFINE A == 1 .. a
           B == 1 .. c
           f == [p \in A \X B |-> <<l, p[1], p[2]>>]
           T == Cells(l, a, c)
<1>1. IsFiniteSet(A) /\ Cardinality(A) = a /\ IsFiniteSet(B) /\ Cardinality(B) = c
  <2>1. IsFiniteSet(1 .. a) /\ Cardinality(1 .. a) = IF 1 > a THEN 0 ELSE a - 1 + 1
    BY FS_Interval
  <2>2. IsFiniteSet(1 .. c) /\ Cardinality(1 .. c) = IF 1 > c THEN 0 ELSE c - 1 + 1
    BY FS_Interval
  <2> QED
    BY <2>1, <2>2
<1>2. f \in Surjection(A \X B, T)
  <2>1. f \in [A \X B -> T]
    BY DEF Cells
  <2>2. ASSUME NEW t \in T PROVE \E p \in A \X B : f[p] = t
    <3>1. PICK m \in A, b \in B : t = <<l, m, b>>
      BY DEF Cells
    <3>2. <<m, b>> \in A \X B /\ f[<<m, b>>] = t
      BY <3>1
    <3> QED
      BY <3>2
  <2> QED
    BY <2>1, <2>2 DEF Surjection
<1> HIDE DEF A, B, f, T
<1>3. IsFiniteSet(A \X B) /\ Cardinality(A \X B) = Cardinality(A) * Cardinality(B)
  BY <1>1, FS_Product
<1>4. IsFiniteSet(T) /\ Cardinality(T) <= Cardinality(A \X B)
  BY <1>2, <1>3, FS_Surjection
<1> QED
  BY <1>1, <1>3, <1>4 DEF T

\* Materialization never goes beyond limits.max_steps, whatever several LOOPs do
\* side by side.
THEOREM StepsWithinBudget == LoopSpec => []StepBudget
<1>1. LoopInv => StepBudget
  <2> SUFFICES ASSUME LoopInv PROVE StepBudget
    OBVIOUS
  <2> DEFINE n == Len(lplan.loops)
             v == Materialized(LoopLocal)
             row(l) == Cells(l, Len(loop[l].kids), Cfg(l).bodies)
             upto(i) == UNION {row(l) : l \in 1 .. i}
             all == Kids(RowTerminal \union {"PENDING", "READY", "RETRY", "RUNNING"})
  <2>1. /\ lplan \in LoopPlans /\ loop \in LoopRows /\ Rows(LoopLocal) <= lplan.maxSteps
        /\ LoopLocal \in LoopRecs /\ LoopLocal.loop = loop
    BY DEF LoopInv, LoopLocal, LoopRecs
  <2>2. /\ n \in Nat /\ LoopsOf(lplan) = 1 .. n /\ lplan.maxSteps \in Nat
        /\ DOMAIN loop = 1 .. n /\ Len(loop) = n
    BY <2>1, PlanNumbers, RowsDomain
  <2>3. ASSUME NEW l \in 1 .. n
        PROVE  IsFiniteSet(row(l)) /\ Cardinality(row(l)) <= v[l]
    <3>1. Len(loop[l].kids) \in Nat /\ Cfg(l).bodies \in Nat
      BY <2>1, <2>2, RowParts, PlanNumbers
    <3>2. v[l] = Len(loop[l].kids) * Cfg(l).bodies
      BY <2>1, <2>2 DEF Materialized
    <3> QED
      BY <3>1, <3>2, CellsCount
  <2>4. v \in [1 .. n -> Nat] /\ Rows(LoopLocal) = n + Total(v)
    BY <2>1, RowsCount
  <2>5. all \subseteq upto(n)
    <3> SUFFICES ASSUME NEW k \in all PROVE k \in upto(n)
      OBVIOUS
    <3>1. PICK l \in LoopsOf(lplan) : \E m \in 1 .. Len(loop[l].kids) : \E b \in Body(l) : k = <<l, m, b>>
      BY KidsFacts
    <3>2. k \in row(l)
      BY <3>1 DEF Cells, Body
    <3> QED
      BY <2>2, <3>2
  <2> HIDE DEF v, n, all, row
  <2>6. PICK f \in [0 .. n -> Nat] : f[0] = 0 /\ (\A i \in 1 .. n : f[i] = f[i - 1] + v[i]) /\ Total(v) = f[n]
    BY <2>2, <2>4, TotalSteps
  <2> DEFINE P == {i \in 0 .. n : IsFiniteSet(upto(i)) /\ Cardinality(upto(i)) <= f[i]}
  <2>7. 0 \in P
    <3>1. upto(0) = {} /\ 0 \in 0 .. n
      BY <2>2
    <3>2. IsFiniteSet(upto(0)) /\ Cardinality(upto(0)) = 0
      BY <3>1, FS_EmptySet
    <3> HIDE DEF upto
    <3> QED
      BY <2>6, <3>1, <3>2
  <2>8. ASSUME NEW i \in 1 .. n, i - 1 \in P PROVE i \in P
    <3>1. i \in 0 .. n /\ i - 1 \in 0 .. n /\ f[i] = f[i - 1] + v[i] /\ v[i] \in Nat /\ f[i - 1] \in Nat
      BY <2>2, <2>4, <2>6
    <3>2. IsFiniteSet(upto(i - 1)) /\ Cardinality(upto(i - 1)) <= f[i - 1]
      BY <2>8
    <3>3. IsFiniteSet(row(i)) /\ Cardinality(row(i)) <= v[i]
      BY <2>3
    <3>4. upto(i) = upto(i - 1) \union row(i)
      <4>1. 1 .. i = (1 .. i - 1) \union {i}
        BY <2>2
      <4> QED
        BY <4>1
    <3> DEFINE S == upto(i - 1)
               R == row(i)
    <3> HIDE DEF S, R, upto
    <3>5. /\ IsFiniteSet(S \union R)
          /\ Cardinality(S \union R) = Cardinality(S) + Cardinality(R) - Cardinality(S \intersect R)
      BY <3>2, <3>3, FS_Union DEF S, R
    <3>6. IsFiniteSet(S \intersect R)
      BY <3>2, FS_Intersection DEF S
    <3>7. Cardinality(S) \in Nat /\ Cardinality(R) \in Nat /\ Cardinality(S \intersect R) \in Nat
      BY <3>2, <3>3, <3>6, FS_CardinalityType DEF S, R
    <3>8. Cardinality(S \union R) <= f[i]
      BY <3>1, <3>2, <3>3, <3>5, <3>7 DEF S, R
    <3> QED
      BY <3>1, <3>4, <3>5, <3>8 DEF S, R
  <2> HIDE DEF P
  <2>9. \A i \in 0 .. n : i \in P
    BY <2>2, <2>7, <2>8, BoundedInduction
  <2>10. IsFiniteSet(upto(n)) /\ Cardinality(upto(n)) <= Total(v)
    <3> HIDE DEF upto
    <3> QED
      BY <2>2, <2>6, <2>9 DEF P
  <2>11. /\ Cardinality(all) <= Cardinality(upto(n))
         /\ Cardinality(all) \in Nat /\ Cardinality(upto(n)) \in Nat
    <3> HIDE DEF upto
    <3>1. IsFiniteSet(all) /\ Cardinality(all) <= Cardinality(upto(n))
      BY <2>5, <2>10, FS_Subset
    <3> QED
      BY <2>10, <3>1, FS_CardinalityType
  <2>12. Total(v) \in Nat
    BY <2>2, <2>4, TotalType
  <2> HIDE DEF upto
  <2>13. Len(loop) + Cardinality(all) <= lplan.maxSteps
    BY <2>1, <2>2, <2>4, <2>10, <2>11, <2>12
  <2> QED
    BY <2>13 DEF StepBudget, all
<1> QED
  BY <1>1, LoopInvariantHolds, PTL

\* Once a LOOP row is terminal none of its children starts: in a RUNNING Execution
\* it has no open child, and outside it no child starts at all.
THEOREM EndedLoopsStayQuiet == LoopSpec => EndedLoopIsQuiet
<1> DEFINE Quiet ==
      \A k \in Kids({"READY", "RETRY", "PENDING"}) :
        loop[k[1]].st \in RowTerminal => loop'[k[1]].kids[k[2]][k[3]] # "RUNNING"
<1>1. LoopInv /\ [LoopNext]_loopVars => [Quiet]_loopVars
  <2> SUFFICES ASSUME LoopInv, LoopNext, NEW k \in Kids({"READY", "RETRY", "PENDING"}),
                      loop[k[1]].st \in RowTerminal
               PROVE  loop'[k[1]].kids[k[2]][k[3]] # "RUNNING"
    BY Zenon
  <2>0. lplan \in LoopPlans /\ loop \in LoopRows /\ DOMAIN loop = LoopsOf(lplan)
    BY RowsDomain DEF LoopInv
  <2>1. PICK l \in LoopsOf(lplan) : \E n \in 1 .. Len(loop[l].kids) : \E b \in Body(l) :
          k = <<l, n, b>> /\ loop[l].kids[n][b] \in {"READY", "RETRY", "PENDING"}
    BY KidsFacts
  <2>2. PICK n \in 1 .. Len(loop[l].kids) : \E b \in Body(l) :
          k = <<l, n, b>> /\ loop[l].kids[n][b] \in {"READY", "RETRY", "PENDING"}
    BY <2>1
  <2>3. PICK b \in Body(l) : k = <<l, n, b>> /\ loop[l].kids[n][b] \in {"READY", "RETRY", "PENDING"}
    BY <2>2
  <2>4. loop[l].st \in RowTerminal /\ k[1] = l /\ k[2] = n /\ k[3] = b
    BY <2>3
  <2>5. CASE lexec = "RUNNING"
    <3>1. RowInv(l, loop[l])
      BY <2>5 DEF LoopInv
    <3>2. loop[l].kids[n][b] \in RowTerminal
      BY <2>4, <3>1 DEF RowInv, RowTerminal
    <3> QED
      BY <2>3, <3>2 DEF RowTerminal
  <2>6. CASE lexec # "RUNNING"
    <3>1. CASE UNCHANGED loop
      BY <2>3, <2>4, <3>1
    <3>2. ASSUME NEW j \in Kids({"RUNNING"}), NEW o \in {"SUCCEEDED", "FAILED", "UNKNOWN_OUTCOME"}, EndKid(j, o)
          PROVE  loop'[l].kids[n][b] # "RUNNING"
      <4>1. loop' = SetKid(loop, j, o)
        BY <3>2 DEF EndKid
      <4>2. PICK m \in LoopsOf(lplan) : \E i \in 1 .. Len(loop[m].kids) : \E c \in Body(m) :
              j = <<m, i, c>> /\ loop[m].kids[i][c] \in {"RUNNING"}
        BY KidsFacts
      <4>3. PICK i \in 1 .. Len(loop[m].kids) : \E c \in Body(m) :
              j = <<m, i, c>> /\ loop[m].kids[i][c] \in {"RUNNING"}
        BY <4>2
      <4>4. PICK c \in Body(m) : j = <<m, i, c>> /\ loop[m].kids[i][c] \in {"RUNNING"}
        BY <4>3
      <4>5. <<l, n, b>> # <<m, i, c>> /\ o \in KidStates
        BY <2>3, <4>4 DEF KidStates, RowTerminal
      <4>6. loop'[l].kids[n][b] = loop[l].kids[n][b]
        BY <4>1, <4>4, <4>5, SetKidFacts
      <4> QED
        BY <2>3, <4>6
    <3>3. ASSUME NEW m \in DOMAIN loop, LoopTimeout(m) PROVE loop'[l].kids[n][b] # "RUNNING"
      <4>1. loop' = [loop EXCEPT ![m] = [loop[m] EXCEPT !.late = TRUE]]
        BY <3>3 DEF LoopTimeout
      <4>2. loop[m] \in LoopRow(m)
        BY <2>0, RowParts
      <4>3. loop'[l].kids = loop[l].kids
        BY <2>0, <4>1, <4>2 DEF LoopRow
      <4> QED
        BY <2>3, <4>3
    <3>4. CASE LoopRecover
      <4> DEFINE u == EndRows(loop, "FAILED")
                 w == Replace(u, "RUNNING", "UNKNOWN_OUTCOME")
      <4>1. loop' = w
        BY <2>6, <3>4 DEF LoopRecover
      <4>2. u \in LoopRows /\ SameLength(loop, u)
        BY <2>0, EndRowsFacts
      <4> HIDE DEF u
      <4>3. "UNKNOWN_OUTCOME" \in KidStates /\ n \in 1 .. Len(u[l].kids)
        BY <4>2 DEF KidStates, RowTerminal, SameLength
      <4>4. w[l].kids[n][b] = IF u[l].kids[n][b] = "RUNNING" THEN "UNKNOWN_OUTCOME" ELSE u[l].kids[n][b]
        BY <2>0, <4>2, <4>3, ReplaceFacts
      <4> HIDE DEF w
      <4> QED
        BY <2>4, <4>1, <4>4
    <3>5. UNCHANGED loop \/ LoopRecover
          \/ (\E j \in Kids({"RUNNING"}), o \in {"SUCCEEDED", "FAILED", "UNKNOWN_OUTCOME"} : EndKid(j, o))
          \/ (\E m \in DOMAIN loop : LoopTimeout(m))
      BY <2>6 DEF LoopNext, LoopPrepare, StartKid, LoopSettle, LoopCancel, LoopCrash, LoopLeaseExpires
    <3> QED
      BY <2>4, <3>1, <3>2, <3>3, <3>4, <3>5
  <2> QED
    BY <2>5, <2>6
<1> QED
  BY <1>1, LoopInvariantHolds, PTL DEF LoopSpec, EndedLoopIsQuiet
=============================================================================
