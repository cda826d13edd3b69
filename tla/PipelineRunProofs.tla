------------------------- MODULE PipelineRunProofs -------------------------
(***************************************************************************)
(* Theorems about compile() and runPlan(), for any graph of stages: levels *)
(* are the least order that the declared dependencies allow, stages keep   *)
(* to it, a run ends once and for a reason, cancellation starts nothing,   *)
(* and the strict fold accepts a journal of Pipelines that run one stage   *)
(* at a time.  Theorems about the registry that plans are captured from:   *)
(* a captured plan is closed and terminates.                               *)
(***************************************************************************)
EXTENDS PipelineRun, FiniteSetTheorems, NaturalsInduction, TLAPS

(* A set of natural numbers that is not empty has a least element.         *)
LEMMA Least ==
  ASSUME NEW S \in SUBSET Nat, S # {}
  PROVE  \E n \in S : \A m \in S : n <= m
<1>1. IsWellFoundedOn(OpToRel(<, Nat), Nat)
  BY NatLessThanWellFounded
<1>2. PICK n \in S : \A m \in S : <<m, n>> \notin OpToRel(<, Nat)
  BY <1>1, WFMin
<1>3. \A m \in S : ~(m < n)
  BY <1>2 DEF OpToRel
<1> QED BY <1>3

-----------------------------------------------------------------------------
(* compile(): the levels of a graph.                                       *)
CountsDown(left, d, n) ==
  /\ left[0] = d.stages
  /\ \A i \in 1..n : left[i] = left[i - 1] \ Ready(d, left[i - 1])

LEMMA CountdownExists ==
  ASSUME NEW d, NEW n \in Nat
  PROVE  \E left : CountsDown(left, d, n)
<1> DEFINE Bad == {m \in Nat : ~\E left : CountsDown(left, d, m)}
<1>1. ASSUME Bad # {}
      PROVE  FALSE
  <2>1. PICK m \in Bad : \A k \in Bad : m <= k
    BY <1>1, Least
  <2>2. CASE m = 0
    <3>1. CountsDown([i \in 0..0 |-> d.stages], d, 0)
      BY DEF CountsDown
    <3> QED BY <2>1, <2>2, <3>1
  <2>3. CASE m # 0
    <3>1. m - 1 \in Nat /\ m - 1 \notin Bad
      BY <2>1, <2>3
    <3>2. PICK f : CountsDown(f, d, m - 1)
      BY <3>1
    <3> DEFINE g == [i \in 0..m |-> IF i < m THEN f[i] ELSE f[m - 1] \ Ready(d, f[m - 1])]
    <3>3. g[0] = d.stages
      BY <2>3, <3>2 DEF CountsDown
    <3>4. ASSUME NEW i \in 1..m
          PROVE  g[i] = g[i - 1] \ Ready(d, g[i - 1])
      <4>1. g[i - 1] = f[i - 1] /\ i - 1 < m
        BY <2>1
      <4>2. CASE i < m
        <5>1. i \in 1..(m - 1) /\ g[i] = f[i]
          BY <4>2
        <5> QED BY <3>2, <4>1, <5>1 DEF CountsDown
      <4>3. CASE i = m
        BY <4>1, <4>3
      <4> QED BY <4>2, <4>3
    <3>5. CountsDown(g, d, m)
      BY <3>3, <3>4 DEF CountsDown
    <3> QED BY <2>1, <3>5
  <2> QED BY <2>2, <2>3
<1> QED BY <1>1

LEMMA CountdownIsUnique ==
  ASSUME NEW d, NEW n \in Nat, NEW m \in Nat, n <= m,
         NEW f, CountsDown(f, d, n), NEW g, CountsDown(g, d, m)
  PROVE  \A i \in 0..n : f[i] = g[i]
<1> DEFINE Bad == {i \in 0..n : f[i] # g[i]}
<1>1. ASSUME Bad # {}
      PROVE  FALSE
  <2>1. PICK k \in Bad : \A j \in Bad : k <= j
    <3>1. Bad \in SUBSET Nat
      OBVIOUS
    <3> HIDE DEF Bad
    <3> QED BY <1>1, <3>1, Least
  <2>2. k # 0 => f[k - 1] = g[k - 1]
    BY <2>1
  <2>3. k \in 1..n \/ k = 0
    BY <2>1
  <2>4. k # 0 => /\ f[k] = f[k - 1] \ Ready(d, f[k - 1])
                 /\ g[k] = g[k - 1] \ Ready(d, g[k - 1])
    BY <2>3 DEF CountsDown
  <2>5. k = 0 => f[k] = g[k]
    BY DEF CountsDown
  <2> QED BY <2>1, <2>2, <2>4, <2>5
<1> QED BY <1>1

LEMMA RemainingIsCountdown ==
  ASSUME NEW d, NEW n \in Nat
  PROVE  \A f : CountsDown(f, d, n) => Remaining(d, n) = f[n]
<1> DEFINE Step(left) == [i \in 0..n |-> IF i = 0 THEN d.stages
                                         ELSE left[i - 1] \ Ready(d, left[i - 1])]
           left == CHOOSE left : left = Step(left)
<1>1. ASSUME NEW f, f = Step(f)
      PROVE  CountsDown(f, d, n)
  <2>1. PICK g : g = Step(f)
    OBVIOUS
  <2>2. g[0] = d.stages /\ \A i \in 1..n : g[i] = f[i - 1] \ Ready(d, f[i - 1])
    BY <2>1
  <2> QED BY <1>1, <2>1, <2>2 DEF CountsDown
<1>2. \E f : f = Step(f)
  <2>1. PICK f : CountsDown(f, d, n)
    BY CountdownExists
  <2>2. PICK g : g = [i \in 0..n |-> f[i]]
    OBVIOUS
  <2>3. DOMAIN g = 0..n /\ \A i \in 0..n : g[i] = f[i]
    BY <2>2
  <2>4. PICK h : h = Step(g)
    OBVIOUS
  <2>5. DOMAIN h = 0..n /\ \A i \in 0..n : h[i] = IF i = 0 THEN d.stages
                                                 ELSE g[i - 1] \ Ready(d, g[i - 1])
    BY <2>4
  <2>6. ASSUME NEW i \in 0..n
        PROVE  h[i] = g[i]
    <3>1. CASE i = 0
      BY <2>1, <2>3, <2>5, <3>1 DEF CountsDown
    <3>2. CASE i # 0
      <4>1. i \in 1..n /\ i - 1 \in 0..n
        BY <3>2
      <4>2. f[i] = f[i - 1] \ Ready(d, f[i - 1])
        BY <2>1, <4>1 DEF CountsDown
      <4> QED BY <2>3, <2>5, <3>2, <4>1, <4>2
    <3> QED BY <3>1, <3>2
  <2>7. h = g
    <3>1. h = [i \in 0..n |-> h[i]]
      BY <2>4
    <3>2. [i \in 0..n |-> h[i]] = [i \in 0..n |-> f[i]]
      BY <2>3, <2>6
    <3> QED BY <2>2, <3>1, <3>2
  <2> QED BY <2>4, <2>7
<1>3. CountsDown(left, d, n)
  <2>1. left = Step(left)
    <3> HIDE DEF Step
    <3> QED BY <1>2
  <2> HIDE DEF left, Step
  <2> QED BY <1>1, <2>1
<1>4. Remaining(d, n) = left[n]
  BY DEF Remaining
<1> HIDE DEF left
<1>5. \A f : CountsDown(f, d, n) => f[n] = left[n]
  BY <1>3, CountdownIsUnique
<1> QED BY <1>4, <1>5

(* Each round takes off the stages that are ready.                         *)
LEMMA RemainingStep ==
  ASSUME NEW d
  PROVE  /\ Remaining(d, 0) = d.stages
         /\ \A n \in Nat : Remaining(d, n + 1) = Remaining(d, n) \ Ready(d, Remaining(d, n))
<1>1. Remaining(d, 0) = d.stages
  <2>1. PICK f : CountsDown(f, d, 0)
    BY CountdownExists
  <2> QED BY <2>1, RemainingIsCountdown DEF CountsDown
<1>2. ASSUME NEW n \in Nat
      PROVE  Remaining(d, n + 1) = Remaining(d, n) \ Ready(d, Remaining(d, n))
  <2>1. PICK f : CountsDown(f, d, n)
    BY CountdownExists
  <2>2. n + 1 \in Nat
    OBVIOUS
  <2>3. PICK g : CountsDown(g, d, n + 1)
    BY <2>2, CountdownExists
  <2>4. f[n] = g[n]
    BY <2>1, <2>2, <2>3, CountdownIsUnique
  <2>5. Remaining(d, n) = f[n] /\ Remaining(d, n + 1) = g[n + 1]
    BY <2>1, <2>2, <2>3, RemainingIsCountdown
  <2>6. g[n + 1] = g[n] \ Ready(d, g[n])
    BY <2>3 DEF CountsDown
  <2> QED BY <2>4, <2>5, <2>6
<1> QED BY <1>1, <1>2

(* Rounds only take off stages, and what a round took off is gone.         *)
LEMMA RemainingShrinks ==
  ASSUME NEW d, NEW n \in Nat, NEW m \in Nat, n <= m
  PROVE  Remaining(d, m) \subseteq Remaining(d, n)
<1> DEFINE Bad == {k \in Nat : n <= k /\ ~(Remaining(d, k) \subseteq Remaining(d, n))}
<1>1. ASSUME Bad # {}
      PROVE  FALSE
  <2>1. PICK k \in Bad : \A j \in Bad : k <= j
    BY <1>1, Least
  <2>2. PICK j \in Nat : k = j + 1 /\ n <= j
    <3>1. k # n /\ k - 1 \in Nat /\ n <= k - 1 /\ k = (k - 1) + 1
      BY <2>1
    <3> QED BY <3>1
  <2>3. Remaining(d, j) \subseteq Remaining(d, n)
    BY <2>1, <2>2
  <2>4. Remaining(d, j + 1) \subseteq Remaining(d, j)
    BY RemainingStep
  <2> QED BY <2>1, <2>2, <2>3, <2>4
<1> QED BY <1>1

LEMMA LevelFacts ==
  ASSUME NEW d, NEW n \in Nat \ {0}
  PROVE  /\ Level(d, n) \subseteq Remaining(d, n - 1) /\ Level(d, n) \subseteq d.stages
         /\ Remaining(d, n) = Remaining(d, n - 1) \ Level(d, n)
         /\ \A s \in Level(d, n) : Dependencies(d, s) \cap Remaining(d, n - 1) = {}
<1>1. n - 1 \in Nat /\ (n - 1) + 1 = n /\ 0 <= n - 1
  OBVIOUS
<1>2. Remaining(d, n) = Remaining(d, n - 1) \ Ready(d, Remaining(d, n - 1))
  BY <1>1, RemainingStep
<1>3. Remaining(d, n - 1) \subseteq d.stages
  BY <1>1, RemainingStep, RemainingShrinks
<1> QED BY <1>2, <1>3 DEF Level, Ready

(* A stage that is gone was in the level of one of the rounds, and in no   *)
(* other.                                                                  *)
LEMMA GoneHasLevel ==
  ASSUME NEW d, NEW n \in Nat, NEW s \in d.stages, s \notin Remaining(d, n)
  PROVE  \E m \in 1..n : s \in Level(d, m)
<1> DEFINE Bad == {k \in Nat : s \notin Remaining(d, k)}
<1>1. PICK k \in Bad : \A j \in Bad : k <= j
  BY Least
<1>2. k # 0 /\ k <= n
  BY <1>1, RemainingStep
<1>3. k - 1 \in Nat /\ k \in Nat \ {0} /\ s \in Remaining(d, k - 1)
  BY <1>1, <1>2
<1>4. s \in Level(d, k)
  BY <1>1, <1>3, LevelFacts
<1> QED BY <1>2, <1>3, <1>4

LEMMA LevelIsGone ==
  ASSUME NEW d, NEW m \in Nat \ {0}, NEW n \in Nat, m <= n, NEW s \in Level(d, m)
  PROVE  s \notin Remaining(d, n)
BY LevelFacts, RemainingShrinks

LEMMA LevelsAreDisjoint ==
  ASSUME NEW d, NEW m \in Nat \ {0}, NEW n \in Nat \ {0}, NEW s,
         s \in Level(d, m), s \in Level(d, n)
  PROVE  m = n
<1>1. ASSUME NEW i \in Nat \ {0}, NEW j \in Nat \ {0}, i < j, s \in Level(d, i), s \in Level(d, j)
      PROVE  FALSE
  <2>1. j - 1 \in Nat /\ i <= j - 1
    BY <1>1
  <2>2. s \notin Remaining(d, j - 1)
    BY <1>1, <2>1, LevelIsGone
  <2> QED BY <1>1, <2>2, LevelFacts
<1> QED BY <1>1

(* The number of levels of a graph that compiles.                          *)
LEMMA LevelCountFacts ==
  ASSUME NEW d, IsFiniteSet(d.stages), ~IsCyclic(d)
  PROVE  /\ LevelCount(d) \in 0..Cardinality(d.stages)
         /\ Remaining(d, LevelCount(d)) = {}
         /\ \A n \in Nat : n < LevelCount(d) => Remaining(d, n) # {}
<1>1. Cardinality(d.stages) \in Nat /\ Remaining(d, Cardinality(d.stages)) = {}
  BY FS_CardinalityType DEF IsCyclic
<1> DEFINE Done == {n \in Nat : Remaining(d, n) = {}}
           Is(n) == Remaining(d, n) = {} /\ (n = 0 \/ Remaining(d, n - 1) # {})
<1>2. PICK n \in Done : \A m \in Done : n <= m
  BY <1>1, Least
<1>3. n \in 0..Cardinality(d.stages) /\ Is(n)
  BY <1>1, <1>2
<1>4. LevelCount(d) \in 0..Cardinality(d.stages) /\ Is(LevelCount(d))
  <2>1. LevelCount(d) = CHOOSE k \in 0..Cardinality(d.stages) : Is(k)
    BY DEF LevelCount
  <2> HIDE DEF Is
  <2> QED BY <1>3, <2>1
<1>5. ASSUME NEW m \in Nat, m < LevelCount(d)
      PROVE  Remaining(d, m) # {}
  <2>1. LevelCount(d) \in Nat /\ LevelCount(d) - 1 \in Nat /\ m <= LevelCount(d) - 1
    BY <1>1, <1>4, <1>5
  <2>2. Remaining(d, LevelCount(d) - 1) \subseteq Remaining(d, m)
    BY <2>1, RemainingShrinks
  <2> QED BY <1>4, <1>5, <2>1, <2>2
<1> QED BY <1>4, <1>5

(* A graph that an order exists for loses a stage in every round.          *)
LEMMA OrderableHasReady ==
  ASSUME NEW d, ~NamesMissing(d), NEW rank \in [d.stages -> Nat], Orders(d, rank),
         NEW R \in SUBSET d.stages, R # {}
  PROVE  Ready(d, R) # {}
<1> DEFINE ranks == {rank[x] : x \in R}
<1>1. ranks \in SUBSET Nat /\ ranks # {}
  OBVIOUS
<1>2. PICK k \in ranks : \A j \in ranks : k <= j
  <2> HIDE DEF ranks
  <2> QED BY <1>1, Least
<1>3. PICK s \in R : rank[s] = k
  BY <1>2
<1>4. ASSUME NEW x \in Dependencies(d, s) \cap R
      PROVE  FALSE
  <2>1. rank[x] < rank[s] /\ rank[x] \in Nat /\ rank[s] \in Nat /\ rank[x] \in ranks
    BY <1>4 DEF Orders
  <2>2. k <= rank[x]
    BY <1>2, <2>1
  <2> QED BY <1>3, <2>1, <2>2
<1>5. s \in Ready(d, R)
  BY <1>4 DEF Ready
<1> QED BY <1>5

LEMMA CyclicIsNotOrderable ==
  ASSUME NEW d, IsFiniteSet(d.stages), ~NamesMissing(d), IsCyclic(d)
  PROVE  ~Orderable(d)
<1> SUFFICES ASSUME NEW rank \in [d.stages -> 1..Cardinality(d.stages)], Orders(d, rank)
             PROVE  FALSE
  BY DEF Orderable
<1> DEFINE N == Cardinality(d.stages)
           Fits(n) == Cardinality(Remaining(d, n)) <= N - n
           Bad == {n \in Nat : n <= N /\ ~Fits(n)}
<1>1. N \in Nat /\ rank \in [d.stages -> Nat]
  BY FS_CardinalityType
<1>2. \A n \in Nat : /\ Remaining(d, n) \subseteq d.stages
                     /\ IsFiniteSet(Remaining(d, n)) /\ Cardinality(Remaining(d, n)) \in Nat
  <2> SUFFICES ASSUME NEW n \in Nat
               PROVE  /\ Remaining(d, n) \subseteq d.stages
                      /\ IsFiniteSet(Remaining(d, n)) /\ Cardinality(Remaining(d, n)) \in Nat
    OBVIOUS
  <2>1. Remaining(d, n) \subseteq d.stages
    BY RemainingStep, RemainingShrinks
  <2>2. IsFiniteSet(Remaining(d, n))
    BY <2>1, FS_Subset
  <2> QED BY <2>1, <2>2, FS_CardinalityType
<1>3. ASSUME Bad # {}
      PROVE  FALSE
  <2>1. PICK k \in Bad : \A j \in Bad : k <= j
    <3>1. Bad \in SUBSET Nat
      OBVIOUS
    <3> HIDE DEF Bad
    <3> QED BY <1>3, <3>1, Least
  <2>2. k # 0
    BY <1>1, <2>1, RemainingStep
  <2>3. PICK j \in Nat : k = j + 1
    <3>1. k - 1 \in Nat /\ k = (k - 1) + 1
      BY <2>1, <2>2
    <3> QED BY <3>1
  <2>4. Cardinality(Remaining(d, j)) <= N - j
    BY <1>1, <2>1, <2>3
  <2> DEFINE R == Remaining(d, j)
             T == Remaining(d, k)
  <2>5. T = R \ Ready(d, R) /\ Ready(d, R) \subseteq R
    BY <2>3, RemainingStep DEF Ready
  <2>6. Cardinality(T) <= N - k
    <3>1. CASE R = {}
      <4>1. T = {}
        BY <2>5, <3>1
      <4>2. Cardinality(T) = 0
        BY <4>1, FS_EmptySet
      <4> HIDE DEF T, N
      <4> QED BY <1>1, <2>1, <4>2
    <3>2. CASE R # {}
      <4>1. PICK s \in R : s \notin T
        BY <1>1, <1>2, <2>5, <3>2, OrderableHasReady
      <4>2. T \subseteq R \ {s}
        BY <2>5, <4>1
      <4>3. Cardinality(R \ {s}) = Cardinality(R) - 1 /\ IsFiniteSet(R \ {s})
        BY <1>2, <4>1, FS_RemoveElement
      <4>4. Cardinality(T) <= Cardinality(R) - 1
        BY <4>2, <4>3, FS_Subset
      <4>5. Cardinality(T) \in Nat /\ Cardinality(R) \in Nat
        BY <1>2
      <4> HIDE DEF T, N, R
      <4> QED BY <1>1, <2>3, <2>4, <4>4, <4>5 DEF R
    <3> QED BY <3>1, <3>2
  <2> QED BY <2>1, <2>6
<1>4. Cardinality(Remaining(d, N)) <= 0
  BY <1>1, <1>3
<1>5. Remaining(d, N) = {}
  BY <1>1, <1>2, <1>4, FS_EmptySet
<1> QED BY <1>5 DEF IsCyclic

(* A graph that compiles has each stage in the least level that comes      *)
(* after those of what it waits for.                                       *)
LEMMA DependencyLevel ==
  ASSUME NEW d, ~NamesMissing(d), NEW n \in Nat \ {0}, NEW s \in Level(d, n),
         NEW x \in Dependencies(d, s)
  PROVE  x \in d.stages /\ \E m \in 1..(n - 1) : x \in Level(d, m)
<1>1. x \in d.stages /\ x \notin Remaining(d, n - 1)
  <2>1. s \in d.stages /\ Dependencies(d, s) \cap Remaining(d, n - 1) = {}
    BY LevelFacts
  <2>2. x \in d.stages
    BY <2>1 DEF Dependencies, NamesMissing
  <2> QED BY <2>1, <2>2
<1>2. n - 1 \in Nat
  OBVIOUS
<1> QED BY <1>1, <1>2, GoneHasLevel

LEMMA LevelsAreLeast ==
  ASSUME NEW d, IsFiniteSet(d.stages), Compiles(d)
  PROVE  LET levels == LevelsOf(d) IN
         /\ UNION {Level(d, n) : n \in 1..LevelCount(d)} = d.stages
         /\ Orders(d, levels)
         /\ \A s \in d.stages : levels[s] > 1 =>
              \E x \in Dependencies(d, s) : levels[x] = levels[s] - 1
<1> DEFINE levels == LevelsOf(d)
           N == LevelCount(d)
<1>1. N \in Nat /\ Remaining(d, N) = {} /\ ~NamesMissing(d)
  <2>1. Cardinality(d.stages) \in Nat
    BY FS_CardinalityType
  <2> QED BY <2>1, LevelCountFacts DEF Compiles
<1>2. \A s \in d.stages : \E n \in 1..N : s \in Level(d, n)
  BY <1>1, GoneHasLevel
<1>3. \A s \in d.stages : levels[s] \in 1..N /\ s \in Level(d, levels[s])
  BY <1>2 DEF LevelsOf
<1> HIDE DEF levels
<1>4. UNION {Level(d, n) : n \in 1..N} = d.stages
  <2>1. \A n \in 1..N : Level(d, n) \subseteq d.stages
    BY <1>1, LevelFacts
  <2> QED BY <1>2, <2>1
<1>5. \A s \in d.stages, m \in 1..N : s \in Level(d, m) => levels[s] = m
  BY <1>1, <1>3, LevelsAreDisjoint
<1>6. Orders(d, levels)
  <2> SUFFICES ASSUME NEW s \in d.stages, NEW x \in Dependencies(d, s)
               PROVE  levels[x] < levels[s]
    BY DEF Orders
  <2>1. levels[s] \in Nat \ {0} /\ levels[s] <= N /\ s \in Level(d, levels[s])
    BY <1>1, <1>3
  <2>2. x \in d.stages /\ \E m \in 1..(levels[s] - 1) : x \in Level(d, m)
    BY <1>1, <2>1, DependencyLevel
  <2>3. PICK m \in 1..(levels[s] - 1) : x \in Level(d, m)
    BY <2>2
  <2>4. m \in 1..N /\ m < levels[s]
    BY <1>1, <2>1
  <2> QED BY <1>5, <2>2, <2>3, <2>4
<1>7. ASSUME NEW s \in d.stages, levels[s] > 1
      PROVE  \E x \in Dependencies(d, s) : levels[x] = levels[s] - 1
  <2>1. PICK n \in Nat \ {0} : levels[s] = n + 1 /\ n \in 1..N /\ n - 1 \in Nat /\ n + 1 \in Nat \ {0}
    <3>1. levels[s] - 1 \in Nat \ {0} /\ levels[s] = (levels[s] - 1) + 1 /\ levels[s] - 1 \in 1..N
      BY <1>1, <1>3, <1>7
    <3> QED BY <3>1
  <2>2. s \in Level(d, n + 1)
    BY <1>3, <2>1
  <2>3. s \in Remaining(d, n) /\ Remaining(d, n) = Remaining(d, n - 1) \ Level(d, n)
    <3>1. (n + 1) - 1 = n
      BY <2>1
    <3> QED BY <2>1, <2>2, <3>1, LevelFacts
  <2>4. s \in Remaining(d, n - 1) /\ s \notin Ready(d, Remaining(d, n - 1))
    BY <2>3 DEF Level
  <2>5. PICK x \in Dependencies(d, s) : x \in Remaining(d, n - 1)
    BY <2>4 DEF Ready
  <2>6. Dependencies(d, s) \cap Remaining(d, n) = {}
    <3>1. (n + 1) - 1 = n
      BY <2>1
    <3> QED BY <2>1, <2>2, <3>1, LevelFacts
  <2>7. x \in Level(d, n) /\ x \in d.stages
    BY <2>1, <2>3, <2>5, <2>6, LevelFacts
  <2> QED BY <1>5, <2>1, <2>7
<1> QED BY <1>4, <1>6, <1>7 DEF levels

(* A graph with as many levels as stages has one stage in each.            *)
OneByOne(d) == LevelCount(d) = Cardinality(d.stages)

LEMMA LevelIsNotEmpty ==
  ASSUME NEW d, IsFiniteSet(d.stages), Compiles(d), NEW m \in 1..LevelCount(d)
  PROVE  Level(d, m) # {}
<1> DEFINE N == LevelCount(d)
           R == Remaining(d, m - 1)
           Bad == {k \in Nat : m - 1 <= k /\ Remaining(d, k) # R}
<1>1. /\ N \in Nat /\ Remaining(d, N) = {} /\ m - 1 \in Nat /\ m - 1 < N
      /\ \A k \in Nat : k < N => Remaining(d, k) # {}
  BY LevelCountFacts, FS_CardinalityType DEF Compiles
<1>2. SUFFICES ASSUME Ready(d, R) = {}
               PROVE  FALSE
  BY DEF Level
<1>3. PICK k \in Bad : \A j \in Bad : k <= j
  <2>1. N \in Bad /\ Bad \in SUBSET Nat
    BY <1>1
  <2> HIDE DEF Bad
  <2> QED BY <2>1, Least
<1>4. k # m - 1 /\ k - 1 \in Nat /\ m - 1 <= k - 1 /\ k = (k - 1) + 1 /\ k - 1 < k
  BY <1>1, <1>3
<1>5. Remaining(d, k - 1) = R
  BY <1>3, <1>4
<1>6. Remaining(d, k) = R
  BY <1>2, <1>4, <1>5, RemainingStep
<1> QED BY <1>3, <1>6

LEMMA OneStagePerLevel ==
  ASSUME NEW d, IsFiniteSet(d.stages), Compiles(d), OneByOne(d),
         NEW n \in 1..LevelCount(d), NEW s \in Level(d, n), NEW x \in Level(d, n)
  PROVE  s = x
<1> DEFINE N == LevelCount(d)
           levels == LevelsOf(d)
<1>1. N \in Nat /\ N = Cardinality(d.stages) /\ Remaining(d, N) = {}
  BY LevelCountFacts, FS_CardinalityType DEF Compiles, OneByOne
<1>2. \A y \in d.stages : levels[y] \in 1..N /\ y \in Level(d, levels[y])
  <2>1. \A y \in d.stages : \E m \in 1..N : y \in Level(d, m)
    BY <1>1, GoneHasLevel
  <2> QED BY <2>1 DEF LevelsOf
<1>3. levels \in [d.stages -> 1..N]
  BY <1>2 DEF LevelsOf
<1>4. \A m \in 1..N : Level(d, m) # {} /\ Level(d, m) \subseteq d.stages
  BY LevelIsNotEmpty, LevelFacts
<1> HIDE DEF N, levels
<1>5. \A y \in d.stages, m \in 1..N : y \in Level(d, m) => levels[y] = m
  <2> SUFFICES ASSUME NEW y \in d.stages, NEW m \in 1..N, y \in Level(d, m)
               PROVE  levels[y] = m
    OBVIOUS
  <2>1. levels[y] \in Nat \ {0} /\ m \in Nat \ {0} /\ y \in Level(d, levels[y])
    BY <1>1, <1>2
  <2> QED BY <2>1, LevelsAreDisjoint
<1>6. levels \in Surjection(d.stages, 1..N)
  BY <1>3, <1>4, <1>5 DEF Surjection
<1>7. Cardinality(1..N) = N
  BY <1>1, FS_Interval
<1>8. levels \in Injection(d.stages, 1..N)
  BY <1>1, <1>6, <1>7, FS_SurjSameCardinalityImpliesInj
<1>9. n \in 1..N /\ s \in d.stages /\ x \in d.stages
  BY <1>4 DEF N
<1>10. levels[s] = n /\ levels[x] = n
  BY <1>5, <1>9
<1> QED BY <1>8, <1>9, <1>10 DEF Injection, IsInjective

-----------------------------------------------------------------------------
(* What holds of a run by itself: stages behind its level are settled and  *)
(* wrote keys of their own, those ahead wait, it fails for a reason, and   *)
(* a run of one stage at a time leaves none behind when it ends.           *)
Passed(run, d) ==
  {s \in d.stages : run.status = "completed" \/ \E m \in 1..(run.level - 1) : s \in Level(d, m)}
WritersIn(run, d) == {s \in d.stages : s \in Level(d, run.level) /\ run.at[s] = "completed"}
ConflictIn(run, d) ==
  \E s \in WritersIn(run, d) :
    \/ d.writes[s] \cap run.keys # {}
    \/ \E x \in WritersIn(run, d) \ {s} : d.writes[s] \cap d.writes[x] # {}
FrameHolds(run, d, S) ==
  \A s \in S :
    run.at[s] = "completed" =>
      /\ d.writes[s] \subseteq run.keys
      /\ \A x \in S \ {s} : run.at[x] = "completed" => d.writes[s] \cap d.writes[x] = {}
IsForced(run, d, stopped, thrown) ==
  \/ stopped
  \/ thrown > 0
  \/ \E s \in d.stages : run.at[s] = "thrown" /\ d.failure[s] # "continue"
  \/ ConflictIn(run, d)

IsIdle(run, d) == \A s \in d.stages : run.at[s] # "busy"

RunIsSound(run, d, stopped, thrown) ==
  /\ run \in RunOf(d)
  /\ run.level \in 0..LevelCount(d)
  /\ run.level = 0 => run.status = "failed"
  /\ \A s \in d.stages :
       /\ run.attempt[s] <= d.retries[s] + 1
       /\ run.at[s] = "waiting" => run.attempt[s] = 0
       /\ run.at[s] = "thrown" => d.failure[s] # "continue" \/ thrown > 0
  /\ \A s \in Remaining(d, run.level) : run.at[s] = "waiting"
  /\ \A s \in Passed(run, d) : run.at[s] \in Settled
  /\ FrameHolds(run, d, Passed(run, d))
  /\ run.status = "failed" => IsForced(run, d, stopped, thrown)
  /\ OneByOne(d) /\ run.status # "running" => IsIdle(run, d)

(* What a journal tells of a run.                                          *)
Told(J, r, types) == {i \in DOMAIN J : J[i].run = r /\ J[i].type \in types}
Ends(J, r) == Told(J, r, {"pipeline-completed", "pipeline-failed"})
Starts(J, r) == Told(J, r, {"pipeline-started"})
Reports(J, r, s) == {i \in Told(J, r, {"pipeline-stage"}) : J[i].stage = s}
StartsFirst(J, r) == \A i \in Starts(J, r) : \A j \in DOMAIN J : J[j].run = r => i <= j
EndsLast(J, r) == \A i \in Told(J, r, {"pipeline-stage"}), j \in Ends(J, r) : i < j
JournalTells(J, r, run, d, thrown) ==
  /\ Starts(J, r) # {} /\ StartsFirst(J, r)
  /\ OneByOne(d) => EndsLast(J, r)
  /\ \A i, j \in Ends(J, r) : i = j
  /\ \A i \in Ends(J, r) : \E j \in Starts(J, r) : j < i
  /\ run.status = "running" => Ends(J, r) = {}
  /\ Ends(J, r) = {} => run.status = "running" \/ thrown > 0
  /\ \A s \in d.stages :
       /\ \A i, j \in Reports(J, r, s) : i = j
       /\ run.at[s] \in Settled <=> Reports(J, r, s) # {}
  /\ run.status = "completed" =>
       \A i \in Ends(J, r) : \A j \in Told(J, r, {"pipeline-stage", "pipeline-started"}) : j < i

CompiledIsSound ==
  /\ graphs \in Experiences
  /\ compiled \in {"none", CompileResult(graphs[Root])}
  /\ \A r \in Opened : compiled = "ok" /\ runs[Top] # None
NestedAreSound ==
  \A r \in Opened \ {Top} : r[2] <= runs[Top].attempt[r[1]]

(* A record names its run's Pipeline and, if of a stage, one of that.      *)
IsRecord(e) ==
  /\ e.turn = Root /\ e.pipeline = PipelineOf(e.run)
  /\ e.type \in {"pipeline-started", "pipeline-stage", "pipeline-completed", "pipeline-failed"}
  /\ e.type = "pipeline-stage" => e.stage \in G(e.run).stages

IInv ==
  /\ CompiledIsSound /\ NestedAreSound
  /\ DOMAIN runs = RunIds /\ cancelled \in BOOLEAN /\ faults \in 0..MaxFaults
  /\ \A r \in Opened :
       /\ RunIsSound(runs[r], G(r), cancelled, faults)
       /\ JournalTells(journal, r, runs[r], G(r), faults)
  /\ \E S : journal \in Seq(S)
  /\ \A i \in DOMAIN journal : journal[i].run \in Opened /\ IsRecord(journal[i])

-----------------------------------------------------------------------------
LEMMA AppendFacts ==
  ASSUME NEW S, NEW J \in Seq(S), NEW e
  PROVE  LET new == Append(J, e) IN
         /\ new \in Seq(S \cup {e})
         /\ Len(J) \in Nat /\ DOMAIN J = 1..Len(J) /\ DOMAIN new = 1..(Len(J) + 1)
         /\ \A i \in 1..Len(J) : new[i] = J[i]
         /\ new[Len(J) + 1] = e
<1>1. J \in Seq(S \cup {e}) /\ e \in S \cup {e}
  OBVIOUS
<1> QED BY <1>1

(* What is added to a journal.                                             *)
Extends(new, J) ==
  /\ \E n, m \in Nat : n <= m /\ DOMAIN J = 1..n /\ DOMAIN new = 1..m
  /\ \A i \in DOMAIN J : new[i] = J[i]
Added(new, J) == DOMAIN new \ DOMAIN J

LEMMA ExtendsFacts ==
  ASSUME NEW J, NEW new, Extends(new, J)
  PROVE  /\ DOMAIN J \subseteq DOMAIN new
         /\ \A i \in DOMAIN J, k \in Added(new, J) : i < k
         /\ \A i \in DOMAIN new : i \in Nat
         /\ \A r, types : /\ Told(J, r, types) \subseteq Told(new, r, types)
                          /\ \A i \in Told(new, r, types) :
                               i \in Told(J, r, types) \/ i \in Added(new, J)
         /\ \A r, s : /\ Reports(J, r, s) \subseteq Reports(new, r, s)
                      /\ \A i \in Reports(new, r, s) :
                           i \in Reports(J, r, s) \/ i \in Added(new, J)
<1>1. /\ DOMAIN J \subseteq DOMAIN new
      /\ \A i \in DOMAIN J, k \in Added(new, J) : i < k
      /\ \A i \in DOMAIN new : i \in Nat
  BY DEF Extends, Added
<1>2. \A i \in DOMAIN new : i \in DOMAIN J \/ i \in Added(new, J)
  BY DEF Added
<1>3. \A r, types : /\ Told(J, r, types) \subseteq Told(new, r, types)
                    /\ \A i \in Told(new, r, types) :
                         i \in Told(J, r, types) \/ i \in Added(new, J)
  BY <1>1, <1>2 DEF Extends, Told
<1>4. \A r, s : /\ Reports(J, r, s) \subseteq Reports(new, r, s)
                /\ \A i \in Reports(new, r, s) :
                     i \in Reports(J, r, s) \/ i \in Added(new, J)
  BY <1>1, <1>2 DEF Extends, Told, Reports
<1> QED BY <1>1, <1>3, <1>4

(* One record more tells nothing of other kinds.                           *)
LEMMA ToldIsKept ==
  ASSUME NEW J, NEW new, Extends(new, J), NEW k, Added(new, J) = {k},
         NEW r, NEW types, new[k].type \notin types
  PROVE  Told(new, r, types) = Told(J, r, types)
<1>1. k \notin Told(new, r, types)
  BY DEF Told
<1> QED BY <1>1, ExtendsFacts

(* Nothing new is told of a run: it goes on, or its end is not heard of.   *)
LEMMA JournalIsSilent ==
  ASSUME NEW J, NEW new, Extends(new, J), NEW r, \A k \in Added(new, J) : new[k].run # r,
         NEW d, NEW run, NEW next, NEW n \in Nat, NEW m \in Nat, n <= m,
         JournalTells(J, r, run, d, n),
         \A s \in d.stages : run.at[s] \in Settled <=> next.at[s] \in Settled,
         next.status = run.status \/ (next.status = "failed" /\ m > 0)
  PROVE  JournalTells(new, r, next, d, m)
<1>1. \A types : Told(new, r, types) = Told(J, r, types)
  BY ExtendsFacts DEF Told
<1>2. \A s : Reports(new, r, s) = Reports(J, r, s)
  <2> SUFFICES ASSUME NEW s
               PROVE  Reports(new, r, s) = Reports(J, r, s)
    OBVIOUS
  <2> QED BY ExtendsFacts DEF Told, Reports
<1>3. StartsFirst(J, r) => StartsFirst(new, r)
  BY <1>1 DEF StartsFirst, Starts, Extends, Added
<1>4. EndsLast(J, r) => EndsLast(new, r)
  BY <1>1 DEF EndsLast, Ends
<1> QED BY <1>1, <1>2, <1>3, <1>4 DEF JournalTells, Ends, Starts

LEMMA FirstStays ==
  ASSUME NEW J, NEW new, Extends(new, J), NEW r, NEW k, Added(new, J) = {k},
         StartsFirst(J, r), Starts(new, r) = Starts(J, r), \A i \in Starts(J, r) : i < k
  PROVE  StartsFirst(new, r)
<1> SUFFICES ASSUME NEW i \in Starts(J, r), NEW j \in DOMAIN new, new[j].run = r
             PROVE  i <= j
  BY DEF StartsFirst
<1>1. i \in Nat /\ j \in Nat
  BY ExtendsFacts DEF Starts, Told
<1>2. CASE j = k
  BY <1>1, <1>2
<1>3. CASE j # k
  <2>1. j \in DOMAIN J /\ J[j].run = r
    BY <1>3 DEF Extends, Added
  <2> QED BY <2>1 DEF StartsFirst
<1> QED BY <1>2, <1>3

(* A stage of a run is reported.                                           *)
LEMMA JournalReports ==
  ASSUME NEW J, NEW new, Extends(new, J), NEW r, NEW k, Added(new, J) = {k},
         new[k].run = r, new[k].type = "pipeline-stage",
         NEW d, NEW x \in d.stages, new[k].stage = x,
         NEW run, NEW next, NEW n, JournalTells(J, r, run, d, n),
         run.at[x] \notin Settled, next.at[x] \in Settled,
         \A s \in d.stages \ {x} : run.at[s] \in Settled <=> next.at[s] \in Settled,
         next.status = run.status, run.status # "completed",
         OneByOne(d) => run.status = "running"
  PROVE  JournalTells(new, r, next, d, n)
<1>1. Ends(new, r) = Ends(J, r) /\ Starts(new, r) = Starts(J, r)
  BY ToldIsKept DEF Ends, Starts
<1>2. \A s \in d.stages \ {x} : Reports(new, r, s) = Reports(J, r, s)
  <2> SUFFICES ASSUME NEW s \in d.stages \ {x}
               PROVE  Reports(new, r, s) = Reports(J, r, s)
    OBVIOUS
  <2>1. k \notin Reports(new, r, s)
    BY DEF Reports
  <2>2. /\ Reports(J, r, s) \subseteq Reports(new, r, s)
        /\ \A i \in Reports(new, r, s) : i \in Reports(J, r, s) \/ i \in Added(new, J)
    BY ExtendsFacts
  <2> QED BY <2>1, <2>2
<1>3. Reports(J, r, x) = {}
  BY DEF JournalTells
<1>4. k \in Reports(new, r, x)
  BY DEF Reports, Told, Added
<1>5. Reports(new, r, x) = {k}
  BY <1>3, <1>4, ExtendsFacts
<1>6. StartsFirst(new, r)
  <2>1. \A i \in Starts(J, r) : i < k
    BY ExtendsFacts DEF Starts, Told
  <2> QED BY <1>1, <2>1, FirstStays DEF JournalTells
<1>7. OneByOne(d) => EndsLast(new, r)
  BY <1>1 DEF JournalTells, EndsLast
<1> QED BY <1>1, <1>2, <1>5, <1>6, <1>7 DEF JournalTells

(* The end of a run is heard of.                                           *)
LEMMA JournalEnds ==
  ASSUME NEW J, NEW new, Extends(new, J), NEW r, NEW k, Added(new, J) = {k},
         new[k].run = r, new[k].type \in {"pipeline-completed", "pipeline-failed"},
         NEW d, NEW run, NEW next, NEW n, NEW m, JournalTells(J, r, run, d, n),
         run.status = "running",
         \A s \in d.stages : run.at[s] \in Settled <=> next.at[s] \in Settled,
         next.status \in {"completed", "failed"}
  PROVE  JournalTells(new, r, next, d, m)
<1>1. Ends(J, r) = {} /\ k \in Ends(new, r)
  BY DEF JournalTells, Ends, Told, Added
<1>2. Ends(new, r) = {k}
  BY <1>1, ExtendsFacts DEF Ends
<1>3. Told(new, r, {"pipeline-stage", "pipeline-started"})
        = Told(J, r, {"pipeline-stage", "pipeline-started"})
  BY ToldIsKept
<1>4. Starts(new, r) = Starts(J, r)
  BY ToldIsKept DEF Starts
<1>5. \A s : Reports(new, r, s) = Reports(J, r, s)
  <2> SUFFICES ASSUME NEW s
               PROVE  Reports(new, r, s) = Reports(J, r, s)
    OBVIOUS
  <2>1. k \notin Reports(new, r, s)
    BY DEF Reports, Told
  <2> QED BY <2>1, ExtendsFacts
<1>6. \A j \in Told(J, r, {"pipeline-stage", "pipeline-started"}) : j < k
  BY ExtendsFacts DEF Told
<1>7. \A j \in Starts(J, r) : j < k
  BY ExtendsFacts DEF Starts, Told
<1>8. StartsFirst(new, r)
  BY <1>4, <1>7, FirstStays DEF JournalTells
<1>9. EndsLast(new, r)
  BY <1>2, <1>3, <1>6 DEF EndsLast, Told
<1> QED BY <1>2, <1>3, <1>4, <1>5, <1>6, <1>7, <1>8, <1>9 DEF JournalTells

(* A run is first heard of when it starts.                                 *)
LEMMA JournalStarts ==
  ASSUME NEW J, NEW new, Extends(new, J), NEW r, NEW k \in Added(new, J),
         \A i \in DOMAIN J : J[i].run # r,
         \A i \in Added(new, J) : new[i].run = r => i = k,
         new[k].run = r, new[k].type = "pipeline-started",
         NEW d, NEW next, NEW n,
         next.status = "running", \A s \in d.stages : next.at[s] \notin Settled
  PROVE  JournalTells(new, r, next, d, n)
<1>1. \A types : Told(J, r, types) = {}
  BY DEF Told
<1>2. \A types : \A i \in Told(new, r, types) : i = k
  BY <1>1, ExtendsFacts DEF Told
<1>3. Ends(new, r) = {} /\ \A s : Reports(new, r, s) = {}
  BY <1>2 DEF Ends, Reports, Told
<1>4. k \in Starts(new, r)
  BY DEF Starts, Told, Added
<1>5. EndsLast(new, r)
  BY <1>3 DEF EndsLast
<1>6. StartsFirst(new, r)
  <2>1. \A j \in DOMAIN new : new[j].run = r => j = k
    BY DEF Extends, Added
  <2>2. k \in Nat /\ k <= k
    BY ExtendsFacts DEF Added
  <2> QED BY <1>2, <2>1, <2>2 DEF StartsFirst, Starts
<1> QED BY <1>3, <1>4, <1>5, <1>6 DEF JournalTells

-----------------------------------------------------------------------------
(* What happens to a run leaves it sound.                                  *)
LEMMA RunStays ==
  ASSUME NEW d, NEW run, NEW c, NEW e, c => e, NEW n \in Nat, NEW m \in Nat, n <= m,
         RunIsSound(run, d, c, n)
  PROVE  RunIsSound(run, d, e, m)
BY DEF RunIsSound, IsForced

(* An attempt settles or gives up.                                         *)
LEMMA StageSettles ==
  ASSUME NEW d, NEW run, NEW c, NEW n \in Nat, NEW m \in Nat, n <= m,
         RunIsSound(run, d, c, n), NEW x \in d.stages, run.at[x] = "busy",
         NEW outcome \in Settled \cup {"thrown"},
         outcome = "thrown" => d.failure[x] # "continue" \/ m > 0
  PROVE  RunIsSound([run EXCEPT !.at[x] = outcome], d, c, m)
<1> DEFINE next == [run EXCEPT !.at[x] = outcome]
<1>1. /\ next \in RunOf(d) /\ next.level = run.level /\ next.status = run.status
      /\ next.keys = run.keys /\ next.attempt = run.attempt /\ next.at[x] = outcome
      /\ \A s \in d.stages \ {x} : next.at[s] = run.at[s]
  BY DEF RunIsSound, RunOf, Places, Settled
<1> HIDE DEF next
<1>2. Passed(next, d) = Passed(run, d) /\ x \notin Passed(run, d)
  BY <1>1 DEF Passed, RunIsSound, Settled
<1>3. Passed(run, d) \subseteq d.stages
  BY DEF Passed
<1>4. FrameHolds(next, d, Passed(next, d))
  BY <1>1, <1>2, <1>3 DEF FrameHolds, RunIsSound
<1>5. x \notin Remaining(d, run.level)
  BY DEF RunIsSound
<1>6. ASSUME run.status = "failed"
      PROVE  IsForced(next, d, c, m)
  <2>1. IsForced(run, d, c, n)
    BY <1>6 DEF RunIsSound
  <2>3. CASE ConflictIn(run, d)
    <3>1. PICK s \in WritersIn(run, d) :
            \/ d.writes[s] \cap run.keys # {}
            \/ \E y \in WritersIn(run, d) \ {s} : d.writes[s] \cap d.writes[y] # {}
      BY <2>3 DEF ConflictIn
    <3>2. WritersIn(run, d) \subseteq WritersIn(next, d)
      <4>1. \A y \in WritersIn(run, d) : y \in d.stages \ {x}
        BY DEF WritersIn
      <4> QED BY <1>1, <4>1 DEF WritersIn
    <3> QED BY <1>1, <3>1, <3>2 DEF ConflictIn, IsForced
  <2>4. CASE \E s \in d.stages : run.at[s] = "thrown" /\ d.failure[s] # "continue"
    BY <1>1, <2>4 DEF IsForced
  <2> QED BY <2>1, <2>3, <2>4 DEF IsForced
<1>7. ASSUME NEW s \in d.stages
      PROVE  /\ next.attempt[s] <= d.retries[s] + 1
             /\ next.at[s] = "waiting" => next.attempt[s] = 0
             /\ next.at[s] = "thrown" => d.failure[s] # "continue" \/ m > 0
  BY <1>1 DEF RunIsSound, Settled
<1>8. \A s \in Remaining(d, run.level) : next.at[s] = "waiting"
  <2>1. run.level \in Nat
    BY DEF RunIsSound, RunOf
  <2>2. Remaining(d, run.level) \subseteq d.stages
    BY <2>1, RemainingStep, RemainingShrinks
  <2> QED BY <1>1, <1>5, <2>2 DEF RunIsSound
<1>9. \A s \in Passed(next, d) : next.at[s] \in Settled
  BY <1>1, <1>2, <1>3 DEF RunIsSound
<1>10. next.level \in 0..LevelCount(d) /\ (next.level = 0 => next.status = "failed")
  BY <1>1 DEF RunIsSound
<1>11. OneByOne(d) /\ next.status # "running" => IsIdle(next, d)
  BY <1>1 DEF RunIsSound, IsIdle
<1> QED BY <1>1, <1>4, <1>6, <1>7, <1>8, <1>9, <1>10, <1>11 DEF RunIsSound, next

(* Attempts begin.                                                         *)
LEMMA BusyFacts ==
  ASSUME NEW d, NEW run \in RunOf(d), NEW S
  PROVE  LET next == Busy(run, S) IN
         /\ next \in RunOf(d)
         /\ next.level = run.level /\ next.status = run.status /\ next.keys = run.keys
         /\ \A s \in d.stages :
              /\ next.at[s] = (IF s \in S THEN "busy" ELSE run.at[s])
              /\ next.attempt[s] = (IF s \in S THEN run.attempt[s] + 1 ELSE run.attempt[s])
<1> DEFINE at == [s \in d.stages |-> IF s \in S THEN "busy" ELSE run.at[s]]
           attempt == [s \in d.stages |-> IF s \in S THEN run.attempt[s] + 1 ELSE run.attempt[s]]
<1>1. DOMAIN run.at = d.stages /\ DOMAIN run.attempt = d.stages
  BY DEF RunOf
<1>2. Busy(run, S) = [run EXCEPT !.at = at, !.attempt = attempt]
  BY <1>1 DEF Busy
<1>3. at \in [d.stages -> Places] /\ attempt \in [d.stages -> Nat]
  BY DEF RunOf, Places
<1>4. /\ \A s \in d.stages : at[s] = IF s \in S THEN "busy" ELSE run.at[s]
      /\ \A s \in d.stages : attempt[s] = IF s \in S THEN run.attempt[s] + 1 ELSE run.attempt[s]
  OBVIOUS
<1> HIDE DEF at, attempt
<1> QED BY <1>2, <1>3, <1>4 DEF RunOf

(* A stage is tried again.                                                 *)
LEMMA StageRetries ==
  ASSUME NEW d, NEW run, NEW c, NEW n \in Nat, d.retries \in [d.stages -> Nat],
         RunIsSound(run, d, c, n), NEW x \in d.stages, run.at[x] = "busy",
         run.attempt[x] <= d.retries[x]
  PROVE  RunIsSound(Busy(run, {x}), d, c, n)
<1> DEFINE next == Busy(run, {x})
<1>1. /\ next \in RunOf(d) /\ next.level = run.level /\ next.status = run.status
      /\ next.keys = run.keys /\ next.attempt[x] = run.attempt[x] + 1
      /\ \A s \in d.stages \ {x} : next.attempt[s] = run.attempt[s]
      /\ \A s \in d.stages : next.at[s] = run.at[s] /\ run.attempt[s] \in Nat
      /\ Passed(run, d) \subseteq d.stages
  <2>1. run \in RunOf(d)
    BY DEF RunIsSound
  <2> QED BY <2>1, BusyFacts DEF RunOf, Passed
<1> HIDE DEF next
<1>2. Passed(next, d) = Passed(run, d)
  BY <1>1 DEF Passed
<1>3. IsForced(next, d, c, n) <=> IsForced(run, d, c, n)
  <2>1. WritersIn(next, d) = WritersIn(run, d)
    BY <1>1 DEF WritersIn
  <2> QED BY <1>1, <2>1 DEF IsForced, ConflictIn
<1>4. ASSUME NEW s \in d.stages
      PROVE  /\ next.attempt[s] <= d.retries[s] + 1
             /\ next.at[s] = "waiting" => next.attempt[s] = 0
             /\ next.at[s] = "thrown" => d.failure[s] # "continue" \/ n > 0
  BY <1>1 DEF RunIsSound
<1>5. FrameHolds(next, d, Passed(next, d))
  BY <1>1, <1>2 DEF RunIsSound, FrameHolds
<1>6. \A s \in Remaining(d, run.level) : next.at[s] = "waiting"
  <2>1. run.level \in Nat
    BY DEF RunIsSound, RunOf
  <2>2. Remaining(d, run.level) \subseteq d.stages
    BY <2>1, RemainingStep, RemainingShrinks
  <2> QED BY <1>1, <2>2 DEF RunIsSound
<1>7. \A s \in Passed(next, d) : next.at[s] \in Settled
  BY <1>1, <1>2 DEF RunIsSound
<1>8. /\ next.level \in 0..LevelCount(d) /\ (next.level = 0 => next.status = "failed")
      /\ run.status = "failed" => IsForced(run, d, c, n)
  BY <1>1 DEF RunIsSound
<1>9. OneByOne(d) /\ next.status # "running" => IsIdle(next, d)
  BY <1>1 DEF RunIsSound, IsIdle
<1> QED BY <1>1, <1>3, <1>4, <1>5, <1>6, <1>7, <1>8, <1>9 DEF RunIsSound, next

(* A stage of the current level that is not busy is the only one to be so. *)
LEMMA LevelIsIdle ==
  ASSUME NEW d, NEW run, NEW c, NEW n, RunIsSound(run, d, c, n), run.level # 0,
         IsFiniteSet(d.stages), Compiles(d),
         \/ \E s \in Level(d, run.level) : run.at[s] # "busy"
         \/ \A s \in Level(d, run.level) : run.at[s] # "busy"
  PROVE  OneByOne(d) => IsIdle(run, d)
<1> SUFFICES ASSUME OneByOne(d), NEW x \in d.stages, run.at[x] = "busy"
             PROVE  FALSE
  BY DEF IsIdle
<1>1. run.level \in 1..LevelCount(d) /\ run.level \in Nat
  BY LevelCountFacts, FS_CardinalityType DEF RunIsSound, RunOf, Compiles
<1>2. x \notin Remaining(d, run.level) /\ x \notin Passed(run, d)
  BY DEF RunIsSound, Settled
<1>3. PICK m \in 1..run.level : x \in Level(d, m)
  BY <1>1, <1>2, GoneHasLevel
<1>4. m = run.level
  <2>1. m \notin 1..(run.level - 1)
    BY <1>2, <1>3 DEF Passed
  <2> QED BY <1>1, <2>1
<1> QED BY <1>1, <1>3, <1>4, OneStagePerLevel

(* The run fails, for a reason.                                            *)
LEMMA RunFails ==
  ASSUME NEW d, NEW run, NEW c, NEW n \in Nat, NEW m \in Nat, n <= m,
         RunIsSound(run, d, c, n), run.status = "running", IsForced(run, d, c, m),
         OneByOne(d) => IsIdle(run, d)
  PROVE  RunIsSound([run EXCEPT !.status = "failed"], d, c, m)
<1> DEFINE next == [run EXCEPT !.status = "failed"]
<1>1. /\ next \in RunOf(d) /\ next.level = run.level /\ next.status = "failed"
      /\ next.keys = run.keys /\ next.attempt = run.attempt /\ next.at = run.at
  BY DEF RunIsSound, RunOf, Statuses
<1> HIDE DEF next
<1>2. Passed(next, d) = Passed(run, d) /\ WritersIn(next, d) = WritersIn(run, d)
  BY <1>1 DEF Passed, WritersIn
<1>3. FrameHolds(next, d, Passed(next, d))
  BY <1>1, <1>2 DEF RunIsSound, FrameHolds
<1>4. IsForced(next, d, c, m)
  BY <1>1, <1>2 DEF IsForced, ConflictIn
<1>5. ASSUME NEW s \in d.stages
      PROVE  /\ next.attempt[s] <= d.retries[s] + 1
             /\ next.at[s] = "waiting" => next.attempt[s] = 0
             /\ next.at[s] = "thrown" => d.failure[s] # "continue" \/ m > 0
  BY <1>1 DEF RunIsSound
<1>6. OneByOne(d) => IsIdle(next, d)
  BY <1>1 DEF IsIdle
<1> QED BY <1>1, <1>2, <1>3, <1>4, <1>5, <1>6 DEF RunIsSound, next

(* A level is done and its writes are kept.                                *)
Merged(run, d) == [run EXCEPT !.keys = @ \cup UNION {d.writes[s] : s \in WritersIn(run, d)}]
PassedAfter(run, d) == Passed(run, d) \cup {s \in d.stages : s \in Level(d, run.level)}

LEMMA LevelMerges ==
  ASSUME NEW d, NEW run, NEW c, NEW n \in Nat,
         RunIsSound(run, d, c, n), run.status = "running", ~ConflictIn(run, d)
  PROVE  LET next == Merged(run, d) IN
         /\ RunIsSound(next, d, c, n)
         /\ FrameHolds(next, d, PassedAfter(run, d))
         /\ next.level = run.level /\ next.status = "running"
         /\ next.attempt = run.attempt /\ next.at = run.at
<1> DEFINE next == Merged(run, d)
           new == UNION {d.writes[s] : s \in WritersIn(run, d)}
<1>1. /\ next \in RunOf(d) /\ next.level = run.level /\ next.status = "running"
      /\ next.keys = run.keys \cup new /\ next.attempt = run.attempt /\ next.at = run.at
  <2>1. new \subseteq UNION {d.writes[s] : s \in d.stages}
    BY DEF WritersIn
  <2>2. next = [run EXCEPT !.keys = run.keys \cup new]
    BY DEF Merged
  <2> HIDE DEF next, new
  <2> QED BY <2>1, <2>2 DEF RunIsSound, RunOf
<1>2. \A s \in WritersIn(run, d) : d.writes[s] \subseteq new
  OBVIOUS
<1> HIDE DEF next, new
<1>3. Passed(next, d) = Passed(run, d) /\ Passed(run, d) \subseteq PassedAfter(run, d)
  BY <1>1 DEF Passed, PassedAfter
<1>4. FrameHolds(next, d, PassedAfter(run, d))
  <2> SUFFICES ASSUME NEW s \in PassedAfter(run, d), run.at[s] = "completed"
               PROVE  /\ d.writes[s] \subseteq next.keys
                      /\ \A x \in PassedAfter(run, d) \ {s} :
                           run.at[x] = "completed" => d.writes[s] \cap d.writes[x] = {}
    BY <1>1 DEF FrameHolds
  <2>1. \A x \in PassedAfter(run, d) : run.at[x] = "completed" =>
          x \in Passed(run, d) \/ x \in WritersIn(run, d)
    BY DEF PassedAfter, WritersIn
  <2>2. FrameHolds(run, d, Passed(run, d))
    BY DEF RunIsSound
  <2>3. \A x \in Passed(run, d) : run.at[x] = "completed" => d.writes[x] \subseteq run.keys
    BY <2>2 DEF FrameHolds
  <2>4. ASSUME NEW x \in PassedAfter(run, d) \ {s}, run.at[x] = "completed"
        PROVE  d.writes[s] \cap d.writes[x] = {}
    <3>1. CASE s \in Passed(run, d) /\ x \in Passed(run, d)
      BY <2>2, <2>4, <3>1 DEF FrameHolds
    <3>2. CASE s \in Passed(run, d) /\ x \in WritersIn(run, d)
      BY <2>3, <3>2 DEF ConflictIn
    <3>3. CASE s \in WritersIn(run, d) /\ x \in Passed(run, d)
      BY <2>3, <2>4, <3>3 DEF ConflictIn
    <3>4. CASE s \in WritersIn(run, d) /\ x \in WritersIn(run, d)
      BY <2>4, <3>4 DEF ConflictIn
    <3> QED BY <2>1, <2>4, <3>1, <3>2, <3>3, <3>4
  <2>5. d.writes[s] \subseteq next.keys
    BY <1>1, <1>2, <2>1, <2>3
  <2> QED BY <2>4, <2>5
<1>5. FrameHolds(next, d, Passed(next, d))
  BY <1>3, <1>4 DEF FrameHolds
<1>6. ASSUME NEW s \in d.stages
      PROVE  /\ next.attempt[s] <= d.retries[s] + 1
             /\ next.at[s] = "waiting" => next.attempt[s] = 0
             /\ next.at[s] = "thrown" => d.failure[s] # "continue" \/ n > 0
  BY <1>1 DEF RunIsSound
<1>7. RunIsSound(next, d, c, n)
  BY <1>1, <1>3, <1>5, <1>6 DEF RunIsSound
<1> QED BY <1>1, <1>4, <1>7 DEF next

(* The next level begins.                                                  *)
LEMMA LevelBegins ==
  ASSUME NEW d, NEW run, NEW c, NEW n \in Nat, d.retries \in [d.stages -> Nat],
         RunIsSound(run, d, c, n), run.status = "running",
         FrameHolds(run, d, PassedAfter(run, d)),
         \A s \in Level(d, run.level) : run.at[s] \in Settled,
         Cardinality(d.stages) \in Nat, LevelCount(d) \in 0..Cardinality(d.stages),
         run.level # LevelCount(d),
         NEW k, k = run.level + 1
  PROVE  RunIsSound(Busy([run EXCEPT !.level = k], Level(d, k)), d, c, n)
<1> DEFINE mid == [run EXCEPT !.level = k]
           next == Busy(mid, Level(d, k))
<1>1. /\ run.level \in Nat /\ run.level # 0 /\ k \in Nat \ {0} /\ k - 1 = run.level
      /\ k \in 0..LevelCount(d) /\ k \in 0..Cardinality(d.stages)
  BY DEF RunIsSound
<1>2. /\ mid \in RunOf(d) /\ mid.level = k /\ mid.status = "running" /\ mid.keys = run.keys
      /\ mid.at = run.at /\ mid.attempt = run.attempt
  BY <1>1 DEF RunIsSound, RunOf
<1> HIDE DEF mid
<1>3. /\ next \in RunOf(d) /\ next.level = k /\ next.status = "running" /\ next.keys = run.keys
      /\ \A s \in d.stages :
           /\ next.at[s] = (IF s \in Level(d, k) THEN "busy" ELSE run.at[s])
           /\ next.attempt[s] = (IF s \in Level(d, k) THEN run.attempt[s] + 1 ELSE run.attempt[s])
  BY <1>2, BusyFacts
<1> HIDE DEF next
<1>4. /\ Level(d, k) \subseteq Remaining(d, run.level) /\ Level(d, k) \subseteq d.stages
      /\ Remaining(d, k) = Remaining(d, run.level) \ Level(d, k)
      /\ Remaining(d, run.level) \subseteq d.stages
  BY <1>1, LevelFacts, RemainingStep, RemainingShrinks
<1>5. \A s \in Level(d, k) : run.at[s] = "waiting" /\ run.attempt[s] = 0
  BY <1>4 DEF RunIsSound
<1>6. \A s \in Remaining(d, k) : next.at[s] = "waiting"
  BY <1>3, <1>4 DEF RunIsSound
<1>7. Passed(next, d) = PassedAfter(run, d) /\ Passed(next, d) \subseteq d.stages
  <2>1. \A m : m \in 1..(k - 1) <=> m \in 1..(run.level - 1) \/ m = run.level
    BY <1>1
  <2> QED BY <1>3, <2>1 DEF Passed, PassedAfter
<1>8. \A s \in PassedAfter(run, d) : run.at[s] \in Settled
  BY DEF RunIsSound, PassedAfter
<1>9. \A s \in Passed(next, d) : next.at[s] = run.at[s] /\ next.at[s] \in Settled
  <2>1. \A s \in PassedAfter(run, d) : s \notin Level(d, k)
    BY <1>5, <1>8 DEF Settled
  <2> QED BY <1>3, <1>7, <1>8, <2>1
<1>10. FrameHolds(next, d, Passed(next, d))
  BY <1>3, <1>7, <1>9 DEF FrameHolds
<1>11. ASSUME NEW s \in d.stages
       PROVE  /\ next.attempt[s] <= d.retries[s] + 1
              /\ next.at[s] = "waiting" => next.attempt[s] = 0
              /\ next.at[s] = "thrown" => d.failure[s] # "continue" \/ n > 0
  <2>1. CASE s \in Level(d, k)
    <3>1. next.attempt[s] = 1 /\ next.at[s] = "busy" /\ d.retries[s] \in Nat
      BY <1>3, <1>5, <2>1
    <3> QED BY <3>1
  <2>2. CASE s \notin Level(d, k)
    BY <1>3, <2>2 DEF RunIsSound
  <2> QED BY <2>1, <2>2
<1> QED BY <1>1, <1>3, <1>6, <1>9, <1>10, <1>11 DEF RunIsSound, next, mid

(* The last level is done.                                                 *)
LEMMA RunCompletes ==
  ASSUME NEW d, NEW run, NEW c, NEW n \in Nat,
         RunIsSound(run, d, c, n), run.status = "running",
         FrameHolds(run, d, PassedAfter(run, d)),
         \A s \in Level(d, run.level) : run.at[s] \in Settled,
         IsFiniteSet(d.stages), Compiles(d), run.level = LevelCount(d)
  PROVE  RunIsSound([run EXCEPT !.status = "completed"], d, c, n)
<1> DEFINE next == [run EXCEPT !.status = "completed"]
<1>1. /\ next \in RunOf(d) /\ next.level = run.level /\ next.status = "completed"
      /\ next.keys = run.keys /\ next.at = run.at /\ next.attempt = run.attempt
  BY DEF RunIsSound, RunOf, Statuses
<1> HIDE DEF next
<1>2. Remaining(d, run.level) = {} /\ run.level \in Nat
  BY LevelCountFacts DEF Compiles, RunIsSound, RunOf
<1>3. \A s \in d.stages : s \in PassedAfter(run, d)
  <2> SUFFICES ASSUME NEW s \in d.stages
               PROVE  s \in PassedAfter(run, d)
    OBVIOUS
  <2>1. PICK m \in 1..run.level : s \in Level(d, m)
    BY <1>2, GoneHasLevel
  <2>2. m \in 1..(run.level - 1) \/ m = run.level
    BY <1>2
  <2> QED BY <2>1, <2>2 DEF Passed, PassedAfter
<1>4. Passed(next, d) = d.stages /\ PassedAfter(run, d) = d.stages
  BY <1>1, <1>3 DEF Passed, PassedAfter
<1>5. \A s \in Passed(next, d) : next.at[s] \in Settled
  <2>1. \A s \in PassedAfter(run, d) : run.at[s] \in Settled
    BY DEF RunIsSound, PassedAfter
  <2> QED BY <1>1, <1>4, <2>1
<1>6. FrameHolds(next, d, Passed(next, d))
  BY <1>1, <1>4 DEF FrameHolds
<1>7. ASSUME NEW s \in d.stages
      PROVE  /\ next.attempt[s] <= d.retries[s] + 1
             /\ next.at[s] = "waiting" => next.attempt[s] = 0
             /\ next.at[s] = "thrown" => d.failure[s] # "continue" \/ n > 0
  BY <1>1 DEF RunIsSound
<1>8. IsIdle(next, d)
  BY <1>4, <1>5 DEF IsIdle, Settled
<1> QED BY <1>1, <1>5, <1>6, <1>7, <1>8 DEF RunIsSound, next

(* A run begins.                                                           *)
New(d) ==
  [level |-> 0, status |-> "running", keys |-> {},
   at |-> [s \in d.stages |-> "waiting"], attempt |-> [s \in d.stages |-> 0]]
First(d) == Busy([New(d) EXCEPT !.level = 1], Level(d, 1))

LEMMA RunBegins ==
  ASSUME NEW d, NEW c, NEW n \in Nat, d.retries \in [d.stages -> Nat],
         IsFiniteSet(d.stages), d.stages # {}, Compiles(d)
  PROVE  /\ RunIsSound(First(d), d, c, n)
         /\ First(d).status = "running"
         /\ \A s \in d.stages : First(d).at[s] \notin Settled
         /\ [Busy(New(d), Level(d, 1)) EXCEPT !.level = 1] = First(d)
<1> DEFINE mid == [New(d) EXCEPT !.level = 1]
           next == First(d)
<1>1. /\ Cardinality(d.stages) \in Nat /\ LevelCount(d) \in 1..Cardinality(d.stages)
  <2>1. /\ Cardinality(d.stages) \in Nat /\ LevelCount(d) \in 0..Cardinality(d.stages)
        /\ Remaining(d, LevelCount(d)) = {}
    BY LevelCountFacts, FS_CardinalityType DEF Compiles
  <2>2. LevelCount(d) # 0
    BY <2>1, RemainingStep
  <2> QED BY <2>1, <2>2
<1>2. /\ New(d) \in RunOf(d) /\ mid \in RunOf(d) /\ mid.level = 1
      /\ mid.status = "running" /\ mid.keys = {}
      /\ \A s \in d.stages : mid.at[s] = "waiting" /\ mid.attempt[s] = 0
  BY <1>1 DEF New, RunOf, Statuses, Places
<1>3. /\ next \in RunOf(d) /\ next.level = 1 /\ next.status = "running" /\ next.keys = {}
      /\ \A s \in d.stages :
           /\ next.at[s] = (IF s \in Level(d, 1) THEN "busy" ELSE "waiting")
           /\ next.attempt[s] = (IF s \in Level(d, 1) THEN 1 ELSE 0)
  <2> HIDE DEF mid
  <2>1. next = Busy(mid, Level(d, 1))
    BY DEF First, mid
  <2>2. /\ next \in RunOf(d)
        /\ next.level = mid.level /\ next.status = mid.status /\ next.keys = mid.keys
        /\ \A s \in d.stages :
             /\ next.at[s] = (IF s \in Level(d, 1) THEN "busy" ELSE mid.at[s])
             /\ next.attempt[s] = (IF s \in Level(d, 1) THEN mid.attempt[s] + 1 ELSE mid.attempt[s])
    <3> HIDE DEF next
    <3> QED BY <1>2, <2>1, BusyFacts
  <2> HIDE DEF next
  <2> QED BY <1>2, <2>2
<1>4. [Busy(New(d), Level(d, 1)) EXCEPT !.level = 1] = next
  BY DEF First, New, Busy
<1> HIDE DEF next
<1>5. Passed(next, d) = {}
  BY <1>3 DEF Passed
<1>6. \A s \in Remaining(d, 1) : next.at[s] = "waiting"
  <2>1. Remaining(d, 1) \subseteq d.stages /\ \A s \in Remaining(d, 1) : s \notin Level(d, 1)
    BY RemainingStep, RemainingShrinks, LevelFacts
  <2> QED BY <1>3, <2>1
<1>7. ASSUME NEW s \in d.stages
      PROVE  /\ next.attempt[s] <= d.retries[s] + 1
             /\ next.at[s] = "waiting" => next.attempt[s] = 0
             /\ next.at[s] = "thrown" => d.failure[s] # "continue" \/ n > 0
             /\ next.at[s] \notin Settled
  BY <1>3 DEF Settled
<1>8. RunIsSound(next, d, c, n)
  BY <1>1, <1>3, <1>5, <1>6, <1>7 DEF RunIsSound, FrameHolds
<1> QED BY <1>3, <1>4, <1>7, <1>8 DEF next

(* The run was cancelled before it began.                                  *)
LEMMA RunIsRefused ==
  ASSUME NEW d, NEW n \in Nat, d.retries \in [d.stages -> Nat],
         IsFiniteSet(d.stages), Compiles(d)
  PROVE  /\ RunIsSound([New(d) EXCEPT !.status = "failed"], d, TRUE, n)
         /\ \A s \in d.stages : [New(d) EXCEPT !.status = "failed"].at[s] = "waiting"
         /\ [New(d) EXCEPT !.status = "failed"].status = "failed"
<1> DEFINE next == [New(d) EXCEPT !.status = "failed"]
<1>1. Cardinality(d.stages) \in Nat /\ LevelCount(d) \in 0..Cardinality(d.stages)
  BY LevelCountFacts, FS_CardinalityType DEF Compiles
<1>2. /\ next \in RunOf(d) /\ next.level = 0 /\ next.status = "failed" /\ next.keys = {}
      /\ \A s \in d.stages : next.at[s] = "waiting" /\ next.attempt[s] = 0
  BY <1>1 DEF New, RunOf, Statuses, Places
<1> HIDE DEF next
<1>3. Passed(next, d) = {}
  BY <1>2 DEF Passed
<1>4. \A s \in Remaining(d, 0) : next.at[s] = "waiting"
  BY <1>2, RemainingStep
<1>5. \A s \in d.stages : next.attempt[s] <= d.retries[s] + 1
  BY <1>2
<1>6. IsIdle(next, d)
  BY <1>2 DEF IsIdle
<1> QED BY <1>1, <1>2, <1>3, <1>4, <1>5, <1>6 DEF RunIsSound, FrameHolds, IsForced, next

-----------------------------------------------------------------------------
(* The orders in which runs open contain each of them once.                *)
LEMMA OrderFacts ==
  ASSUME NEW S, IsFiniteSet(S), NEW order \in SetToSeqs(S)
  PROVE  \E m \in Nat :
           /\ DOMAIN order = 1..m /\ Len(order) = m
           /\ \A i \in 1..m : order[i] \in S
           /\ \A q \in S : \E i \in 1..m : order[i] = q
           /\ \A i, j \in 1..m : order[i] = order[j] => i = j
<1>1. PICK m \in Nat : m = Cardinality(S)
  BY FS_CardinalityType
<1>2. IsFiniteSet(1..m) /\ Cardinality(1..m) = m
  BY FS_Interval
<1>3. order \in [1..m -> S] /\ \A i, j \in 1..m : i # j => order[i] # order[j]
  BY <1>1 DEF SetToSeqs
<1>4. order \in Seq(S) /\ Len(order) = m /\ DOMAIN order = 1..m
  BY <1>3
<1>5. order \in Injection(1..m, S)
  BY <1>3 DEF Injection, IsInjective
<1>6. order \in Surjection(1..m, S)
  BY <1>1, <1>2, <1>5, FS_Injection
<1>7. \A q \in S : \E i \in 1..m : order[i] = q
  BY <1>6 DEF Surjection
<1> QED BY <1>3, <1>4, <1>7

Continues(new, J, K, m) ==
  /\ Extends(new, J) /\ \E V : new \in Seq(V)
  /\ \E n \in Nat :
       /\ \A k \in Added(new, J) : \E i \in 1..m : k = n + i
       /\ \A i \in 1..m : n + i \in Added(new, J) /\ new[n + i] = K[i]

LEMMA ConcatExtends ==
  ASSUME NEW S, NEW J \in Seq(S), NEW T, NEW K \in Seq(T), NEW m \in Nat, m = Len(K),
         NEW new, new = J \o K
  PROVE  Continues(new, J, K, m)
<1>1. PICK n \in Nat : n = Len(J)
  OBVIOUS
<1>2. J \in Seq(S \cup T) /\ K \in Seq(S \cup T)
  OBVIOUS
<1>3. new \in Seq(S \cup T) /\ Len(new) = n + m
  BY <1>1, <1>2
<1>4. DOMAIN J = 1..n /\ DOMAIN new = 1..(n + m)
  BY <1>1, <1>3
<1>5. \A i \in 1..n : new[i] = J[i]
  BY <1>1, <1>2
<1>6. \A i \in 1..m : new[n + i] = K[i]
  BY <1>1, <1>2
<1>7. Extends(new, J)
  <2>1. n + m \in Nat /\ n <= n + m
    OBVIOUS
  <2> QED BY <1>4, <1>5, <2>1 DEF Extends
<1>8. ASSUME NEW k \in Added(new, J)
      PROVE  \E i \in 1..m : k = n + i
  <2>1. k \in 1..(n + m) /\ k \notin 1..n
    BY <1>4 DEF Added
  <2>2. k - n \in 1..m /\ k = n + (k - n)
    BY <2>1
  <2> QED BY <2>2
<1>9. \A i \in 1..m : n + i \in Added(new, J)
  BY <1>4 DEF Added
<1> QED BY <1>3, <1>6, <1>7, <1>8, <1>9 DEF Continues

(* Each run that opens is heard of once.                                   *)
OpeningTold(new, J, S) ==
  /\ Extends(new, J) /\ \E V : new \in Seq(V)
  /\ \A k \in Added(new, J) : new[k].run \in S /\ IsRecord(new[k])
  /\ \A q \in S : \E k \in Added(new, J) :
       /\ new[k].run = q /\ new[k].type = "pipeline-started"
       /\ \A i \in Added(new, J) : new[i].run = q => i = k

LEMMA OpeningIsTold ==
  ASSUME NEW T, NEW J \in Seq(T), NEW S, IsFiniteSet(S), NEW order \in SetToSeqs(S),
         NEW new, new = J \o [i \in 1..Len(order) |-> Record(order[i], "pipeline-started")]
  PROVE  OpeningTold(new, J, S)
<1>1. PICK m \in Nat :
        /\ Len(order) = m
        /\ \A i \in 1..m : order[i] \in S
        /\ \A q \in S : \E i \in 1..m : order[i] = q
        /\ \A i, j \in 1..m : order[i] = order[j] => i = j
  BY OrderFacts
<1>2. PICK K : K = [i \in 1..m |-> Record(order[i], "pipeline-started")]
  OBVIOUS
<1>3. /\ \A i \in 1..m : K[i].run = order[i] /\ K[i].type = "pipeline-started" /\ IsRecord(K[i])
      /\ \E U : K \in Seq(U)
      /\ m = Len(K) /\ new = J \o K
  <2>1. \A i \in 1..m : K[i].run = order[i] /\ K[i].type = "pipeline-started" /\ IsRecord(K[i])
    BY <1>2 DEF Record, IsRecord
  <2>2. PICK U : U = {K[i] : i \in 1..m}
    OBVIOUS
  <2>3. K \in [1..m -> U]
    BY <1>2, <2>2
  <2>4. K \in Seq(U) /\ m = Len(K)
    BY <2>3
  <2> QED BY <1>1, <1>2, <2>1, <2>4
<1>4. Continues(new, J, K, m)
  <2>1. PICK U : K \in Seq(U)
    BY <1>3
  <2>2. m \in Nat /\ J \in Seq(T) /\ m = Len(K) /\ new = J \o K
    BY <1>3
  <2> QED BY <2>1, <2>2, ConcatExtends
<1>5. PICK n \in Nat :
        /\ \A k \in Added(new, J) : \E i \in 1..m : k = n + i
        /\ \A i \in 1..m : n + i \in Added(new, J) /\ new[n + i] = K[i]
  BY <1>4 DEF Continues
<1>6. \A i \in 1..m : new[n + i].run = order[i] /\ new[n + i].type = "pipeline-started"
  BY <1>3, <1>5
<1>7. ASSUME NEW k \in Added(new, J)
      PROVE  new[k].run \in S /\ IsRecord(new[k])
  <2>1. PICK i \in 1..m : k = n + i
    BY <1>5
  <2>2. IsRecord(new[k])
    BY <1>3, <1>5, <2>1
  <2> QED BY <1>1, <1>6, <2>1, <2>2
<1>8. ASSUME NEW q \in S
      PROVE  \E k \in Added(new, J) :
               /\ new[k].run = q /\ new[k].type = "pipeline-started"
               /\ \A i \in Added(new, J) : new[i].run = q => i = k
  <2>1. PICK i \in 1..m : order[i] = q
    BY <1>1
  <2>2. /\ n + i \in Added(new, J) /\ new[n + i].run = q
        /\ new[n + i].type = "pipeline-started"
    BY <1>5, <1>6, <2>1
  <2>3. ASSUME NEW k \in Added(new, J), new[k].run = q
        PROVE  k = n + i
    <3>1. PICK j \in 1..m : k = n + j
      BY <1>5
    <3>2. order[j] = q
      BY <1>6, <2>3, <3>1
    <3>3. i = j
      BY <1>1, <2>1, <3>2
    <3> QED BY <3>1, <3>3
  <2> QED BY <2>2, <2>3
<1> QED BY <1>4, <1>7, <1>8 DEF Continues, OpeningTold

ExtendsBoth(new, K, J) ==
  /\ Extends(new, J)
  /\ \A k \in Added(new, J) : k \in Added(new, K) \/ (k \in Added(K, J) /\ new[k] = K[k])

LEMMA ExtendsMore ==
  ASSUME NEW J, NEW K, NEW new, Extends(K, J), Extends(new, K)
  PROVE  ExtendsBoth(new, K, J)
<1>1. PICK a \in Nat, b \in Nat : a <= b /\ DOMAIN J = 1..a /\ DOMAIN K = 1..b
  BY DEF Extends
<1>2. PICK c \in Nat : b <= c /\ DOMAIN new = 1..c
  BY <1>1 DEF Extends
<1>3. \A i \in 1..a : i \in 1..b
  BY <1>1
<1>4. \A i \in DOMAIN J : new[i] = J[i]
  BY <1>1, <1>3 DEF Extends
<1>5. Extends(new, J)
  <2>1. a <= c
    BY <1>1, <1>2
  <2> QED BY <1>1, <1>2, <1>4, <2>1 DEF Extends
<1>6. ASSUME NEW k \in Added(new, J)
      PROVE  k \in Added(new, K) \/ (k \in Added(K, J) /\ new[k] = K[k])
  BY DEF Added, Extends
<1> QED BY <1>5, <1>6 DEF ExtendsBoth

LEMMA AppendExtends ==
  ASSUME NEW S, NEW J \in Seq(S), NEW e
  PROVE  LET new == Append(J, e) IN
         /\ Extends(new, J) /\ \E V : new \in Seq(V)
         /\ Added(new, J) = {Len(J) + 1} /\ new[Len(J) + 1] = e
<1>1. PICK n \in Nat : n = Len(J)
  OBVIOUS
<1>2. PICK new : new = Append(J, e)
  OBVIOUS
<1>3. /\ new \in Seq(S \cup {e}) /\ DOMAIN J = 1..n /\ DOMAIN new = 1..(n + 1)
      /\ \A i \in 1..n : new[i] = J[i]
      /\ new[n + 1] = e
  BY <1>1, <1>2, AppendFacts
<1>4. n + 1 \in Nat /\ n <= n + 1
  OBVIOUS
<1>5. Extends(new, J)
  BY <1>3, <1>4 DEF Extends
<1>6. Added(new, J) = {n + 1}
  BY <1>3 DEF Added
<1> QED BY <1>1, <1>2, <1>3, <1>5, <1>6

LEMMA NothingExtends ==
  ASSUME NEW S, NEW J \in Seq(S)
  PROVE  Extends(J, J) /\ Added(J, J) = {}
<1>1. PICK n \in Nat : DOMAIN J = 1..n
  <2>1. Len(J) \in Nat /\ DOMAIN J = 1..Len(J)
    OBVIOUS
  <2> QED BY <2>1
<1>2. Extends(J, J)
  <2>1. n <= n
    OBVIOUS
  <2> QED BY <1>1, <2>1 DEF Extends
<1> QED BY <1>2 DEF Added

(* A step of run r writes of r, then of the runs in S that open.           *)
Writes(J, old, r) ==
  Extends(J, old) /\ \A k \in Added(J, old) : J[k].run = r /\ IsRecord(J[k])

LEMMA OpenerIsTold ==
  ASSUME NEW J, NEW new, NEW S, OpeningTold(new, J, S), NEW r, r \notin S,
         NEW d, NEW run, NEW n \in Nat, JournalTells(J, r, run, d, n)
  PROVE  JournalTells(new, r, run, d, n)
<1>1. \A k \in Added(new, J) : new[k].run # r
  BY DEF OpeningTold
<1>2. Extends(new, J)
  BY DEF OpeningTold
<1>3. n <= n
  OBVIOUS
<1> QED BY <1>1, <1>2, <1>3, JournalIsSilent

LEMMA OpenedIsTold ==
  ASSUME NEW J, NEW new, NEW S, OpeningTold(new, J, S), NEW q \in S,
         \A i \in DOMAIN J : J[i].run # q,
         NEW d, NEW next, NEW n,
         next.status = "running", \A s \in d.stages : next.at[s] \notin Settled
  PROVE  JournalTells(new, q, next, d, n)
<1>1. PICK k \in Added(new, J) :
        /\ new[k].run = q /\ new[k].type = "pipeline-started"
        /\ \A i \in Added(new, J) : new[i].run = q => i = k
  BY DEF OpeningTold
<1>2. Extends(new, J)
  BY DEF OpeningTold
<1> QED BY <1>1, <1>2, JournalStarts

LEMMA OtherIsTold ==
  ASSUME NEW old, NEW J, NEW new, NEW S, NEW r, Writes(J, old, r), OpeningTold(new, J, S),
         NEW q, q # r, q \notin S,
         NEW d, NEW run, NEW n \in Nat, NEW m \in Nat, n <= m, JournalTells(old, q, run, d, n)
  PROVE  JournalTells(new, q, run, d, m)
<1>1. Extends(J, old) /\ Extends(new, J)
  BY DEF Writes, OpeningTold
<1>2. ExtendsBoth(new, J, old)
  BY <1>1, ExtendsMore
<1>3. Extends(new, old) /\ \A k \in Added(new, old) : new[k].run # q
  BY <1>2 DEF ExtendsBoth, Writes, OpeningTold
<1> QED BY <1>3, JournalIsSilent

AreOf(J, old, S) ==
  \A i \in DOMAIN J :
    (J[i].run \in S /\ IsRecord(J[i])) \/ (i \in DOMAIN old /\ J[i] = old[i])

LEMMA ToldOf ==
  ASSUME NEW old, NEW J, NEW new, NEW S, NEW r, Writes(J, old, r), OpeningTold(new, J, S)
  PROVE  AreOf(J, old, {r}) /\ AreOf(new, old, S \cup {r})
<1>1. AreOf(J, old, {r})
  BY DEF Writes, Extends, Added, AreOf
<1>2. \A i \in DOMAIN new :
        (new[i].run \in S /\ IsRecord(new[i])) \/ (i \in DOMAIN J /\ new[i] = J[i])
  BY DEF OpeningTold, Extends, Added
<1> QED BY <1>1, <1>2 DEF AreOf

-----------------------------------------------------------------------------
LEMMA GraphFacts ==
  ASSUME CompiledIsSound
  PROVE  /\ \A r \in RunIds :
              /\ IsFiniteSet(G(r).stages) /\ G(r).stages # {}
              /\ G(r).retries \in [G(r).stages -> Nat]
              /\ None \notin RunOf(G(r))
              /\ r # Top => Compiles(G(r)) /\ r[1] \in Nested /\ r[2] \in Nat
              /\ compiled = "ok" => Compiles(G(r))
         /\ Top \in RunIds /\ G(Top) = graphs[Root]
         /\ \A s \in Nested : \A a \in 1..(graphs[Root].retries[s] + 1) :
              <<s, a>> \in RunIds /\ <<s, a>> # Top
<1>1. graphs \in Experiences /\ Root \in DOMAIN graphs
  BY GraphsAssumption DEF CompiledIsSound
<1>2. ASSUME NEW p \in DOMAIN graphs
      PROVE  /\ IsFiniteSet(graphs[p].stages) /\ graphs[p].stages # {}
             /\ graphs[p].retries \in [graphs[p].stages -> Nat]
             /\ Invoked(graphs[p]) \subseteq DOMAIN graphs \ {Root}
             /\ None \notin RunOf(graphs[p])
             /\ p # Root => Compiles(graphs[p])
  BY <1>1, GraphsAssumption, NestingAssumption
<1>3. Top \in RunIds /\ PipelineOf(Top) = Root /\ G(Top) = graphs[Root]
  BY DEF RunIds, RunIdsOf, PipelineOf, G
<1>4. ASSUME NEW s \in Nested, NEW a \in 1..(graphs[Root].retries[s] + 1)
      PROVE  /\ <<s, a>> \in RunIds /\ <<s, a>> # Top
             /\ PipelineOf(<<s, a>>) \in DOMAIN graphs \ {Root} /\ a \in Nat
  <2>1. s \in graphs[Root].stages /\ graphs[Root].invokes[s] # None
    BY DEF Nested
  <2>2. graphs[Root].retries[s] + 1 \in Nat
    BY <1>1, <1>2, <2>1
  <2>3. <<s, a>> # Top
    BY DEF Top
  <2>4. graphs[Root].invokes[s] \in Invoked(graphs[Root])
    BY <2>1 DEF Invoked
  <2>5. PipelineOf(<<s, a>>) = graphs[Root].invokes[s]
    BY <2>3 DEF PipelineOf
  <2>6. <<s, a>> \in RunIds
    BY <2>1 DEF RunIds, RunIdsOf
  <2> QED BY <1>1, <1>2, <2>2, <2>3, <2>4, <2>5, <2>6
<1>5. ASSUME NEW r \in RunIds, r # Top
      PROVE  PipelineOf(r) \in DOMAIN graphs \ {Root} /\ r[1] \in Nested /\ r[2] \in Nat
  <2>1. PICK s \in Nested : \E a \in 1..(graphs[Root].retries[s] + 1) : r = <<s, a>>
    BY <1>5 DEF RunIds, RunIdsOf, Nested
  <2> QED BY <1>4, <2>1
<1>6. compiled = "ok" => Compiles(graphs[Root])
  BY DEF CompiledIsSound, CompileResult, Compiles
<1> QED BY <1>1, <1>2, <1>3, <1>4, <1>5, <1>6 DEF G

(* A run moves on, or begins, and opens others; all that it does is told.  *)
Goes(r) ==
  /\ graphs' = graphs /\ compiled = "ok" /\ compiled' = "ok" /\ cancelled' = cancelled
  /\ faults' \in faults..MaxFaults
  /\ r \in RunIds /\ (r \in Opened \/ (r = Top /\ Opened = {}))
Becomes(r, next) ==
  /\ RunIsSound(next, G(r), cancelled, faults')
  /\ r \in Opened => \A s \in G(r).stages : runs[r].attempt[s] <= next.attempt[s]
Tells(r, next, J) ==
  /\ \E S : J \in Seq(S)
  /\ Writes(J, journal, r) /\ JournalTells(J, r, next, G(r), faults')
Opens(r, next, J, opened, order) ==
  /\ opened \in SUBSET (RunIds \ (Opened \cup {Top})) /\ IsFiniteSet(opened)
  /\ \A q \in opened : r = Top /\ q[2] <= next.attempt[q[1]]
  /\ order \in SetToSeqs(opened)
  /\ DOMAIN runs' = RunIds
  /\ \A q \in RunIds : runs'[q] = IF q = r THEN next ELSE IF q \in opened THEN NestedStart(q)
                                   ELSE runs[q]
  /\ journal' = J \o [i \in 1..Len(order) |-> Record(order[i], "pipeline-started")]

LEMMA StepIsSound ==
  ASSUME IInv, NEW r, NEW next, NEW J, NEW opened, NEW order,
         Goes(r), Becomes(r, next), Tells(r, next, J), Opens(r, next, J, opened, order)
  PROVE  IInv'
<1> USE DEF Goes, Becomes, Tells, Opens
<1> USE DEF Opened
<1>1. (\A q : G(q)' = G(q)) /\ RunIds' = RunIds
  <2>1. \A q : G(q)' = G(q)
    BY DEF G, PipelineOf
  <2>2. RunIds' = RunIds
    BY DEF RunIds
  <2> QED BY <2>1, <2>2
<1>2. CompiledIsSound
  BY DEF IInv
<1>3. faults \in Nat /\ faults' \in Nat /\ faults <= faults' /\ faults' \in 0..MaxFaults
  BY FaultsAssumption DEF IInv
<1>4. next # None
  BY <1>2, GraphFacts DEF RunIsSound
<1>5. \A q \in opened : NestedStart(q) = First(G(q)) /\ NestedStart(q) # None
        /\ RunIsSound(First(G(q)), G(q), cancelled, faults')
        /\ First(G(q)).status = "running" /\ \A s \in G(q).stages : First(G(q)).at[s] \notin Settled
  <2> SUFFICES ASSUME NEW q \in opened
               PROVE  NestedStart(q) = First(G(q)) /\ NestedStart(q) # None
        /\ RunIsSound(First(G(q)), G(q), cancelled, faults')
        /\ First(G(q)).status = "running" /\ \A s \in G(q).stages : First(G(q)).at[s] \notin Settled
    OBVIOUS
  <2>1. NestedStart(q) = [Busy(New(G(q)), Level(G(q), 1)) EXCEPT !.level = 1]
    BY DEF NestedStart, NewRun, New
  <2>2. /\ IsFiniteSet(G(q).stages) /\ G(q).stages # {} /\ G(q).retries \in [G(q).stages -> Nat]
        /\ None \notin RunOf(G(q)) /\ Compiles(G(q))
    BY <1>2, GraphFacts
  <2>3. /\ RunIsSound(First(G(q)), G(q), cancelled, faults')
        /\ First(G(q)).status = "running" /\ \A s \in G(q).stages : First(G(q)).at[s] \notin Settled
        /\ NestedStart(q) = First(G(q))
    BY <1>3, <2>1, <2>2, RunBegins
  <2> QED BY <2>2, <2>3 DEF RunIsSound
<1>6. /\ Opened \subseteq Opened' /\ r \in Opened' /\ opened \subseteq Opened'
      /\ \A q \in Opened' : q \in RunIds /\ (q = r \/ q \in opened \/ q \in Opened)
  BY <1>1, <1>4, <1>5
<1> PICK new : new = journal'
  OBVIOUS
<1> PICK thrown : thrown = faults'
  OBVIOUS
<1>7. OpeningTold(new, J, opened)
  <2>1. PICK S : J \in Seq(S)
    OBVIOUS
  <2> QED BY <2>1, OpeningIsTold
<1>8. AreOf(J, journal, {r}) /\ AreOf(new, journal, opened \cup {r})
  BY <1>7, ToldOf
<1>9. \A i \in DOMAIN journal : journal[i].run \in Opened /\ IsRecord(journal[i])
  BY DEF IInv
<1>10. CompiledIsSound'
  <2>1. r # Top => runs[Top] # None
    BY <1>2 DEF CompiledIsSound
  <2>2. runs'[Top] # None
    BY <1>2, <1>4, <1>6, <2>1, GraphFacts
  <2> QED BY <1>1, <1>2, <2>2 DEF CompiledIsSound
<1>11. NestedAreSound'
  <2> SUFFICES ASSUME NEW q \in Opened', q # Top
               PROVE  q[2] <= runs'[Top].attempt[q[1]]
    BY <1>1 DEF NestedAreSound
  <2>1. q[1] \in G(Top).stages /\ q[2] \in Nat /\ Top \in RunIds
    BY <1>2, <1>6, GraphFacts DEF Nested
  <2>2. CASE q \in opened
    BY <1>6, <2>1, <2>2
  <2>3. CASE q \notin opened
    <3>1. q \in Opened /\ r \in Opened
      BY <1>6, <2>3
    <3>2. q[2] <= runs[Top].attempt[q[1]] /\ Top \in Opened
      BY <1>2, <2>1, <3>1 DEF IInv, NestedAreSound, CompiledIsSound
    <3>3. CASE r = Top
      <4>1. runs[Top].attempt[q[1]] <= next.attempt[q[1]]
        BY <2>1, <3>1, <3>3
      <4>2. runs[Top].attempt[q[1]] \in Nat /\ next.attempt[q[1]] \in Nat
        BY <2>1, <3>2, <3>3 DEF IInv, RunIsSound, RunOf
      <4> QED BY <2>1, <3>2, <3>3, <4>1, <4>2
    <3>4. CASE r # Top
      BY <2>1, <3>2, <3>4
    <3> QED BY <3>3, <3>4
  <2> QED BY <2>2, <2>3
<1>12. \A q \in Opened' : /\ RunIsSound(runs'[q], G(q), cancelled, thrown)
                          /\ JournalTells(new, q, runs'[q], G(q), thrown)
  <2> SUFFICES ASSUME NEW q \in Opened'
               PROVE  /\ RunIsSound(runs'[q], G(q), cancelled, thrown)
                      /\ JournalTells(new, q, runs'[q], G(q), thrown)
    OBVIOUS
  <2>1. CASE q = r
    <3>1. runs'[q] = next /\ r \notin opened
      BY <2>1
    <3>2. JournalTells(new, r, next, G(r), thrown)
      BY <1>3, <1>7, <3>1, OpenerIsTold
    <3> QED BY <2>1, <3>1, <3>2
  <2>2. CASE q \in opened
    <3>1. runs'[q] = First(G(q)) /\ q # r
      BY <1>5, <2>2
    <3>2. \A i \in DOMAIN J : J[i].run # q
      BY <1>8, <1>9, <2>2, <3>1 DEF AreOf
    <3>3. JournalTells(new, q, First(G(q)), G(q), thrown)
      BY <1>5, <1>7, <2>2, <3>2, OpenedIsTold
    <3> QED BY <1>5, <2>2, <3>1, <3>3
  <2>3. CASE q # r /\ q \notin opened
    <3>1. q \in Opened /\ runs'[q] = runs[q]
      BY <1>6, <2>3
    <3>2. RunIsSound(runs[q], G(q), cancelled, faults) /\ JournalTells(journal, q, runs[q], G(q), faults)
      BY <3>1 DEF IInv
    <3>3. JournalTells(new, q, runs[q], G(q), thrown)
      BY <1>3, <1>7, <2>3, <3>2, OtherIsTold
    <3>4. RunIsSound(runs[q], G(q), cancelled, thrown)
      BY <1>3, <3>2, RunStays
    <3> QED BY <3>1, <3>3, <3>4
  <2> QED BY <1>6, <2>1, <2>2, <2>3
<1>13. \A i \in DOMAIN new : new[i].run \in Opened' /\ IsRecord(new[i])
  <2> TAKE i \in DOMAIN new
  <2>1. (new[i].run \in opened \cup {r} /\ IsRecord(new[i]))
        \/ (i \in DOMAIN journal /\ new[i] = journal[i])
    BY <1>8 DEF AreOf
  <2>2. opened \cup {r} \subseteq Opened' /\ Opened \subseteq Opened'
    BY <1>6
  <2>3. CASE new[i].run \in opened \cup {r} /\ IsRecord(new[i])
    BY <2>2, <2>3
  <2>4. CASE i \in DOMAIN journal /\ new[i] = journal[i]
    BY <1>9, <2>2, <2>4
  <2> QED BY <2>1, <2>3, <2>4
<1>14. \A e : IsRecord(e)' <=> IsRecord(e)
  BY <1>1 DEF IsRecord, PipelineOf
<1> QED BY <1>1, <1>3, <1>7, <1>10, <1>11, <1>12, <1>13, <1>14 DEF IInv, OpeningTold

LEMMA RunMoves ==
  ASSUME IInv, NEW r, NEW next, Goes(r), Becomes(r, next), Tells(r, next, journal'),
         runs' = [runs EXCEPT ![r] = next]
  PROVE  IInv'
<1> USE DEF Goes
<1>1. /\ DOMAIN runs' = RunIds
      /\ \A q \in RunIds : runs'[q] = IF q = r THEN next ELSE runs[q]
  BY DEF IInv
<1>2. PICK opened : opened = {}
  OBVIOUS
<1>3. /\ opened \in SUBSET (RunIds \ (Opened \cup {Top})) /\ IsFiniteSet(opened)
      /\ \A q \in opened : FALSE
  BY <1>2, FS_EmptySet
<1>4. PICK order : order = <<>>
  OBVIOUS
<1>5. order \in SetToSeqs(opened)
  <2>1. Cardinality({}) = 0
    BY FS_EmptySet
  <2>2. 1..0 = {}
    OBVIOUS
  <2> QED BY <1>2, <1>4, <2>1, <2>2 DEF SetToSeqs
<1>6. journal' = journal' \o [i \in 1..Len(order) |-> Record(order[i], "pipeline-started")]
  <2>1. PICK S : journal' \in Seq(S)
    BY DEF Tells
  <2>2. [i \in 1..Len(order) |-> Record(order[i], "pipeline-started")] = <<>>
    BY <1>4
  <2> QED BY <2>1, <2>2
<1>7. \A q \in RunIds : runs'[q] = IF q = r THEN next ELSE IF q \in opened THEN NestedStart(q)
                                   ELSE runs[q]
  BY <1>1, <1>3
<1>8. PICK J : J = journal'
  OBVIOUS
<1>9. /\ Tells(r, next, J)
      /\ journal' = J \o [i \in 1..Len(order) |-> Record(order[i], "pipeline-started")]
  BY <1>6, <1>8
<1>10. \A q \in opened : r = Top /\ q[2] <= next.attempt[q[1]]
  BY <1>3
<1>11. Opens(r, next, J, opened, order)
  BY <1>1, <1>3, <1>5, <1>7, <1>9, <1>10 DEF Opens
<1> QED BY <1>9, <1>11, StepIsSound

LEMMA AttemptIsSound ==
  ASSUME IInv, NEW r, Goes(r), faults' = faults,
         NEW run \in RunOf(G(r)), NEW S \in SUBSET G(r).stages,
         RunIsSound(Busy(run, S), G(r), cancelled, faults),
         NEW events, Tells(r, Busy(run, S), journal \o events),
         r \in Opened => run.attempt = runs[r].attempt,
         Attempt(r, run, S, events)
  PROVE  IInv'
<1> USE DEF Goes
<1> DEFINE next == Busy(run, S)
           ids == IF r = Top THEN {<<s, next.attempt[s]>> : s \in S \cap Nested} ELSE {}
<1>1. next = Busy(run, S)
  OBVIOUS
<1>2. ids = IF r = Top THEN {<<s, next.attempt[s]>> : s \in S \cap Nested} ELSE {}
  OBVIOUS
<1>3. PICK opened \in SUBSET ids : \E order \in SetToSeqs(opened) :
        /\ runs' = [q \in RunIds |-> IF q = r THEN next
                                     ELSE IF q \in opened THEN NestedStart(q)
                                     ELSE runs[q]]
        /\ journal' = journal \o events \o
             [i \in 1..Len(order) |-> Record(order[i], "pipeline-started")]
  BY DEF Attempt
<1> HIDE DEF next, ids
<1>4. PICK order \in SetToSeqs(opened) :
        /\ runs' = [q \in RunIds |-> IF q = r THEN next
                                     ELSE IF q \in opened THEN NestedStart(q)
                                     ELSE runs[q]]
        /\ journal' = journal \o events \o
             [i \in 1..Len(order) |-> Record(order[i], "pipeline-started")]
  BY <1>3
<1>5. /\ CompiledIsSound /\ NestedAreSound /\ faults \in 0..MaxFaults
  BY DEF IInv
<1>6. \A s \in G(r).stages :
        /\ next.attempt[s] = (IF s \in S THEN run.attempt[s] + 1 ELSE run.attempt[s])
        /\ run.attempt[s] \in Nat /\ next.attempt[s] \in Nat
        /\ next.attempt[s] <= G(r).retries[s] + 1 /\ G(r).retries[s] \in Nat
  <2> SUFFICES ASSUME NEW s \in G(r).stages
               PROVE  /\ next.attempt[s] = (IF s \in S THEN run.attempt[s] + 1 ELSE run.attempt[s])
                      /\ run.attempt[s] \in Nat /\ next.attempt[s] \in Nat
                      /\ next.attempt[s] <= G(r).retries[s] + 1 /\ G(r).retries[s] \in Nat
    OBVIOUS
  <2>1. next.attempt[s] = (IF s \in S THEN run.attempt[s] + 1 ELSE run.attempt[s])
    BY <1>1, BusyFacts
  <2>2. run.attempt[s] \in Nat
    BY DEF RunOf
  <2>3. next.attempt[s] <= G(r).retries[s] + 1
    BY <1>1 DEF RunIsSound
  <2>4. G(r).retries[s] \in Nat
    BY <1>5, GraphFacts
  <2> QED BY <2>1, <2>2, <2>3, <2>4
<1>7. IsFiniteSet(opened)
  <2>1. CASE r = Top
    <3>1. PICK T : T = S \cap Nested
      OBVIOUS
    <3>2. T \subseteq G(r).stages /\ IsFiniteSet(G(r).stages)
      BY <1>5, <3>1, GraphFacts
    <3>3. IsFiniteSet(T)
      BY <3>2, FS_Subset
    <3>4. PICK f : f = [s \in T |-> <<s, next.attempt[s]>>]
      OBVIOUS
    <3>5. ids = {<<s, next.attempt[s]>> : s \in T}
      BY <1>2, <2>1, <3>1
    <3>6. f \in Surjection(T, ids)
      BY <3>4, <3>5 DEF Surjection
    <3>7. IsFiniteSet(ids)
      BY <3>3, <3>6, FS_Surjection
    <3> QED BY <3>7, FS_Subset
  <2>2. CASE r # Top
    <3>1. opened = {}
      BY <1>2, <2>2
    <3> QED BY <3>1, FS_EmptySet
  <2> QED BY <2>1, <2>2
<1>8. ASSUME NEW q \in opened
      PROVE  /\ r = Top /\ q \in RunIds /\ q # Top /\ q \notin Opened
             /\ q[2] <= next.attempt[q[1]]
  <2>1. r = Top /\ q \in {<<s, next.attempt[s]>> : s \in S \cap Nested}
    BY <1>2
  <2>2. PICK s \in S \cap Nested : q = <<s, next.attempt[s]>>
    BY <2>1
  <2>3. /\ s \in G(r).stages /\ next.attempt[s] = run.attempt[s] + 1 /\ run.attempt[s] \in Nat
        /\ next.attempt[s] \in 1..(graphs[Root].retries[s] + 1)
    <3>1. G(r) = graphs[Root] /\ s \in G(r).stages /\ s \in S
      BY <1>5, <2>1, <2>2, GraphFacts
    <3>2. /\ next.attempt[s] = run.attempt[s] + 1 /\ run.attempt[s] \in Nat
          /\ next.attempt[s] <= graphs[Root].retries[s] + 1 /\ graphs[Root].retries[s] \in Nat
      BY <1>6, <3>1
    <3>3. next.attempt[s] \in 1..(graphs[Root].retries[s] + 1)
      BY <3>2
    <3> QED BY <3>1, <3>2, <3>3
  <2>4. q \in RunIds /\ q # Top
    BY <1>5, <2>2, <2>3, GraphFacts
  <2>5. q[1] = s /\ q[2] = next.attempt[s]
    BY <2>2
  <2>6. q \notin Opened
    <3>1. CASE Opened = {}
      BY <3>1
    <3>2. CASE r \in Opened
      <4>1. run.attempt = runs[Top].attempt
        BY <2>1, <3>2
      <4>2. q \in Opened => q[2] <= runs[Top].attempt[s]
        BY <1>5, <2>4, <2>5 DEF NestedAreSound
      <4> QED BY <2>3, <2>5, <4>1, <4>2
    <3> QED BY <3>1, <3>2
  <2>7. q[2] <= next.attempt[q[1]]
    BY <1>6, <2>3, <2>5
  <2> QED BY <2>1, <2>4, <2>6, <2>7
<1>9. Becomes(r, next)
  BY <1>1, <1>6 DEF Becomes
<1>10. PICK J : J = journal \o events
  OBVIOUS
<1>11. Tells(r, next, J)
  BY <1>1, <1>10
<1>12. Opens(r, next, J, opened, order)
  <2>1. opened \in SUBSET (RunIds \ (Opened \cup {Top}))
    BY <1>8
  <2>2. \A q \in opened : r = Top /\ q[2] <= next.attempt[q[1]]
    BY <1>8
  <2>3. /\ DOMAIN runs' = RunIds
        /\ \A q \in RunIds : runs'[q] = IF q = r THEN next ELSE IF q \in opened THEN NestedStart(q)
                                        ELSE runs[q]
    BY <1>4
  <2>4. journal' = J \o [i \in 1..Len(order) |-> Record(order[i], "pipeline-started")]
    BY <1>4, <1>10
  <2> QED BY <1>7, <2>1, <2>2, <2>3, <2>4 DEF Opens
<1> QED BY <1>9, <1>11, <1>12, StepIsSound

-----------------------------------------------------------------------------
(* What the actions do.                                                    *)
LEMMA OpenedFacts ==
  ASSUME IInv, NEW r \in Opened
  PROVE  /\ r \in RunIds /\ compiled = "ok" /\ faults \in Nat /\ Top \in RunIds
         /\ RunIsSound(runs[r], G(r), cancelled, faults)
         /\ JournalTells(journal, r, runs[r], G(r), faults)
         /\ runs[r] \in RunOf(G(r)) /\ runs[r].level \in 0..LevelCount(G(r))
         /\ IsFiniteSet(G(r).stages) /\ G(r).retries \in [G(r).stages -> Nat]
         /\ Compiles(G(r)) /\ LevelCount(G(r)) \in 0..Cardinality(G(r).stages)
         /\ Cardinality(G(r).stages) \in Nat
<1>1. CompiledIsSound /\ faults \in 0..MaxFaults
  BY DEF IInv
<1>2. r \in RunIds /\ compiled = "ok"
  BY <1>1 DEF CompiledIsSound, Opened
<1>3. RunIsSound(runs[r], G(r), cancelled, faults) /\ JournalTells(journal, r, runs[r], G(r), faults)
  BY DEF IInv
<1>4. /\ IsFiniteSet(G(r).stages) /\ G(r).retries \in [G(r).stages -> Nat]
      /\ Compiles(G(r)) /\ Top \in RunIds
  BY <1>1, <1>2, GraphFacts
<1>5. Cardinality(G(r).stages) \in Nat /\ LevelCount(G(r)) \in 0..Cardinality(G(r).stages)
  BY <1>4, LevelCountFacts, FS_CardinalityType DEF Compiles
<1> QED BY <1>1, <1>2, <1>3, <1>4, <1>5, FaultsAssumption DEF RunIsSound

(* The observer throws on a completion and again on the failure it is.     *)
FaultsTwice == faults + 2 <= MaxFaults /\ faults' = faults + 2

LEMMA StepGoes ==
  ASSUME IInv, NEW r \in Opened, UNCHANGED <<graphs, compiled, cancelled>>,
         faults' = faults \/ Fault \/ FaultsTwice
  PROVE  Goes(r) /\ faults' \in Nat /\ faults <= faults' /\ (faults' # faults => faults' > 0)
<1>1. faults \in 0..MaxFaults
  BY DEF IInv
<1>2. faults' \in faults..MaxFaults /\ faults \in Nat
  BY <1>1, FaultsAssumption DEF Fault, FaultsTwice
<1>3. faults' \in Nat /\ faults <= faults' /\ (faults' # faults => faults' > 0)
  BY <1>2
<1> QED BY <1>2, <1>3, OpenedFacts DEF Goes

(* The observer appends one record, or none.                               *)
LEMMA RecordIsTold ==
  ASSUME IInv, NEW r, NEW e, e.run = r, IsRecord(e), journal' = Append(journal, e)
  PROVE  /\ \E S : journal' \in Seq(S)
         /\ Writes(journal', journal, r) /\ Extends(journal', journal)
         /\ \E k : Added(journal', journal) = {k} /\ journal'[k] = e
<1>1. PICK S : journal \in Seq(S)
  BY DEF IInv
<1>2. PICK new : new = journal'
  OBVIOUS
<1>3. /\ Extends(new, journal) /\ \E V : new \in Seq(V)
      /\ Added(new, journal) = {Len(journal) + 1} /\ new[Len(journal) + 1] = e
  BY <1>1, <1>2, AppendExtends
<1> QED BY <1>2, <1>3 DEF Writes

LEMMA NothingIsTold ==
  ASSUME IInv, NEW r, journal' = journal
  PROVE  /\ \E S : journal' \in Seq(S)
         /\ Writes(journal', journal, r) /\ Extends(journal', journal)
         /\ Added(journal', journal) = {}
<1>1. PICK S : journal \in Seq(S)
  BY DEF IInv
<1>2. Extends(journal, journal) /\ Added(journal, journal) = {}
  BY <1>1, NothingExtends
<1> QED BY <1>1, <1>2 DEF Writes

LEMMA AppendToNothing ==
  ASSUME IInv, NEW e
  PROVE  journal \o <<>> = journal /\ journal \o Append(<<>>, e) = Append(journal, e)
<1>1. PICK S : journal \in Seq(S)
  BY DEF IInv
<1>2. journal \in Seq(S \cup {e})
  BY <1>1
<1> QED BY <1>2

(* Fail and Complete.                                                      *)
LEMMA EndIsSound ==
  ASSUME IInv, NEW r \in Opened, UNCHANGED <<graphs, compiled, cancelled>>,
         faults' = faults \/ Fault \/ FaultsTwice,
         NEW next, RunIsSound(next, G(r), cancelled, faults'),
         runs[r].status = "running", next.attempt = runs[r].attempt, next.at = runs[r].at,
         runs' = [runs EXCEPT ![r] = next],
         \/ /\ next.status \in {"completed", "failed"}
            /\ \E type \in {"pipeline-completed", "pipeline-failed"} :
                 journal' = Append(journal, Record(r, type))
         \/ next.status = "failed" /\ faults' > 0 /\ journal' = journal
  PROVE  IInv'
<1>1. Goes(r) /\ faults' \in Nat /\ faults <= faults' /\ faults \in Nat
  BY StepGoes, OpenedFacts
<1>2. JournalTells(journal, r, runs[r], G(r), faults) /\ runs[r] \in RunOf(G(r))
  BY OpenedFacts
<1>3. Becomes(r, next)
  BY <1>2 DEF Becomes, RunOf
<1>4. \A s \in G(r).stages : runs[r].at[s] \in Settled <=> next.at[s] \in Settled
  OBVIOUS
<1>5. Tells(r, next, journal')
  <2>1. CASE /\ next.status \in {"completed", "failed"}
             /\ \E type \in {"pipeline-completed", "pipeline-failed"} :
                  journal' = Append(journal, Record(r, type))
    <3>1. PICK type \in {"pipeline-completed", "pipeline-failed"} :
                 journal' = Append(journal, Record(r, type))
      BY <2>1
    <3>2. PICK e : e = Record(r, type)
      OBVIOUS
    <3>3. e.run = r /\ e.type = type /\ IsRecord(e)
      BY <3>2 DEF Record, IsRecord
    <3>4. /\ \E S : journal' \in Seq(S)
          /\ Writes(journal', journal, r) /\ Extends(journal', journal)
          /\ \E k : Added(journal', journal) = {k} /\ journal'[k] = e
      BY <3>1, <3>2, <3>3, RecordIsTold
    <3>5. PICK k : Added(journal', journal) = {k} /\ journal'[k] = e
      BY <3>4
    <3>6. JournalTells(journal', r, next, G(r), faults')
      <4>1. Extends(journal', journal) /\ JournalTells(journal, r, runs[r], G(r), faults)
        BY <3>4, <1>2, <1>4
      <4>2. journal'[k].run = r /\ journal'[k].type \in {"pipeline-completed", "pipeline-failed"}
        BY <3>1, <3>3, <3>5
      <4>3. /\ runs[r].status = "running" /\ next.status \in {"completed", "failed"}
            /\ \A s \in G(r).stages : runs[r].at[s] \in Settled <=> next.at[s] \in Settled
        BY <1>2, <1>4, <2>1
      <4> HIDE DEF JournalTells, Extends
      <4> QED BY <3>5, <4>1, <4>2, <4>3, JournalEnds
    <3> QED BY <3>4, <3>6 DEF Tells
  <2>2. CASE next.status = "failed" /\ faults' > 0 /\ journal' = journal
    <3>1. /\ \E S : journal' \in Seq(S)
          /\ Writes(journal', journal, r) /\ Extends(journal', journal)
          /\ Added(journal', journal) = {}
      BY <2>2, NothingIsTold
    <3>2. JournalTells(journal', r, next, G(r), faults')
      BY <1>1, <1>2, <1>4, <2>2, <3>1, JournalIsSilent
    <3> QED BY <3>1, <3>2 DEF Tells
  <2> QED BY <2>1, <2>2
<1> QED BY <1>1, <1>3, <1>5, RunMoves

LEMMA FailIsSound ==
  ASSUME IInv, NEW r \in Opened, UNCHANGED <<graphs, compiled, cancelled>>,
         NEW run, RunIsSound(run, G(r), cancelled, faults), IsForced(run, G(r), cancelled, faults),
         run.status = "running", runs[r].status = "running",
         run.attempt = runs[r].attempt, run.at = runs[r].at,
         OneByOne(G(r)) => IsIdle(run, G(r)),
         Fail(r, run, <<>>)
  PROVE  IInv'
<1> DEFINE next == [run EXCEPT !.status = "failed"]
<1>1. /\ runs' = [runs EXCEPT ![r] = next]
      /\ \/ journal' = Append(journal, Record(r, "pipeline-failed")) /\ faults' = faults
         \/ journal' = journal /\ Fault
  BY AppendToNothing DEF Fail
<1>2. faults' = faults \/ Fault
  BY <1>1
<1>3. faults' \in Nat /\ faults <= faults' /\ faults \in Nat /\ (faults' # faults => faults' > 0)
  BY <1>2, StepGoes, OpenedFacts
<1>4. IsForced(run, G(r), cancelled, faults')
  BY <1>3 DEF IsForced
<1>5. RunIsSound(next, G(r), cancelled, faults')
  BY <1>3, <1>4, RunFails
<1>6. next.status = "failed" /\ next.at = runs[r].at /\ next.attempt = runs[r].attempt
  BY DEF RunIsSound, RunOf
<1>7. Fault => faults' > 0
  BY <1>3 DEF Fault
<1> HIDE DEF next
<1> QED BY <1>1, <1>2, <1>5, <1>6, <1>7, EndIsSound

LEMMA CompleteIsSound ==
  ASSUME IInv, NEW r \in Opened, UNCHANGED <<graphs, compiled, cancelled>>,
         NEW run, RunIsSound(run, G(r), cancelled, faults),
         FrameHolds(run, G(r), PassedAfter(run, G(r))),
         \A s \in Level(G(r), run.level) : run.at[s] \in Settled,
         run.level = LevelCount(G(r)),
         run.status = "running", runs[r].status = "running",
         run.attempt = runs[r].attempt, run.at = runs[r].at,
         Complete(r, run)
  PROVE  IInv'
<1> DEFINE whole == [run EXCEPT !.status = "completed"]
           failed == [run EXCEPT !.status = "failed"]
<1>1. \/ /\ runs' = [runs EXCEPT ![r] = whole] /\ faults' = faults
         /\ journal' = Append(journal, Record(r, "pipeline-completed"))
      \/ /\ runs' = [runs EXCEPT ![r] = failed] /\ Fault
         /\ journal' = Append(journal, Record(r, "pipeline-failed"))
      \/ /\ runs' = [runs EXCEPT ![r] = failed] /\ FaultsTwice
         /\ journal' = journal
  BY DEF Complete, FaultsTwice
<1>2. faults' = faults \/ Fault \/ FaultsTwice
  BY <1>1
<1>3. faults' \in Nat /\ faults <= faults' /\ faults \in Nat /\ (faults' # faults => faults' > 0)
  BY <1>2, StepGoes, OpenedFacts
<1>4. RunIsSound(whole, G(r), cancelled, faults)
  BY <1>3, OpenedFacts, RunCompletes
<1>5. Fault \/ FaultsTwice => RunIsSound(failed, G(r), cancelled, faults')
  <2> SUFFICES ASSUME Fault \/ FaultsTwice
               PROVE  RunIsSound(failed, G(r), cancelled, faults')
    OBVIOUS
  <2>1. IsForced(run, G(r), cancelled, faults')
    BY <1>3 DEF IsForced, Fault, FaultsTwice
  <2>2. run.level # 0 /\ \A s \in Level(G(r), run.level) : run.at[s] # "busy"
    BY DEF RunIsSound, Settled
  <2>3. OneByOne(G(r)) => IsIdle(run, G(r))
    BY <2>2, OpenedFacts, LevelIsIdle
  <2> QED BY <1>3, <2>1, <2>3, RunFails
<1>6. /\ whole.status = "completed" /\ whole.at = runs[r].at /\ whole.attempt = runs[r].attempt
      /\ failed.status = "failed" /\ failed.at = runs[r].at /\ failed.attempt = runs[r].attempt
  BY DEF RunIsSound, RunOf
<1> HIDE DEF whole, failed
<1>7. CASE /\ runs' = [runs EXCEPT ![r] = whole] /\ faults' = faults
           /\ journal' = Append(journal, Record(r, "pipeline-completed"))
  <2>1. RunIsSound(whole, G(r), cancelled, faults')
    BY <1>4, <1>7
  <2> QED BY <1>2, <1>6, <1>7, <2>1, EndIsSound
<1>8. CASE /\ runs' = [runs EXCEPT ![r] = failed] /\ Fault
           /\ journal' = Append(journal, Record(r, "pipeline-failed"))
  BY <1>2, <1>5, <1>6, <1>8, EndIsSound
<1>9. CASE /\ runs' = [runs EXCEPT ![r] = failed] /\ FaultsTwice
           /\ journal' = journal
  <2>1. faults' > 0
    BY <1>3, <1>9 DEF FaultsTwice
  <2> QED BY <1>2, <1>5, <1>6, <1>9, <2>1, EndIsSound
<1> QED BY <1>1, <1>7, <1>8, <1>9

(* A stage of r that an attempt is made of settles, or gives up.           *)
LEMMA StageIsSound ==
  ASSUME IInv, NEW r \in Opened, UNCHANGED <<graphs, compiled, cancelled>>,
         faults' = faults \/ Fault,
         NEW s \in G(r).stages, runs[r].at[s] = "busy",
         NEW outcome \in Settled \cup {"thrown"},
         outcome = "thrown" => G(r).failure[s] # "continue" \/ faults' > 0,
         runs' = [runs EXCEPT ![r].at[s] = outcome],
         journal' = IF outcome \in Settled THEN Append(journal, StageRecord(r, s)) ELSE journal
  PROVE  IInv'
<1> DEFINE run == runs[r]
           next == [runs[r] EXCEPT !.at[s] = outcome]
<1>1. /\ Goes(r) /\ faults' \in Nat /\ faults <= faults' /\ faults \in Nat
      /\ r \in RunIds /\ DOMAIN runs = RunIds
      /\ RunIsSound(run, G(r), cancelled, faults) /\ JournalTells(journal, r, run, G(r), faults)
      /\ run \in RunOf(G(r))
  BY StepGoes, OpenedFacts DEF IInv
<1>2. runs' = [runs EXCEPT ![r] = next]
  BY <1>1
<1>3. RunIsSound(next, G(r), cancelled, faults')
  BY <1>1, StageSettles
<1>4. /\ next.status = run.status /\ next.attempt = run.attempt /\ next.at[s] = outcome
      /\ \A x \in G(r).stages \ {s} : next.at[x] = run.at[x]
  BY <1>1 DEF RunOf
<1>5. /\ run.status # "completed" /\ run.at[s] \notin Settled
      /\ OneByOne(G(r)) => run.status = "running"
  BY <1>1 DEF RunIsSound, Passed, Settled, IsIdle
<1> HIDE DEF next
<1>6. Becomes(r, next)
  BY <1>1, <1>3, <1>4 DEF Becomes, RunOf
<1>7. Tells(r, next, journal')
  <2>1. CASE outcome \in Settled
    <3>1. PICK e : e = StageRecord(r, s)
      OBVIOUS
    <3>2. /\ e.run = r /\ e.type = "pipeline-stage" /\ e.stage = s /\ IsRecord(e)
          /\ journal' = Append(journal, e)
      BY <2>1, <3>1 DEF StageRecord, IsRecord
    <3>3. /\ \E S : journal' \in Seq(S)
          /\ Writes(journal', journal, r) /\ Extends(journal', journal)
          /\ \E k : Added(journal', journal) = {k} /\ journal'[k] = e
      BY <3>2, RecordIsTold
    <3>4. PICK k : Added(journal', journal) = {k} /\ journal'[k] = e
      BY <3>3
    <3>5. JournalTells(journal', r, next, G(r), faults)
      <4>1. /\ next.at[s] \in Settled
            /\ \A x \in G(r).stages \ {s} : run.at[x] \in Settled <=> next.at[x] \in Settled
        BY <1>4, <2>1
      <4>2. PICK new : new = journal'
        OBVIOUS
      <4>3. /\ new[k].run = r /\ new[k].type = "pipeline-stage" /\ new[k].stage = s
            /\ Extends(new, journal) /\ Added(new, journal) = {k}
        BY <3>2, <3>3, <3>4, <4>2
      <4>4. JournalTells(journal, r, run, G(r), faults) /\ next.status = run.status
        BY <1>1, <1>4
      <4> HIDE DEF run
      <4>5. JournalTells(new, r, next, G(r), faults)
        BY <1>5, <4>1, <4>3, <4>4, JournalReports
      <4> QED BY <4>2, <4>5
    <3>6. JournalTells(journal', r, next, G(r), faults')
      BY <1>1, <3>5 DEF JournalTells
    <3> QED BY <3>3, <3>6 DEF Tells
  <2>2. CASE outcome \notin Settled
    <3>1. /\ \E S : journal' \in Seq(S)
          /\ Writes(journal', journal, r) /\ Extends(journal', journal)
          /\ Added(journal', journal) = {}
      BY <2>2, NothingIsTold
    <3>2. \A x \in G(r).stages : run.at[x] \in Settled <=> next.at[x] \in Settled
      BY <1>4, <1>5, <2>2
    <3>3. JournalTells(journal', r, next, G(r), faults')
      BY <1>1, <1>4, <3>1, <3>2, JournalIsSilent
    <3> QED BY <3>1, <3>3 DEF Tells
  <2> QED BY <2>1, <2>2
<1> QED BY <1>1, <1>2, <1>6, <1>7, RunMoves

LEMMA SettleIsSound ==
  ASSUME IInv, NEW r \in Opened, UNCHANGED <<graphs, compiled, cancelled>>,
         NEW s \in G(r).stages, runs[r].at[s] = "busy", NEW outcome \in Settled,
         Settle(r, s, outcome)
  PROVE  IInv'
<1>1. CASE /\ runs' = [runs EXCEPT ![r].at[s] = outcome]
           /\ journal' = Append(journal, StageRecord(r, s)) /\ UNCHANGED faults
  <2>1. outcome # "thrown"
    BY DEF Settled
  <2> QED BY <1>1, <2>1, StageIsSound
<1>2. CASE Fault /\ runs' = [runs EXCEPT ![r].at[s] = "thrown"] /\ UNCHANGED journal
  <2>1. faults' > 0
    BY <1>2, OpenedFacts DEF Fault
  <2>2. "thrown" \notin Settled
    BY DEF Settled
  <2>3. journal' = IF "thrown" \in Settled THEN Append(journal, StageRecord(r, s)) ELSE journal
    BY <1>2, <2>2
  <2> QED BY <1>2, <2>1, <2>3, StageIsSound
<1> QED BY <1>1, <1>2 DEF Settle

LEMMA AttemptFailsIsSound ==
  ASSUME IInv, NEW r \in Opened, UNCHANGED <<graphs, compiled, cancelled>>,
         NEW s \in G(r).stages, runs[r].at[s] = "busy", AttemptFails(r, s)
  PROVE  IInv'
<1>1. /\ RunIsSound(runs[r], G(r), cancelled, faults) /\ JournalTells(journal, r, runs[r], G(r), faults)
      /\ runs[r] \in RunOf(G(r)) /\ G(r).retries \in [G(r).stages -> Nat] /\ faults \in Nat
  BY OpenedFacts
<1>2. CASE /\ ~cancelled /\ runs[r].attempt[s] <= G(r).retries[s]
           /\ Attempt(r, runs[r], {s}, <<>>) /\ faults' = faults
  <2>1. RunIsSound(Busy(runs[r], {s}), G(r), cancelled, faults)
    BY <1>1, <1>2, StageRetries
  <2>2. /\ Busy(runs[r], {s}).status = runs[r].status
        /\ \A x \in G(r).stages :
             runs[r].at[x] \in Settled <=> Busy(runs[r], {s}).at[x] \in Settled
    BY <1>1, BusyFacts
  <2>3. /\ \E S : journal \in Seq(S)
        /\ Extends(journal, journal) /\ Added(journal, journal) = {}
        /\ journal \o <<>> = journal
    BY AppendToNothing, NothingExtends DEF IInv
  <2>4. faults <= faults
    BY <1>1
  <2>5. JournalTells(journal, r, Busy(runs[r], {s}), G(r), faults)
    <3>1. PICK next : next = Busy(runs[r], {s})
      OBVIOUS
    <3>2. PICK run : run = runs[r]
      OBVIOUS
    <3>3. /\ \A x \in G(r).stages : run.at[x] \in Settled <=> next.at[x] \in Settled
          /\ next.status = run.status /\ JournalTells(journal, r, run, G(r), faults)
      BY <1>1, <2>2, <3>1, <3>2
    <3>4. JournalTells(journal, r, next, G(r), faults)
      BY <1>1, <2>3, <2>4, <3>3, JournalIsSilent
    <3> QED BY <3>1, <3>4
  <2>6. Tells(r, Busy(runs[r], {s}), journal \o <<>>)
    BY <1>2, <2>3, <2>5 DEF Tells, Writes
  <2>7. Goes(r)
    BY <1>2, StepGoes
  <2> QED BY <1>1, <1>2, <2>1, <2>6, <2>7, AttemptIsSound
<1>3. CASE G(r).failure[s] = "continue" /\ Settle(r, s, "continued")
  BY <1>3, SettleIsSound DEF Settled
<1>4. CASE /\ G(r).failure[s] # "continue" /\ runs' = [runs EXCEPT ![r].at[s] = "thrown"]
           /\ UNCHANGED <<journal, faults>>
  <2>1. journal' = IF "thrown" \in Settled THEN Append(journal, StageRecord(r, s)) ELSE journal
    BY <1>4 DEF Settled
  <2> QED BY <1>4, <2>1, StageIsSound
<1> QED BY <1>2, <1>3, <1>4 DEF AttemptFails

LEMMA LevelThrowsIsSound ==
  ASSUME IInv, NEW r \in RunIds, LevelThrows(r)
  PROVE  IInv'
<1>1. /\ r \in Opened /\ runs[r].status = "running" /\ Fail(r, runs[r], <<>>)
      /\ UNCHANGED <<graphs, compiled, cancelled>>
      /\ \E s \in CurrentLevel(r) : runs[r].at[s] = "thrown"
  BY DEF LevelThrows, IsRunning, Opened
<1>2. RunIsSound(runs[r], G(r), cancelled, faults) /\ runs[r].level \in Nat /\ runs[r].level # 0
  BY <1>1, OpenedFacts DEF RunIsSound, RunOf
<1>3. CurrentLevel(r) \subseteq G(r).stages
  BY <1>2, LevelFacts DEF CurrentLevel
<1>4. IsForced(runs[r], G(r), cancelled, faults)
  BY <1>1, <1>2, <1>3 DEF IsForced, RunIsSound
<1>5. OneByOne(G(r)) => IsIdle(runs[r], G(r))
  <2>1. \E s \in Level(G(r), runs[r].level) : runs[r].at[s] # "busy"
    BY <1>1 DEF CurrentLevel
  <2> QED BY <1>1, <1>2, <2>1, OpenedFacts, LevelIsIdle
<1> QED BY <1>1, <1>2, <1>4, <1>5, FailIsSound

LEMMA LevelSettlesIsSound ==
  ASSUME IInv, NEW r \in RunIds, LevelSettles(r)
  PROVE  IInv'
<1> DEFINE run == runs[r]
           d == G(r)
           merged == Merged(run, d)
           k == run.level + 1
<1>1. /\ r \in Opened /\ run.status = "running" /\ UNCHANGED <<graphs, compiled, cancelled>>
      /\ \A s \in Level(d, run.level) : run.at[s] \in Settled
  BY DEF LevelSettles, IsRunning, Opened, CurrentLevel
<1>2. /\ RunIsSound(run, d, cancelled, faults) /\ run.level \in Nat /\ run.level # 0
      /\ run \in RunOf(d)
  BY <1>1, OpenedFacts DEF RunIsSound, RunOf
<1>3. Level(d, run.level) \subseteq d.stages
  BY <1>2, LevelFacts
<1>4. Writers(r) = WritersIn(run, d)
  BY <1>3 DEF Writers, CurrentLevel, WritersIn
<1>5. Conflict(r) <=> ConflictIn(run, d)
  BY <1>4 DEF Conflict, ConflictIn
<1>6. \/ ConflictIn(run, d) /\ Fail(r, run, <<>>)
      \/ ~ConflictIn(run, d) /\ run.level = LevelCount(d) /\ Complete(r, merged)
      \/ ~ConflictIn(run, d) /\ run.level # LevelCount(d) /\ EnterLevel(r, merged, k, <<>>)
  BY <1>4, <1>5 DEF LevelSettles, Merged
<1>11. OneByOne(d) => IsIdle(run, d)
  <2>1. \A s \in Level(d, run.level) : run.at[s] # "busy"
    BY <1>1 DEF Settled
  <2> QED BY <1>1, <1>2, <2>1, OpenedFacts, LevelIsIdle
<1>7. CASE ConflictIn(run, d) /\ Fail(r, run, <<>>)
  <2>1. IsForced(run, d, cancelled, faults)
    BY <1>7 DEF IsForced
  <2> HIDE DEF run, d
  <2> QED BY <1>1, <1>2, <1>7, <1>11, <2>1, FailIsSound DEF run, d
<1>8. ASSUME ~ConflictIn(run, d)
      PROVE  /\ RunIsSound(merged, d, cancelled, faults)
             /\ FrameHolds(merged, d, PassedAfter(merged, d))
             /\ merged.level = run.level /\ merged.status = "running"
             /\ merged.attempt = run.attempt /\ merged.at = run.at
  <2>1. /\ RunIsSound(merged, d, cancelled, faults)
        /\ FrameHolds(merged, d, PassedAfter(run, d))
        /\ merged.level = run.level /\ merged.status = "running"
        /\ merged.attempt = run.attempt /\ merged.at = run.at
    BY <1>1, <1>2, <1>8, OpenedFacts, LevelMerges
  <2>2. PassedAfter(merged, d) = PassedAfter(run, d)
    BY <1>1, <2>1 DEF PassedAfter, Passed
  <2> QED BY <2>1, <2>2
<1>9. CASE ~ConflictIn(run, d) /\ run.level = LevelCount(d) /\ Complete(r, merged)
  <2> HIDE DEF merged
  <2> QED BY <1>1, <1>8, <1>9, CompleteIsSound
<1>10. CASE ~ConflictIn(run, d) /\ run.level # LevelCount(d) /\ EnterLevel(r, merged, k, <<>>)
  <2>1. CASE cancelled
    <3>1. Fail(r, merged, <<>>)
      BY <1>10, <2>1 DEF EnterLevel
    <3>2. IsForced(merged, d, cancelled, faults)
      BY <2>1 DEF IsForced
    <3>3. OneByOne(d) => IsIdle(merged, d)
      BY <1>8, <1>10, <1>11 DEF IsIdle
    <3> HIDE DEF merged
    <3> QED BY <1>1, <1>8, <1>10, <3>1, <3>2, <3>3, FailIsSound
  <2>2. CASE ~cancelled
    <3>1. Attempt(r, [merged EXCEPT !.level = k], Level(d, k), <<>>) /\ faults' = faults
      BY <1>10, <2>2 DEF EnterLevel
    <3> DEFINE mid == [merged EXCEPT !.level = k]
               next == Busy(mid, Level(d, k))
    <3>2. RunIsSound(next, d, cancelled, faults)
      <4> HIDE DEF merged
      <4> QED BY <1>1, <1>8, <1>10, OpenedFacts, LevelBegins
    <3>3. mid \in RunOf(d) /\ mid.attempt = run.attempt /\ mid.at = run.at /\ mid.status = run.status
      <4>1. k \in 0..Cardinality(d.stages)
        BY <1>1, <1>2, <1>10, OpenedFacts
      <4> HIDE DEF merged, k
      <4> QED BY <1>1, <1>8, <1>10, <4>1 DEF RunIsSound, RunOf
    <3>4. Level(d, k) \subseteq d.stages /\ Level(d, k) \subseteq Remaining(d, run.level)
      <4>1. k \in Nat \ {0} /\ k - 1 = run.level
        BY <1>2
      <4> QED BY <4>1, LevelFacts
    <3>5. \A x \in d.stages : run.at[x] \in Settled <=> next.at[x] \in Settled
      <4>1. \A x \in Level(d, k) : run.at[x] = "waiting"
        BY <1>2, <3>4 DEF RunIsSound
      <4> HIDE DEF mid
      <4> QED BY <3>3, <4>1, BusyFacts DEF Settled
    <3>6. next.status = run.status
      <4> HIDE DEF mid
      <4> QED BY <3>3, BusyFacts
    <3> HIDE DEF mid, next
    <3>7. /\ \E S : journal \in Seq(S)
          /\ Extends(journal, journal) /\ Added(journal, journal) = {}
          /\ journal \o <<>> = journal
      BY AppendToNothing, NothingExtends DEF IInv
    <3>8. faults <= faults /\ faults \in Nat /\ JournalTells(journal, r, run, d, faults)
      BY <1>1, OpenedFacts
    <3>9. JournalTells(journal, r, next, d, faults)
      BY <3>5, <3>6, <3>7, <3>8, JournalIsSilent
    <3>10. Tells(r, next, journal \o <<>>)
      BY <3>1, <3>7, <3>9 DEF Tells, Writes
    <3>11. Goes(r)
      BY <1>1, <3>1, StepGoes
    <3> QED BY <3>1, <3>2, <3>3, <3>4, <3>10, <3>11, AttemptIsSound DEF mid, next
  <2> QED BY <2>1, <2>2
<1> QED BY <1>6, <1>7, <1>9, <1>10

LEMMA StartIsSound ==
  ASSUME IInv, Start
  PROVE  IInv'
<1> DEFINE d == G(Top)
           e == Record(Top, "pipeline-started")
           failed == [New(d) EXCEPT !.status = "failed"]
<1>1. /\ compiled = "ok" /\ runs[Top] = None /\ UNCHANGED <<graphs, compiled, cancelled>>
      /\ NewRun(Top) = New(d) /\ EnterLevel(Top, New(d), 1, <<e>>)
  BY DEF Start, NewRun, New
<1>2. /\ CompiledIsSound /\ faults \in 0..MaxFaults /\ faults \in Nat
      /\ \A i \in DOMAIN journal : journal[i].run \in Opened
  BY FaultsAssumption DEF IInv
<1>3. Opened = {} /\ Top \in RunIds
  BY <1>1, <1>2, GraphFacts DEF CompiledIsSound
<1>4. /\ IsFiniteSet(d.stages) /\ d.stages # {} /\ d.retries \in [d.stages -> Nat]
      /\ Compiles(d)
  BY <1>1, <1>2, <1>3, GraphFacts
<1>5. PICK S : journal \in Seq(S)
  BY DEF IInv
<1>6. PICK J : J = Append(journal, e)
  OBVIOUS
<1>7. /\ Extends(J, journal) /\ \E V : J \in Seq(V)
      /\ Added(J, journal) = {Len(journal) + 1} /\ J[Len(journal) + 1] = e
  BY <1>5, <1>6, AppendExtends
<1>8. e.run = Top /\ e.type = "pipeline-started" /\ IsRecord(e)
  BY DEF Record, IsRecord
<1>9. Writes(J, journal, Top)
  BY <1>7, <1>8 DEF Writes
<1>10. ASSUME NEW next, next.status = "running", \A s \in d.stages : next.at[s] \notin Settled,
              NEW n
       PROVE  JournalTells(J, Top, next, d, n)
  <2>1. \A i \in DOMAIN journal : journal[i].run # Top
    BY <1>2, <1>3
  <2>2. PICK k \in Added(J, journal) :
          J[k].run = Top /\ J[k].type = "pipeline-started" /\ Added(J, journal) = {k}
    BY <1>7, <1>8
  <2> QED BY <1>7, <1>10, <2>1, <2>2, JournalStarts
<1>11. journal \o <<e>> = J
  BY <1>5, <1>6
<1>12. CASE ~cancelled
  <2> DEFINE mid == [New(d) EXCEPT !.level = 1]
             L == Level(d, 1)
  <2>1. Attempt(Top, mid, L, <<e>>) /\ faults' = faults
    BY <1>1, <1>12 DEF EnterLevel
  <2>2. /\ RunIsSound(First(d), d, cancelled, faults) /\ First(d).status = "running"
        /\ \A s \in d.stages : First(d).at[s] \notin Settled
        /\ First(d) = Busy(mid, L)
    BY <1>2, <1>4, RunBegins DEF First
  <2>3. mid \in RunOf(d) /\ L \subseteq d.stages
    <3>1. Cardinality(d.stages) \in Nat /\ Cardinality(d.stages) # 0
      BY <1>4, FS_CardinalityType, FS_EmptySet
    <3>2. L \subseteq d.stages
      BY LevelFacts
    <3> QED BY <3>1, <3>2 DEF New, RunOf, Statuses, Places
  <2>4. JournalTells(J, Top, First(d), d, faults)
    BY <1>10, <2>2
  <2>5. Tells(Top, Busy(mid, L), journal \o <<e>>)
    BY <1>7, <1>9, <1>11, <2>1, <2>2, <2>4 DEF Tells
  <2>6. Goes(Top)
    <3>1. faults' \in faults..MaxFaults
      BY <1>2, <2>1, FaultsAssumption
    <3> QED BY <1>1, <1>3, <3>1 DEF Goes
  <2> HIDE DEF mid, L, e
  <2> QED BY <1>3, <2>1, <2>2, <2>3, <2>5, <2>6, AttemptIsSound
<1>13. CASE cancelled
  <2>1. Fail(Top, New(d), <<e>>)
    BY <1>1, <1>13 DEF EnterLevel
  <2> DEFINE f == Record(Top, "pipeline-failed")
  <2>2. journal \o Append(<<e>>, f) = Append(J, f)
    <3> HIDE DEF e, f
    <3>1. journal \in Seq(S \cup {e, f})
      BY <1>5
    <3> QED BY <1>6, <3>1
  <2>3. /\ runs' = [runs EXCEPT ![Top] = failed]
        /\ \/ journal' = Append(J, f) /\ faults' = faults
           \/ journal' = J /\ Fault
    BY <1>11, <2>1, <2>2 DEF Fail
  <2>4. faults' \in faults..MaxFaults /\ faults' \in Nat /\ faults <= faults'
        /\ (Fault => faults' > 0)
    BY <1>2, <2>3, FaultsAssumption DEF Fault
  <2>5. RunIsSound(failed, d, cancelled, faults')
    <3>1. RunIsSound(failed, d, TRUE, faults')
      BY <1>4, <2>4, RunIsRefused
    <3> QED BY <1>13, <3>1 DEF RunIsSound, IsForced
  <2>6. /\ failed.status = "failed" /\ New(d).status = "running"
        /\ \A s \in d.stages : failed.at[s] \notin Settled /\ New(d).at[s] \notin Settled
    BY DEF New, Settled
  <2>7. JournalTells(J, Top, New(d), d, faults)
    <3> HIDE DEF d
    <3> QED BY <1>10, <2>6
  <2> HIDE DEF failed
  <2>8. Tells(Top, failed, journal')
    <3>1. CASE journal' = Append(J, f) /\ faults' = faults
      <4>1. PICK V : J \in Seq(V)
        BY <1>7
      <4>2. PICK new : new = Append(J, f)
        OBVIOUS
      <4>3. /\ Extends(new, J) /\ \E W : new \in Seq(W)
            /\ Added(new, J) = {Len(J) + 1} /\ new[Len(J) + 1] = f
        BY <4>1, <4>2, AppendExtends
      <4>4. f.run = Top /\ f.type = "pipeline-failed" /\ IsRecord(f)
        BY DEF Record, IsRecord
      <4>5. PICK k : Added(new, J) = {k} /\ new[k].run = Top /\ new[k].type = "pipeline-failed"
        BY <4>3, <4>4
      <4>6. PICK run : run = New(d)
        OBVIOUS
      <4>7. /\ \A s \in d.stages : run.at[s] \in Settled <=> failed.at[s] \in Settled
            /\ run.status = "running" /\ JournalTells(J, Top, run, d, faults)
        BY <2>6, <2>7, <4>6
      <4>8. JournalTells(new, Top, failed, d, faults')
        BY <2>6, <4>3, <4>5, <4>7, JournalEnds
      <4>9. ExtendsBoth(new, J, journal)
        BY <1>7, <4>3, ExtendsMore
      <4>10. Writes(new, journal, Top)
        BY <1>9, <4>3, <4>4, <4>9 DEF ExtendsBoth, Writes
      <4> QED BY <3>1, <4>2, <4>3, <4>8, <4>10 DEF Tells
    <3>2. CASE journal' = J /\ Fault
      <4>1. PICK run : run = New(d)
        OBVIOUS
      <4>2. /\ \A s \in d.stages : run.at[s] \in Settled <=> failed.at[s] \in Settled
            /\ JournalTells(J, Top, run, d, faults)
        BY <2>6, <2>7, <4>1
      <4>3. Extends(J, J) /\ \A k \in Added(J, J) : J[k].run # Top
        BY <1>7, NothingExtends
      <4>4. faults' > 0
        BY <2>4, <3>2
      <4>5. JournalTells(J, Top, failed, d, faults')
        BY <1>2, <2>4, <2>6, <4>2, <4>3, <4>4, JournalIsSilent
      <4> QED BY <1>7, <1>9, <3>2, <4>5 DEF Tells
    <3> QED BY <2>3, <3>1, <3>2
  <2>9. Goes(Top)
    BY <1>1, <1>3, <2>4 DEF Goes
  <2>10. Becomes(Top, failed)
    BY <1>3, <2>5 DEF Becomes
  <2> QED BY <2>3, <2>8, <2>9, <2>10, RunMoves
<1> QED BY <1>12, <1>13

LEMMA InitIsSound ==
  ASSUME Init
  PROVE  IInv
<1>1. Opened = {}
  BY DEF Init, Opened
<1>2. faults \in 0..MaxFaults
  BY FaultsAssumption DEF Init
<1>3. journal \in Seq({}) /\ DOMAIN journal = {}
  BY DEF Init
<1>4. CompiledIsSound /\ NestedAreSound
  BY <1>1 DEF Init, CompiledIsSound, NestedAreSound
<1> QED BY <1>1, <1>2, <1>3, <1>4 DEF Init, IInv

LEMMA RegisterIsSound ==
  ASSUME IInv, Register
  PROVE  IInv'
<1>1. /\ graphs' = graphs /\ runs' = runs /\ cancelled' = cancelled /\ journal' = journal
      /\ faults' = faults /\ compiled = "none" /\ compiled' = CompileResult(graphs[Root])
  BY DEF Register
<1>2. Opened = {}
  BY <1>1 DEF IInv, CompiledIsSound
<1>3. RunIds' = RunIds
  BY <1>1 DEF RunIds
<1>4. Opened' = {}
  BY <1>1, <1>2, <1>3 DEF Opened
<1>5. CompiledIsSound' /\ NestedAreSound'
  BY <1>1, <1>4 DEF IInv, CompiledIsSound, NestedAreSound
<1>6. DOMAIN journal = {}
  BY <1>2 DEF IInv
<1> QED BY <1>1, <1>2, <1>3, <1>4, <1>5, <1>6 DEF IInv

LEMMA StartThrowsIsSound ==
  ASSUME IInv, StartThrows
  PROVE  IInv'
<1>1. /\ runs[Top] = None /\ UNCHANGED <<graphs, compiled, runs, cancelled, journal>>
      /\ faults' \in 0..MaxFaults
  BY FaultsAssumption DEF StartThrows, Fault, IInv
<1>2. Opened = {}
  BY <1>1 DEF IInv, CompiledIsSound
<1>3. RunIds' = RunIds
  BY <1>1 DEF RunIds
<1>4. Opened' = {}
  BY <1>1, <1>2, <1>3 DEF Opened
<1>5. CompiledIsSound' /\ NestedAreSound'
  BY <1>1, <1>2, <1>4 DEF IInv, CompiledIsSound, NestedAreSound
<1>6. DOMAIN journal = {}
  BY <1>2 DEF IInv
<1> QED BY <1>1, <1>3, <1>4, <1>5, <1>6 DEF IInv

LEMMA SameIsSound ==
  ASSUME IInv, UNCHANGED <<graphs, compiled, runs, journal, faults>>,
         cancelled' \in BOOLEAN, cancelled => cancelled'
  PROVE  IInv'
<1>1. /\ RunIds' = RunIds /\ \A r : G(r)' = G(r)
  <2>1. RunIds' = RunIds
    BY DEF RunIds
  <2>2. \A r : G(r)' = G(r)
    BY DEF G, PipelineOf
  <2> QED BY <2>1, <2>2
<1>2. Opened' = Opened
  BY <1>1 DEF Opened
<1>3. CompiledIsSound' /\ NestedAreSound'
  BY <1>2 DEF IInv, CompiledIsSound, NestedAreSound
<1>4. ASSUME NEW r \in Opened
      PROVE  /\ RunIsSound(runs[r], G(r), cancelled', faults)
             /\ JournalTells(journal, r, runs[r], G(r), faults)
  BY OpenedFacts, RunStays
<1>5. \A e : IsRecord(e)' <=> IsRecord(e)
  BY <1>1 DEF IsRecord, PipelineOf
<1> QED BY <1>1, <1>2, <1>3, <1>4, <1>5 DEF IInv

LEMMA NextIsSound ==
  ASSUME IInv, [Next]_vars
  PROVE  IInv'
<1>1. CASE Register
  BY <1>1, RegisterIsSound
<1>2. CASE Start
  BY <1>2, StartIsSound
<1>3. CASE Cancel
  BY <1>3, SameIsSound DEF Cancel
<1>4. ASSUME NEW r \in RunIds, LevelThrows(r) \/ LevelSettles(r)
      PROVE  IInv'
  BY <1>4, LevelThrowsIsSound, LevelSettlesIsSound
<1>5. ASSUME NEW r \in RunIds, NEW s \in G(r).stages,
             OperationSucceeds(r, s) \/ OperationFails(r, s) \/ StageTimesOut(r, s)
      PROVE  IInv'
  <2>1. /\ r \in Opened /\ runs[r].at[s] = "busy" /\ UNCHANGED <<graphs, compiled, cancelled>>
        /\ Settle(r, s, "completed") \/ AttemptFails(r, s)
    BY <1>5 DEF OperationSucceeds, OperationFails, StageTimesOut, IsBusy, Opened
  <2>2. "completed" \in Settled
    BY DEF Settled
  <2> QED BY <2>1, <2>2, SettleIsSound, AttemptFailsIsSound
<1>6. CASE StartThrows
  BY <1>6, StartThrowsIsSound
<1>7. CASE UNCHANGED vars
  <2>1. cancelled' \in BOOLEAN
    BY <1>7 DEF IInv, vars
  <2> QED BY <1>7, <2>1, SameIsSound DEF vars
<1> QED BY <1>1, <1>2, <1>3, <1>4, <1>5, <1>6, <1>7 DEF Next

(* Every run keeps to its levels and its attempts, and the journal tells   *)
(* of its start, its stages and its end: the inductive invariant.          *)
THEOREM Invariance == Spec => []IInv
<1>1. Init => IInv
  BY InitIsSound
<1>2. IInv /\ [Next]_vars => IInv'
  BY NextIsSound
<1> QED BY <1>1, <1>2, PTL DEF Spec

-----------------------------------------------------------------------------
LEMMA OrderFollows ==
  ASSUME IInv
  PROVE  OrderIsKept
<1> DEFINE d == graphs[Root]
<1>1. CompiledIsSound /\ IsFiniteSet(d.stages)
  BY GraphsAssumption DEF IInv, CompiledIsSound
<1>2. LevelsAreMinimalOrder
  <2>1. CASE compiled = "none"
    BY <2>1 DEF LevelsAreMinimalOrder
  <2>2. CASE compiled # "none"
    <3>1. compiled = CompileResult(d)
      BY <1>1, <2>2 DEF CompiledIsSound
    <3>2. compiled = "CYCLE" => ~NamesMissing(d) /\ IsCyclic(d)
      BY <3>1 DEF CompileResult
    <3>3. compiled = "ok" => Compiles(d)
      BY <3>1 DEF CompileResult, Compiles
    <3> HIDE DEF d
    <3>4. compiled = "CYCLE" => ~Orderable(d)
      BY <1>1, <3>2, CyclicIsNotOrderable
    <3>5. compiled = "ok" =>
            LET levels == LevelsOf(d) IN
            /\ UNION {Level(d, n) : n \in 1..LevelCount(d)} = d.stages
            /\ Orders(d, levels)
            /\ \A s \in d.stages : levels[s] > 1 =>
                 \E x \in Dependencies(d, s) : levels[x] = levels[s] - 1
      BY <1>1, <3>3, LevelsAreLeast
    <3> QED BY <3>4, <3>5 DEF LevelsAreMinimalOrder, d
  <2> QED BY <2>1, <2>2
<1>3. DependenciesSettled
  <2> SUFFICES ASSUME NEW r \in Opened, NEW s \in G(r).stages, runs[r].at[s] # "waiting",
                      NEW x \in Dependencies(G(r), s)
               PROVE  runs[r].at[x] \in Settled
    BY DEF DependenciesSettled
  <2>1. /\ RunIsSound(runs[r], G(r), cancelled, faults) /\ runs[r].level \in Nat
        /\ ~NamesMissing(G(r))
    BY OpenedFacts DEF RunOf, Compiles
  <2>2. PICK m \in 1..runs[r].level : s \in Level(G(r), m)
    <3>1. s \notin Remaining(G(r), runs[r].level)
      BY <2>1 DEF RunIsSound
    <3> QED BY <2>1, <3>1, GoneHasLevel
  <2>3. m \in Nat \ {0} /\ m - 1 <= runs[r].level - 1
    BY <2>1
  <2>4. x \in G(r).stages /\ \E j \in 1..(m - 1) : x \in Level(G(r), j)
    BY <2>1, <2>2, <2>3, DependencyLevel
  <2>5. PICK j \in 1..(runs[r].level - 1) : x \in Level(G(r), j)
    BY <2>1, <2>3, <2>4
  <2>6. x \in Passed(runs[r], G(r))
    BY <2>4, <2>5 DEF Passed
  <2> QED BY <2>1, <2>6 DEF RunIsSound
<1> QED BY <1>2, <1>3 DEF OrderIsKept

LEMMA AtMostOne ==
  ASSUME NEW S, \A i, j \in S : i = j
  PROVE  Cardinality(S) <= 1 /\ (S # {} => Cardinality(S) = 1)
<1>1. CASE S = {}
  BY <1>1, FS_EmptySet
<1>2. CASE S # {}
  <2>1. PICK i : S = {i}
    BY <1>2
  <2>2. Cardinality({i}) = 1
    BY FS_Singleton
  <2>3. Cardinality(S) = 1
    BY <2>1, <2>2
  <2> QED BY <2>3
<1> QED BY <1>1, <1>2

LEMMA EndsFollow ==
  ASSUME IInv
  PROVE  EndsAreJustified
<1>1. \A r : /\ Terminals(r) = Ends(journal, r)
             /\ \A types : EventsOf(r, types) = Told(journal, r, types)
             /\ \A s : StageEvents(r, s) = Reports(journal, r, s)
  BY DEF Terminals, Ends, EventsOf, Told, StageEvents, Reports
<1>2. TypeOK
  <2>1. ASSUME NEW r \in RunIds, runs[r] # None
        PROVE  /\ runs[r] \in RunOf(G(r))
               /\ runs[r].level \in 0..LevelCount(G(r))
               /\ \A s \in G(r).stages : runs[r].attempt[s] \in 0..(G(r).retries[s] + 1)
    <3>1. r \in Opened
      BY <2>1 DEF Opened
    <3>2. RunIsSound(runs[r], G(r), cancelled, faults) /\ G(r).retries \in [G(r).stages -> Nat]
      BY <3>1, OpenedFacts
    <3>3. ASSUME NEW s \in G(r).stages
          PROVE  runs[r].attempt[s] \in 0..(G(r).retries[s] + 1)
      <4>1. /\ runs[r].attempt[s] \in Nat /\ G(r).retries[s] \in Nat
            /\ runs[r].attempt[s] <= G(r).retries[s] + 1
        BY <3>2 DEF RunIsSound, RunOf
      <4> QED BY <4>1
    <3> QED BY <3>2, <3>3 DEF RunIsSound
  <2>2. compiled \in {"none", "ok", "MISSING", "CYCLE"}
    BY DEF IInv, CompiledIsSound, CompileResult
  <2>3. graphs \in Experiences /\ DOMAIN runs = RunIds /\ cancelled \in BOOLEAN /\ faults \in 0..MaxFaults
    BY DEF IInv, CompiledIsSound
  <2> QED BY <2>1, <2>2, <2>3 DEF TypeOK
<1>3. CompletedIsWhole
  <2> SUFFICES ASSUME NEW r \in Opened, runs[r].status = "completed"
               PROVE  /\ \A s \in G(r).stages : Cardinality(StageEvents(r, s)) = 1
                      /\ \A i \in Terminals(r) :
                           \A j \in EventsOf(r, {"pipeline-stage", "pipeline-started"}) : j < i
                      /\ \A s, x \in G(r).stages :
                           s # x /\ runs[r].at[s] = "completed" /\ runs[r].at[x] = "completed" =>
                             G(r).writes[s] \cap G(r).writes[x] = {}
    BY DEF CompletedIsWhole
  <2>1. RunIsSound(runs[r], G(r), cancelled, faults) /\ JournalTells(journal, r, runs[r], G(r), faults)
    BY OpenedFacts
  <2>2. Passed(runs[r], G(r)) = G(r).stages
    BY DEF Passed
  <2>3. \A s \in G(r).stages : Cardinality(StageEvents(r, s)) = 1
    <3> SUFFICES ASSUME NEW s \in G(r).stages
                 PROVE  Cardinality(StageEvents(r, s)) = 1
      OBVIOUS
    <3>1. runs[r].at[s] \in Settled
      BY <2>1, <2>2 DEF RunIsSound
    <3>2. Reports(journal, r, s) # {} /\ \A i, j \in Reports(journal, r, s) : i = j
      BY <2>1, <3>1 DEF JournalTells
    <3> QED BY <1>1, <3>2, AtMostOne
  <2>4. \A i \in Terminals(r) : \A j \in EventsOf(r, {"pipeline-stage", "pipeline-started"}) : j < i
    BY <1>1, <2>1 DEF JournalTells
  <2>5. FrameHolds(runs[r], G(r), G(r).stages)
    BY <2>1, <2>2 DEF RunIsSound
  <2> QED BY <2>3, <2>4, <2>5 DEF FrameHolds
<1>4. OneJournaledEnd
  <2> SUFFICES ASSUME NEW r \in Opened
               PROVE  /\ Cardinality(Terminals(r)) <= 1
                      /\ (Terminals(r) = {}) => runs[r].status = "running" \/ faults > 0
                      /\ \A i \in Terminals(r) : \E j \in EventsOf(r, {"pipeline-started"}) : j < i
    BY DEF OneJournaledEnd
  <2>1. JournalTells(journal, r, runs[r], G(r), faults)
    BY OpenedFacts
  <2>2. \A i, j \in Ends(journal, r) : i = j
    BY <2>1 DEF JournalTells
  <2>3. Cardinality(Terminals(r)) <= 1
    BY <1>1, <2>2, AtMostOne
  <2> QED BY <1>1, <2>1, <2>3 DEF JournalTells, Starts
<1>5. FailureIsJustified
  <2> SUFFICES ASSUME NEW r \in Opened, runs[r].status = "failed"
               PROVE  \/ cancelled
                      \/ faults > 0
                      \/ \E s \in G(r).stages : runs[r].at[s] = "thrown" /\ G(r).failure[s] # "continue"
                      \/ Conflict(r)
    BY DEF FailureIsJustified
  <2>1. IsForced(runs[r], G(r), cancelled, faults)
    BY OpenedFacts DEF RunIsSound
  <2>2. ConflictIn(runs[r], G(r)) => Conflict(r)
    <3>1. WritersIn(runs[r], G(r)) \subseteq Writers(r)
      BY DEF WritersIn, Writers, CurrentLevel
    <3> QED BY <3>1 DEF ConflictIn, Conflict
  <2> QED BY <2>1, <2>2 DEF IsForced
<1> QED BY <1>2, <1>3, <1>4, <1>5 DEF EndsAreJustified

(* Stages run in the order of the compiled graph, and its levels are the   *)
(* least that the declared dependencies allow, whatever the graph.         *)
THEOREM StagesKeepOrder == Spec => []OrderIsKept
<1>1. IInv => OrderIsKept
  BY OrderFollows
<1> QED BY <1>1, Invariance, PTL

(* An admitted run ends once, whole or for a reason, within its attempts,  *)
(* whatever fails, times out, conflicts or is cancelled.                   *)
THEOREM RunsEndOnce == Spec => []EndsAreJustified
<1>1. IInv => EndsAreJustified
  BY EndsFollow
<1> QED BY <1>1, Invariance, PTL

-----------------------------------------------------------------------------
(* The strict fold takes a log of Pipelines in which each key starts once  *)
(* and is then heard of until it ends, and no stage twice.                 *)
Key(e) == Projection!PipelineKey(e)
Of(log, n, key, types) == {j \in 1..n : log[j].type \in types /\ Key(log[j]) = key}
EndTypes == {"pipeline-completed", "pipeline-failed"}

IsLegal(log, i) ==
  LET before(types) == Of(log, i - 1, Key(log[i]), types) IN
  \/ log[i].type = "pipeline-started" /\ before({"pipeline-started"}) = {}
  \/ /\ log[i].type \in EndTypes \cup {"pipeline-stage"}
     /\ before({"pipeline-started"}) # {} /\ before(EndTypes) = {}
     /\ log[i].type = "pipeline-stage" =>
          \A j \in before({"pipeline-stage"}) : log[j].stage # log[i].stage

(* What the view shows of a Pipeline after the first n records.            *)
Shows(entry, log, n, key) ==
  /\ DOMAIN entry = {"status", "stages"}
  /\ Of(log, n, key, EndTypes) = {} => entry.status = "running"
  /\ entry.stages = {log[j].stage : j \in Of(log, n, key, {"pipeline-stage"})}
Knows(v, log, n) ==
  /\ v.ok = TRUE /\ DOMAIN v = DOMAIN Projection!EmptySession
  /\ \A key : key \in DOMAIN v.pipelines <=> Of(log, n, key, {"pipeline-started"}) # {}
  /\ \A key : key \notin DOMAIN v.pipelines => Of(log, n, key, {"pipeline-stage"}) = {}
  /\ \A key \in DOMAIN v.pipelines : Shows(v.pipelines[key], log, n, key)

LEMMA OneMore ==
  ASSUME NEW log, NEW n \in Nat, NEW key, NEW types
  PROVE  IF log[n + 1].type \in types /\ Key(log[n + 1]) = key
         THEN Of(log, n + 1, key, types) = Of(log, n, key, types) \cup {n + 1}
         ELSE Of(log, n + 1, key, types) = Of(log, n, key, types)
<1>1. 1..(n + 1) = 1..n \cup {n + 1}
  OBVIOUS
<1> QED BY <1>1 DEF Of

LEMMA EntryIsShown ==
  ASSUME NEW v, NEW log, NEW n \in Nat, Knows(v, log, n),
         NEW map, DOMAIN map = DOMAIN v.pipelines \cup {Key(log[n + 1])},
         \A key \in DOMAIN v.pipelines : key # Key(log[n + 1]) => map[key] = v.pipelines[key],
         Shows(map[Key(log[n + 1])], log, n + 1, Key(log[n + 1])),
         \/ log[n + 1].type = "pipeline-started"
         \/ Key(log[n + 1]) \in DOMAIN v.pipelines
  PROVE  Knows([v EXCEPT !.pipelines = map], log, n + 1)
<1> DEFINE w == [v EXCEPT !.pipelines = map]
           e == log[n + 1]
<1>1. /\ w.ok = TRUE /\ DOMAIN w = DOMAIN Projection!EmptySession /\ w.pipelines = map
  BY DEF Knows, Projection!EmptySession
<1>2. \A key, types : key # Key(e) => Of(log, n + 1, key, types) = Of(log, n, key, types)
  <2> SUFFICES ASSUME NEW key, NEW types, key # Key(e)
               PROVE  Of(log, n + 1, key, types) = Of(log, n, key, types)
    OBVIOUS
  <2> QED BY OneMore
<1>3. Of(log, n + 1, Key(e), {"pipeline-started"}) # {}
  <2>1. CASE e.type = "pipeline-started"
    <3>1. n + 1 \in Of(log, n + 1, Key(e), {"pipeline-started"})
      BY <2>1 DEF Of
    <3> QED BY <3>1
  <2>2. CASE Key(e) \in DOMAIN v.pipelines
    <3>1. Of(log, n, Key(e), {"pipeline-started"}) # {}
      BY <2>2 DEF Knows
    <3> QED BY <3>1, OneMore
  <2> QED BY <2>1, <2>2
<1> HIDE DEF w
<1>4. \A key : key \in DOMAIN map <=> Of(log, n + 1, key, {"pipeline-started"}) # {}
  BY <1>2, <1>3 DEF Knows
<1>5. \A key : key \notin DOMAIN map => Of(log, n + 1, key, {"pipeline-stage"}) = {}
  BY <1>2 DEF Knows
<1>6. \A key \in DOMAIN map : Shows(map[key], log, n + 1, key)
  BY <1>2 DEF Knows, Shows
<1> QED BY <1>1, <1>4, <1>5, <1>6 DEF Knows, w

LEMMA LegalStep ==
  ASSUME NEW v, NEW log, NEW n \in Nat, Knows(v, log, n), IsLegal(log, n + 1)
  PROVE  Knows(Projection!SessionStep(v, log[n + 1]), log, n + 1)
<1> DEFINE e == log[n + 1]
           key == Key(e)
<1>1. (n + 1) - 1 = n
  OBVIOUS
<1>2. v.ok = TRUE /\ "pipelines" \in DOMAIN v
  BY DEF Knows, Projection!EmptySession
<1>3. \A types : Of(log, n + 1, key, types)
                   = Of(log, n, key, types) \cup (IF e.type \in types THEN {n + 1} ELSE {})
  <2> TAKE types
  <2>1. IF e.type \in types
        THEN Of(log, n + 1, key, types) = Of(log, n, key, types) \cup {n + 1}
        ELSE Of(log, n + 1, key, types) = Of(log, n, key, types)
    BY OneMore
  <2> QED BY <2>1
<1>4. CASE e.type = "pipeline-started"
  <2> DEFINE map == Projection!Put(v.pipelines, key, [status |-> "running", stages |-> {}])
  <2>1. Of(log, n, key, {"pipeline-started"}) = {}
    BY <1>1, <1>4 DEF IsLegal, EndTypes
  <2>2. key \notin DOMAIN v.pipelines
    BY <2>1 DEF Knows
  <2>3. Projection!SessionStep(v, e) = [v EXCEPT !.pipelines = map]
    BY <1>2, <1>4, <2>2 DEF Projection!SessionStep, Projection!PipelineStep, Projection!Admit, Key
  <2>4. /\ DOMAIN map = DOMAIN v.pipelines \cup {key}
        /\ map[key] = [status |-> "running", stages |-> {}]
        /\ \A k \in DOMAIN v.pipelines : k # key => map[k] = v.pipelines[k]
    BY DEF Projection!Put
  <2>5. Of(log, n + 1, key, {"pipeline-stage"}) = {} /\ Of(log, n + 1, key, {"pipeline-started"}) # {}
    BY <1>3, <1>4, <2>2 DEF Knows
  <2>6. Shows(map[key], log, n + 1, key)
    BY <2>4, <2>5 DEF Shows
  <2> HIDE DEF map
  <2> QED BY <1>4, <2>3, <2>4, <2>6, EntryIsShown
<1>5. CASE e.type \in EndTypes \cup {"pipeline-stage"}
  <2> DEFINE entry == v.pipelines[key]
  <2>1. /\ Of(log, n, key, {"pipeline-started"}) # {} /\ Of(log, n, key, EndTypes) = {}
        /\ e.type = "pipeline-stage" =>
             \A j \in Of(log, n, key, {"pipeline-stage"}) : log[j].stage # e.stage
    BY <1>1, <1>5 DEF IsLegal, EndTypes
  <2>2. /\ key \in DOMAIN v.pipelines /\ Shows(entry, log, n, key)
        /\ entry.status = "running" /\ DOMAIN entry = {"status", "stages"}
    BY <2>1 DEF Knows, Shows
  <2>3. Projection!IsRunning(v, e)
    BY <2>2 DEF Projection!IsRunning, Key
  <2>4. SUFFICES ASSUME NEW next, Shows(next, log, n + 1, key),
                        Projection!SessionStep(v, e)
                          = [v EXCEPT !.pipelines = [v.pipelines EXCEPT ![key] = next]]
                 PROVE  Knows(Projection!SessionStep(v, e), log, n + 1)
    <3>1. CASE e.type = "pipeline-stage"
      <4> DEFINE next == [entry EXCEPT !.stages = @ \cup {e.stage}]
      <4>1. e.stage \notin entry.stages
        BY <2>1, <2>2, <3>1 DEF Shows
      <4>2. Projection!SessionStep(v, e)
              = [v EXCEPT !.pipelines = [v.pipelines EXCEPT ![key] = next]]
        BY <1>2, <2>2, <2>3, <3>1, <4>1
           DEF Projection!SessionStep, Projection!PipelineStep, Projection!Admit, Key
      <4>3. /\ DOMAIN next = {"status", "stages"} /\ next.status = "running"
            /\ next.stages = entry.stages \cup {e.stage}
        BY <2>2
      <4>4. Of(log, n + 1, key, {"pipeline-stage"}) = Of(log, n, key, {"pipeline-stage"}) \cup {n + 1}
        BY <1>3, <3>1
      <4> HIDE DEF next
      <4>5. Shows(next, log, n + 1, key)
        BY <2>2, <4>3, <4>4 DEF Shows
      <4> QED BY <4>2, <4>5
    <3>2. CASE e.type \in EndTypes
      <4> PICK status : status = IF e.type = "pipeline-completed" THEN "completed" ELSE "failed"
        OBVIOUS
      <4> DEFINE next == [entry EXCEPT !.status = status]
      <4>1. Projection!SessionStep(v, e)
              = [v EXCEPT !.pipelines = [v.pipelines EXCEPT ![key] = next]]
        <5>1. CASE e.type = "pipeline-completed"
          BY <1>2, <2>2, <2>3, <5>1
             DEF Projection!SessionStep, Projection!PipelineStep, Projection!Admit, Key
        <5>2. CASE e.type = "pipeline-failed"
          BY <1>2, <2>2, <2>3, <5>2
             DEF Projection!SessionStep, Projection!PipelineStep, Projection!Admit, Key
        <5> QED BY <3>2, <5>1, <5>2 DEF EndTypes
      <4>2. DOMAIN next = {"status", "stages"} /\ next.stages = entry.stages
        BY <2>2
      <4>3. /\ Of(log, n + 1, key, {"pipeline-stage"}) = Of(log, n, key, {"pipeline-stage"})
            /\ Of(log, n + 1, key, EndTypes) # {}
        BY <1>3, <3>2 DEF EndTypes
      <4> HIDE DEF next
      <4>4. Shows(next, log, n + 1, key)
        BY <2>2, <4>2, <4>3 DEF Shows
      <4> QED BY <4>1, <4>4
    <3> QED BY <1>5, <3>1, <3>2
  <2> PICK map : map = [v.pipelines EXCEPT ![key] = next]
    OBVIOUS
  <2>5. /\ DOMAIN map = DOMAIN v.pipelines \cup {key} /\ map[key] = next
        /\ \A k \in DOMAIN v.pipelines : k # key => map[k] = v.pipelines[k]
    BY <2>2
  <2>6. Shows(map[key], log, n + 1, key)
    BY <2>4, <2>5
  <2>7. Knows([v EXCEPT !.pipelines = map], log, n + 1)
    BY <2>2, <2>5, <2>6, EntryIsShown
  <2> QED BY <2>4, <2>7
<1> QED BY <1>4, <1>5 DEF IsLegal

LEMMA LegalIsReplayed ==
  ASSUME NEW S, NEW log \in Seq(S), \A i \in 1..Len(log) : IsLegal(log, i)
  PROVE  Projection!ProjectSession(log).ok
<1>1. PICK n : n = Len(log) /\ n \in Nat
  OBVIOUS
<1>2. PICK f : Projection!Views(f, log, n)
  BY <1>1, Projection!ViewsExist
<1>3. Projection!ProjectSession(log) = f[n]
  BY <1>1, <1>2, Projection!ProjectSessionIsLastView
<1> DEFINE Bad == {m \in Nat : m <= n /\ ~Knows(f[m], log, m)}
<1>4. ASSUME Bad # {}
      PROVE  FALSE
  <2>1. PICK m \in Bad : \A k \in Bad : m <= k
    <3>1. Bad \in SUBSET Nat
      OBVIOUS
    <3> HIDE DEF Bad
    <3> QED BY <1>4, <3>1, Least
  <2>2. CASE m = 0
    <3>1. f[0] = Projection!EmptySession
      BY <1>2 DEF Projection!Views
    <3>2. \A key, types : Of(log, 0, key, types) = {}
      BY DEF Of
    <3>3. Knows(Projection!EmptySession, log, 0)
      BY <3>2 DEF Knows, Projection!EmptySession, Projection!Map0
    <3> QED BY <2>1, <2>2, <3>1, <3>3
  <2>3. CASE m # 0
    <3>1. PICK k \in Nat : k = m - 1 /\ m = k + 1 /\ k <= n /\ m \in 1..n
      <4>1. m - 1 \in Nat /\ m = (m - 1) + 1 /\ m - 1 <= n /\ m \in 1..n
        BY <1>1, <2>1, <2>3
      <4> QED BY <4>1
    <3>2. Knows(f[k], log, k)
      <4>1. ~(m <= k)
        BY <2>1, <3>1
      <4> QED BY <2>1, <3>1, <4>1
    <3>3. f[m] = Projection!SessionStep(f[k], log[m])
      BY <1>2, <3>1 DEF Projection!Views
    <3>4. Knows(f[m], log, m)
      BY <1>1, <3>1, <3>2, <3>3, LegalStep
    <3> QED BY <2>1, <3>4
  <2> QED BY <2>2, <2>3
<1>5. Knows(f[n], log, n)
  BY <1>1, <1>4
<1> QED BY <1>3, <1>5 DEF Knows

(* No two runs have one Pipeline when each starts once.                    *)
LEMMA PipelineIsRun ==
  ASSUME CompiledIsSound, StartsOnce, NEW r \in RunIds, NEW q \in RunIds,
         PipelineOf(r) = PipelineOf(q)
  PROVE  r = q
<1>1. ASSUME NEW p \in RunIds, p # Top
      PROVE  /\ p[1] \in Nested /\ p = <<p[1], 1>>
             /\ PipelineOf(p) = graphs[Root].invokes[p[1]] /\ PipelineOf(p) # Root
  <2>1. PICK s \in Nested : \E a \in 1..(graphs[Root].retries[s] + 1) : p = <<s, a>>
    BY <1>1 DEF RunIds, RunIdsOf, Nested
  <2>2. graphs[Root].retries[s] + 1 = 1
    BY DEF StartsOnce
  <2>3. p = <<s, 1>>
    BY <2>1, <2>2
  <2>4. PipelineOf(p) = graphs[Root].invokes[s]
    BY <1>1, <2>3 DEF PipelineOf
  <2>5. graphs[Root].invokes[s] \in Invoked(graphs[Root])
    BY DEF Nested, Invoked
  <2>6. Root \notin Invoked(graphs[Root])
    BY GraphsAssumption DEF CompiledIsSound
  <2> QED BY <2>3, <2>4, <2>5, <2>6
<1>2. PipelineOf(Top) = Root
  BY DEF PipelineOf
<1>3. CASE r # Top /\ q # Top
  <2>1. r[1] = q[1]
    BY <1>1, <1>3 DEF StartsOnce
  <2> QED BY <1>1, <1>3, <2>1
<1> QED BY <1>1, <1>2, <1>3

LEMMA JournalIsLegal ==
  ASSUME IInv, StartsOnce, \A r \in Opened : OneByOne(G(r)), NEW i \in DOMAIN journal
  PROVE  IsLegal(journal, i)
<1>1. PICK n \in Nat : DOMAIN journal = 1..n
  <2>1. PICK S : journal \in Seq(S)
    BY DEF IInv
  <2> QED BY <2>1
<1> DEFINE e == journal[i]
           r == e.run
<1>2. /\ r \in Opened /\ IsRecord(e) /\ i \in 1..n
      /\ JournalTells(journal, r, runs[r], G(r), faults)
  BY <1>1 DEF IInv
<1>3. ASSUME NEW types, NEW j \in Of(journal, i - 1, Key(e), types)
      PROVE  j \in Told(journal, r, types) /\ j \in 1..n /\ j < i
  <2>1. j \in 1..n /\ j < i /\ journal[j].type \in types /\ Key(journal[j]) = Key(e)
    BY <1>1, <1>2 DEF Of
  <2>2. journal[j].run \in Opened /\ IsRecord(journal[j])
    BY <1>1, <2>1 DEF IInv
  <2>3. PipelineOf(journal[j].run) = PipelineOf(r)
    BY <1>2, <2>1, <2>2 DEF IsRecord, Key, Projection!PipelineKey
  <2>4. journal[j].run = r
    BY <1>2, <2>2, <2>3, PipelineIsRun DEF IInv, Opened
  <2> QED BY <1>1, <2>1, <2>4 DEF Told
<1>4. ASSUME NEW j \in Told(journal, r, {"pipeline-started"}), j < i
      PROVE  j \in Of(journal, i - 1, Key(e), {"pipeline-started"})
  <2>1. j \in 1..n /\ journal[j].type = "pipeline-started" /\ journal[j].run = r
    BY <1>1 DEF Told
  <2>2. IsRecord(journal[j]) /\ j \in 1..(i - 1)
    BY <1>1, <1>2, <1>4, <2>1 DEF IInv
  <2>3. Key(journal[j]) = Key(e)
    BY <1>2, <2>1, <2>2 DEF IsRecord, Key, Projection!PipelineKey
  <2> QED BY <2>1, <2>2, <2>3 DEF Of
<1> HIDE DEF e, r
<1>5. StartsFirst(journal, r) /\ Starts(journal, r) # {} /\ EndsLast(journal, r)
  BY <1>2 DEF JournalTells
<1>6. i \in Nat /\ journal[i] = e /\ e.run = r /\ i \in DOMAIN journal
  BY <1>1, <1>2 DEF e, r
<1>7. CASE e.type = "pipeline-started"
  <2>1. i \in Starts(journal, r)
    BY <1>6, <1>7 DEF Starts, Told
  <2>2. ASSUME NEW j \in Of(journal, i - 1, Key(e), {"pipeline-started"})
        PROVE  FALSE
    <3>1. j \in 1..n /\ j < i /\ journal[j].run = r
      BY <1>3 DEF Told
    <3>2. i <= j
      BY <1>1, <1>5, <2>1, <3>1 DEF StartsFirst
    <3> QED BY <1>6, <3>1, <3>2
  <2> QED BY <1>6, <1>7, <2>2 DEF IsLegal
<1>8. CASE e.type # "pipeline-started"
  <2>1. e.type \in EndTypes \cup {"pipeline-stage"}
    BY <1>2, <1>8 DEF IsRecord, EndTypes
  <2>2. PICK j \in Starts(journal, r) : TRUE
    BY <1>5
  <2>3. j <= i /\ j # i /\ j \in Nat /\ j \in Told(journal, r, {"pipeline-started"})
    BY <1>1, <1>5, <1>6, <1>8, <2>2 DEF StartsFirst, Starts, Told
  <2>4. j < i
    BY <1>6, <2>3
  <2>5. j \in Of(journal, i - 1, Key(e), {"pipeline-started"})
    BY <1>4, <2>3, <2>4
  <2>6. ASSUME NEW k \in Of(journal, i - 1, Key(e), EndTypes)
        PROVE  FALSE
    <3>1. k \in Ends(journal, r) /\ k \in Nat /\ k < i
      BY <1>3 DEF Ends, EndTypes
    <3>2. CASE e.type = "pipeline-stage"
      <4>1. i \in Told(journal, r, {"pipeline-stage"})
        BY <1>6, <3>2 DEF Told
      <4>2. i < k
        BY <1>5, <3>1, <4>1 DEF EndsLast
      <4> QED BY <1>6, <3>1, <4>2
    <3>3. CASE e.type \in EndTypes
      <4>1. i \in Ends(journal, r)
        BY <1>6, <3>3 DEF Ends, Told, EndTypes
      <4>2. i = k
        BY <1>2, <3>1, <4>1 DEF JournalTells
      <4> QED BY <1>6, <3>1, <4>2
    <3> QED BY <2>1, <3>2, <3>3
  <2>7. ASSUME e.type = "pipeline-stage", NEW k \in Of(journal, i - 1, Key(e), {"pipeline-stage"}),
               journal[k].stage = e.stage
        PROVE  FALSE
    <3>1. k \in Told(journal, r, {"pipeline-stage"}) /\ k \in Nat /\ k < i
      BY <1>3
    <3>2. i \in Told(journal, r, {"pipeline-stage"})
      BY <1>6, <2>7 DEF Told
    <3>3. e.stage \in G(r).stages
      BY <1>2, <1>6, <2>7 DEF IsRecord
    <3>4. k \in Reports(journal, r, e.stage) /\ i \in Reports(journal, r, e.stage)
      BY <1>6, <2>7, <3>1, <3>2 DEF Reports
    <3>5. i = k
      BY <1>2, <3>3, <3>4 DEF JournalTells
    <3> QED BY <1>6, <3>1, <3>5
  <2> QED BY <1>6, <2>1, <2>5, <2>6, <2>7 DEF IsLegal
<1> QED BY <1>7, <1>8

LEMMA ReplayFollows ==
  ASSUME IInv
  PROVE  SequentialJournalReplays
<1> SUFFICES ASSUME Sequential, StartsOnce
             PROVE  StageWithinRun /\ JournalReplays
  BY DEF SequentialJournalReplays
<1>1. ASSUME NEW r \in Opened
      PROVE  OneByOne(G(r))
  <2>1. r \in RunIds /\ CompiledIsSound
    BY DEF Opened, IInv
  <2>2. PipelineOf(r) \in DOMAIN graphs
    <3>1. graphs \in Experiences /\ Root \in DOMAIN graphs
          /\ Invoked(graphs[Root]) \subseteq DOMAIN graphs
      BY <2>1, GraphsAssumption DEF CompiledIsSound
    <3>2. CASE r = Top
      BY <3>1, <3>2 DEF PipelineOf
    <3>3. CASE r # Top
      <4>1. r[1] \in Nested
        BY <2>1, <3>3, GraphFacts
      <4>2. graphs[Root].invokes[r[1]] \in Invoked(graphs[Root])
        BY <4>1 DEF Nested, Invoked
      <4> QED BY <3>1, <3>3, <4>2 DEF PipelineOf
    <3> QED BY <3>2, <3>3
  <2> QED BY <2>2 DEF Sequential, OneByOne, G
<1>2. StageWithinRun
  <2> SUFFICES ASSUME NEW r \in Opened
               PROVE  EndsLast(journal, r)
    BY DEF StageWithinRun, EndsLast, EventsOf, Terminals, Told, Ends
  <2> QED BY <1>1, OpenedFacts DEF JournalTells
<1>3. JournalReplays
  <2>1. PICK S : journal \in Seq(S)
    BY DEF IInv
  <2>2. DOMAIN journal = 1..Len(journal)
    BY <2>1
  <2>3. \A i \in 1..Len(journal) : IsLegal(journal, i)
    BY <1>1, <2>2, JournalIsLegal
  <2> QED BY <2>1, <2>3, LegalIsReplayed DEF JournalReplays
<1> QED BY <1>2, <1>3

(* What the observer journals of a run of one stage at a time, of which no *)
(* Pipeline starts twice, is always taken by the strict fold, whatever     *)
(* fails, times out, is cancelled or is not heard of.                      *)
THEOREM JournalsReplay == Spec => []SequentialJournalReplays
<1>1. IInv => SequentialJournalReplays
  BY ReplayFollows
<1> QED BY <1>1, Invariance, PTL

-----------------------------------------------------------------------------
(* No step that is taken after cancellation begins an attempt of r.        *)
NothingBegins(r) ==
  IF runs[r] = None
  THEN runs'[r] # None => r = Top /\ \A s \in G(r).stages : runs'[r].attempt[s] = 0
  ELSE runs'[r].attempt = runs[r].attempt

LEMMA MoveBeginsNothing ==
  ASSUME IInv, NEW r \in Opened, NEW next, next.attempt = runs[r].attempt,
         runs' = [runs EXCEPT ![r] = next]
  PROVE  \A q \in RunIds : NothingBegins(q)
BY DEF NothingBegins, IInv, Opened

LEMMA SettleBeginsNothing ==
  ASSUME IInv, NEW r \in Opened, NEW s \in G(r).stages, NEW outcome,
         runs' = [runs EXCEPT ![r].at[s] = outcome]
  PROVE  \A q \in RunIds : NothingBegins(q)
<1> DEFINE next == [runs[r] EXCEPT !.at[s] = outcome]
<1>1. r \in DOMAIN runs /\ runs[r] \in RunOf(G(r))
  BY OpenedFacts DEF IInv
<1>2. runs' = [runs EXCEPT ![r] = next] /\ next.attempt = runs[r].attempt
  BY <1>1 DEF RunOf
<1> HIDE DEF next
<1> QED BY <1>2, MoveBeginsNothing

LEMMA CancelledStep ==
  ASSUME IInv, [Next]_vars, cancelled
  PROVE  \A q \in RunIds : NothingBegins(q)
<1>1. CASE UNCHANGED runs
  BY <1>1 DEF NothingBegins
<1>2. CASE Start
  <2>1. runs[Top] = None /\ Fail(Top, NewRun(Top), <<Record(Top, "pipeline-started")>>)
    BY <1>2 DEF Start, EnterLevel
  <2>2. runs' = [runs EXCEPT ![Top] = [NewRun(Top) EXCEPT !.status = "failed"]]
    BY <2>1 DEF Fail
  <2>3. \A s \in G(Top).stages : [NewRun(Top) EXCEPT !.status = "failed"].attempt[s] = 0
    BY DEF NewRun
  <2> QED BY <2>1, <2>2, <2>3 DEF NothingBegins, IInv
<1>3. ASSUME NEW r \in RunIds, LevelThrows(r) \/ LevelSettles(r)
      PROVE  \A q \in RunIds : NothingBegins(q)
  <2> DEFINE merged == [runs[r] EXCEPT !.keys = @ \cup UNION {G(r).writes[s] : s \in Writers(r)}]
  <2>1. r \in Opened
    BY <1>3 DEF LevelThrows, LevelSettles, IsRunning, Opened
  <2>2. runs[r] \in RunOf(G(r))
    BY <2>1, OpenedFacts
  <2>3. \E run \in {runs[r], merged}, status \in Statuses :
          runs' = [runs EXCEPT ![r] = [run EXCEPT !.status = status]]
    BY <1>3 DEF LevelThrows, LevelSettles, EnterLevel, Fail, Complete, Statuses
  <2>4. \A run \in {runs[r], merged}, status \in Statuses :
          [run EXCEPT !.status = status].attempt = runs[r].attempt
    BY <2>2 DEF RunOf
  <2> QED BY <2>1, <2>3, <2>4, MoveBeginsNothing
<1>4. ASSUME NEW r \in RunIds, NEW s \in G(r).stages,
             OperationSucceeds(r, s) \/ OperationFails(r, s) \/ StageTimesOut(r, s)
      PROVE  \A q \in RunIds : NothingBegins(q)
  <2>1. r \in Opened /\ \E outcome : runs' = [runs EXCEPT ![r].at[s] = outcome]
    BY <1>4 DEF OperationSucceeds, OperationFails, StageTimesOut, IsBusy, Opened,
                AttemptFails, Settle
  <2> QED BY <2>1, SettleBeginsNothing
<1> QED BY <1>1, <1>2, <1>3, <1>4 DEF Next, vars, Register, Cancel, StartThrows

(* After cancellation nothing new begins: no attempt, no level, no nested  *)
(* run.                                                                    *)
THEOREM CancellationHolds == Spec => CancelStartsNothing
<1>1. IInv /\ [Next]_vars =>
        [cancelled => \A r \in RunIds :
           IF runs[r] = None
           THEN runs'[r] # None => r = Top /\ \A s \in G(r).stages : runs'[r].attempt[s] = 0
           ELSE runs'[r].attempt = runs[r].attempt]_vars
  BY CancelledStep DEF NothingBegins
<1> QED BY <1>1, Invariance, PTL DEF Spec, CancelStartsNothing
=============================================================================
