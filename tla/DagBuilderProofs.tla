-------------------------- MODULE DagBuilderProofs --------------------------
(***************************************************************************)
(* Proofs that the builder's loop finds the cycles and the depths of any   *)
(* graph, in whatever order it takes the tasks.                            *)
(*                                                                         *)
(* The tasks already taken are those whose inDegree is 0 and that are not  *)
(* in the queue.  GraphInv says what inDegree, depths and processed are of *)
(* them; when the queue is empty, either all tasks are taken, and depths   *)
(* are bounded by the number of tasks, or the others lie on cycles or      *)
(* behind them, and paths of any length end at them.                       *)
(***************************************************************************)
EXTENDS DagBuilder, FiniteSetTheorems, Induction

Deps(dag, s) == {DependsOn(dag, s)[k] : k \in DOMAIN DependsOn(dag, s)}

(* A graph whose dependencies are all tasks of it.                         *)
GoodDag(dag) ==
  /\ IsFiniteSet(TasksOf(dag))
  /\ \A s \in TasksOf(dag) :
       /\ Len(DependsOn(dag, s)) \in Nat
       /\ DOMAIN DependsOn(dag, s) = 1 .. Len(DependsOn(dag, s))
       /\ Deps(dag, s) \subseteq TasksOf(dag)

(* The entries for dependencies that are not in T.                         *)
Missing(dag, T, s) == {k \in DOMAIN DependsOn(dag, s) : DependsOn(dag, s)[k] \notin T}

-----------------------------------------------------------------------------
(* The entries of a task are finitely many.                                *)
LEMMA EntriesFinite ==
  ASSUME NEW dag, GoodDag(dag), NEW s \in TasksOf(dag),
         NEW E, E \subseteq DOMAIN DependsOn(dag, s)
  PROVE  IsFiniteSet(E) /\ Cardinality(E) \in Nat
<1>1. DOMAIN DependsOn(dag, s) = 1 .. Len(DependsOn(dag, s)) /\ Len(DependsOn(dag, s)) \in Nat
  BY DEF GoodDag
<1>2. IsFiniteSet(DOMAIN DependsOn(dag, s))
  BY <1>1, FS_Interval
<1> QED
  BY <1>2, FS_Subset, FS_CardinalityType

(* A set of entries is empty if and only if there are none of it.          *)
LEMMA NoEntry ==
  ASSUME NEW dag, GoodDag(dag), NEW s \in TasksOf(dag),
         NEW E, E \subseteq DOMAIN DependsOn(dag, s)
  PROVE  Cardinality(E) = 0 <=> E = {}
BY EntriesFinite, FS_EmptySet

(* A task is a child of what it depends on.                                *)
LEMMA ChildrenAre ==
  ASSUME NEW dag, GoodDag(dag), NEW s \in TasksOf(dag), NEW d
  PROVE  s \in Children(dag, d) <=> d \in Deps(dag, s)
<1> DEFINE E == {k \in DOMAIN DependsOn(dag, s) : DependsOn(dag, s)[k] = d}
<1>1. Cardinality(E) \in Nat /\ (Cardinality(E) = 0 <=> E = {})
  <2>1. E \subseteq DOMAIN DependsOn(dag, s)
    OBVIOUS
  <2> HIDE DEF E
  <2> QED
    BY <2>1, EntriesFinite, NoEntry
<1>2. E = {} <=> d \notin Deps(dag, s)
  BY DEF Deps
<1>3. s \in Children(dag, d) <=> Cardinality(E) > 0
  BY DEF Children, Times
<1> HIDE DEF E
<1> QED
  BY <1>1, <1>2, <1>3

(* The reference as it is computed.                                        *)
LEMMA PathEndsAre ==
  ASSUME NEW dag, GoodDag(dag)
  PROVE  /\ Cardinality(TasksOf(dag)) \in Nat
         /\ PathEnds(dag)[0] = TasksOf(dag)
         /\ \A n \in 1 .. Cardinality(TasksOf(dag)) :
              PathEnds(dag)[n] = {s \in TasksOf(dag) :
                                    \E d \in PathEnds(dag)[n - 1] : d \in Deps(dag, s)}
<1> DEFINE N == Cardinality(TasksOf(dag))
           Q == SUBSET TasksOf(dag)
           After(S) == {s \in TasksOf(dag) : \E d \in S : s \in Children(dag, d)}
           step == [x \in Q \X (1 .. N) |-> After(x[1])]
           Folds(f) == f = [n \in 0 .. N |-> IF n = 0 THEN TasksOf(dag) ELSE After(f[n - 1])]
<1>1. N \in Nat
  BY FS_CardinalityType DEF GoodDag
<1>2. PICK f : IsFold(f, Q, N, TasksOf(dag), step)
  <2>1. TasksOf(dag) \in Q /\ step \in Steps(Q, N)
    BY DEF Steps
  <2> HIDE DEF step, Q, N
  <2> QED
    BY <1>1, <2>1, FoldExists
<1>3. f \in [0 .. N -> Q] /\ f[0] = TasksOf(dag)
  BY <1>2 DEF IsFold
<1>4. \A n \in 1 .. N : f[n] = After(f[n - 1])
  <2>1. \A n \in 1 .. N : <<f[n - 1], n>> \in Q \X (1 .. N)
    <3> HIDE DEF Q, N
    <3> QED
      BY <1>1, <1>3
  <2>2. \A n \in 1 .. N : f[n] = step[<<f[n - 1], n>>]
    BY <1>2 DEF IsFold
  <2> HIDE DEF N, After, Q
  <2> QED
    BY <2>1, <2>2
<1>5. Folds(f)
  <2>1. \A n \in 0 .. N : n = 0 \/ n \in 1 .. N
    <3> HIDE DEF N
    <3> QED
      BY <1>1
  <2> HIDE DEF N, After, Q
  <2> QED
    BY <1>3, <1>4, <2>1
<1>6. Folds(PathEnds(dag))
  <2>1. PathEnds(dag) = CHOOSE g : Folds(g)
    BY DEF PathEnds
  <2> HIDE DEF Folds
  <2> QED
    BY <1>5, <2>1
<1> DEFINE P == PathEnds(dag)
<1>7. P[0] = TasksOf(dag) /\ \A n \in 1 .. N : P[n] = After(P[n - 1])
  <2>1. 0 \in 0 .. N /\ \A n \in 1 .. N : n \in 0 .. N /\ n # 0
    <3> HIDE DEF N
    <3> QED
      BY <1>1
  <2> HIDE DEF P, N, After
  <2> QED
    BY <1>6, <2>1 DEF P
<1>8. \A S : After(S) = {s \in TasksOf(dag) : \E d \in S : d \in Deps(dag, s)}
  BY ChildrenAre
<1> HIDE DEF After
<1> QED
  BY <1>1, <1>7, <1>8

(* Tasks each of which depends on one of them: long paths end at them all. *)
LEMMA LeftBehind ==
  ASSUME NEW dag, GoodDag(dag), NEW U \in SUBSET TasksOf(dag), U # {},
         \A s \in U : \E d \in U : d \in Deps(dag, s)
  PROVE  Cyclic(dag)
<1> DEFINE N == Cardinality(TasksOf(dag))
           P == PathEnds(dag)
           S == {n \in 0 .. N : U \subseteq P[n]}
<1>1. /\ N \in Nat /\ P[0] = TasksOf(dag)
      /\ \A n \in 1 .. N : P[n] = {s \in TasksOf(dag) : \E d \in P[n - 1] : d \in Deps(dag, s)}
  BY PathEndsAre
<1> HIDE DEF N, P
<1>2. 0 \in S
  BY <1>1
<1>3. ASSUME NEW n \in 0 .. N - 1, n \in S
      PROVE  n + 1 \in S
  <2>1. n + 1 \in 1 .. N /\ n + 1 \in 0 .. N /\ (n + 1) - 1 = n
    BY <1>1
  <2>2. P[n + 1] = {s \in TasksOf(dag) : \E d \in P[n] : d \in Deps(dag, s)}
    BY <1>1, <2>1
  <2> QED
    BY <1>3, <2>1, <2>2
<1>4. N \in S
  <2>1. 0 .. N \subseteq S
    <3> HIDE DEF S
    <3> QED
      BY <1>1, <1>2, <1>3, InductionUpTo
  <2> QED
    BY <1>1, <2>1
<1> QED
  BY <1>4 DEF Cyclic, N, P

(* A depth for every task, one more than the greatest of those it depends  *)
(* on.                                                                     *)
Heights(dag, D) ==
  \A s \in TasksOf(dag) :
    /\ D[s] \in Nat
    /\ \A d \in Deps(dag, s) : D[s] > D[d]
    /\ D[s] # 0 => \E d \in Deps(dag, s) : D[s] = D[d] + 1

(* There are tasks at all smaller depths, so more tasks than the depth.    *)
LEMMA HeightsBounded ==
  ASSUME NEW dag, GoodDag(dag), NEW D, Heights(dag, D), NEW s \in TasksOf(dag)
  PROVE  D[s] < Cardinality(TasksOf(dag))
<1> DEFINE T == TasksOf(dag)
           V == {D[t] : t \in T}
           S == {k \in 0 .. D[s] : D[s] - k \in V}
           f == [t \in T |-> D[t]]
<1>1. D[s] \in Nat /\ V \subseteq Nat
  BY DEF Heights
<1>2. 0 \in S
  BY <1>1
<1>3. ASSUME NEW k \in 0 .. D[s] - 1, k \in S
      PROVE  k + 1 \in S
  <2>1. PICK t \in T : D[s] - k = D[t]
    BY <1>3
  <2>2. D[t] # 0 /\ D[t] \in Nat
    BY <1>1, <2>1
  <2>3. PICK d \in Deps(dag, t) : D[t] = D[d] + 1
    BY <2>2 DEF Heights
  <2>4. d \in T /\ D[d] \in Nat
    BY <2>3 DEF GoodDag, Heights
  <2>5. D[s] - (k + 1) = D[d] /\ k + 1 \in 0 .. D[s]
    BY <1>1, <2>1, <2>3, <2>4
  <2> QED
    BY <2>4, <2>5
<1>4. 0 .. D[s] \subseteq V
  <2>1. 0 .. D[s] \subseteq S
    <3> DEFINE n == D[s]
    <3>1. n \in Nat /\ \A k \in 0 .. n - 1 : k \in S => k + 1 \in S
      BY <1>1, <1>3
    <3> HIDE DEF S, n
    <3>2. 0 .. n \subseteq S
      BY <1>2, <3>1, InductionUpTo
    <3> QED
      BY <3>2 DEF n
  <2>2. \A v \in 0 .. D[s] : D[s] - v \in 0 .. D[s] /\ D[s] - (D[s] - v) = v
    BY <1>1
  <2>3. ASSUME NEW v \in 0 .. D[s]
        PROVE  v \in V
    <3>1. D[s] - v \in S
      BY <2>1, <2>2
    <3>2. D[s] - (D[s] - v) \in V
      BY <3>1
    <3> HIDE DEF V
    <3> QED
      BY <2>2, <3>2
  <2> QED
    BY <2>3
<1>5. IsFiniteSet(V) /\ Cardinality(V) <= Cardinality(T)
  <2>1. f \in Surjection(T, V)
    BY DEF Surjection
  <2>2. IsFiniteSet(T)
    BY DEF GoodDag
  <2> HIDE DEF f, V, T
  <2> QED
    BY <2>1, <2>2, FS_Surjection
<1>6. Cardinality(0 .. D[s]) = D[s] + 1 /\ IsFiniteSet(0 .. D[s])
  BY <1>1, FS_Interval
<1>7. Cardinality(0 .. D[s]) <= Cardinality(V)
  <2> HIDE DEF V
  <2> QED
    BY <1>4, <1>5, FS_Subset
<1>8. Cardinality(V) \in Nat /\ Cardinality(T) \in Nat
  <2> HIDE DEF V
  <2> QED
    BY <1>5, FS_CardinalityType DEF GoodDag
<1> HIDE DEF V
<1> QED
  BY <1>1, <1>5, <1>6, <1>7, <1>8

(* A task is at the end of paths up to its depth and of no longer one.     *)
LEMMA HeightsAreLongest ==
  ASSUME NEW dag, GoodDag(dag), NEW D, Heights(dag, D)
  PROVE  ~Cyclic(dag) /\ \A s \in TasksOf(dag) : D[s] = LongestPath(dag, s)
<1> DEFINE T == TasksOf(dag)
           N == Cardinality(T)
           P == PathEnds(dag)
           S == {n \in 0 .. N : \A s \in T : s \in P[n] <=> n <= D[s]}
<1>1. /\ N \in Nat /\ P[0] = T
      /\ \A n \in 1 .. N : P[n] = {s \in T : \E d \in P[n - 1] : d \in Deps(dag, s)}
  BY PathEndsAre
<1>2. \A s \in T : D[s] \in Nat /\ D[s] < N
  BY HeightsBounded DEF Heights
<1>3. \A s \in T : Deps(dag, s) \subseteq T
  BY DEF GoodDag
<1> HIDE DEF N, P, T
<1>4. 0 \in S
  BY <1>1, <1>2
<1>5. ASSUME NEW n \in 0 .. N - 1, n \in S
      PROVE  n + 1 \in S
  <2>1. n + 1 \in 1 .. N /\ n + 1 \in 0 .. N /\ (n + 1) - 1 = n /\ n \in Nat
    BY <1>1
  <2>2. P[n + 1] = {s \in T : \E d \in P[n] : d \in Deps(dag, s)}
    BY <1>1, <2>1
  <2>3. ASSUME NEW s \in T
        PROVE  s \in P[n + 1] <=> n + 1 <= D[s]
    <3>1. /\ \A d \in Deps(dag, s) : D[s] > D[d]
          /\ D[s] # 0 => \E d \in Deps(dag, s) : D[s] = D[d] + 1
      BY DEF Heights, T
    <3>2. \A d \in Deps(dag, s) : d \in P[n] <=> n <= D[d]
      BY <1>3, <1>5
    <3> QED
      BY <1>2, <1>3, <2>1, <2>2, <3>1, <3>2
  <2> QED
    BY <2>1, <2>3
<1>6. \A n \in 0 .. N, s \in T : s \in P[n] <=> n <= D[s]
  <2>1. 0 .. N \subseteq S
    <3> HIDE DEF S
    <3> QED
      BY <1>1, <1>4, <1>5, InductionUpTo
  <2> QED
    BY <2>1
<1>7. P[N] \subseteq T
  <2>1. CASE N = 0
    BY <1>1, <2>1
  <2>2. CASE N # 0
    BY <1>1, <2>2
  <2> QED
    BY <2>1, <2>2
<1>8. ~Cyclic(dag)
  <2>1. P[N] = {}
    BY <1>1, <1>2, <1>6, <1>7
  <2> QED
    BY <2>1 DEF Cyclic, P, N, T
<1>9. ASSUME NEW s \in T
      PROVE  D[s] = LongestPath(dag, s)
  <2> DEFINE Ok(n) == s \in P[n] /\ \A m \in 0 .. N : m > n => s \notin P[m]
  <2>1. D[s] \in 0 .. N /\ Ok(D[s])
    BY <1>1, <1>2, <1>6
  <2>2. ASSUME NEW n \in 0 .. N, Ok(n)
        PROVE  n = D[s]
    <3>1. n <= D[s] /\ n < N
      BY <1>1, <1>2, <1>6, <2>2
    <3>2. n + 1 \in 0 .. N /\ n + 1 > n
      BY <1>1, <3>1
    <3>3. ~(n + 1 <= D[s])
      BY <1>6, <2>2, <3>2
    <3> QED
      BY <1>2, <3>1, <3>3
  <2>3. LongestPath(dag, s) = CHOOSE n \in 0 .. N : Ok(n)
    BY DEF LongestPath, N, P, T
  <2> HIDE DEF Ok
  <2> QED
    BY <2>1, <2>2, <2>3
<1> QED
  BY <1>8, <1>9 DEF T

-----------------------------------------------------------------------------
(* The tasks that the loop has taken, and what it knows of the others.     *)
Taken == {s \in DOMAIN inDegree : inDegree[s] = 0 /\ s \notin queue}

DegreesTrue(dag, T) ==
  /\ DOMAIN inDegree = TasksOf(dag)
  /\ \A s \in TasksOf(dag) : inDegree[s] = Cardinality(Missing(dag, T, s))

DepthsTrue(dag, T) ==
  /\ DOMAIN depths = {s \in TasksOf(dag) : Deps(dag, s) = {} \/ Deps(dag, s) \cap T # {}}
  /\ \A s \in DOMAIN depths :
       /\ depths[s] \in Nat
       /\ \A d \in Deps(dag, s) \cap T : depths[s] > depths[d]
       /\ depths[s] # 0 => \E d \in Deps(dag, s) \cap T : depths[s] = depths[d] + 1

GraphInv(dag) ==
  /\ DegreesTrue(dag, Taken) /\ DepthsTrue(dag, Taken)
  /\ processed = Cardinality(Taken)
  /\ queue \subseteq {s \in TasksOf(dag) : inDegree[s] = 0}

(* The jobs before the one at work are free of cycles.                     *)
AtWork(D) ==
  LET done == Len(build.all) - Len(build.left)
  IN  /\ build.left \in Seq(D) /\ build.left # <<>>
      /\ done \in Nat
      /\ \A i \in 1 .. Len(build.left) : build.left[i] = build.all[done + i]
      /\ \A i \in 1 .. done : ~Cyclic(build.all[i])
      /\ GraphInv(Head(build.left))

EndIsRight ==
  /\ build.end = "DAGValidationError" => \E i \in DOMAIN build.all : Cyclic(build.all[i])
  /\ build.end # "MissingContextError"
  /\ build.end \in {"CostingError", "ReferenceError"} =>
       \A i \in DOMAIN build.all : ~Cyclic(build.all[i])

(* Jobs are from the set D of graphs.                                      *)
BuilderInv(D) ==
  /\ BuilderTypeOK /\ build.all \in Seq(D)
  /\ build.at = "graph" => build.end = "none" /\ AtWork(D)
  /\ EndIsRight

-----------------------------------------------------------------------------
(* With inDegree 0, all that a task depends on is taken.                   *)
LEMMA NoneMissing ==
  ASSUME NEW dag, GoodDag(dag), NEW T, DegreesTrue(dag, T), NEW s \in TasksOf(dag)
  PROVE  /\ inDegree[s] \in Nat
         /\ inDegree[s] = 0 <=> Deps(dag, s) \subseteq T
<1>1. Missing(dag, T, s) \subseteq DOMAIN DependsOn(dag, s)
  BY DEF Missing
<1>2. inDegree[s] \in Nat /\ (inDegree[s] = 0 <=> Missing(dag, T, s) = {})
  BY <1>1, EntriesFinite, NoEntry DEF DegreesTrue
<1> QED
  BY <1>2 DEF Missing, Deps

(* When the queue is empty, the loop has found out what there is.          *)
LEMMA GraphIsRight ==
  ASSUME NEW dag, GoodDag(dag), GraphInv(dag), queue = {}
  PROVE  /\ (processed = Cardinality(TasksOf(dag))) = ~Cyclic(dag)
         /\ ~Cyclic(dag) => \A s \in TasksOf(dag) : depths[s] = LongestPath(dag, s)
<1> DEFINE T == Taken
           U == TasksOf(dag) \ T
<1>1. T \subseteq TasksOf(dag) /\ IsFiniteSet(TasksOf(dag))
  BY DEF Taken, GraphInv, DegreesTrue, GoodDag
<1>2. CASE U = {}
  <2>1. T = TasksOf(dag)
    BY <1>1, <1>2
  <2>2. \A s \in TasksOf(dag) : Deps(dag, s) \subseteq TasksOf(dag)
    BY DEF GoodDag
  <2>3. DepthsTrue(dag, TasksOf(dag))
    BY <2>1 DEF GraphInv
  <2>4. DOMAIN depths = TasksOf(dag)
    BY <2>2, <2>3 DEF DepthsTrue
  <2>5. Heights(dag, depths)
    BY <2>2, <2>3, <2>4 DEF DepthsTrue, Heights
  <2>6. processed = Cardinality(TasksOf(dag))
    BY <2>1 DEF GraphInv
  <2> QED
    BY <2>5, <2>6, HeightsAreLongest
<1>3. CASE U # {}
  <2>1. ASSUME NEW s \in U
        PROVE  \E d \in U : d \in Deps(dag, s)
    <3>1. inDegree[s] # 0
      BY <2>1 DEF Taken, GraphInv, DegreesTrue
    <3>2. ~(Deps(dag, s) \subseteq T)
      BY <3>1, NoneMissing DEF GraphInv
    <3>3. Deps(dag, s) \subseteq TasksOf(dag)
      BY DEF GoodDag
    <3> QED
      BY <3>2, <3>3
  <2>2. Cyclic(dag)
    <3> HIDE DEF U
    <3>1. U \in SUBSET TasksOf(dag)
      BY DEF U
    <3> QED
      BY <1>3, <2>1, <3>1, LeftBehind
  <2>3. processed # Cardinality(TasksOf(dag))
    <3>1. T # TasksOf(dag)
      BY <1>1, <1>3
    <3>2. Cardinality(T) # Cardinality(TasksOf(dag))
      BY <1>1, <3>1, FS_Subset
    <3> QED
      BY <3>2 DEF GraphInv
  <2> QED
    BY <2>2, <2>3
<1> QED
  BY <1>2, <1>3

-----------------------------------------------------------------------------
(* The loop begins with the tasks that depend on nothing.                  *)
LEMMA GraphBegins ==
  ASSUME NEW dag, GoodDag(dag),
         inDegree' = [s \in TasksOf(dag) |-> Len(DependsOn(dag, s))],
         queue' = {s \in TasksOf(dag) : inDegree'[s] = 0},
         depths' = [s \in queue' |-> 0],
         processed' = 0
  PROVE  GraphInv(dag)'
<1>1. Taken' = {}
  BY DEF Taken
<1>2. ASSUME NEW s \in TasksOf(dag)
      PROVE  /\ inDegree'[s] = Cardinality(Missing(dag, {}, s))
             /\ inDegree'[s] = 0 <=> Deps(dag, s) = {}
  <2>1. /\ DOMAIN DependsOn(dag, s) = 1 .. Len(DependsOn(dag, s))
        /\ Len(DependsOn(dag, s)) \in Nat
    BY DEF GoodDag
  <2>2. \A n \in Nat : Cardinality(1 .. n) = n
    BY FS_Interval
  <2>3. Missing(dag, {}, s) = DOMAIN DependsOn(dag, s)
    BY DEF Missing
  <2>4. Deps(dag, s) = {} <=> DOMAIN DependsOn(dag, s) = {}
    BY DEF Deps
  <2> QED
    BY <2>1, <2>2, <2>3, <2>4
<1>3. DegreesTrue(dag, {})'
  BY <1>2 DEF DegreesTrue
<1>4. DepthsTrue(dag, {})'
  BY <1>2 DEF DepthsTrue
<1>5. Cardinality({}) = 0
  BY FS_EmptySet
<1> QED
  BY <1>1, <1>3, <1>4, <1>5 DEF GraphInv

(* The tasks of the queue are taken by their round, and no others.         *)
LEMMA TakenGrows ==
  ASSUME NEW dag, GoodDag(dag), GraphInv(dag), NEW t \in queue,
         inDegree' = [s \in DOMAIN inDegree |-> inDegree[s] - Times(dag, t, s)],
         queue' = (queue \ {t}) \cup {s \in Children(dag, t) : inDegree'[s] = 0}
  PROVE  /\ t \in TasksOf(dag) /\ t \notin Taken /\ Deps(dag, t) \subseteq Taken
         /\ Taken' = Taken \cup {t}
         /\ DegreesTrue(dag, Taken)'
<1>1. t \in TasksOf(dag) /\ t \notin Taken /\ inDegree[t] = 0
  BY DEF GraphInv, Taken
<1>2. \A s \in TasksOf(dag) : inDegree[s] \in Nat /\ (inDegree[s] = 0 <=> Deps(dag, s) \subseteq Taken)
  BY NoneMissing DEF GraphInv
<1>3. \A s \in TasksOf(dag) : s \in Children(dag, t) <=> t \in Deps(dag, s)
  BY ChildrenAre
<1>4. DOMAIN inDegree = TasksOf(dag)
  BY DEF GraphInv, DegreesTrue
<1>5. ASSUME NEW s \in TasksOf(dag)
      PROVE  /\ inDegree'[s] = Cardinality(Missing(dag, Taken \cup {t}, s))
             /\ t \notin Deps(dag, s) => inDegree'[s] = inDegree[s]
  <2> DEFINE M == Missing(dag, Taken, s)
             E == {k \in DOMAIN DependsOn(dag, s) : DependsOn(dag, s)[k] = t}
  <2>1. E \subseteq M /\ M \subseteq DOMAIN DependsOn(dag, s)
    BY <1>1 DEF Missing
  <2>2. Missing(dag, Taken \cup {t}, s) = M \ E /\ M \cap E = E
    BY <2>1 DEF Missing
  <2>3. inDegree'[s] = Cardinality(M) - Cardinality(E)
    BY <1>4 DEF Times, GraphInv, DegreesTrue
  <2>4. t \notin Deps(dag, s) => E = {}
    BY DEF Deps
  <2> HIDE DEF M, E
  <2>5. IsFiniteSet(M) /\ Cardinality(M) \in Nat
    BY <2>1, EntriesFinite
  <2>6. Cardinality(M \ E) = Cardinality(M) - Cardinality(E)
    BY <2>2, <2>5, FS_Difference
  <2>7. E = {} => Cardinality(E) = 0
    BY FS_EmptySet
  <2>8. inDegree[s] = Cardinality(M)
    BY DEF GraphInv, DegreesTrue, M
  <2> QED
    BY <2>2, <2>3, <2>4, <2>5, <2>6, <2>7, <2>8
<1>6. ASSUME NEW s \in TasksOf(dag)
      PROVE  s \in Taken' <=> s \in Taken \cup {t}
  <2>1. s \in Taken' <=> inDegree'[s] = 0 /\ s \notin queue'
    BY <1>4 DEF Taken
  <2>2. s \in Taken <=> inDegree[s] = 0 /\ s \notin queue
    BY <1>4 DEF Taken
  <2>3. CASE t \in Deps(dag, s)
    <3>1. s \notin Taken /\ s # t
      BY <1>1, <1>2, <2>2, <2>3
    <3> QED
      BY <1>3, <2>1, <2>3, <3>1
  <2>4. CASE t \notin Deps(dag, s)
    <3>1. inDegree'[s] = inDegree[s] /\ s \notin Children(dag, t)
      BY <1>3, <1>5, <2>4
    <3> QED
      BY <1>1, <2>1, <2>2, <3>1
  <2> QED
    BY <2>3, <2>4
<1>7. Taken \subseteq TasksOf(dag) /\ Taken' \subseteq TasksOf(dag)
  BY <1>4 DEF Taken
<1>8. Taken' = Taken \cup {t}
  BY <1>1, <1>6, <1>7
<1>9. DegreesTrue(dag, Taken)'
  <2>1. DOMAIN inDegree' = TasksOf(dag)
    BY <1>4
  <2>2. \A s \in TasksOf(dag) : inDegree'[s] = Cardinality(Missing(dag, Taken \cup {t}, s))
    BY <1>5
  <2> QED
    BY <1>8, <2>1, <2>2 DEF DegreesTrue
<1> QED
  BY <1>1, <1>2, <1>8, <1>9

(* The depths of the children of the task grow to one more than its own.   *)
LEMMA DepthsGrow ==
  ASSUME NEW dag, GoodDag(dag), NEW T, DepthsTrue(dag, T), NEW t \in TasksOf(dag),
         T \subseteq TasksOf(dag), \A d \in T : Deps(dag, d) \subseteq T,
         t \notin T, Deps(dag, t) \subseteq T,
         depths' = [s \in DOMAIN depths \cup Children(dag, t) |->
                      IF s \in Children(dag, t) THEN Depth(t, s) ELSE depths[s]]
  PROVE  DepthsTrue(dag, T \cup {t})'
<1>1. \A s \in TasksOf(dag) : s \in Children(dag, t) <=> t \in Deps(dag, s)
  BY ChildrenAre
<1>2. DOMAIN depths = {s \in TasksOf(dag) : Deps(dag, s) = {} \/ Deps(dag, s) \cap T # {}}
  BY DEF DepthsTrue
<1>3. Children(dag, t) \subseteq TasksOf(dag)
  BY DEF Children
<1>4. DOMAIN depths' = {s \in TasksOf(dag) :
                          Deps(dag, s) = {} \/ Deps(dag, s) \cap (T \cup {t}) # {}}
  BY <1>1, <1>2, <1>3
<1>5. \A d \in T \cup {t} : /\ d \in DOMAIN depths /\ d \notin Children(dag, t)
                            /\ depths[d] \in Nat
                            /\ depths'[d] = depths[d]
  <2>1. \A d \in T \cup {t} : d \in DOMAIN depths
    BY <1>2
  <2>2. \A d \in T \cup {t} : t \notin Deps(dag, d)
    OBVIOUS
  <2>3. \A d \in T \cup {t} : d \notin Children(dag, t)
    BY <1>1, <1>3, <2>2
  <2> QED
    BY <2>1, <2>3 DEF DepthsTrue
<1>6. ASSUME NEW s \in DOMAIN depths'
      PROVE  /\ depths'[s] \in Nat
             /\ \A d \in Deps(dag, s) \cap (T \cup {t}) : depths'[s] > depths[d]
             /\ depths'[s] # 0 => \E d \in Deps(dag, s) \cap (T \cup {t}) :
                                    depths'[s] = depths[d] + 1
  <2>1. CASE s \notin Children(dag, t)
    <3>1. s \in DOMAIN depths /\ depths'[s] = depths[s] /\ t \notin Deps(dag, s)
      BY <1>1, <1>4, <2>1
    <3>2. Deps(dag, s) \cap (T \cup {t}) = Deps(dag, s) \cap T
      BY <3>1
    <3> QED
      BY <3>1, <3>2 DEF DepthsTrue
  <2>2. CASE s \in Children(dag, t)
    <3>1. t \in Deps(dag, s) /\ depths'[s] = Depth(t, s)
      BY <1>1, <1>3, <2>2
    <3>2. depths[t] \in Nat
      BY <1>5
    <3>3. CASE s \in DOMAIN depths
      <4>1. /\ depths[s] \in Nat
            /\ \A d \in Deps(dag, s) \cap T : depths[s] > depths[d] /\ depths[d] \in Nat
            /\ depths[s] # 0 => \E d \in Deps(dag, s) \cap T : depths[s] = depths[d] + 1
        BY <1>5, <3>3 DEF DepthsTrue
      <4>2. depths'[s] = IF depths[s] > depths[t] THEN depths[s] ELSE depths[t] + 1
        BY <3>1, <3>3 DEF Depth
      <4>3. CASE depths[s] > depths[t]
        BY <3>1, <3>2, <4>1, <4>2, <4>3
      <4>4. CASE ~(depths[s] > depths[t])
        BY <3>1, <3>2, <4>1, <4>2, <4>4
      <4> QED
        BY <4>3, <4>4
    <3>4. CASE s \notin DOMAIN depths
      <4>1. Deps(dag, s) \cap (T \cup {t}) = {t}
        BY <1>2, <1>3, <2>2, <3>1, <3>4
      <4>2. depths'[s] = depths[t] + 1
        BY <3>1, <3>4 DEF Depth
      <4> QED
        BY <3>2, <4>1, <4>2
    <3> QED
      BY <3>3, <3>4
  <2> QED
    BY <2>1, <2>2
<1> QED
  BY <1>4, <1>5, <1>6 DEF DepthsTrue

(* A round of the loop.                                                    *)
LEMMA RoundKeeps ==
  ASSUME NEW dag, GoodDag(dag), GraphInv(dag), dag = Head(build.left),
         NEW t \in queue, TakeTask(t)
  PROVE  GraphInv(dag)'
<1>1. /\ inDegree' = [s \in DOMAIN inDegree |-> inDegree[s] - Times(dag, t, s)]
      /\ queue' = (queue \ {t}) \cup {s \in Children(dag, t) : inDegree'[s] = 0}
      /\ depths' = [s \in DOMAIN depths \cup Children(dag, t) |->
                      IF s \in Children(dag, t) THEN Depth(t, s) ELSE depths[s]]
      /\ processed' = processed + 1
  BY DEF TakeTask
<1>2. /\ t \in TasksOf(dag) /\ t \notin Taken /\ Deps(dag, t) \subseteq Taken
      /\ Taken' = Taken \cup {t} /\ DegreesTrue(dag, Taken)'
  BY <1>1, TakenGrows
<1>3. Taken \subseteq TasksOf(dag) /\ \A d \in Taken : Deps(dag, d) \subseteq Taken
  BY NoneMissing DEF Taken, GraphInv, DegreesTrue
<1>4. DepthsTrue(dag, Taken)'
  <2> DEFINE T == Taken
  <2>1. DepthsTrue(dag, T)
    BY DEF GraphInv
  <2>2. DepthsTrue(dag, Taken \cup {t})'
    BY <1>1, <1>2, <1>3, <2>1, DepthsGrow
  <2> QED
    BY <1>2, <2>2
<1>5. processed' = Cardinality(Taken')
  <2>1. IsFiniteSet(Taken)
    BY <1>3, FS_Subset DEF GoodDag
  <2>2. Cardinality(Taken \cup {t}) = Cardinality(Taken) + 1
    BY <1>2, <2>1, FS_AddElement
  <2> QED
    BY <1>1, <1>2, <2>2 DEF GraphInv
<1>6. queue' \subseteq {s \in TasksOf(dag) : inDegree'[s] = 0}
  <2>1. ASSUME NEW s \in queue \ {t}
        PROVE  s \in TasksOf(dag) /\ inDegree'[s] = 0
    <3>1. s \in TasksOf(dag) /\ inDegree[s] = 0 /\ s \notin Taken
      BY DEF GraphInv, Taken
    <3>2. inDegree'[s] = 0 <=> Deps(dag, s) \subseteq Taken'
      <4>1. inDegree'[s] = Cardinality(Missing(dag, Taken', s))
        BY <1>2, <3>1 DEF DegreesTrue
      <4>2. Missing(dag, Taken', s) \subseteq DOMAIN DependsOn(dag, s)
        BY DEF Missing
      <4>3. inDegree'[s] = 0 <=> Missing(dag, Taken', s) = {}
        BY <3>1, <4>1, <4>2, NoEntry
      <4> QED
        BY <4>3 DEF Missing, Deps
    <3>3. Deps(dag, s) \subseteq Taken
      BY <3>1, NoneMissing DEF GraphInv
    <3> QED
      BY <1>2, <3>1, <3>2, <3>3
  <2> QED
    BY <1>1, <2>1 DEF Children
<1> QED
  BY <1>2, <1>4, <1>5, <1>6 DEF GraphInv

-----------------------------------------------------------------------------
(* Every end of a call leaves what the loop knew as it was.                *)
LEMMA ReturnKeeps ==
  ASSUME NEW D, BuilderInv(D), NEW all \in Seq(D), NEW end \in Ends, Return(all, end),
         end = "DAGValidationError" => \E i \in DOMAIN all : Cyclic(all[i]),
         end # "MissingContextError",
         end \in {"CostingError", "ReferenceError"} => \A i \in DOMAIN all : ~Cyclic(all[i])
  PROVE  BuilderInv(D)'
<1>1. build'.at = "idle" /\ build'.all = all /\ build'.end = end
  BY DEF Return
<1>2. BuilderTypeOK'
  BY <1>1 DEF Return, BuilderTypeOK, BuilderInv
<1>3. EndIsRight'
  BY <1>1 DEF EndIsRight
<1> QED
  BY <1>1, <1>2, <1>3 DEF BuilderInv

(* The types of what the loop keeps.                                       *)
LoopTyped ==
  /\ \A s \in DOMAIN inDegree : inDegree[s] \in Nat
  /\ DOMAIN depths \subseteq DOMAIN inDegree /\ \A s \in DOMAIN depths : depths[s] \in Nat
  /\ queue \subseteq DOMAIN depths /\ processed \in Nat

GraphsTyped == \A dag : GoodDag(dag) /\ GraphInv(dag) => LoopTyped

LEMMA GraphTyped == GraphsTyped
<1> SUFFICES ASSUME NEW dag, GoodDag(dag), GraphInv(dag)
             PROVE  LoopTyped
  BY DEF GraphsTyped
<1>1. DOMAIN inDegree = TasksOf(dag)
  BY DEF GraphInv, DegreesTrue
<1>2. \A s \in TasksOf(dag) : inDegree[s] \in Nat /\ (inDegree[s] = 0 <=> Deps(dag, s) \subseteq Taken)
  BY NoneMissing DEF GraphInv
<1>3. DOMAIN depths \subseteq TasksOf(dag) /\ \A s \in DOMAIN depths : depths[s] \in Nat
  BY DEF GraphInv, DepthsTrue
<1>4. queue \subseteq DOMAIN depths
  <2>1. \A s \in queue : s \in TasksOf(dag) /\ Deps(dag, s) \subseteq Taken
    BY <1>2 DEF GraphInv
  <2>2. \A s \in queue : Deps(dag, s) = {} \/ Deps(dag, s) \cap Taken # {}
    BY <2>1
  <2> QED
    BY <2>1, <2>2 DEF GraphInv, DepthsTrue
<1>5. processed \in Nat
  <2>1. Taken \subseteq TasksOf(dag)
    BY <1>1 DEF Taken
  <2> QED
    BY <2>1, FS_Subset, FS_CardinalityType DEF GraphInv, GoodDag
<1> QED
  BY <1>1, <1>2, <1>3, <1>4, <1>5 DEF LoopTyped

(* A loop begins, for the next of the jobs.                                *)
LEMMA BuildGraphKeeps ==
  ASSUME NEW D, \A dag \in D : GoodDag(dag), BuilderInv(D),
         NEW all \in Seq(D), NEW left \in Seq(D), left # <<>>,
         Len(all) - Len(left) \in Nat,
         \A i \in 1 .. Len(left) : left[i] = all[Len(all) - Len(left) + i],
         \A i \in 1 .. Len(all) - Len(left) : ~Cyclic(all[i]),
         BuildGraph(all, left)
  PROVE  BuilderInv(D)'
<1> DEFINE dag == Head(left)
<1>1. dag \in D /\ GoodDag(dag)
  OBVIOUS
<1>2. ~ \E s \in TasksOf(dag) : \E k \in DOMAIN DependsOn(dag, s) :
           DependsOn(dag, s)[k] \notin TasksOf(dag)
  BY <1>1 DEF GoodDag, Deps
<1>3. /\ build' = [at |-> "graph", all |-> all, left |-> left, end |-> "none"]
      /\ inDegree' = [s \in TasksOf(dag) |-> Len(DependsOn(dag, s))]
      /\ queue' = {s \in TasksOf(dag) : inDegree'[s] = 0}
      /\ depths' = [s \in queue' |-> 0]
      /\ processed' = 0
  BY <1>2 DEF BuildGraph
<1> HIDE DEF dag
<1>4. GraphInv(dag)'
  BY <1>1, <1>3, GraphBegins
<1>5. BuilderTypeOK'
  <2>1. /\ \A s \in DOMAIN inDegree' : inDegree'[s] \in Nat
        /\ DOMAIN depths' \subseteq DOMAIN inDegree' /\ \A s \in DOMAIN depths' : depths'[s] \in Nat
        /\ queue' \subseteq DOMAIN depths' /\ processed' \in Nat
    <3>1. \A s \in TasksOf(dag) : inDegree'[s] \in Nat
      BY <1>1, <1>3 DEF GoodDag
    <3> QED
      BY <1>3, <3>1
  <2> QED
    BY <1>3, <2>1 DEF BuilderTypeOK, Ends
<1>6. AtWork(D)'
  BY <1>3, <1>4 DEF AtWork, dag
<1>7. EndIsRight'
  BY <1>3 DEF EndIsRight
<1> QED
  BY <1>3, <1>5, <1>6, <1>7 DEF BuilderInv

(* The call begins: the contexts are those of all the tasks.               *)
LEMMA BuildBatchKeeps ==
  ASSUME NEW D, \A dag \in D : GoodDag(dag), BuilderInv(D),
         NEW dags \in Seq(D), NEW contexts, NEW hasConfig, NEW haveIds,
         \A i \in DOMAIN dags : \A s \in TasksOf(dags[i]) :
           <<dags[i].job, s>> \in {<<contexts[k].job, contexts[k].stage>> : k \in DOMAIN contexts},
         BuildBatch(dags, contexts, hasConfig, haveIds)
  PROVE  BuilderInv(D)'
<1>1. Refusal(dags, contexts, hasConfig, haveIds) \in {"none", "TypeError", "SchemaError"}
  BY DEF Refusal
<1>2. CASE Refusal(dags, contexts, hasConfig, haveIds) # "none"
  BY <1>1, <1>2, ReturnKeeps DEF BuildBatch, Ends
<1>3. CASE Refusal(dags, contexts, hasConfig, haveIds) = "none" /\ dags = <<>>
  BY <1>3, ReturnKeeps DEF BuildBatch, Ends
<1>4. CASE Refusal(dags, contexts, hasConfig, haveIds) = "none" /\ dags # <<>>
  <2>1. BuildGraph(dags, dags)
    BY <1>4 DEF BuildBatch
  <2>2. /\ Len(dags) - Len(dags) \in Nat
        /\ \A i \in 1 .. Len(dags) : dags[i] = dags[Len(dags) - Len(dags) + i]
        /\ 1 .. Len(dags) - Len(dags) = {}
    OBVIOUS
  <2> QED
    BY <1>4, <2>1, <2>2, BuildGraphKeeps
<1> QED
  BY <1>2, <1>3, <1>4

(* A round of the loop.                                                    *)
LEMMA TakeTaskKeeps ==
  ASSUME NEW D, \A dag \in D : GoodDag(dag), BuilderInv(D), NEW t \in queue, TakeTask(t)
  PROVE  BuilderInv(D)'
<1> DEFINE dag == Head(build.left)
<1>1. build.at = "graph" /\ build' = build
  BY DEF TakeTask
<1>2. AtWork(D) /\ dag \in D /\ GoodDag(dag) /\ GraphInv(dag)
  <2>1. AtWork(D)
    BY <1>1 DEF BuilderInv
  <2>2. build.left \in Seq(D) /\ build.left # <<>> /\ GraphInv(dag)
    BY <2>1 DEF AtWork
  <2>3. dag \in D
    BY <2>2
  <2> QED
    BY <2>1, <2>2, <2>3
<1>3. GraphInv(Head(build.left))'
  BY <1>1, <1>2, RoundKeeps
<1>4. AtWork(D)'
  BY <1>1, <1>2, <1>3 DEF AtWork
<1>5. EndIsRight'
  BY <1>1 DEF BuilderInv, EndIsRight
<1>6. BuilderTypeOK'
  <2>1. GraphsTyped'
    BY GraphTyped, PTL
  <2>2. GoodDag(dag)' /\ GraphInv(dag)'
    BY <1>1, <1>2, <1>3
  <2>3. LoopTyped'
    BY <2>1, <2>2 DEF GraphsTyped
  <2> QED
    BY <1>1, <2>3 DEF BuilderTypeOK, BuilderInv, LoopTyped
<1> QED
  BY <1>1, <1>4, <1>5, <1>6 DEF BuilderInv

(* The loop has ended, and has judged the job at work.                     *)
LEMMA GraphEndsKeeps ==
  ASSUME NEW D, \A dag \in D : GoodDag(dag), BuilderInv(D), GraphEnds
  PROVE  BuilderInv(D)'
<1> DEFINE dag == Head(build.left)
           all == build.all
           left == build.left
           done == Len(all) - Len(left)
<1>1. build.at = "graph" /\ queue = {}
  BY DEF GraphEnds
<1>2. /\ all \in Seq(D) /\ left \in Seq(D) /\ left # <<>> /\ done \in Nat
      /\ \A i \in 1 .. Len(left) : left[i] = all[done + i]
      /\ \A i \in 1 .. done : ~Cyclic(all[i])
      /\ GraphInv(dag)
  BY <1>1 DEF BuilderInv, AtWork
<1> HIDE DEF all, left
<1>3. dag \in D /\ GoodDag(dag)
  BY <1>2 DEF left
<1>4. processed = Cardinality(DOMAIN inDegree) <=> ~Cyclic(dag)
  BY <1>1, <1>2, <1>3, GraphIsRight DEF GraphInv, DegreesTrue
<1>5. Len(left) \in Nat \ {0} /\ Len(all) \in Nat /\ DOMAIN all = 1 .. Len(all)
  BY <1>2
<1>6. dag = all[done + 1] /\ done + 1 \in DOMAIN all
  <2>1. dag = left[1]
    BY <1>2 DEF left
  <2>2. 1 \in 1 .. Len(left) /\ done + 1 \in 1 .. Len(all)
    BY <1>2, <1>5
  <2> QED
    BY <1>2, <1>5, <2>1, <2>2
<1> HIDE DEF dag
<1>7. CASE processed # Cardinality(DOMAIN inDegree)
  <2>1. Return(all, "DAGValidationError")
    BY <1>7 DEF GraphEnds, all
  <2>2. \E i \in DOMAIN all : Cyclic(all[i])
    BY <1>4, <1>6, <1>7
  <2> QED
    BY <1>2, <2>1, <2>2, ReturnKeeps DEF Ends
<1>8. CASE processed = Cardinality(DOMAIN inDegree)
  <2>1. \A i \in 1 .. done + 1 : ~Cyclic(all[i])
    BY <1>2, <1>4, <1>6, <1>8
  <2>2. CASE Len(left) > 1
    <3>1. BuildGraph(all, Tail(left))
      BY <1>8, <2>2 DEF GraphEnds, all, left
    <3>2. /\ Tail(left) \in Seq(D) /\ Len(Tail(left)) = Len(left) - 1
          /\ \A i \in 1 .. Len(left) - 1 : Tail(left)[i] = left[i + 1]
      BY <1>2
    <3>3. Tail(left) # <<>> /\ Len(all) - Len(Tail(left)) = done + 1 /\ done + 1 \in Nat
      <4> DEFINE rest == Tail(left)
      <4>1. Len(rest) = Len(left) - 1 /\ Len(rest) # 0
        BY <1>5, <2>2, <3>2
      <4> HIDE DEF rest
      <4>2. rest # <<>>
        BY <4>1
      <4>3. Len(all) - Len(rest) = done + 1 /\ done + 1 \in Nat
        BY <1>2, <1>5, <4>1
      <4> QED
        BY <4>2, <4>3 DEF rest
    <3>4. ASSUME NEW i \in 1 .. Len(Tail(left))
          PROVE  Tail(left)[i] = all[Len(all) - Len(Tail(left)) + i]
      <4>1. Tail(left)[i] = left[i + 1] /\ i + 1 \in 1 .. Len(left)
        BY <1>5, <3>2
      <4>2. Len(all) - Len(Tail(left)) + i = done + (i + 1)
        BY <1>2, <1>5, <3>3
      <4> QED
        BY <1>2, <4>1, <4>2
    <3> DEFINE rest == Tail(left)
    <3>5. /\ rest \in Seq(D) /\ rest # <<>> /\ BuildGraph(all, rest) /\ Len(all) - Len(rest) \in Nat
          /\ \A i \in 1 .. Len(rest) : rest[i] = all[Len(all) - Len(rest) + i]
          /\ \A i \in 1 .. Len(all) - Len(rest) : ~Cyclic(all[i])
      BY <2>1, <3>1, <3>2, <3>3, <3>4
    <3> HIDE DEF rest, done
    <3> QED
      BY <1>2, <3>5, BuildGraphKeeps
  <2>3. CASE ~(Len(left) > 1)
    <3>1. PICK end \in {"SchemaError", "CostingError", "ReferenceError"} : Return(all, end)
      BY <1>8, <2>3 DEF GraphEnds, all, left
    <3>2. done + 1 = Len(all)
      BY <1>2, <1>5, <2>3
    <3>3. \A i \in DOMAIN all : ~Cyclic(all[i])
      BY <1>5, <2>1, <3>2
    <3> QED
      BY <1>2, <3>1, <3>3, ReturnKeeps DEF Ends
  <2> QED
    BY <2>2, <2>3
<1> QED
  BY <1>7, <1>8

(* What the builder promises follows, and so do its types.                 *)
LEMMA BuilderInvSays ==
  ASSUME NEW D, \A dag \in D : GoodDag(dag), BuilderInv(D)
  PROVE  BuilderTypeOK /\ BuildIsRight
<1>1. ASSUME build.at = "graph", queue = {}
      PROVE  LET dag == Head(build.left)
             IN  /\ (processed = Cardinality(TasksOf(dag))) = ~Cyclic(dag)
                 /\ ~Cyclic(dag) => \A s \in TasksOf(dag) : depths[s] = LongestPath(dag, s)
  <2>1. build.left \in Seq(D) /\ build.left # <<>> /\ GraphInv(Head(build.left))
    BY <1>1 DEF BuilderInv, AtWork
  <2>2. Head(build.left) \in D
    BY <2>1
  <2> QED
    BY <1>1, <2>1, <2>2, GraphIsRight
<1> QED
  BY <1>1 DEF BuilderInv, BuildIsRight, EndIsRight

(* The beginning, and calls of others.                                     *)
LEMMA BuilderBegins ==
  ASSUME NEW D, BuilderInit
  PROVE  BuilderInv(D)
<1>1. <<>> \in Seq(D) /\ DOMAIN NoGraph = {}
  BY DEF NoGraph
<1> QED
  BY <1>1 DEF BuilderInit, BuilderInv, BuilderTypeOK, EndIsRight, Ends

LEMMA BuilderLeft ==
  ASSUME NEW D, BuilderInv(D), UNCHANGED builderVars
  PROVE  BuilderInv(D)'
BY DEF BuilderInv, BuilderTypeOK, EndIsRight, AtWork, GraphInv, DegreesTrue, DepthsTrue, Taken,
       builderVars

=============================================================================
