--------------------------- MODULE DAGPaths_proofs ---------------------------
(***************************************************************************)
(* What the proofs about depths and heights share: Longest follows its     *)
(* recursion, solves the equations of longest paths, and depends on        *)
(* nothing but what leads to a node.                                       *)
(***************************************************************************)
EXTENDS DAGPaths, Recursion_proofs

\* The lengths of the paths that end in u.
Through(in, value, floor, u) ==
  {floor[u]} \cup {value[Node(e)] + Latency(e) : e \in in[u]}

-----------------------------------------------------------------------------
(***************************************************************************)
(* Longest, the reference, along its recursion.                            *)
(***************************************************************************)
Best(S) == CHOOSE x \in S : IsLargest(x, S)

Extends(g, i, in, floor) ==
  g[i] = [u \in Nodes |-> Best({floor[u]} \cup {g[i - 1][Node(e)] + Latency(e) : e \in in[u]})]

PathsOf(g, n, in, floor) ==
  DOMAIN g = 0..n /\ g[0] = floor /\ \A i \in 1..n : Extends(g, i, in, floor)

LEMMA PathsExist ==
  ASSUME NEW in, NEW floor, NEW n \in Nat
  PROVE  \E g : PathsOf(g, n, in, floor)
<1>1. PICK T : T = {m \in Nat : \E g : PathsOf(g, m, in, floor)}
  OBVIOUS
<1>2. 0 \in T
  <2>1. PICK g : g = [i \in 0..0 |-> floor]
    OBVIOUS
  <2>2. PathsOf(g, 0, in, floor)
    BY <2>1 DEF PathsOf
  <2> QED BY <1>1, <2>2
<1>3. ASSUME NEW m \in Nat, m \in T PROVE m + 1 \in T
  <2>1. PICK g : PathsOf(g, m, in, floor)
    BY <1>1, <1>3
  <2>2. PICK last : last = [u \in Nodes |->
          Best({floor[u]} \cup {g[m][Node(e)] + Latency(e) : e \in in[u]})]
    OBVIOUS
  <2>3. PICK f : f = [i \in 0..(m + 1) |-> IF i <= m THEN g[i] ELSE last]
    OBVIOUS
  <2>4. DOMAIN f = 0..(m + 1) /\ f[0] = floor /\ f[m + 1] = last /\ f[m] = g[m]
    BY <2>1, <2>3 DEF PathsOf
  <2>5. ASSUME NEW i \in 1..(m + 1) PROVE Extends(f, i, in, floor)
    <3>1. CASE i = m + 1
      <4>1. f[i] = last /\ f[i - 1] = g[m]
        BY <2>4, <3>1
      <4> QED BY <2>2, <4>1 DEF Extends
    <3>2. CASE i # m + 1
      <4>1. i \in 1..m /\ f[i] = g[i] /\ f[i - 1] = g[i - 1]
        BY <2>3, <3>2
      <4>2. Extends(g, i, in, floor)
        BY <2>1, <4>1 DEF PathsOf
      <4> QED BY <4>1, <4>2 DEF Extends
    <3> QED BY <3>1, <3>2
  <2>6. PathsOf(f, m + 1, in, floor)
    BY <2>4, <2>5 DEF PathsOf
  <2> QED BY <1>1, <2>6
<1> QED BY <1>1, <1>2, <1>3, InductionInSet

LEMMA LongestFollows ==
  ASSUME NEW in, NEW floor, NEW N \in Nat, N = Cardinality(Nodes)
  PROVE  \E g : PathsOf(g, N, in, floor) /\ Longest(in, floor) = g[N]
<1> DEFINE IsPath(p) == p = [i \in 0..N |->
                          IF i = 0 THEN floor
                          ELSE [u \in Nodes |->
                                 Best({floor[u]} \cup
                                      {p[i - 1][Node(e)] + Latency(e) : e \in in[u]})]]
           Path == CHOOSE p : IsPath(p)
<1>1. Longest(in, floor) = Path[N]
  BY DEF Longest, Best
<1>2. \E p : IsPath(p)
  <2>1. PICK f : PathsOf(f, N, in, floor)
    BY PathsExist
  <2>2. PICK g : g = [i \in 0..N |-> f[i]]
    OBVIOUS
  <2>3. ASSUME NEW i \in 0..N
        PROVE  f[i] = IF i = 0 THEN floor
                      ELSE [u \in Nodes |->
                             Best({floor[u]} \cup
                                  {g[i - 1][Node(e)] + Latency(e) : e \in in[u]})]
    <3>1. CASE i = 0
      BY <2>1, <3>1 DEF PathsOf
    <3>2. CASE i # 0
      <4>1. i \in 1..N /\ g[i - 1] = f[i - 1]
        BY <2>2, <3>2
      <4>2. Extends(f, i, in, floor)
        BY <2>1, <4>1 DEF PathsOf
      <4> QED BY <3>2, <4>1, <4>2 DEF Extends
    <3> QED BY <3>1, <3>2
  <2>4. IsPath(g)
    BY <2>2, <2>3
  <2> HIDE DEF IsPath
  <2> QED BY <2>4
<1> HIDE DEF IsPath
<1>3. IsPath(Path)
  BY <1>2
<1> HIDE DEF Path
<1>4. DOMAIN Path = 0..N /\ Path[0] = floor
  BY <1>3 DEF IsPath
<1>5. ASSUME NEW i \in 1..N PROVE Extends(Path, i, in, floor)
  <2>1. i \in 0..N /\ i # 0
    OBVIOUS
  <2>2. Path[i] = [u \in Nodes |->
                     Best({floor[u]} \cup {Path[i - 1][Node(e)] + Latency(e) : e \in in[u]})]
    BY <1>3, <2>1 DEF IsPath
  <2> QED BY <2>2 DEF Extends
<1> QED BY <1>1, <1>4, <1>5 DEF PathsOf

LEMMA BestIs ==
  ASSUME NEW S, NEW x \in Nat, IsLargest(x, S), \A y \in S : y \in Int
  PROVE  Best(S) = x
<1>1. \A y \in S : IsLargest(y, S) => y = x
  BY DEF IsLargest
<1> QED BY <1>1 DEF Best, IsLargest

-----------------------------------------------------------------------------
(***************************************************************************)
(* Its equations.                                                          *)
(***************************************************************************)
\* Edges lead between nodes and none shortens a path.
Sound(in) ==
  \A u \in Nodes : /\ IsFiniteSet(in[u])
                   /\ \A e \in in[u] : Node(e) \in Nodes /\ Latency(e) \in Nat

LEMMA LargestExists ==
  ASSUME NEW S \in SUBSET Nat, IsFiniteSet(S), S # {}
  PROVE  \E x \in S : IsLargest(x, S)
<1>1. PICK T : T = {Cardinality({y \in S : y > x}) : x \in S}
  OBVIOUS
<1>2. \A x \in S : IsFiniteSet({y \in S : y > x}) /\ Cardinality({y \in S : y > x}) \in Nat
  BY FS_Subset, FS_CardinalityType
<1>3. T \in SUBSET Nat /\ T # {}
  BY <1>1, <1>2
<1>4. PICK least \in T : \A k \in T : least <= k
  BY <1>3, LeastNat
<1>5. PICK x \in S : least = Cardinality({y \in S : y > x})
  BY <1>1
<1>6. ASSUME NEW z \in S, z > x PROVE FALSE
  <2>1. PICK A, B : A = {y \in S : y > x} /\ B = {y \in S : y > z}
    OBVIOUS
  <2>2. B \in SUBSET A /\ z \in A /\ z \notin B
    <3>1. x \in Nat /\ z \in Nat /\ \A y \in S : y \in Nat
      OBVIOUS
    <3>2. \A y \in S : y > z => y > x
      BY <1>6, <3>1
    <3>3. ~(z > z)
      BY <3>1
    <3> QED BY <1>6, <2>1, <3>2, <3>3
  <2>3. IsFiniteSet(A) /\ Cardinality(A) \in Nat /\ Cardinality(B) \in Nat
    BY <1>2, <2>1
  <2>4. Cardinality(B) <= Cardinality(A) /\ Cardinality(B) # Cardinality(A)
    BY <2>2, <2>3, FS_Subset
  <2>5. Cardinality(A) <= Cardinality(B)
    BY <1>1, <1>4, <1>5, <2>1
  <2> QED BY <2>3, <2>4, <2>5
<1>7. IsLargest(x, S)
  BY <1>6 DEF IsLargest
<1> QED BY <1>7

\* The lengths through the neighbours have a largest one.
LEMMA ThroughHasLargest ==
  ASSUME NEW in, Sound(in), NEW floor \in [Nodes -> Nat], NEW D \in [Nodes -> Nat], NEW u \in Nodes
  PROVE  /\ Best(Through(in, D, floor, u)) \in Nat
         /\ IsLargest(Best(Through(in, D, floor, u)), Through(in, D, floor, u))
<1>1. PICK L : L = {D[Node(e)] + Latency(e) : e \in in[u]}
  OBVIOUS
<1>2. IsFiniteSet(in[u]) /\ \A e \in in[u] : D[Node(e)] + Latency(e) \in Nat
  BY DEF Sound
<1>3. L \in SUBSET Nat
  BY <1>1, <1>2
<1>4. IsFiniteSet(L)
  <2>1. PICK f : f = [e \in in[u] |-> D[Node(e)] + Latency(e)]
    OBVIOUS
  <2>2. f \in Surjection(in[u], L)
    BY <1>1, <2>1 DEF Surjection
  <2> QED BY <1>2, <2>2, FS_Surjection
<1>5. PICK S : S = Through(in, D, floor, u)
  OBVIOUS
<1>6. S = L \cup {floor[u]}
  BY <1>1, <1>5 DEF Through
<1>7. IsFiniteSet(S) /\ S \in SUBSET Nat /\ S # {}
  BY <1>3, <1>4, <1>6, FS_AddElement
<1>8. \E x \in S : IsLargest(x, S)
  BY <1>7, LargestExists
<1>9. Best(S) \in S /\ IsLargest(Best(S), S)
  BY <1>8 DEF Best
<1> QED BY <1>5, <1>7, <1>9

LEMMA LongestIs ==
  ASSUME NEW in, Sound(in), Acyclic(in), NEW floor \in [Nodes -> Nat],
         NEW D, D = Longest(in, floor)
  PROVE  D \in [Nodes -> Nat] /\ \A u \in Nodes : IsLargest(D[u], Through(in, D, floor, u))
<1>1. PICK N \in Nat : N = Cardinality(Nodes)
  BY NodesAssumption, FS_CardinalityType
<1>2. PICK rank \in [Nodes -> 0..(N - 1)] :
        \A m \in Nodes : \A e \in in[m] : rank[Node(e)] < rank[m]
  BY <1>1 DEF Acyclic
<1>3. PICK g : PathsOf(g, N, in, floor) /\ D = g[N]
  BY <1>1, LongestFollows
<1>4. ASSUME NEW i \in Nat, i + 1 <= N
      PROVE  /\ g[i + 1] = [u \in Nodes |-> Best(Through(in, g[i], floor, u))]
             /\ \A u \in Nodes : g[i + 1][u] = Best(Through(in, g[i], floor, u))
  <2>1. PICK k \in 1..N : k = i + 1 /\ k - 1 = i
    BY <1>4
  <2>2. Extends(g, k, in, floor)
    BY <1>3 DEF PathsOf
  <2>3. g[i + 1] = [u \in Nodes |-> Best(Through(in, g[i], floor, u))]
    BY <2>1, <2>2 DEF Extends, Through
  <2> QED BY <2>3
<1>5. \A i \in Nat : i <= N => g[i] \in [Nodes -> Nat]
  <2>1. PICK T : T = {i \in Nat : i <= N => g[i] \in [Nodes -> Nat]}
    OBVIOUS
  <2>2. 0 \in T
    BY <1>3, <2>1 DEF PathsOf
  <2>3. ASSUME NEW i \in Nat, i \in T PROVE i + 1 \in T
    <3> SUFFICES ASSUME i + 1 <= N PROVE g[i + 1] \in [Nodes -> Nat]
      BY <2>1
    <3>1. g[i] \in [Nodes -> Nat]
      BY <1>1, <2>1, <2>3
    <3>2. \A u \in Nodes : Best(Through(in, g[i], floor, u)) \in Nat
      BY <3>1, ThroughHasLargest
    <3> QED BY <1>4, <3>2
  <2> QED BY <2>1, <2>2, <2>3, InductionInSet
\* From round i on the lengths of the first i ranks stay.
<1>6. ASSUME NEW i \in Nat, i + 1 <= N, NEW j \in Nat, j + 1 <= N, NEW m \in Nodes,
             \A e \in in[m] : g[j][Node(e)] = g[i][Node(e)]
      PROVE  g[j + 1][m] = g[i + 1][m]
  <2>1. Through(in, g[j], floor, m) = Through(in, g[i], floor, m)
    BY <1>6 DEF Through
  <2>2. g[j + 1][m] = Best(Through(in, g[j], floor, m))
    BY <1>4, <1>6
  <2>3. g[i + 1][m] = Best(Through(in, g[i], floor, m))
    BY <1>4, <1>6
  <2> QED BY <2>1, <2>2, <2>3
<1>7. \A i \in Nat : i <= N => \A m \in Nodes : rank[m] < i =>
        \A j \in Nat : i <= j /\ j <= N => g[j][m] = g[i][m]
  <2>1. PICK T : T = {i \in Nat : i <= N => \A m \in Nodes : rank[m] < i =>
                        \A j \in Nat : i <= j /\ j <= N => g[j][m] = g[i][m]}
    OBVIOUS
  <2>2. 0 \in T
    BY <1>2, <2>1
  <2>3. ASSUME NEW i \in Nat, i \in T PROVE i + 1 \in T
    <3> SUFFICES ASSUME i + 1 <= N, NEW m \in Nodes, rank[m] < i + 1,
                        NEW j \in Nat, i + 1 <= j, j <= N
                 PROVE  g[j][m] = g[i + 1][m]
      BY <2>1
    <3>1. PICK k \in Nat : j = k + 1 /\ i <= k /\ k <= N
      <4>1. j - 1 \in Nat
        OBVIOUS
      <4> QED BY <4>1, <1>1
    <3>2. ASSUME NEW e \in in[m] PROVE g[k][Node(e)] = g[i][Node(e)]
      <4>1. Node(e) \in Nodes /\ rank[Node(e)] < rank[m] /\ rank[m] \in Int
        BY <1>2 DEF Sound
      <4>2. rank[Node(e)] < i
        BY <1>2, <4>1
      <4> QED BY <1>1, <2>1, <2>3, <3>1, <4>1, <4>2
    <3>3. g[k + 1][m] = g[i + 1][m]
      BY <1>6, <3>1, <3>2
    <3> QED BY <3>1, <3>3
  <2> QED BY <2>1, <2>2, <2>3, InductionInSet
<1>8. D \in [Nodes -> Nat]
  BY <1>1, <1>3, <1>5
<1>9. ASSUME NEW u \in Nodes PROVE IsLargest(D[u], Through(in, D, floor, u))
  <2>1. PICK k \in Nat : N = k + 1
    <3>1. rank[u] \in 0..(N - 1)
      BY <1>2
    <3>2. N - 1 \in Nat /\ N = (N - 1) + 1
      BY <1>1, <3>1
    <3> QED BY <3>2
  <2>2. ASSUME NEW e \in in[u] PROVE D[Node(e)] = g[k][Node(e)]
    <3>1. Node(e) \in Nodes /\ rank[Node(e)] < rank[u] /\ rank[u] \in 0..k
      BY <1>2, <2>1 DEF Sound
    <3>2. rank[Node(e)] < k
      BY <1>2, <3>1
    <3> QED BY <1>3, <1>7, <2>1, <3>1, <3>2
  <2>3. Through(in, D, floor, u) = Through(in, g[k], floor, u)
    BY <2>2 DEF Through
  <2>4. g[k] \in [Nodes -> Nat]
    BY <1>5, <2>1
  <2>5. D[u] = Best(Through(in, g[k], floor, u))
    <3>0. k + 1 <= N
      BY <2>1
    <3>1. g[k + 1][u] = Best(Through(in, g[k], floor, u))
      BY <1>4, <3>0
    <3> QED BY <1>3, <2>1, <3>1
  <2> QED BY <2>3, <2>4, <2>5, ThroughHasLargest
<1> QED BY <1>8, <1>9

\* A length depends on the floors of the nodes its paths lead through.
LEMMA LongestAgree ==
  ASSUME NEW in, Sound(in), Acyclic(in),
         NEW floor \in [Nodes -> Nat], NEW other \in [Nodes -> Nat], NEW C \in SUBSET Nodes,
         \A u \in C : floor[u] = other[u] /\ \A e \in in[u] : Node(e) \in C
  PROVE  \A u \in C : Longest(in, floor)[u] = Longest(in, other)[u]
<1>1. PICK N \in Nat : N = Cardinality(Nodes)
  BY NodesAssumption, FS_CardinalityType
<1>2. PICK rank \in [Nodes -> 0..(N - 1)] :
        \A m \in Nodes : \A e \in in[m] : rank[Node(e)] < rank[m]
  BY <1>1 DEF Acyclic
<1>3. PICK D, E : D = Longest(in, floor) /\ E = Longest(in, other)
  OBVIOUS
<1>4. /\ D \in [Nodes -> Nat] /\ \A u \in Nodes : IsLargest(D[u], Through(in, D, floor, u))
      /\ E \in [Nodes -> Nat] /\ \A u \in Nodes : IsLargest(E[u], Through(in, E, other, u))
  BY <1>3, LongestIs
<1>5. PICK T : T = {i \in Nat : \A u \in C : rank[u] < i => D[u] = E[u]}
  OBVIOUS
<1>6. 0 \in T
  BY <1>2, <1>5
<1>7. ASSUME NEW i \in Nat, i \in T PROVE i + 1 \in T
  <2> SUFFICES ASSUME NEW u \in C, rank[u] < i + 1 PROVE D[u] = E[u]
    BY <1>5
  <2>1. ASSUME NEW e \in in[u] PROVE D[Node(e)] = E[Node(e)]
    <3>1. Node(e) \in C /\ rank[Node(e)] < rank[u] /\ rank[u] \in Int
      BY <1>2
    <3>2. rank[Node(e)] < i
      BY <1>2, <3>1
    <3> QED BY <1>5, <1>7, <3>1, <3>2
  <2>2. Through(in, D, floor, u) = Through(in, E, other, u)
    BY <2>1 DEF Through
  <2>3. IsLargest(D[u], Through(in, D, floor, u)) /\ IsLargest(E[u], Through(in, D, floor, u))
    BY <1>4, <2>2
  <2>4. D[u] \in Int /\ E[u] \in Int
    BY <1>4
  <2> QED BY <2>3, <2>4 DEF IsLargest
<1>8. N \in T
  BY <1>5, <1>6, <1>7, InductionInSet
<1> QED BY <1>2, <1>3, <1>5, <1>8
=============================================================================
