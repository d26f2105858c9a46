------------------------ MODULE ListSchedulers_proofs ------------------------
(***************************************************************************)
(* Proofs about the two top-down loops.  What a node's depth says about    *)
(* the schedule is an invariant of both: an issue changes the floors of    *)
(* the issued node and of nodes that wait for a predecessor, and no depth  *)
(* that counts is a path through those.                                    *)
(*                                                                         *)
(* And about what comes before the second of them: the registers renamed   *)
(* to break anti-dependencies.  What the walk knows of the registers is    *)
(* consistent and of the instructions below it; those above are as they    *)
(* were when the graph was built.                                          *)
(*                                                                         *)
(* And about the bottom-up loop: the def that the scheduled uses of the    *)
(* flags wait for is the live one, whatever was unscheduled, cloned or     *)
(* copied, so that nothing comes between a use of the flags and its def.   *)
(***************************************************************************)
EXTENDS MCListSchedulers, AntiDepBreaker, BottomUpScheduler, DAGPaths_proofs

-----------------------------------------------------------------------------
(***************************************************************************)
(* The inductive invariant.                                                *)
(***************************************************************************)
\* The edges to w that keep it from being released, when done are scheduled.
EdgesLeft(in, w, done) == {e \in in[w] : Node(e) \notin done}

Blocked(in, done) == {w \in Nodes : EdgesLeft(in, w, done) # {}}

GraphOK(in) == Sound(in) /\ \A u \in Nodes : \A e \in in[u] : Node(e) < u

\* A scheduled node's depth is the cycle it was issued in; one that is
\* available could have been issued by now.
DepthsOK(in, f, avail, cycle, at, done) ==
  /\ \A u \in done : Longest(in, f)[u] = at[u]
  /\ \A u \in avail : Longest(in, f)[u] <= cycle

QueuesOK(in, left, avail, pend, done) ==
  /\ \A w \in Nodes : left[w] = Cardinality(EdgesLeft(in, w, done))
  /\ avail \subseteq Nodes /\ pend \subseteq Nodes
  /\ avail \cap pend = {} /\ (avail \cup pend) \cap done = {}
  /\ (avail \cup pend \cup done) \cap Blocked(in, done) = {}

IssueInv ==
  /\ GraphOK(preds)
  /\ floor \in [Nodes -> Nat] /\ curCycle \in Nat
  /\ issued \in [Nodes -> Nat \cup {Never}]
  /\ DepthsOK(preds, floor, available, curCycle, issued, scheduled)
  /\ QueuesOK(preds, numPredsLeft, available, pending, scheduled)

-----------------------------------------------------------------------------
(***************************************************************************)
(* Depths.                                                                 *)
(***************************************************************************)
\* The nodes below their predecessors are numbered so.
LEMMA NumberedIsAcyclic ==
  ASSUME NEW in, GraphOK(in)
  PROVE  Acyclic(in)
<1>1. PICK N \in Nat : N = Cardinality(Nodes) /\ IsFiniteSet(Nodes)
  BY NodesAssumption, FS_CardinalityType
<1>2. PICK rank : rank = [u \in Nodes |-> Cardinality({v \in Nodes : v < u})]
  OBVIOUS
<1>3. ASSUME NEW u \in Nodes
      PROVE  /\ IsFiniteSet({v \in Nodes : v < u})
             /\ Cardinality({v \in Nodes : v < u}) \in 0..(N - 1)
  <2>1. PICK B : B = {v \in Nodes : v < u}
    OBVIOUS
  <2>2. B \in SUBSET Nodes /\ B # Nodes
    <3>1. u \in Int /\ ~(u < u)
      BY SchedulerAssumption
    <3> QED BY <2>1, <3>1
  <2>3. IsFiniteSet(B) /\ Cardinality(B) \in Nat /\ Cardinality(B) <= N /\ Cardinality(B) # N
    BY <1>1, <2>2, FS_Subset, FS_CardinalityType
  <2> QED BY <2>1, <2>3
<1>4. rank \in [Nodes -> 0..(N - 1)]
  BY <1>2, <1>3
<1>5. ASSUME NEW u \in Nodes, NEW e \in in[u] PROVE rank[Node(e)] < rank[u]
  <2>1. PICK n \in Nodes : n = Node(e) /\ n < u
    BY DEF GraphOK, Sound
  <2>2. PICK A, B : A = {v \in Nodes : v < n} /\ B = {v \in Nodes : v < u}
    OBVIOUS
  <2>3. n \in Int /\ u \in Int /\ \A v \in Nodes : v \in Int
    BY SchedulerAssumption
  <2>4. A \in SUBSET B /\ n \in B /\ n \notin A
    <3>1. \A v \in Nodes : v < n => v < u
      BY <2>1, <2>3
    <3>2. ~(n < n)
      BY <2>3
    <3> QED BY <2>1, <2>2, <3>1, <3>2
  <2>5. IsFiniteSet(B) /\ rank[n] = Cardinality(A) /\ rank[u] = Cardinality(B)
    BY <1>2, <1>3, <2>2
  <2>6. Cardinality(A) <= Cardinality(B) /\ Cardinality(A) # Cardinality(B)
    BY <2>4, <2>5, FS_Subset
  <2>7. Cardinality(A) \in Int /\ Cardinality(B) \in Int
    <3>1. Cardinality({v \in Nodes : v < n}) \in Int
      BY <1>3
    <3>2. Cardinality({v \in Nodes : v < u}) \in Int
      BY <1>3
    <3> QED BY <2>2, <3>1, <3>2
  <2> QED BY <2>1, <2>5, <2>6, <2>7
<1> QED BY <1>1, <1>4, <1>5 DEF Acyclic

\* The floors of the nodes that wait for a predecessor, and of those in X, do
\* not count for the depths of the others.
AgreeBut(f, g, in, done, X) ==
  \A m \in Nodes : m \notin Blocked(in, done) /\ m \notin X => f[m] = g[m]

LEMMA DepthStays ==
  ASSUME NEW in, GraphOK(in), NEW done \in SUBSET Nodes, done \cap Blocked(in, done) = {},
         NEW f \in [Nodes -> Nat], NEW g \in [Nodes -> Nat],
         NEW X, X \cap done = {}, AgreeBut(f, g, in, done, X),
         NEW m \in Nodes, m \notin Blocked(in, done), m \notin X
  PROVE  Longest(in, f)[m] = Longest(in, g)[m]
<1>1. PICK C \in SUBSET Nodes : C = done \cup {m}
  OBVIOUS
<1>2. ASSUME NEW u \in C PROVE f[u] = g[u] /\ \A e \in in[u] : Node(e) \in C
  <2>1. u \in Nodes /\ u \notin Blocked(in, done) /\ u \notin X
    BY <1>1
  <2> QED BY <1>1, <2>1 DEF AgreeBut, Blocked, EdgesLeft
<1>3. Acyclic(in) /\ Sound(in)
  BY NumberedIsAcyclic DEF GraphOK
<1>4. \A u \in C : Longest(in, f)[u] = Longest(in, g)[u]
  BY <1>2, <1>3, LongestAgree
<1> QED BY <1>1, <1>4

LEMMA DepthIs ==
  ASSUME NEW in, GraphOK(in), NEW f \in [Nodes -> Nat], NEW u \in Nodes
  PROVE  /\ Longest(in, f)[u] \in Nat
         /\ IsLargest(Longest(in, f)[u], Through(in, Longest(in, f), f, u))
<1>1. Acyclic(in) /\ Sound(in)
  BY NumberedIsAcyclic DEF GraphOK
<1>2. PICK D : D = Longest(in, f)
  OBVIOUS
<1>3. D \in [Nodes -> Nat] /\ IsLargest(D[u], Through(in, D, f, u))
  BY <1>1, <1>2, LongestIs
<1> QED BY <1>2, <1>3

-----------------------------------------------------------------------------
(***************************************************************************)
(* Issue: the floors.                                                      *)
(***************************************************************************)
\* What setDepthToAtLeast(w, ...) forgets is below w, so it is blocked.
LEMMA RaiseFloors ==
  ASSUME IssueInv, NEW w \in Nodes, NEW f \in [Nodes -> Nat], NEW x \in Nat, w \notin scheduled
  PROVE  /\ SetDepthToAtLeast(f, w, x) \in [Nodes -> Nat]
         /\ AgreeBut(f, SetDepthToAtLeast(f, w, x), preds, scheduled, {w})
         /\ SetDepthToAtLeast(f, w, x)[w] = IF x <= Longest(preds, f)[w] THEN f[w] ELSE x
<1>1. PICK B : B = {w} \cup Blocked(preds, scheduled)
  OBVIOUS
<1>2. PICK out : out = [m \in Nodes |-> {<<v>> : v \in Succs(m)}]
  OBVIOUS
<1>3. B \in SUBSET Nodes /\ w \in B
  BY <1>1 DEF Blocked
<1>4. Spreads(B, out, Nodes)
  <2> SUFFICES ASSUME NEW m \in B, NEW e \in out[m], Node(e) \in Nodes PROVE Node(e) \in B
    BY DEF Spreads
  <2>1. PICK v \in Succs(m) : e = <<v>>
    BY <1>2, <1>3
  <2>2. Node(e) = v /\ v \in Nodes /\ SuccEdges(m, v) # {}
    BY <2>1 DEF Node, Succs
  <2>3. m \notin scheduled
    BY <1>1 DEF IssueInv, QueuesOK
  <2>4. v \in Blocked(preds, scheduled)
    BY <2>2, <2>3 DEF SuccEdges, Blocked, EdgesLeft
  <2> QED BY <1>1, <2>2, <2>4
<1>5. Reached(w, out, Nodes) \subseteq B
  BY <1>3, <1>4 DEF Reached
<1>6. PICK g : g = [m \in Nodes |-> IF m = w THEN x
                                    ELSE IF m \in Reached(w, out, Nodes) THEN 0 ELSE f[m]]
  OBVIOUS
<1>7. SetDepthToAtLeast(f, w, x) = IF x <= Longest(preds, f)[w] THEN f ELSE g
  BY <1>2, <1>6 DEF SetDepthToAtLeast, getDepth
<1>8. g \in [Nodes -> Nat] /\ g[w] = x
  BY <1>6
<1>9. AgreeBut(f, g, preds, scheduled, {w})
  BY <1>1, <1>5, <1>6 DEF AgreeBut
<1>10. AgreeBut(f, f, preds, scheduled, {w})
  BY DEF AgreeBut
<1> QED BY <1>7, <1>8, <1>9, <1>10

\* A fold leads from its base, one element after another.
RaisedFrom(u, f, w) == SetDepthToAtLeast(f, w, getDepth(f)[u] + LatencyTo(u, w))

LEMMA LatencyIs ==
  ASSUME IssueInv, NEW u \in Nodes, NEW w \in Succs(u)
  PROVE  LatencyTo(u, w) \in Nat
<1>1. PICK E, L : E = SuccEdges(u, w) /\ L = {Latency(e) : e \in SuccEdges(u, w)}
  OBVIOUS
<1>2. w \in Nodes /\ E # {} /\ E \subseteq preds[w]
  BY <1>1 DEF Succs, SuccEdges
<1>3. IsFiniteSet(E) /\ \A e \in E : Latency(e) \in Nat
  BY <1>2, FS_Subset DEF IssueInv, GraphOK, Sound
<1>4. IsFiniteSet(L)
  <2>1. PICK f : f = [e \in E |-> Latency(e)]
    OBVIOUS
  <2>2. f \in Surjection(E, L)
    BY <1>1, <2>1 DEF Surjection
  <2> QED BY <1>3, <2>2, FS_Surjection
<1>5. L \in SUBSET Nat /\ L # {}
  BY <1>1, <1>2, <1>3
<1>6. PICK x \in L : IsLargest(x, L)
  BY <1>4, <1>5, LargestExists
<1>7. \A y \in L : x >= y
  BY <1>5, <1>6 DEF IsLargest
<1>8. Max(L) \in L
  BY <1>7 DEF Max
<1> QED BY <1>1, <1>5, <1>8 DEF LatencyTo

\* The floors after the nodes of S, in the order of the fold.
Chosen(S) == CHOOSE w \in S : TRUE

Folded(it, u, S) ==
  IF S = {} THEN AtIssue(u) ELSE RaisedFrom(u, it[S \ {Chosen(S)}], Chosen(S))

LEMMA AnySmaller ==
  ASSUME NEW n \in Nat, NEW S, IsFiniteSet(S), S # {}, Cardinality(S) <= n + 1
  PROVE  /\ Chosen(S) \in S /\ IsFiniteSet(S \ {Chosen(S)})
         /\ Cardinality(S \ {Chosen(S)}) <= n
<1>1. Chosen(S) \in S
  BY DEF Chosen
<1>2. IsFiniteSet(S \ {Chosen(S)}) /\ Cardinality(S \ {Chosen(S)}) = Cardinality(S) - 1
  BY <1>1, FS_RemoveElement
<1>3. Cardinality(S) \in Nat
  BY FS_CardinalityType
<1> QED BY <1>1, <1>2, <1>3

FoldsUpTo(it, u, n) ==
  \A S \in SUBSET Succs(u) : Cardinality(S) <= n => it[S] = Folded(it, u, S)

LEMMA FoldExists ==
  ASSUME NEW u, NEW n \in Nat
  PROVE  \E it : FoldsUpTo(it, u, n)
<1>1. PICK T : T = {m \in Nat : \E it : FoldsUpTo(it, u, m)}
  OBVIOUS
<1>2. \A S \in SUBSET Succs(u) : IsFiniteSet(S) /\ Cardinality(S) \in Nat
  BY NodesAssumption, FS_Subset, FS_CardinalityType DEF Succs
<1>3. 0 \in T
  <2>1. PICK it : it = [S \in SUBSET Succs(u) |-> AtIssue(u)]
    OBVIOUS
  <2>2. ASSUME NEW S \in SUBSET Succs(u), Cardinality(S) <= 0 PROVE it[S] = Folded(it, u, S)
    <3>1. Cardinality(S) = 0
      BY <1>2, <2>2
    <3>2. S = {}
      BY <1>2, <3>1, FS_EmptySet
    <3> QED BY <2>1, <3>2 DEF Folded
  <2>3. FoldsUpTo(it, u, 0)
    BY <2>2 DEF FoldsUpTo
  <2> QED BY <1>1, <2>3
<1>4. ASSUME NEW m \in Nat, m \in T PROVE m + 1 \in T
  <2>1. PICK it : FoldsUpTo(it, u, m)
    BY <1>1, <1>4
  <2>2. PICK next : next = [S \in SUBSET Succs(u) |-> Folded(it, u, S)]
    OBVIOUS
  <2>3. ASSUME NEW S \in SUBSET Succs(u), Cardinality(S) <= m + 1
        PROVE  next[S] = Folded(next, u, S)
    <3>1. CASE S = {}
      BY <2>2, <3>1 DEF Folded
    <3>2. CASE S # {}
      <4>1. PICK R \in SUBSET Succs(u) : R = S \ {Chosen(S)}
        OBVIOUS
      <4>2. Cardinality(R) <= m
        BY <1>2, <2>3, <3>2, <4>1, AnySmaller
      <4>3. it[R] = next[R]
        BY <2>1, <2>2, <4>2 DEF FoldsUpTo
      <4>4. Folded(it, u, S) = Folded(next, u, S)
        BY <4>1, <4>3 DEF Folded
      <4> QED BY <2>2, <4>4
    <3> QED BY <3>1, <3>2
  <2>4. FoldsUpTo(next, u, m + 1)
    BY <2>3 DEF FoldsUpTo
  <2> QED BY <1>1, <2>4
<1> QED BY <1>1, <1>3, <1>4, InductionInSet

LEMMA FloorsFold ==
  ASSUME NEW u
  PROVE  \E it : /\ \A S \in SUBSET Succs(u) : it[S] = Folded(it, u, S)
                 /\ FloorsReleased(u) = it[Succs(u)]
<1> DEFINE IsFold(p) == p = [S \in SUBSET Succs(u) |->
                               IF S = {} THEN AtIssue(u)
                               ELSE RaisedFrom(u, p[S \ {Chosen(S)}], Chosen(S))]
           Fold == CHOOSE p : IsFold(p)
<1>1. FloorsReleased(u) = Fold[Succs(u)]
  BY DEF FloorsReleased, FoldSet, MapThenFoldSet, RaisedFrom, Chosen
<1>2. \E p : IsFold(p)
  <2>1. PICK N \in Nat : N = Cardinality(Succs(u)) /\ IsFiniteSet(Succs(u))
    BY NodesAssumption, FS_Subset, FS_CardinalityType DEF Succs
  <2>2. PICK it : FoldsUpTo(it, u, N)
    BY FoldExists
  <2>3. \A S \in SUBSET Succs(u) : it[S] = Folded(it, u, S)
    BY <2>1, <2>2, FS_Subset DEF FoldsUpTo
  <2>4. PICK p : p = [S \in SUBSET Succs(u) |-> it[S]]
    OBVIOUS
  <2>5. ASSUME NEW S \in SUBSET Succs(u)
        PROVE  it[S] = IF S = {} THEN AtIssue(u) ELSE RaisedFrom(u, p[S \ {Chosen(S)}], Chosen(S))
    <3>1. S \ {Chosen(S)} \in SUBSET Succs(u)
      OBVIOUS
    <3>2. p[S \ {Chosen(S)}] = it[S \ {Chosen(S)}]
      BY <2>4, <3>1
    <3> QED BY <2>3, <3>2 DEF Folded
  <2>6. IsFold(p)
    BY <2>4, <2>5
  <2> HIDE DEF IsFold
  <2> QED BY <2>6
<1> HIDE DEF IsFold
<1>3. IsFold(Fold)
  BY <1>2
<1> HIDE DEF Fold
<1>4. \A S \in SUBSET Succs(u) : Fold[S] = Folded(Fold, u, S)
  BY <1>3 DEF IsFold, Folded
<1> QED BY <1>1, <1>4

\* An issue changes the floors of the node and of those that are blocked.
LEMMA IssueFloors ==
  ASSUME IssueInv, NEW u \in Nodes, u \notin scheduled, u \notin Blocked(preds, scheduled)
  PROVE  /\ AtIssue(u) \in [Nodes -> Nat] /\ FloorsReleased(u) \in [Nodes -> Nat]
         /\ AgreeBut(floor, AtIssue(u), preds, scheduled, {u})
         /\ AgreeBut(AtIssue(u), FloorsReleased(u), preds, scheduled, {})
<1>1. floor \in [Nodes -> Nat] /\ curCycle \in Nat /\ GraphOK(preds)
  BY DEF IssueInv
<1>2. AtIssue(u) \in [Nodes -> Nat] /\ AgreeBut(floor, AtIssue(u), preds, scheduled, {u})
  BY <1>1, RaiseFloors DEF AtIssue
<1>3. PICK F : F = {f \in [Nodes -> Nat] : AgreeBut(AtIssue(u), f, preds, scheduled, {})}
  OBVIOUS
<1>4. AtIssue(u) \in F
  BY <1>2, <1>3 DEF AgreeBut
<1>5. ASSUME NEW f \in F, NEW w \in Succs(u) PROVE RaisedFrom(u, f, w) \in F
  <2>1. w \in Nodes /\ w \in Blocked(preds, scheduled)
    BY DEF Succs, SuccEdges, Blocked, EdgesLeft
  <2>2. w \notin scheduled
    BY <2>1 DEF IssueInv, QueuesOK
  <2>3. f \in [Nodes -> Nat] /\ AgreeBut(AtIssue(u), f, preds, scheduled, {})
    BY <1>3
  <2>4. PICK x \in Nat : x = getDepth(f)[u] + LatencyTo(u, w)
    <3>1. Longest(preds, f)[u] \in Nat
      BY <1>1, <2>3, DepthIs
    <3>2. LatencyTo(u, w) \in Nat
      BY LatencyIs
    <3> QED BY <3>1, <3>2 DEF getDepth
  <2>5. PICK g : g = SetDepthToAtLeast(f, w, x)
    OBVIOUS
  <2>6. g \in [Nodes -> Nat] /\ AgreeBut(f, g, preds, scheduled, {w})
    BY <2>1, <2>2, <2>3, <2>5, RaiseFloors
  <2>7. AgreeBut(AtIssue(u), g, preds, scheduled, {})
    BY <2>1, <2>3, <2>6 DEF AgreeBut
  <2> QED BY <1>3, <2>4, <2>5, <2>6, <2>7 DEF RaisedFrom
<1>6. PICK it : /\ \A S \in SUBSET Succs(u) : it[S] = Folded(it, u, S)
                /\ FloorsReleased(u) = it[Succs(u)]
  BY FloorsFold
<1>7. \A S \in SUBSET Succs(u) : IsFiniteSet(S) /\ Cardinality(S) \in Nat
  BY NodesAssumption, FS_Subset, FS_CardinalityType DEF Succs
<1>8. PICK T : T = {n \in Nat : \A S \in SUBSET Succs(u) : Cardinality(S) <= n => it[S] \in F}
  OBVIOUS
<1>9. ASSUME NEW S \in SUBSET Succs(u), S = {} PROVE it[S] \in F
  BY <1>4, <1>6, <1>9 DEF Folded
<1>10. 0 \in T
  <2>1. ASSUME NEW S \in SUBSET Succs(u), Cardinality(S) <= 0 PROVE S = {}
    <3>1. Cardinality(S) = 0
      BY <1>7, <2>1
    <3> QED BY <1>7, <3>1, FS_EmptySet
  <2> QED BY <1>8, <1>9, <2>1
<1>11. ASSUME NEW n \in Nat, n \in T PROVE n + 1 \in T
  <2> SUFFICES ASSUME NEW S \in SUBSET Succs(u), Cardinality(S) <= n + 1 PROVE it[S] \in F
    BY <1>8
  <2>1. CASE S = {}
    BY <1>9, <2>1
  <2>2. CASE S # {}
    <3>1. Chosen(S) \in S /\ Cardinality(S \ {Chosen(S)}) <= n
      BY <1>7, <2>2, AnySmaller
    <3>2. it[S \ {Chosen(S)}] \in F
      BY <1>8, <1>11, <3>1
    <3>3. it[S] = RaisedFrom(u, it[S \ {Chosen(S)}], Chosen(S))
      BY <1>6, <2>2 DEF Folded
    <3> QED BY <1>5, <3>1, <3>2, <3>3
  <2> QED BY <2>1, <2>2
<1>12. FloorsReleased(u) \in F
  <2>1. Cardinality(Succs(u)) \in Nat
    BY <1>7
  <2>2. Cardinality(Succs(u)) \in T
    BY <1>10, <1>11, <2>1, InductionInSet
  <2> QED BY <1>6, <1>8, <2>1, <2>2
<1> QED BY <1>2, <1>3, <1>12

-----------------------------------------------------------------------------
(***************************************************************************)
(* Issue: the queues.                                                      *)
(***************************************************************************)
LEMMA CountsFall ==
  ASSUME IssueInv, NEW u \in Nodes, u \notin scheduled, NEW w \in Nodes
  PROVE  Released(u)[w] = Cardinality(EdgesLeft(preds, w, scheduled \cup {u}))
<1>1. PICK A, B, C : /\ A = EdgesLeft(preds, w, scheduled)
                     /\ B = EdgesLeft(preds, w, scheduled \cup {u})
                     /\ C = SuccEdges(u, w)
  OBVIOUS
<1>2. A = B \cup C /\ B \cap C = {}
  BY <1>1 DEF EdgesLeft, SuccEdges
<1>3. IsFiniteSet(A)
  BY <1>1, FS_Subset DEF EdgesLeft, IssueInv, GraphOK, Sound
<1>4. IsFiniteSet(B) /\ IsFiniteSet(C)
  BY <1>2, <1>3, FS_Subset
<1>5. Cardinality(A) = Cardinality(B) + Cardinality(C) - Cardinality(B \cap C)
  BY <1>2, <1>4, FS_Union
<1>6. Cardinality(B) \in Nat /\ Cardinality(C) \in Nat /\ Cardinality(B \cap C) = 0
  BY <1>2, <1>4, FS_CardinalityType, FS_EmptySet
<1>7. Released(u)[w] = Cardinality(A) - Cardinality(C)
  BY <1>1 DEF Released, IssueInv, QueuesOK
<1> QED BY <1>1, <1>5, <1>6, <1>7

\* What is released has no predecessor left and was not released before.
LEMMA ReleasedAreReady ==
  ASSUME IssueInv, NEW u \in Nodes, u \notin scheduled, NEW w \in Succs(u), Released(u)[w] = 0
  PROVE  /\ w \in Nodes /\ w \notin scheduled /\ w # u
         /\ w \in Blocked(preds, scheduled) /\ w \notin Blocked(preds, scheduled \cup {u})
<1>1. w \in Nodes /\ SuccEdges(u, w) # {}
  BY DEF Succs
<1>2. PICK e \in preds[w] : Node(e) = u
  BY <1>1 DEF SuccEdges
<1>3. w \in Blocked(preds, scheduled) /\ w \notin scheduled
  BY <1>1, <1>2 DEF IssueInv, QueuesOK, Blocked, EdgesLeft
<1>4. w # u
  <2>1. u < w /\ u \in Int
    <3>1. GraphOK(preds)
      BY DEF IssueInv
    <3>2. u < w
      BY <1>1, <1>2, <3>1 DEF GraphOK
    <3>3. u \in Nat
      BY SchedulerAssumption
    <3> QED BY <3>2, <3>3
  <2> QED BY <2>1
<1>5. EdgesLeft(preds, w, scheduled \cup {u}) = {}
  <2>1. IsFiniteSet(EdgesLeft(preds, w, scheduled \cup {u}))
    BY <1>1, FS_Subset DEF EdgesLeft, IssueInv, GraphOK, Sound
  <2>2. Cardinality(EdgesLeft(preds, w, scheduled \cup {u})) = 0
    BY <1>1, CountsFall
  <2> QED BY <2>1, <2>2, FS_EmptySet
<1> QED BY <1>1, <1>3, <1>4, <1>5 DEF Blocked

LEMMA BlockedShrink ==
  ASSUME NEW in, NEW done, NEW more, done \subseteq more
  PROVE  Blocked(in, more) \subseteq Blocked(in, done)
BY DEF Blocked, EdgesLeft

\* The queues after u, which was available or in the part R of PendingQueue
\* that has moved over.
QueuesIssue(u, R) ==
  /\ numPredsLeft' = Released(u)
  /\ available' = (available \cup R) \ {u}
  /\ pending' = (pending \ R) \cup {w \in Succs(u) : Released(u)[w] = 0}

LEMMA QueuesAfterIssue ==
  ASSUME IssueInv, NEW R \in SUBSET pending, NEW u \in available \cup R, QueuesIssue(u, R)
  PROVE  QueuesOK(preds, numPredsLeft', available', pending', scheduled \cup {u})
<1>1. u \in Nodes /\ u \notin scheduled /\ u \notin Blocked(preds, scheduled)
  BY DEF IssueInv, QueuesOK
<1>2. PICK W : W = {w \in Succs(u) : Released(u)[w] = 0}
  OBVIOUS
<1>3. \A w \in W : /\ w \in Nodes /\ w \notin scheduled /\ w # u
                   /\ w \in Blocked(preds, scheduled)
                   /\ w \notin Blocked(preds, scheduled \cup {u})
  BY <1>1, <1>2, ReleasedAreReady
<1>4. PICK done : done = scheduled \cup {u}
  OBVIOUS
<1>5. Blocked(preds, done) \subseteq Blocked(preds, scheduled)
  BY <1>4, BlockedShrink
<1>6. \A w \in Nodes : Released(u)[w] = Cardinality(EdgesLeft(preds, w, done))
  BY <1>1, <1>4, CountsFall
<1>7. /\ available' = (available \cup R) \ {u} /\ pending' = (pending \ R) \cup W
      /\ numPredsLeft' = Released(u)
  BY <1>2 DEF QueuesIssue
<1>8. /\ available \subseteq Nodes /\ pending \subseteq Nodes
      /\ available \cap pending = {} /\ (available \cup pending) \cap scheduled = {}
      /\ (available \cup pending \cup scheduled) \cap Blocked(preds, scheduled) = {}
  BY DEF IssueInv, QueuesOK
<1>9. u \notin pending'
  <2>1. u \notin pending \ R
    BY <1>8
  <2> QED BY <1>3, <1>7, <2>1
<1>10. available' \subseteq Nodes /\ pending' \subseteq Nodes
  BY <1>3, <1>7, <1>8
<1>11. available' \cap pending' = {}
  BY <1>3, <1>7, <1>8
<1>12. (available' \cup pending') \cap done = {}
  BY <1>3, <1>4, <1>7, <1>8, <1>9
<1>13. (available' \cup pending' \cup done) \cap Blocked(preds, done) = {}
  BY <1>1, <1>3, <1>4, <1>5, <1>7, <1>8
<1> QED BY <1>4, <1>6, <1>7, <1>10, <1>11, <1>12, <1>13 DEF QueuesOK

-----------------------------------------------------------------------------
(***************************************************************************)
(* Issue: the depths.                                                      *)
(***************************************************************************)
Timely(R) == \A m \in R : getDepth(floor)[m] <= curCycle

\* A node that is issued gets the depth CurCycle: its predecessors need no more.
LEMMA DepthAtIssue ==
  ASSUME IssueInv, NEW u \in Nodes, u \notin scheduled, u \notin Blocked(preds, scheduled),
         Longest(preds, floor)[u] <= curCycle
  PROVE  Longest(preds, AtIssue(u))[u] = curCycle
<1>1. floor \in [Nodes -> Nat] /\ curCycle \in Nat /\ GraphOK(preds)
  BY DEF IssueInv
<1>2. PICK D : D = Longest(preds, floor)
  OBVIOUS
<1>3. D[u] \in Nat /\ IsLargest(D[u], Through(preds, D, floor, u))
  BY <1>1, <1>2, DepthIs
<1>4. PICK f \in [Nodes -> Nat] :
        /\ f = AtIssue(u) /\ AgreeBut(floor, f, preds, scheduled, {u})
        /\ f[u] = IF curCycle <= D[u] THEN floor[u] ELSE curCycle
  BY <1>1, <1>2, RaiseFloors DEF AtIssue
<1>5. PICK E : E = Longest(preds, f)
  OBVIOUS
<1>6. E[u] \in Nat /\ IsLargest(E[u], Through(preds, E, f, u))
  BY <1>1, <1>5, DepthIs
<1>7. CASE curCycle <= D[u]
  <2>1. f = floor
    BY <1>2, <1>4, <1>7 DEF AtIssue, SetDepthToAtLeast, getDepth
  <2>2. E[u] = D[u]
    BY <1>2, <1>5, <2>1
  <2> QED BY <1>1, <1>2, <1>3, <1>4, <1>5, <1>7, <2>2
<1>8. CASE ~(curCycle <= D[u])
  <2>1. f[u] = curCycle
    BY <1>4, <1>8
  <2>2. ASSUME NEW e \in preds[u] PROVE E[Node(e)] + Latency(e) <= curCycle
    <3>1. Node(e) \in Nodes /\ Node(e) \in scheduled /\ Latency(e) \in Nat
      BY <1>1 DEF GraphOK, Sound, Blocked, EdgesLeft
    <3>2. Node(e) \notin Blocked(preds, scheduled) /\ Node(e) # u
      BY <3>1 DEF IssueInv, QueuesOK
    <3>3. {u} \cap scheduled = {} /\ scheduled \cap Blocked(preds, scheduled) = {}
      BY DEF IssueInv, QueuesOK
    <3>4. scheduled \in SUBSET Nodes
      BY DEF scheduled
    <3>5. E[Node(e)] = D[Node(e)]
      BY <1>1, <1>2, <1>4, <1>5, <3>1, <3>2, <3>3, <3>4, DepthStays
    <3>6. D[Node(e)] + Latency(e) <= D[u]
      BY <1>3 DEF IsLargest, Through
    <3>7. D[Node(e)] \in Nat
      BY <1>1, <1>2, <3>1, DepthIs
    <3> QED BY <1>1, <1>2, <1>3, <3>1, <3>5, <3>6, <3>7
  <2>3. \A y \in Through(preds, E, f, u) : y <= curCycle
    BY <1>1, <2>1, <2>2 DEF Through
  <2>4. E[u] <= curCycle
    BY <1>6, <2>3 DEF IsLargest
  <2>5. f[u] <= E[u]
    BY <1>6 DEF IsLargest, Through
  <2> QED BY <1>1, <1>4, <1>5, <1>6, <2>1, <2>4, <2>5
<1> QED BY <1>7, <1>8

LEMMA DepthsAfterIssue ==
  ASSUME IssueInv, NEW R \in SUBSET pending, Timely(R), NEW u \in available \cup R,
         NEW c \in {curCycle, curCycle + 1}
  PROVE  /\ FloorsReleased(u) \in [Nodes -> Nat]
         /\ DepthsOK(preds, FloorsReleased(u), (available \cup R) \ {u}, c,
                     [issued EXCEPT ![u] = curCycle], scheduled \cup {u})
<1>1. /\ floor \in [Nodes -> Nat] /\ curCycle \in Nat /\ GraphOK(preds)
      /\ issued \in [Nodes -> Nat \cup {Never}]
  BY DEF IssueInv
<1>2. /\ available \subseteq Nodes /\ pending \subseteq Nodes
      /\ (available \cup pending) \cap scheduled = {}
      /\ (available \cup pending \cup scheduled) \cap Blocked(preds, scheduled) = {}
      /\ scheduled \in SUBSET Nodes
  BY DEF IssueInv, QueuesOK, scheduled
<1>3. u \in Nodes /\ u \notin scheduled /\ u \notin Blocked(preds, scheduled)
  BY <1>2
<1>4. PICK f \in [Nodes -> Nat], g \in [Nodes -> Nat] :
        /\ f = AtIssue(u) /\ g = FloorsReleased(u)
        /\ AgreeBut(floor, f, preds, scheduled, {u}) /\ AgreeBut(f, g, preds, scheduled, {})
  BY <1>3, IssueFloors
<1>5. AgreeBut(floor, g, preds, scheduled, {u})
  BY <1>4 DEF AgreeBut
<1>6. \A m \in scheduled : Longest(preds, floor)[m] = issued[m]
  BY DEF IssueInv, DepthsOK
<1>7. \A m \in available \cup R : Longest(preds, floor)[m] <= curCycle
  BY DEF IssueInv, DepthsOK, Timely, getDepth
<1>8. {u} \cap scheduled = {} /\ {} \cap scheduled = {} /\ u \notin {}
      /\ scheduled \cap Blocked(preds, scheduled) = {}
  BY <1>2, <1>3
<1>9. Longest(preds, g)[u] = curCycle
  <2>1. Longest(preds, f)[u] = Longest(preds, g)[u]
    BY <1>1, <1>2, <1>3, <1>4, <1>8, DepthStays
  <2>2. Longest(preds, f)[u] = curCycle
    BY <1>3, <1>4, <1>7, DepthAtIssue
  <2> QED BY <2>1, <2>2
<1>10. ASSUME NEW m \in Nodes, m \notin Blocked(preds, scheduled), m # u
       PROVE  Longest(preds, g)[m] = Longest(preds, floor)[m]
  <2>1. m \notin {u}
    BY <1>10
  <2> QED BY <1>1, <1>2, <1>5, <1>8, <1>10, <2>1, DepthStays
<1>11. ASSUME NEW m \in scheduled \cup {u}
       PROVE  Longest(preds, g)[m] = [issued EXCEPT ![u] = curCycle][m]
  <2>1. CASE m = u
    BY <1>1, <1>3, <1>9, <2>1
  <2>2. CASE m # u
    <3>1. m \in Nodes /\ m \in scheduled /\ m \notin Blocked(preds, scheduled)
      BY <1>2, <2>2
    <3> QED BY <1>1, <1>6, <1>10, <2>2, <3>1
  <2> QED BY <2>1, <2>2
<1>12. ASSUME NEW m \in (available \cup R) \ {u} PROVE Longest(preds, g)[m] <= c
  <2>1. m \in Nodes /\ m # u /\ m \notin Blocked(preds, scheduled)
    BY <1>2
  <2>2. Longest(preds, g)[m] = Longest(preds, floor)[m]
    BY <1>10, <2>1
  <2>3. Longest(preds, floor)[m] <= curCycle /\ Longest(preds, floor)[m] \in Nat
    BY <1>1, <1>7, <2>1, DepthIs
  <2> QED BY <1>1, <2>2, <2>3
<1> QED BY <1>4, <1>11, <1>12 DEF DepthsOK

-----------------------------------------------------------------------------
(***************************************************************************)
(* The rounds of both loops.                                               *)
(***************************************************************************)
LEMMA IssueKeeps ==
  ASSUME IssueInv, NEW R \in SUBSET pending, Timely(R), NEW u \in available \cup R,
         QueuesIssue(u, R), preds' = preds, floor' = FloorsReleased(u),
         issued' = [issued EXCEPT ![u] = curCycle], curCycle' \in {curCycle, curCycle + 1}
  PROVE  IssueInv' /\ scheduled' = scheduled \cup {u}
<1>1. u \in Nodes /\ curCycle \in Nat /\ issued \in [Nodes -> Nat \cup {Never}]
  BY DEF IssueInv, QueuesOK
<1>2. curCycle # Never
  BY <1>1 DEF Never
<1>3. issued' \in [Nodes -> Nat \cup {Never}]
  BY <1>1
<1>4. scheduled' = scheduled \cup {u}
  BY <1>1, <1>2, <1>3 DEF scheduled
<1>5. curCycle' \in Nat
  BY <1>1
<1>6. /\ floor' \in [Nodes -> Nat]
      /\ DepthsOK(preds, floor', available', curCycle', issued', scheduled \cup {u})
  BY DepthsAfterIssue DEF QueuesIssue
<1>7. QueuesOK(preds, numPredsLeft', available', pending', scheduled \cup {u})
  BY QueuesAfterIssue
<1>8. GraphOK(preds')
  BY DEF IssueInv
<1> QED BY <1>3, <1>4, <1>5, <1>6, <1>7, <1>8 DEF IssueInv

\* The clock goes on, and what is ripe may have moved over.
LEMMA AdvanceKeeps ==
  ASSUME IssueInv, NEW R \in SUBSET pending, Timely(R),
         available' = available \cup R, pending' = pending \ R, curCycle' = curCycle + 1,
         UNCHANGED <<preds, floor, issued, numPredsLeft>>
  PROVE  IssueInv' /\ scheduled' = scheduled
<1>1. curCycle' \in Nat /\ curCycle \in Nat
  BY DEF IssueInv
<1>2. scheduled' = scheduled
  BY DEF scheduled
<1>3. ASSUME NEW m \in available' PROVE Longest(preds, floor)[m] <= curCycle'
  <2>1. Longest(preds, floor)[m] <= curCycle
    BY DEF IssueInv, DepthsOK, Timely, getDepth
  <2>2. Longest(preds, floor)[m] \in Nat
    BY DepthIs DEF IssueInv, QueuesOK
  <2> QED BY <1>1, <2>1, <2>2
<1>4. DepthsOK(preds, floor, available', curCycle', issued, scheduled)
  BY <1>3 DEF IssueInv, DepthsOK
<1>5. QueuesOK(preds, numPredsLeft, available', pending', scheduled)
  BY DEF IssueInv, QueuesOK
<1> QED BY <1>1, <1>2, <1>4, <1>5 DEF IssueInv

LEMMA NextKeeps ==
  ASSUME IssueInv, Next
  PROVE  IssueInv'
<1>1. available \subseteq Nodes /\ pending \subseteq Nodes /\ curCycle \in Nat
  BY DEF IssueInv, QueuesOK
<1>2. Ripe \in SUBSET pending
  BY DEF Ripe
<1>3. Timely(Ripe)
  BY <1>1 DEF Ripe, Timely
<1>4. ASSUME NEW u \in Nodes, Issue(u) PROVE IssueInv'
  <2>1. u \in available \cup Ripe /\ QueuesIssue(u, Ripe) /\ preds' = preds
    BY <1>4 DEF Issue, QueuesIssue
  <2>2. floor' = FloorsReleased(u) /\ issued' = [issued EXCEPT ![u] = curCycle]
    BY <1>4 DEF Issue
  <2>3. curCycle' \in {curCycle, curCycle + 1}
    BY <1>4 DEF Issue, CycleAfter
  <2> QED BY <1>2, <1>3, <2>1, <2>2, <2>3, IssueKeeps
<1>5. CASE Wait
  <2>1. available' = available \cup {} /\ pending' = pending \ {}
        /\ {} \in SUBSET pending /\ Timely({})
    BY <1>5 DEF Wait, Timely
  <2>2. curCycle' = curCycle + 1 /\ UNCHANGED <<preds, floor, issued, numPredsLeft>>
    BY <1>5 DEF Wait
  <2> QED BY <2>1, <2>2, AdvanceKeeps
<1>6. CASE Stall
  <2>1. available' = available \cup Ripe /\ pending' = pending \ Ripe
        /\ curCycle' = curCycle + 1 /\ UNCHANGED <<preds, floor, issued, numPredsLeft>>
    BY <1>6 DEF Stall
  <2> QED BY <1>2, <1>3, <2>1, AdvanceKeeps
<1>7. CASE UNCHANGED vars
  BY <1>7 DEF vars, IssueInv, scheduled
<1> QED BY <1>4, <1>5, <1>6, <1>7 DEF Next

LEMMA PRipeIs == PRipe \in SUBSET pending /\ Timely(PRipe)
BY DEF PRipe, Timely

LEMMA PIssueKeeps ==
  ASSUME IssueInv, NEW u \in Nodes, PIssue(u)
  PROVE  IssueInv' /\ scheduled' = scheduled \cup {u}
<1>1. u \in available \cup PRipe /\ QueuesIssue(u, PRipe) /\ preds' = preds
  BY DEF PIssue, QueuesIssue
<1>2. floor' = FloorsReleased(u) /\ issued' = [issued EXCEPT ![u] = curCycle]
  BY DEF PIssue
<1>3. curCycle' \in {curCycle, curCycle + 1}
  BY DEF PIssue, PCycleAfter
<1> QED BY <1>1, <1>2, <1>3, PRipeIs, IssueKeeps

LEMMA EndCycleKeeps ==
  ASSUME IssueInv, EndCycle
  PROVE  IssueInv' /\ scheduled' = scheduled
<1>1. available' = available \cup PRipe /\ pending' = pending \ PRipe
      /\ UNCHANGED <<preds, floor, issued, numPredsLeft>>
  BY DEF EndCycle
<1>2. curCycle' = curCycle + 1
  BY DEF EndCycle, NextCycle
<1> QED BY <1>1, <1>2, PRipeIs, AdvanceKeeps

LEMMA PNextKeeps ==
  ASSUME IssueInv, PNext
  PROVE  IssueInv'
<1>1. CASE UNCHANGED pvars
  BY <1>1 DEF pvars, vars, IssueInv, scheduled
<1> QED BY <1>1, PIssueKeeps, EndCycleKeeps DEF PNext

-----------------------------------------------------------------------------
(***************************************************************************)
(* The priority queue.                                                     *)
(***************************************************************************)

QueueInv == loop = "postRA" =>
  /\ \A p \in Nodes : isAvailable[p] => p \in available \cup scheduled
  /\ \A p \in available : isAvailable[p]
  /\ \A p \in available : blocking[p] = SolelyBlocked(p, scheduled)

LEMMA NowAvailable ==
  ASSUME IssueInv, loop = "postRA", QueueInv
  PROVE  /\ \A p \in Nodes : AvailableNow[p] => p \in available \cup PRipe \cup scheduled
         /\ \A p \in available \cup PRipe : p \in Nodes /\ AvailableNow[p]
BY PRipeIs DEF AvailableNow, QueueInv, IssueInv, QueuesOK

\* What ScheduledNode adjusts is in the queue.
LEMMA AdjustedQueued ==
  ASSUME IssueInv, loop = "postRA", QueueInv, NEW u \in available \cup PRipe
  PROVE  Adjusted(u, AvailableNow) \subseteq (available \cup PRipe) \ {u}
<1> SUFFICES ASSUME NEW p \in Adjusted(u, AvailableNow)
             PROVE  p \in (available \cup PRipe) \ {u}
  OBVIOUS
<1>1. p \in Nodes /\ AvailableNow[p]
      /\ \E w \in Succs(u) : UnscheduledPreds(w, scheduled \cup {u}) = {p}
  BY DEF Adjusted
<1>2. p \notin scheduled /\ p # u
  BY <1>1 DEF UnscheduledPreds
<1> QED BY <1>1, <1>2, NowAvailable

\* A node that is not adjusted keeps blocking the same nodes alone.
LEMMA OthersBlockTheSame ==
  ASSUME IssueInv, loop = "postRA", QueueInv, NEW u \in available \cup PRipe,
         NEW p \in (available \cup PRipe) \ {u}, p \notin Adjusted(u, AvailableNow)
  PROVE  SolelyBlocked(p, scheduled \cup {u}) = SolelyBlocked(p, scheduled)
<1>1. PICK done : done = scheduled \cup {u}
  OBVIOUS
<1>2. p \in Nodes /\ AvailableNow[p] /\ p \notin scheduled /\ p # u
  BY NowAvailable, PRipeIs DEF IssueInv, QueuesOK
<1>3. ASSUME NEW w \in Succs(p)
      PROVE  UnscheduledPreds(w, scheduled) = {p} <=> UnscheduledPreds(w, done) = {p}
  <2>1. UnscheduledPreds(w, done) = UnscheduledPreds(w, scheduled) \ {u}
    BY <1>1 DEF UnscheduledPreds
  <2>2. CASE u \in UnscheduledPreds(w, scheduled) /\ UnscheduledPreds(w, done) = {p}
    <3>1. w \in Nodes /\ w \in Succs(u)
      BY <2>2 DEF UnscheduledPreds, Succs, SuccEdges
    <3>2. w \in Blocked(preds, scheduled)
      BY <1>2, <3>1 DEF Succs, SuccEdges, Blocked, EdgesLeft
    <3>3. w \notin available \cup PRipe \cup scheduled
      BY <3>2, PRipeIs DEF IssueInv, QueuesOK
    <3>4. ~AvailableNow[w]
      BY <3>1, <3>3, NowAvailable
    <3> QED BY <1>1, <1>2, <2>2, <3>1, <3>4 DEF Adjusted
  <2>3. CASE u \in UnscheduledPreds(w, scheduled) /\ UnscheduledPreds(w, done) # {p}
    BY <1>2, <2>3
  <2>4. CASE u \notin UnscheduledPreds(w, scheduled)
    BY <2>1, <2>4
  <2> QED BY <2>2, <2>3, <2>4
<1>4. {w \in Succs(p) : UnscheduledPreds(w, scheduled) = {p}}
      = {w \in Succs(p) : UnscheduledPreds(w, done) = {p}}
  BY <1>3
<1> QED BY <1>1, <1>4 DEF SolelyBlocked

LEMMA PIssueKeepsQueue ==
  ASSUME IssueInv, loop = "postRA", QueueInv, NEW u \in Nodes, PIssue(u)
  PROVE  QueueInv'
<1>1. u \in available \cup PRipe /\ available' = (available \cup PRipe) \ {u}
      /\ isAvailable' = AvailableNow /\ preds' = preds
  BY DEF PIssue
<1>2. scheduled' = scheduled \cup {u}
  BY PIssueKeeps
<1>3. PICK held \in SUBSET ((available \cup PRipe) \ {u}) : blocking' = BlockingAfter(u, held)
  BY DEF PIssue
<1>4. ASSUME NEW p \in available' PROVE blocking'[p] = SolelyBlocked(p, scheduled \cup {u})
  <2>1. p \in Nodes /\ p \in (available \cup PRipe) \ {u}
    BY <1>1, NowAvailable
  <2>2. CASE p \in Adjusted(u, AvailableNow)
    BY <1>3, <2>1, <2>2 DEF BlockingAfter, Pushed
  <2>3. CASE p \notin Adjusted(u, AvailableNow)
    <3>1. blocking'[p] = IF p \in PRipe \cup held THEN SolelyBlocked(p, scheduled)
                         ELSE blocking[p]
      BY <1>3, <2>1, <2>3 DEF BlockingAfter, Pushed
    <3>2. blocking'[p] = SolelyBlocked(p, scheduled)
      BY <2>1, <3>1 DEF QueueInv
    <3> QED BY <1>1, <2>1, <2>3, <3>2, OthersBlockTheSame
  <2> QED BY <2>2, <2>3
<1>5. \A p \in available' : SolelyBlocked(p, scheduled)' = SolelyBlocked(p, scheduled \cup {u})
  BY <1>1, <1>2 DEF SolelyBlocked, Succs, SuccEdges, UnscheduledPreds
<1>6. \A p \in Nodes : isAvailable'[p] => p \in available' \cup scheduled'
  BY <1>1, <1>2, NowAvailable
<1>7. \A p \in available' : isAvailable'[p]
  BY <1>1, NowAvailable
<1> QED BY <1>4, <1>5, <1>6, <1>7 DEF QueueInv

LEMMA EndCycleKeepsQueue ==
  ASSUME IssueInv, loop = "postRA", QueueInv, EndCycle
  PROVE  QueueInv'
<1>1. available' = available \cup PRipe /\ isAvailable' = AvailableNow /\ preds' = preds
      /\ blocking' = Pushed(available', scheduled, blocking)
  BY DEF EndCycle
<1>2. scheduled' = scheduled
  BY EndCycleKeeps
<1>3. \A p \in available' : p \in Nodes /\ isAvailable'[p]
  BY <1>1, NowAvailable
<1>4. \A p \in available' : blocking'[p] = SolelyBlocked(p, scheduled)
  BY <1>1, <1>3 DEF Pushed
<1>5. \A p \in available' : SolelyBlocked(p, scheduled)' = SolelyBlocked(p, scheduled)
  BY <1>1, <1>2 DEF SolelyBlocked, Succs, SuccEdges, UnscheduledPreds
<1>6. \A p \in Nodes : isAvailable'[p] => p \in available' \cup scheduled'
  BY <1>1, <1>2, NowAvailable
<1> QED BY <1>3, <1>4, <1>5, <1>6 DEF QueueInv

-----------------------------------------------------------------------------
(***************************************************************************)
(* The start.                                                              *)
(***************************************************************************)
\* With nothing scheduled and no floor, the nodes without predecessors are
\* available at cycle 0.
LEMMA StartOK ==
  ASSUME GraphOK(preds), floor = [u \in Nodes |-> 0], curCycle = 0,
         issued = [u \in Nodes |-> Never], pending = {},
         numPredsLeft = [u \in Nodes |-> Cardinality(preds[u])],
         available = {u \in Nodes : preds[u] = {}}
  PROVE  IssueInv /\ scheduled = {}
<1>1. scheduled = {}
  BY DEF scheduled
<1>2. floor \in [Nodes -> Nat] /\ curCycle \in Nat /\ issued \in [Nodes -> Nat \cup {Never}]
  OBVIOUS
<1>3. ASSUME NEW u \in available PROVE Longest(preds, floor)[u] <= 0
  <2>1. u \in Nodes /\ preds[u] = {}
    OBVIOUS
  <2>2. IsLargest(Longest(preds, floor)[u], Through(preds, Longest(preds, floor), floor, u))
    BY <1>2, <2>1, DepthIs
  <2>3. Through(preds, Longest(preds, floor), floor, u) = {0}
    BY <2>1 DEF Through
  <2> QED BY <2>2, <2>3 DEF IsLargest
<1>4. DepthsOK(preds, floor, available, curCycle, issued, scheduled)
  BY <1>1, <1>3 DEF DepthsOK
<1>5. \A w \in Nodes : EdgesLeft(preds, w, {}) = preds[w]
  BY DEF EdgesLeft
<1>6. QueuesOK(preds, numPredsLeft, available, pending, scheduled)
  BY <1>1, <1>5 DEF QueuesOK, Blocked
<1> QED BY <1>1, <1>2, <1>4, <1>6 DEF IssueInv

\* The edges either graph has between two nodes are finitely many.
LEMMA EdgesFinite ==
  ASSUME NEW A, IsFiniteSet(A), NEW f
  PROVE  IsFiniteSet({f[a] : a \in A})
<1>1. PICK B : B = {f[a] : a \in A}
  OBVIOUS
<1>2. PICK g : g = [a \in A |-> f[a]]
  OBVIOUS
<1>3. g \in Surjection(A, B)
  BY <1>1, <1>2 DEF Surjection
<1> QED BY <1>1, <1>3, FS_Surjection

LEMMA InitOK ==
  ASSUME Init
  PROVE  IssueInv /\ scheduled = {}
<1>1. PICK arcs \in SUBSET {a \in Nodes \X Kinds \X Nodes : a[1] < a[3]} :
        preds = [u \in Nodes |-> {<<a[1], a[2], latency[a[1]]>> :
                                    a \in {b \in arcs : b[3] = u}}]
  BY DEF Init
<1>2. latency \in [Nodes -> Latencies]
  BY DEF Init
<1>3. IsFiniteSet(Nodes \X Kinds)
  BY NodesAssumption, SchedulerAssumption, FS_Product
<1>4. ASSUME NEW u \in Nodes
      PROVE  IsFiniteSet(preds[u]) /\ \A e \in preds[u] :
               Node(e) \in Nodes /\ Latency(e) \in Nat /\ Node(e) < u
  <2>1. PICK A : A = {b \in arcs : b[3] = u}
    OBVIOUS
  <2>2. PICK f, E : /\ f = [p \in Nodes \X Kinds |-> <<p[1], p[2], latency[p[1]]>>]
                    /\ E = {f[p] : p \in Nodes \X Kinds}
    OBVIOUS
  <2>3. preds[u] = {<<a[1], a[2], latency[a[1]]>> : a \in A}
    BY <1>1, <2>1
  <2>4. A \in SUBSET (Nodes \X Kinds \X Nodes)
    BY <2>1
  <2>5. IsFiniteSet(preds[u])
    <3>1. ASSUME NEW a \in A PROVE <<a[1], a[2], latency[a[1]]>> \in E
      <4>1. <<a[1], a[2]>> \in Nodes \X Kinds
        BY <2>4
      <4>2. f[<<a[1], a[2]>>] = <<a[1], a[2], latency[a[1]]>>
        BY <2>2, <4>1
      <4> QED BY <2>2, <4>1, <4>2
    <3>2. IsFiniteSet(E)
      BY <1>3, <2>2, EdgesFinite
    <3>3. preds[u] \in SUBSET E
      BY <2>3, <3>1
    <3> QED BY <3>2, <3>3, FS_Subset
  <2>6. ASSUME NEW e \in preds[u] PROVE Node(e) \in Nodes /\ Latency(e) \in Nat /\ Node(e) < u
    <3>1. PICK a \in A : e = <<a[1], a[2], latency[a[1]]>>
      BY <2>3
    <3>2. a[1] \in Nodes /\ a[1] < u
      BY <2>1, <2>4
    <3>3. latency[a[1]] \in Nat
      BY <1>2, <3>2, SchedulerAssumption
    <3> QED BY <3>1, <3>2, <3>3 DEF Node, Latency
  <2> QED BY <2>5, <2>6
<1>5. GraphOK(preds)
  BY <1>4 DEF GraphOK, Sound
<1> QED BY <1>5, StartOK DEF Init

LEMMA PInitOK ==
  ASSUME PInit
  PROVE  IssueInv /\ scheduled = {}
<1>1. PICK lat \in [{a \in Nodes \X Nodes : a[1] < a[2]} -> Latencies \cup {Never}],
           kind \in Kinds :
        preds = [u \in Nodes |-> {<<w, kind, lat[w, u]>> :
                     w \in {v \in Nodes : v < u /\ lat[v, u] # Never}}]
  BY DEF PInit
<1>2. ASSUME NEW u \in Nodes
      PROVE  IsFiniteSet(preds[u]) /\ \A e \in preds[u] :
               Node(e) \in Nodes /\ Latency(e) \in Nat /\ Node(e) < u
  <2>1. PICK A : A = {v \in Nodes : v < u /\ lat[v, u] # Never}
    OBVIOUS
  <2>2. PICK f : f = [w \in A |-> <<w, kind, lat[w, u]>>]
    OBVIOUS
  <2>3. preds[u] = {f[w] : w \in A}
    BY <1>1, <2>1, <2>2
  <2>4. IsFiniteSet(preds[u])
    <3>1. IsFiniteSet(A)
      BY NodesAssumption, <2>1, FS_Subset
    <3>2. IsFiniteSet({f[w] : w \in A})
      BY <3>1, EdgesFinite
    <3> QED BY <2>3, <3>2
  <2>5. ASSUME NEW e \in preds[u] PROVE Node(e) \in Nodes /\ Latency(e) \in Nat /\ Node(e) < u
    <3>1. PICK w \in A : e = <<w, kind, lat[w, u]>>
      BY <2>2, <2>3
    <3>2. w \in Nodes /\ w < u /\ lat[w, u] # Never
      BY <2>1
    <3>3. <<w, u>> \in {a \in Nodes \X Nodes : a[1] < a[2]}
      BY <3>2
    <3>4. lat[w, u] \in Latencies \cup {Never}
      BY <3>3
    <3>5. lat[w, u] \in Nat
      BY <3>2, <3>4, SchedulerAssumption
    <3> QED BY <3>1, <3>2, <3>5 DEF Node, Latency
  <2> QED BY <2>4, <2>5
<1>3. GraphOK(preds)
  BY <1>2 DEF GraphOK, Sound
<1> QED BY <1>3, StartOK DEF PInit

LEMMA EitherInitOK ==
  ASSUME EitherInit
  PROVE  IssueInv /\ QueueInv
<1>1. CASE loop = "SDNodes" /\ Init
  BY <1>1, InitOK DEF QueueInv
<1>2. CASE loop = "postRA" /\ PInit
  <2>1. IssueInv /\ scheduled = {}
    BY <1>2, PInitOK
  <2>2. available = {u \in Nodes : preds[u] = {}} /\ isAvailable = [u \in Nodes |-> preds[u] = {}]
    BY <1>2 DEF PInit
  <2>3. blocking = Pushed(available, {}, [u \in Nodes |-> 0])
    BY <1>2 DEF PInit
  <2>4. \A p \in available : blocking[p] = SolelyBlocked(p, {})
    BY <2>2, <2>3 DEF Pushed
  <2>5. \A p \in Nodes : isAvailable[p] <=> p \in available
    BY <2>2
  <2> QED BY <2>1, <2>2, <2>4, <2>5 DEF QueueInv
<1> QED BY <1>1, <1>2 DEF EitherInit

LEMMA UnchangedQueue ==
  ASSUME IssueInv, QueueInv, UNCHANGED <<pvars, loop>>
  PROVE  QueueInv'
<1>1. scheduled' = scheduled
  BY DEF pvars, vars, scheduled
<1>2. \A p \in Nodes : SolelyBlocked(p, scheduled)' = SolelyBlocked(p, scheduled)
  BY <1>1 DEF pvars, vars, SolelyBlocked, Succs, SuccEdges, UnscheduledPreds
<1>3. available \subseteq Nodes
  BY DEF IssueInv, QueuesOK
<1> QED BY <1>1, <1>2, <1>3 DEF pvars, vars, QueueInv

LEMMA EitherNextKeeps ==
  ASSUME IssueInv, QueueInv, [EitherNext]_<<pvars, loop>>
  PROVE  IssueInv' /\ QueueInv'
<1>1. CASE loop = "SDNodes" /\ loop' = loop /\ Next
  BY <1>1, NextKeeps DEF QueueInv
<1>2. CASE loop = "postRA" /\ loop' = loop /\ PNext
  <2>1. IssueInv'
    BY <1>2, PNextKeeps
  <2>2. CASE UNCHANGED pvars
    BY <1>2, <2>1, <2>2, UnchangedQueue
  <2> QED BY <1>2, <2>1, <2>2, PIssueKeepsQueue, EndCycleKeepsQueue DEF PNext
<1>3. CASE UNCHANGED <<pvars, loop>>
  <2>1. IssueInv'
    BY <1>3 DEF pvars, vars, IssueInv, scheduled
  <2> QED BY <1>3, <2>1, UnchangedQueue
<1> QED BY <1>1, <1>2, <1>3 DEF EitherNext

-----------------------------------------------------------------------------
(***************************************************************************)
(* Theorems.                                                               *)
(***************************************************************************)
\* In every reachable state of either loop what is queued has all its
\* predecessors scheduled, and depths say what cycle a node was or may be
\* issued in.
THEOREM SchedulingInvariance == EitherSpec => [](IssueInv /\ QueueInv)
<1>1. EitherInit => IssueInv /\ QueueInv
  BY EitherInitOK
<1>2. IssueInv /\ QueueInv /\ [EitherNext]_<<pvars, loop>> => (IssueInv /\ QueueInv)'
  BY EitherNextKeeps
<1> QED BY <1>1, <1>2, PTL DEF EitherSpec

\* A node's depth stays the cycle it was issued in (setDepthToAtLeast,
\* ReleaseSucc).
THEOREM DepthsAreKept == EitherSpec => []DepthKept
<1>1. IssueInv => DepthKept
  BY DEF IssueInv, DepthsOK, DepthKept, getDepth
<1> QED BY <1>1, SchedulingInvariance, PTL

\* No instruction is issued before the results it needs (ListScheduleTopDown of
\* ScheduleDAGList.cpp and of PostRASchedulerList.cpp).
THEOREM SchedulesAreLegal == EitherSpec => []LatenciesRespected
<1>1. ASSUME IssueInv PROVE LatenciesRespected
  <2> SUFFICES ASSUME NEW u \in scheduled, NEW e \in preds[u]
               PROVE  Node(e) \in scheduled /\ issued[u] >= issued[Node(e)] + Latency(e)
    BY DEF LatenciesRespected
  <2>1. u \in Nodes /\ u \notin Blocked(preds, scheduled)
    BY <1>1 DEF IssueInv, QueuesOK, scheduled
  <2>2. Node(e) \in scheduled
    BY <2>1 DEF Blocked, EdgesLeft
  <2>3. PICK D : D = Longest(preds, floor)
    OBVIOUS
  <2>4. D[u] = issued[u] /\ D[Node(e)] = issued[Node(e)]
    BY <1>1, <2>2, <2>3 DEF IssueInv, DepthsOK
  <2>5. IsLargest(D[u], Through(preds, D, floor, u))
    BY <1>1, <2>1, <2>3, DepthIs DEF IssueInv
  <2>6. D[Node(e)] + Latency(e) <= D[u]
    BY <2>5 DEF IsLargest, Through
  <2>7. D[u] \in Nat /\ D[Node(e)] \in Nat /\ Latency(e) \in Nat
    BY <1>1, <2>1, <2>3, DepthIs DEF IssueInv, GraphOK, Sound
  <2> QED BY <2>2, <2>4, <2>6, <2>7
<1> QED BY <1>1, SchedulingInvariance, PTL

\* The counts by which LatencyPriorityQueue breaks ties are exact for what is in
\* the queue, and what ScheduledNode takes out of the queue is in it.
THEOREM QueueStaysExact == EitherSpec => []PostRAQueueExact
<1>1. ASSUME IssueInv, QueueInv PROVE PostRAQueueExact
  <2> SUFFICES ASSUME loop = "postRA" PROVE QueueExact
    BY DEF PostRAQueueExact
  <2>1. \A u \in available : blocking[u] = SolelyBlocked(u, scheduled)
    BY <1>1 DEF QueueInv
  <2>2. \A u \in available \cup PRipe :
          Adjusted(u, AvailableNow) \subseteq (available \cup PRipe) \ {u}
    BY <1>1, AdjustedQueued
  <2> QED BY <2>1, <2>2 DEF QueueExact
<1> QED BY <1>1, SchedulingInvariance, PTL

-----------------------------------------------------------------------------
(***************************************************************************)
(* Breaking anti-dependencies: the inductive invariant.                    *)
(***************************************************************************)
\* An operand of instruction n of c writes r.
Defines(c, n, r) ==
  n \in DOMAIN c /\ \E k \in DOMAIN c[n].ops : c[n].ops[k].def /\ c[n].ops[k].reg = r

Classes == DOMAIN AllocationOrder \cup {NoClass, Mixed}

\* What the walk knows of the registers when it has seen the instructions in I.
LivenessOf(I) ==
  {l \in [classes : [Regs -> Classes], kill : [Regs -> 0..Unset], def : [Regs -> 0..Unset],
          refs : [Regs -> SUBSET (I \X Nat)]] :
     \A r \in Regs : (l.kill[r] = Unset) # (l.def[r] = Unset)}

BlockInv ==
  /\ code \in [1..Length -> Instruction]
  /\ count \in 0..Length /\ top \in 0..(Length + 1)
  /\ IF top = 0 THEN count = 0 ELSE count < top /\ Begin(top) <= count + 1
  /\ \A p \in 1..(top - 1) : layout[p] = p
  /\ Liveness \in LivenessOf((count + 1)..Length)
  /\ \A p \in 1..count : \A e \in graph : e.kind = "Anti" /\ e.to = p => Defines(code, p, e.reg)

-----------------------------------------------------------------------------
(***************************************************************************)
(* Folds over the operands of an instruction and the instructions of a     *)
(* region.                                                                 *)
(***************************************************************************)
LEMMA ExtremesAreIn ==
  ASSUME NEW n \in Nat, NEW S \in SUBSET (1..n), S # {}
  PROVE  Max(S) \in S /\ Min(S) \in S /\ \A x \in S : Min(S) <= x /\ x <= Max(S)
<1>1. S \in SUBSET Nat
  OBVIOUS
<1>2. \E m \in S : \A k \in S : m <= k
  BY <1>1, LeastNat
<1>3. \E m \in S : \A k \in S : m >= k
  <2>1. PICK R : R = {n - x : x \in S}
    OBVIOUS
  <2>2. R \in SUBSET Nat /\ R # {}
    <3>1. \A x \in S : n - x \in Nat
      <4> SUFFICES ASSUME NEW x \in S PROVE n - x \in Nat
        OBVIOUS
      <4>1. x \in 1..n
        OBVIOUS
      <4> QED BY <4>1
    <3> QED BY <2>1, <3>1
  <2>3. PICK m \in R : \A k \in R : m <= k
    BY <2>2, LeastNat
  <2>4. PICK x \in S : m = n - x
    BY <2>1, <2>3
  <2>5. \A y \in S : n - x <= n - y
    BY <2>1, <2>3, <2>4
  <2>6. \A y \in S : x >= y
    BY <2>5, <1>1
  <2> QED BY <2>6
<1>4. Min(S) \in S /\ \A k \in S : Min(S) <= k
  BY <1>2 DEF Min
<1>5. Max(S) \in S /\ \A k \in S : Max(S) >= k
  BY <1>3 DEF Max
<1> QED BY <1>1, <1>4, <1>5

LEMMA Smaller ==
  ASSUME NEW n \in Nat, NEW S \in SUBSET (1..n), NEW x \in S, NEW m \in Nat, Cardinality(S) <= m + 1
  PROVE  S \ {x} \in SUBSET (1..n) /\ Cardinality(S \ {x}) <= m
<1>1. IsFiniteSet(S)
  <2>1. IsFiniteSet(1..n)
    BY FS_Interval
  <2> QED BY <2>1, FS_Subset
<1>2. Cardinality(S) \in Nat /\ Cardinality(S \ {x}) = Cardinality(S) - 1
  BY <1>1, FS_CardinalityType, FS_RemoveElement
<1> QED BY <1>2

LEMMA SubsetCards ==
  ASSUME NEW n \in Nat, NEW S \in SUBSET (1..n)
  PROVE  Cardinality(S) \in Nat /\ (Cardinality(S) <= 0 => S = {})
<1>1. IsFiniteSet(S)
  <2>1. IsFiniteSet(1..n)
    BY FS_Interval
  <2> QED BY <2>1, FS_Subset
<1>2. Cardinality(S) \in Nat
  BY <1>1, FS_CardinalityType
<1> QED BY <1>1, <1>2, FS_EmptySet

\* Induction over the sets a fold comes through.
LEMMA FoldInduction ==
  ASSUME NEW n \in Nat, NEW Good, {} \in Good,
         \A S \in SUBSET (1..n) : S # {} => \E x \in S : S \ {x} \in Good => S \in Good
  PROVE  \A S \in SUBSET (1..n) : S \in Good
<1>1. PICK T : T = {m \in Nat : \A S \in SUBSET (1..n) : Cardinality(S) <= m => S \in Good}
  OBVIOUS
<1>2. 0 \in T
  BY <1>1, SubsetCards
<1>3. ASSUME NEW m \in Nat, m \in T PROVE m + 1 \in T
  <2>1. ASSUME NEW S \in SUBSET (1..n), Cardinality(S) <= m + 1 PROVE S \in Good
    <3>1. CASE S = {}
      BY <3>1
    <3>2. CASE S # {}
      <4>1. PICK x \in S : S \ {x} \in Good => S \in Good
        BY <3>2
      <4>2. S \ {x} \in SUBSET (1..n) /\ Cardinality(S \ {x}) <= m
        BY <2>1, Smaller
      <4> QED BY <1>1, <1>3, <4>1, <4>2
    <3> QED BY <3>1, <3>2
  <2> QED BY <1>1, <2>1
<1>4. Nat \subseteq T
  BY <1>2, <1>3, InductionInSet
<1>5. ASSUME NEW S \in SUBSET (1..n) PROVE S \in Good
  <2>1. Cardinality(S) \in T /\ Cardinality(S) \in Nat
    BY <1>4, SubsetCards
  <2> QED BY <1>1, <2>1
<1> QED BY <1>5

\* What folding step over S makes of a, when pick says which element is last.
FoldedOver(it, a, step, pick, S) ==
  IF S = {} THEN a ELSE step[<<pick[S], it[S \ {pick[S]}]>>]

Foldable(n, V, a, step, pick) ==
  /\ n \in Nat /\ a \in V /\ step \in [(1..n) \X V -> V]
  /\ \A S \in SUBSET (1..n) : S # {} => pick[S] \in S

IsFolded(it, n, V, a, step, pick) ==
  /\ it \in [SUBSET (1..n) -> V]
  /\ \A S \in SUBSET (1..n) : it[S] = FoldedOver(it, a, step, pick, S)

LEMMA StepsFold ==
  ASSUME NEW n, NEW V, NEW a, NEW step, NEW pick, Foldable(n, V, a, step, pick)
  PROVE  \E it : IsFolded(it, n, V, a, step, pick)
<1> USE DEF Foldable
<1>1. PICK T : T = {m \in Nat : \E it \in [SUBSET (1..n) -> V] :
                       \A S \in SUBSET (1..n) :
                          Cardinality(S) <= m => it[S] = FoldedOver(it, a, step, pick, S)}
  OBVIOUS
<1>2. 0 \in T
  <2>1. PICK it \in [SUBSET (1..n) -> V] : it = [S \in SUBSET (1..n) |-> a]
    OBVIOUS
  <2>2. ASSUME NEW S \in SUBSET (1..n), Cardinality(S) <= 0
        PROVE  it[S] = FoldedOver(it, a, step, pick, S)
    BY <2>1, <2>2, SubsetCards DEF FoldedOver
  <2> QED BY <1>1, <2>2
<1>3. ASSUME NEW m \in Nat, m \in T PROVE m + 1 \in T
  <2>1. PICK it \in [SUBSET (1..n) -> V] : \A S \in SUBSET (1..n) :
                          Cardinality(S) <= m => it[S] = FoldedOver(it, a, step, pick, S)
    BY <1>1, <1>3
  <2>2. ASSUME NEW S \in SUBSET (1..n) PROVE FoldedOver(it, a, step, pick, S) \in V
    <3>1. CASE S = {}
      BY <3>1 DEF FoldedOver
    <3>2. CASE S # {}
      <4>1. pick[S] \in 1..n /\ S \ {pick[S]} \in SUBSET (1..n)
        BY <3>2
      <4>2. it[S \ {pick[S]}] \in V
        BY <4>1
      <4>3. <<pick[S], it[S \ {pick[S]}]>> \in (1..n) \X V
        BY <4>1, <4>2
      <4> QED BY <3>2, <4>3 DEF FoldedOver
    <3> QED BY <3>1, <3>2
  <2>3. PICK next : next = [S \in SUBSET (1..n) |-> FoldedOver(it, a, step, pick, S)]
    OBVIOUS
  <2>4. next \in [SUBSET (1..n) -> V]
    BY <2>2, <2>3
  <2>5. ASSUME NEW S \in SUBSET (1..n), Cardinality(S) <= m + 1
        PROVE  next[S] = FoldedOver(next, a, step, pick, S)
    <3>1. CASE S = {}
      BY <2>3, <3>1 DEF FoldedOver
    <3>2. CASE S # {}
      <4>1. pick[S] \in S
        BY <3>2
      <4>2. S \ {pick[S]} \in SUBSET (1..n) /\ Cardinality(S \ {pick[S]}) <= m
        BY <2>5, <4>1, Smaller
      <4>3. it[S \ {pick[S]}] = next[S \ {pick[S]}]
        BY <2>1, <2>3, <4>2
      <4>4. FoldedOver(it, a, step, pick, S) = FoldedOver(next, a, step, pick, S)
        BY <4>3 DEF FoldedOver
      <4> QED BY <2>3, <4>4
    <3> QED BY <3>1, <3>2
  <2>6. \E g \in [SUBSET (1..n) -> V] :
           \A S \in SUBSET (1..n) :
              Cardinality(S) <= m + 1 => g[S] = FoldedOver(g, a, step, pick, S)
    BY <2>4, <2>5
  <2>7. m + 1 \in Nat
    OBVIOUS
  <2> QED BY ONLY <1>1, <2>6, <2>7
<1>4. Nat \subseteq T
  BY <1>2, <1>3, InductionInSet
<1>5. PICK N \in Nat : N = Cardinality(1..n) /\ IsFiniteSet(1..n)
  <2>1. IsFiniteSet(1..n)
    BY FS_Interval
  <2>2. Cardinality(1..n) \in Nat
    BY <2>1, FS_CardinalityType
  <2> QED BY <2>1, <2>2
<1>6. \A S \in SUBSET (1..n) : Cardinality(S) <= N
  BY <1>5, FS_Subset
<1>7. PICK it \in [SUBSET (1..n) -> V] : \A S \in SUBSET (1..n) :
         Cardinality(S) <= N => it[S] = FoldedOver(it, a, step, pick, S)
  BY <1>1, <1>4
<1> QED BY <1>6, <1>7 DEF IsFolded

-----------------------------------------------------------------------------
(***************************************************************************)
(* What the walk does to what it knows of the registers.                   *)
(***************************************************************************)
LEMMA OperandsAre ==
  ASSUME NEW c \in [1..Length -> Instruction], NEW i \in 1..Length
  PROVE  \E n \in Nat : DOMAIN c[i].ops = 1..n /\ \A k \in 1..n : c[i].ops[k] \in Operand
<1>1. c[i] \in Instruction
  OBVIOUS
<1>2. c[i].ops \in Seq(Operand)
  BY <1>1 DEF Instruction
<1> QED BY <1>2

\* The fields of what is known.
LEMMA LivenessIs ==
  ASSUME NEW I, NEW l \in LivenessOf(I)
  PROVE  /\ l.classes \in [Regs -> Classes]
         /\ l.kill \in [Regs -> 0..Unset] /\ l.def \in [Regs -> 0..Unset]
         /\ l.refs \in [Regs -> SUBSET (I \X Nat)]
         /\ \A r \in Regs : (l.kill[r] = Unset) # (l.def[r] = Unset)
         /\ l = [classes |-> l.classes, kill |-> l.kill, def |-> l.def, refs |-> l.refs]
BY DEF LivenessOf

LEMMA LivenessMade ==
  ASSUME NEW I, NEW cs \in [Regs -> Classes], NEW kl \in [Regs -> 0..Unset],
         NEW df \in [Regs -> 0..Unset], NEW rf \in [Regs -> SUBSET (I \X Nat)],
         \A r \in Regs : (kl[r] = Unset) # (df[r] = Unset)
  PROVE  [classes |-> cs, kill |-> kl, def |-> df, refs |-> rf] \in LivenessOf(I)
BY DEF LivenessOf

LEMMA MergedIs ==
  ASSUME NEW x \in Classes, NEW y \in Classes \ {Mixed}
  PROVE  Merged(x, y) \in Classes /\ Merged(x, y) # NoClass
BY BlockAssumption DEF Merged, Classes, NoClass, Mixed

LEMMA PrescanOperandKeeps ==
  ASSUME code \in [1..Length -> Instruction], NEW i \in 1..Length, NEW I, i \in I,
         NEW l \in LivenessOf(I), NEW k \in DOMAIN code[i].ops
  PROVE  /\ PrescanOperand(l, i, k) \in LivenessOf(I)
         /\ \A r \in Regs : r = code[i].ops[k].reg \/ l.classes[r] # NoClass =>
              PrescanOperand(l, i, k).classes[r] # NoClass
<1>1. PICK mo \in Operand : mo = code[i].ops[k] /\ k \in Nat
  <2>1. PICK n \in Nat : DOMAIN code[i].ops = 1..n /\ \A j \in 1..n : code[i].ops[j] \in Operand
    BY OperandsAre
  <2> QED BY <2>1
<1>2. mo.reg \in Regs /\ mo.class \in Classes \ {Mixed}
  BY <1>1, BlockAssumption DEF Operand, Classes, NoClass, Mixed
<1> DEFINE inUse == {a \in Aliases(mo.reg) : l.classes[a] # NoClass}
           new == [r \in Regs |->
                IF r \in inUse \/ (r = mo.reg /\ inUse # {}) THEN Mixed
                ELSE IF r = mo.reg THEN Merged(l.classes[r], mo.class) ELSE l.classes[r]]
           refs == [l.refs EXCEPT ![mo.reg] = IF new[mo.reg] = Mixed THEN @ ELSE @ \cup {<<i, k>>}]
<1>3. l.classes \in [Regs -> Classes] /\ l.refs \in [Regs -> SUBSET (I \X Nat)]
  BY LivenessIs
<1>4. new \in [Regs -> Classes]
  BY <1>2, <1>3, MergedIs DEF Classes
<1>5. \A r \in Regs : r = mo.reg \/ l.classes[r] # NoClass => new[r] # NoClass
  BY <1>2, <1>3, MergedIs DEF NoClass, Mixed
<1>6. refs \in [Regs -> SUBSET (I \X Nat)]
  <2>1. PICK x : x = IF new[mo.reg] = Mixed THEN l.refs[mo.reg] ELSE l.refs[mo.reg] \cup {<<i, k>>}
    OBVIOUS
  <2>2. l.refs[mo.reg] \in SUBSET (I \X Nat) /\ <<i, k>> \in I \X Nat
    BY <1>1, <1>2, <1>3
  <2>3. x \in SUBSET (I \X Nat)
    BY <2>1, <2>2
  <2>4. refs = [l.refs EXCEPT ![mo.reg] = x]
    BY <2>1
  <2> QED BY <1>3, <2>3, <2>4
<1>7. PrescanOperand(l, i, k) = [l EXCEPT !.classes = new, !.refs = refs]
  BY <1>1, <1>3, LivenessIs DEF PrescanOperand
<1> HIDE DEF new, refs
<1>8. PrescanOperand(l, i, k) = [classes |-> new, kill |-> l.kill, def |-> l.def, refs |-> refs]
  BY <1>7, LivenessIs
<1>9. PrescanOperand(l, i, k) \in LivenessOf(I)
  <2>1. /\ l.kill \in [Regs -> 0..Unset] /\ l.def \in [Regs -> 0..Unset]
        /\ \A r \in Regs : (l.kill[r] = Unset) # (l.def[r] = Unset)
    BY LivenessIs
  <2> QED BY <1>4, <1>6, <1>8, <2>1 DEF LivenessOf
<1>10. PrescanOperand(l, i, k).classes = new
  BY <1>8
<1> QED BY <1>1, <1>5, <1>9, <1>10

\* PrescanInstruction gives each register the instruction names a class.
LEMMA PrescanKeeps ==
  ASSUME code \in [1..Length -> Instruction], NEW i \in 1..Length, NEW I, i \in I,
         NEW l \in LivenessOf(I)
  PROVE  /\ PrescanInstruction(l, i) \in LivenessOf(I)
         /\ \A r \in Regs : Defines(code, i, r) => PrescanInstruction(l, i).classes[r] # NoClass
<1>1. PICK n \in Nat : DOMAIN code[i].ops = 1..n /\ \A k \in 1..n : code[i].ops[k] \in Operand
  BY OperandsAre
<1>2. PICK ks : ks = [k \in DOMAIN code[i].ops |-> k]
  OBVIOUS
<1>3. DOMAIN ks = 1..n /\ \A k \in 1..n : ks[k] = k
  BY <1>1, <1>2
<1> DEFINE IsFold(p) == p = [S \in SUBSET DOMAIN ks |->
                IF S = {} THEN l ELSE PrescanOperand(p[S \ {Max(S)}], i, ks[Max(S)])]
           Fold == CHOOSE p : IsFold(p)
<1>4. PrescanInstruction(l, i) = Fold[DOMAIN ks]
  BY <1>2 DEF PrescanInstruction, FoldLeft, MapThenFoldSet
<1>5. PICK V : V = LivenessOf(I)
  OBVIOUS
<1>6. \A k \in 1..n : \A m \in V : PrescanOperand(m, i, k) \in V
  BY <1>1, <1>5, PrescanOperandKeeps
<1>7. PICK step : step = [x \in (1..n) \X V |-> PrescanOperand(x[2], i, x[1])]
  OBVIOUS
<1>8. step \in [(1..n) \X V -> V]
  BY <1>6, <1>7
<1>9. PICK pick : pick = [S \in SUBSET (1..n) |-> Max(S)]
  OBVIOUS
<1>10. \A S \in SUBSET (1..n) : S # {} => pick[S] \in S
  BY <1>9, ExtremesAreIn
<1>11. PICK it \in [SUBSET (1..n) -> V] :
          \A S \in SUBSET (1..n) : it[S] = FoldedOver(it, l, step, pick, S)
  <2>1. Foldable(n, V, l, step, pick)
    BY <1>1, <1>5, <1>8, <1>10 DEF Foldable
  <2>2. PICK it : IsFolded(it, n, V, l, step, pick)
    BY <2>1, StepsFold
  <2> QED BY <2>2 DEF IsFolded
<1>12. ASSUME NEW S \in SUBSET (1..n)
       PROVE  it[S] = IF S = {} THEN l ELSE PrescanOperand(it[S \ {Max(S)}], i, ks[Max(S)])
  <2>1. CASE S = {}
    BY <1>11, <2>1 DEF FoldedOver
  <2>2. CASE S # {}
    <3>1. pick[S] = Max(S) /\ Max(S) \in 1..n /\ ks[Max(S)] = Max(S)
      BY <1>3, <1>9, <1>10, <2>2
    <3>2. it[S \ {Max(S)}] \in V
      BY <1>11
    <3>3. step[<<Max(S), it[S \ {Max(S)}]>>] = PrescanOperand(it[S \ {Max(S)}], i, Max(S))
      BY <1>7, <3>1, <3>2
    <3> QED BY <1>11, <2>2, <3>1, <3>3 DEF FoldedOver
  <2> QED BY <2>1, <2>2
<1>13. IsFold(it)
  BY <1>3, <1>11, <1>12
<1> HIDE DEF IsFold
<1>14. IsFold(Fold)
  BY <1>13
<1> HIDE DEF Fold
<1>15. ASSUME NEW S \in SUBSET (1..n)
       PROVE  Fold[S] = IF S = {} THEN l ELSE PrescanOperand(Fold[S \ {Max(S)}], i, Max(S))
  <2>1. S # {} => Max(S) \in 1..n
    BY ExtremesAreIn
  <2> QED BY <1>3, <1>14, <2>1 DEF IsFold
<1>16. PICK Good : Good = {S \in SUBSET (1..n) : /\ Fold[S] \in V
                             /\ \A k \in S : Fold[S].classes[code[i].ops[k].reg] # NoClass}
  OBVIOUS
<1>17. {} \in Good
  BY <1>5, <1>15, <1>16
<1>18. ASSUME NEW S \in SUBSET (1..n), S # {} PROVE \E x \in S : S \ {x} \in Good => S \in Good
  <2>1. PICK x \in S : x = Max(S) /\ x \in 1..n
    BY <1>18, ExtremesAreIn
  <2>2. SUFFICES ASSUME S \ {x} \in Good PROVE S \in Good
    BY <2>1
  <2>3. PICK m \in V : m = Fold[S \ {x}]
    BY <1>16, <2>2
  <2>4. Fold[S] = PrescanOperand(m, i, x)
    BY <1>15, <1>18, <2>1, <2>3
  <2>5. ASSUME NEW k \in S PROVE Fold[S].classes[code[i].ops[k].reg] # NoClass
    <3>1. code[i].ops[k].reg \in Regs
      BY <1>1 DEF Operand
    <3>2. k = x \/ m.classes[code[i].ops[k].reg] # NoClass
      BY <1>16, <2>2, <2>3
    <3> QED BY <1>1, <1>5, <2>1, <2>3, <2>4, <3>1, <3>2, PrescanOperandKeeps
  <2>6. Fold[S] \in V
    BY <1>6, <2>1, <2>3, <2>4
  <2> QED BY <1>16, <2>5, <2>6
<1>19. 1..n \in Good
  BY <1>17, <1>18, FoldInduction
<1>20. \A r \in Regs : Defines(code, i, r) => PrescanInstruction(l, i).classes[r] # NoClass
  BY <1>1, <1>3, <1>4, <1>16, <1>19 DEF Defines
<1> QED BY <1>3, <1>4, <1>5, <1>16, <1>19, <1>20

LEMMA DefinedKeeps ==
  ASSUME NEW I, NEW l \in LivenessOf(I), NEW r, NEW n \in 1..Length
  PROVE  Defined(l, r, n) \in LivenessOf(I)
<1> DEFINE gone == {r} \cup SubRegs(r)
           cs == [s \in Regs |-> IF s \in gone THEN NoClass
                                 ELSE IF s \in SuperRegs(r) THEN Mixed ELSE l.classes[s]]
           kl == [s \in Regs |-> IF s \in gone THEN Unset ELSE l.kill[s]]
           df == [s \in Regs |-> IF s \in gone THEN n ELSE l.def[s]]
           rf == [s \in Regs |-> IF s \in gone THEN {} ELSE l.refs[s]]
<1>1. /\ l.classes \in [Regs -> Classes]
      /\ l.kill \in [Regs -> 0..Unset] /\ l.def \in [Regs -> 0..Unset]
      /\ l.refs \in [Regs -> SUBSET (I \X Nat)]
      /\ \A s \in Regs : (l.kill[s] = Unset) # (l.def[s] = Unset)
  BY LivenessIs
<1>2. Unset \in 0..Unset /\ n \in 0..Unset /\ n # Unset
  BY BlockAssumption DEF Unset
<1>3. cs \in [Regs -> Classes] /\ rf \in [Regs -> SUBSET (I \X Nat)]
  BY <1>1 DEF Classes
<1>4. kl \in [Regs -> 0..Unset] /\ df \in [Regs -> 0..Unset]
  BY <1>1, <1>2
<1>5. \A s \in Regs : (kl[s] = Unset) # (df[s] = Unset)
  BY <1>1, <1>2
<1>6. Defined(l, r, n) = [classes |-> cs, kill |-> kl, def |-> df, refs |-> rf]
  BY DEF Defined
<1> HIDE DEF cs, kl, df, rf
<1> QED BY <1>3, <1>4, <1>5, <1>6 DEF LivenessOf

LEMMA UsedKeeps ==
  ASSUME NEW c \in [1..Length -> Instruction], NEW i \in 1..Length, NEW I, i \in I,
         NEW l \in LivenessOf(I), NEW k \in DOMAIN c[i].ops, NEW n \in 1..Length
  PROVE  Used(l, i, k, c, n) \in LivenessOf(I)
<1>1. PICK mo \in Operand : mo = c[i].ops[k] /\ k \in Nat
  <2>1. PICK m \in Nat : DOMAIN c[i].ops = 1..m /\ \A j \in 1..m : c[i].ops[j] \in Operand
    BY OperandsAre
  <2> QED BY <2>1
<1>2. mo.reg \in Regs /\ mo.class \in Classes \ {Mixed}
  BY <1>1, BlockAssumption DEF Operand, Classes, NoClass, Mixed
<1> DEFINE born == {s \in Overlaps(mo.reg) : l.kill[s] = Unset}
           cs == [l.classes EXCEPT ![mo.reg] = Merged(@, mo.class)]
           kl == [s \in Regs |-> IF s \in born THEN n ELSE l.kill[s]]
           df == [s \in Regs |-> IF s \in born THEN Unset ELSE l.def[s]]
           rf == [l.refs EXCEPT ![mo.reg] = @ \cup {<<i, k>>}]
<1>3. /\ l.classes \in [Regs -> Classes]
      /\ l.kill \in [Regs -> 0..Unset] /\ l.def \in [Regs -> 0..Unset]
      /\ l.refs \in [Regs -> SUBSET (I \X Nat)]
      /\ \A s \in Regs : (l.kill[s] = Unset) # (l.def[s] = Unset)
  BY LivenessIs
<1>4. Unset \in 0..Unset /\ n \in 0..Unset /\ n # Unset
  BY BlockAssumption DEF Unset
<1>5. cs \in [Regs -> Classes]
  BY <1>2, <1>3, MergedIs
<1>6. rf \in [Regs -> SUBSET (I \X Nat)]
  BY <1>1, <1>2, <1>3
<1>7. kl \in [Regs -> 0..Unset] /\ df \in [Regs -> 0..Unset]
  BY <1>3, <1>4
<1>8. \A s \in Regs : (kl[s] = Unset) # (df[s] = Unset)
  BY <1>3, <1>4
<1>9. Used(l, i, k, c, n) = [classes |-> cs, kill |-> kl, def |-> df, refs |-> rf]
  BY <1>1 DEF Used
<1> HIDE DEF cs, kl, df, rf
<1> QED BY <1>5, <1>6, <1>7, <1>8, <1>9 DEF LivenessOf

\* One operand of ScanInstruction's first loop, and of its second.
ScanDef(m, i, c, n, k) ==
  IF c[i].ops[k].def /\ ~c[i].ops[k].tied THEN Defined(m, c[i].ops[k].reg, n) ELSE m
ScanUse(m, i, c, n, k) == IF c[i].ops[k].def THEN m ELSE Used(m, i, k, c, n)

\* What the first loop makes of l.
ScanDefs(l, i, c, n) ==
  FoldLeft(LAMBDA m, k : ScanDef(m, i, c, n, k), l, [k \in DOMAIN c[i].ops |-> k])

LEMMA ScanDefsKeep ==
  ASSUME NEW c \in [1..Length -> Instruction], NEW i \in 1..Length, NEW I, i \in I,
         NEW l \in LivenessOf(I), NEW n \in 1..Length
  PROVE  ScanDefs(l, i, c, n) \in LivenessOf(I)
<1>1. PICK z \in Nat : DOMAIN c[i].ops = 1..z /\ \A k \in 1..z : c[i].ops[k] \in Operand
  BY OperandsAre
<1>2. PICK ks : ks = [k \in DOMAIN c[i].ops |-> k]
  OBVIOUS
<1>3. DOMAIN ks = 1..z /\ \A k \in 1..z : ks[k] = k
  BY <1>1, <1>2
<1> DEFINE IsFold(p) == p = [S \in SUBSET DOMAIN ks |->
                IF S = {} THEN l ELSE ScanDef(p[S \ {Max(S)}], i, c, n, ks[Max(S)])]
           Fold == CHOOSE p : IsFold(p)
<1>4. ScanDefs(l, i, c, n) = Fold[DOMAIN ks]
  BY <1>2 DEF ScanDefs, FoldLeft, MapThenFoldSet
<1>5. PICK V : V = LivenessOf(I)
  OBVIOUS
<1>6. \A k \in 1..z : \A m \in V : ScanDef(m, i, c, n, k) \in V
  BY <1>1, <1>5, DefinedKeeps DEF ScanDef
<1>7. PICK step : step = [x \in (1..z) \X V |-> ScanDef(x[2], i, c, n, x[1])]
  OBVIOUS
<1>8. PICK pick : pick = [S \in SUBSET (1..z) |-> Max(S)]
  OBVIOUS
<1>9. \A S \in SUBSET (1..z) : S # {} => pick[S] \in S
  BY <1>8, ExtremesAreIn
<1>10. PICK it : IsFolded(it, z, V, l, step, pick)
  <2>1. step \in [(1..z) \X V -> V] /\ l \in V
    BY <1>5, <1>6, <1>7
  <2>2. Foldable(z, V, l, step, pick)
    BY <1>1, <1>9, <2>1 DEF Foldable
  <2> QED BY <2>2, StepsFold
<1>11. ASSUME NEW S \in SUBSET (1..z)
       PROVE  it[S] = IF S = {} THEN l ELSE ScanDef(it[S \ {Max(S)}], i, c, n, ks[Max(S)])
  <2>1. CASE S = {}
    BY <1>10, <2>1 DEF IsFolded, FoldedOver
  <2>2. CASE S # {}
    <3>1. pick[S] = Max(S) /\ Max(S) \in 1..z /\ ks[Max(S)] = Max(S)
      BY <1>3, <1>8, <1>9, <2>2
    <3>2. it[S \ {Max(S)}] \in V
      BY <1>10 DEF IsFolded
    <3>3. step[<<Max(S), it[S \ {Max(S)}]>>] = ScanDef(it[S \ {Max(S)}], i, c, n, Max(S))
      BY <1>7, <3>1, <3>2
    <3> QED BY <1>10, <2>2, <3>1, <3>3 DEF IsFolded, FoldedOver
  <2> QED BY <2>1, <2>2
<1>12. IsFold(it)
  BY <1>3, <1>10, <1>11 DEF IsFolded
<1> HIDE DEF IsFold
<1>13. IsFold(Fold)
  BY <1>12
<1> HIDE DEF Fold
<1>14. ASSUME NEW S \in SUBSET (1..z)
       PROVE  Fold[S] = IF S = {} THEN l ELSE ScanDef(Fold[S \ {Max(S)}], i, c, n, Max(S))
  <2>1. S # {} => Max(S) \in 1..z
    BY ExtremesAreIn
  <2> QED BY <1>3, <1>13, <2>1 DEF IsFold
<1>15. PICK Good : Good = {S \in SUBSET (1..z) : Fold[S] \in V}
  OBVIOUS
<1>16. {} \in Good
  BY <1>5, <1>14, <1>15
<1>17. ASSUME NEW S \in SUBSET (1..z), S # {} PROVE \E x \in S : S \ {x} \in Good => S \in Good
  <2>1. PICK x \in S : x = Max(S) /\ x \in 1..z
    BY <1>17, ExtremesAreIn
  <2>2. SUFFICES ASSUME S \ {x} \in Good PROVE S \in Good
    BY <2>1
  <2>3. PICK m \in V : m = Fold[S \ {x}]
    BY <1>15, <2>2
  <2>4. Fold[S] = ScanDef(m, i, c, n, x)
    BY <1>14, <1>17, <2>1, <2>3
  <2> QED BY <1>6, <1>15, <2>1, <2>3, <2>4
<1>18. 1..z \in Good
  BY <1>16, <1>17, FoldInduction
<1> QED BY <1>3, <1>4, <1>5, <1>15, <1>18

\* What the second loop makes of l.
ScanUses(l, i, c, n) ==
  FoldLeft(LAMBDA m, k : ScanUse(m, i, c, n, k), l, [k \in DOMAIN c[i].ops |-> k])

LEMMA ScanUsesKeep ==
  ASSUME NEW c \in [1..Length -> Instruction], NEW i \in 1..Length, NEW I, i \in I,
         NEW l \in LivenessOf(I), NEW n \in 1..Length
  PROVE  ScanUses(l, i, c, n) \in LivenessOf(I)
<1>1. PICK z \in Nat : DOMAIN c[i].ops = 1..z /\ \A k \in 1..z : c[i].ops[k] \in Operand
  BY OperandsAre
<1>2. PICK ks : ks = [k \in DOMAIN c[i].ops |-> k]
  OBVIOUS
<1>3. DOMAIN ks = 1..z /\ \A k \in 1..z : ks[k] = k
  BY <1>1, <1>2
<1> DEFINE IsFold(p) == p = [S \in SUBSET DOMAIN ks |->
                IF S = {} THEN l ELSE ScanUse(p[S \ {Max(S)}], i, c, n, ks[Max(S)])]
           Fold == CHOOSE p : IsFold(p)
<1>4. ScanUses(l, i, c, n) = Fold[DOMAIN ks]
  BY <1>2 DEF ScanUses, FoldLeft, MapThenFoldSet
<1>5. PICK V : V = LivenessOf(I)
  OBVIOUS
<1>6. \A k \in 1..z : \A m \in V : ScanUse(m, i, c, n, k) \in V
  BY <1>1, <1>5, UsedKeeps DEF ScanUse
<1>7. PICK step : step = [x \in (1..z) \X V |-> ScanUse(x[2], i, c, n, x[1])]
  OBVIOUS
<1>8. PICK pick : pick = [S \in SUBSET (1..z) |-> Max(S)]
  OBVIOUS
<1>9. \A S \in SUBSET (1..z) : S # {} => pick[S] \in S
  BY <1>8, ExtremesAreIn
<1>10. PICK it : IsFolded(it, z, V, l, step, pick)
  <2>1. step \in [(1..z) \X V -> V] /\ l \in V
    BY <1>5, <1>6, <1>7
  <2>2. Foldable(z, V, l, step, pick)
    BY <1>1, <1>9, <2>1 DEF Foldable
  <2> QED BY <2>2, StepsFold
<1>11. ASSUME NEW S \in SUBSET (1..z)
       PROVE  it[S] = IF S = {} THEN l ELSE ScanUse(it[S \ {Max(S)}], i, c, n, ks[Max(S)])
  <2>1. CASE S = {}
    BY <1>10, <2>1 DEF IsFolded, FoldedOver
  <2>2. CASE S # {}
    <3>1. pick[S] = Max(S) /\ Max(S) \in 1..z /\ ks[Max(S)] = Max(S)
      BY <1>3, <1>8, <1>9, <2>2
    <3>2. it[S \ {Max(S)}] \in V
      BY <1>10 DEF IsFolded
    <3>3. step[<<Max(S), it[S \ {Max(S)}]>>] = ScanUse(it[S \ {Max(S)}], i, c, n, Max(S))
      BY <1>7, <3>1, <3>2
    <3> QED BY <1>10, <2>2, <3>1, <3>3 DEF IsFolded, FoldedOver
  <2> QED BY <2>1, <2>2
<1>12. IsFold(it)
  BY <1>3, <1>10, <1>11 DEF IsFolded
<1> HIDE DEF IsFold
<1>13. IsFold(Fold)
  BY <1>12
<1> HIDE DEF Fold
<1>14. ASSUME NEW S \in SUBSET (1..z)
       PROVE  Fold[S] = IF S = {} THEN l ELSE ScanUse(Fold[S \ {Max(S)}], i, c, n, Max(S))
  <2>1. S # {} => Max(S) \in 1..z
    BY ExtremesAreIn
  <2> QED BY <1>3, <1>13, <2>1 DEF IsFold
<1>15. PICK Good : Good = {S \in SUBSET (1..z) : Fold[S] \in V}
  OBVIOUS
<1>16. {} \in Good
  BY <1>5, <1>14, <1>15
<1>17. ASSUME NEW S \in SUBSET (1..z), S # {} PROVE \E x \in S : S \ {x} \in Good => S \in Good
  <2>1. PICK x \in S : x = Max(S) /\ x \in 1..z
    BY <1>17, ExtremesAreIn
  <2>2. SUFFICES ASSUME S \ {x} \in Good PROVE S \in Good
    BY <2>1
  <2>3. PICK m \in V : m = Fold[S \ {x}]
    BY <1>15, <2>2
  <2>4. Fold[S] = ScanUse(m, i, c, n, x)
    BY <1>14, <1>17, <2>1, <2>3
  <2> QED BY <1>6, <1>15, <2>1, <2>3, <2>4
<1>18. 1..z \in Good
  BY <1>16, <1>17, FoldInduction
<1> QED BY <1>3, <1>4, <1>5, <1>15, <1>18

LEMMA ScanKeeps ==
  ASSUME NEW c \in [1..Length -> Instruction], NEW i \in 1..Length, NEW I, i \in I,
         NEW l \in LivenessOf(I), NEW n \in 1..Length
  PROVE  ScanInstruction(l, i, c, n) \in LivenessOf(I)
<1>1. ScanInstruction(l, i, c, n) = ScanUses(ScanDefs(l, i, c, n), i, c, n)
  BY DEF ScanInstruction, ScanUses, ScanDefs, ScanUse, ScanDef, FoldLeft, MapThenFoldSet
<1>2. ScanDefs(l, i, c, n) \in LivenessOf(I)
  BY ScanDefsKeep
<1> QED BY <1>1, <1>2, ScanUsesKeep

-----------------------------------------------------------------------------
(***************************************************************************)
(* The graph of a region: the instruction an anti-dependence comes from    *)
(* below writes its register.                                              *)
(***************************************************************************)
GraphEdge ==
  [from : Nat, to : Nat, kind : {"Data", "Anti", "Output", "Order"}, latency : Nat,
   reg : Regs \cup {None}]

AntiEdgesFit(c, E) == \A e \in E : e.kind = "Anti" => Defines(c, e.to, e.reg)
DefsFit(c, ds) == \A r \in Regs : \A n \in ds[r] : Defines(c, n, r)

\* What the walk of BuildSchedGraph keeps.
WalkOf(c) ==
  {d \in [edges : SUBSET GraphEdge, uses : [Regs -> SUBSET Nat], defs : [Regs -> SUBSET Nat],
          chain : Nat, memDefs : [Objects -> Nat], memUses : [Objects -> SUBSET Nat],
          pendingLoads : SUBSET Nat] :
     AntiEdgesFit(c, d.edges) /\ DefsFit(c, d.defs)}

LEMMA WalkIs ==
  ASSUME NEW c, NEW d \in WalkOf(c)
  PROVE  /\ d.edges \in SUBSET GraphEdge /\ d.uses \in [Regs -> SUBSET Nat]
         /\ d.defs \in [Regs -> SUBSET Nat] /\ d.chain \in Nat
         /\ d.memDefs \in [Objects -> Nat] /\ d.memUses \in [Objects -> SUBSET Nat]
         /\ d.pendingLoads \in SUBSET Nat
         /\ AntiEdgesFit(c, d.edges) /\ DefsFit(c, d.defs)
         /\ d = [edges |-> d.edges, uses |-> d.uses, defs |-> d.defs, chain |-> d.chain,
                 memDefs |-> d.memDefs, memUses |-> d.memUses, pendingLoads |-> d.pendingLoads]
BY DEF WalkOf

LEMMA AntiOrOutputFit ==
  ASSUME NEW c, NEW d \in WalkOf(c), NEW i \in Nat, NEW mo \in Operand
  PROVE  AntiOrOutput(c, d, i, mo) \in SUBSET GraphEdge /\ AntiEdgesFit(c, AntiOrOutput(c, d, i, mo))
<1>1. d.defs \in [Regs -> SUBSET Nat] /\ DefsFit(c, d.defs)
  BY WalkIs
<1>2. mo.reg \in Regs /\ mo.def \in BOOLEAN
  BY DEF Operand
<1>3. ASSUME NEW e \in AntiOrOutput(c, d, i, mo)
      PROVE  e \in GraphEdge /\ (e.kind = "Anti" => Defines(c, e.to, e.reg))
  <2>1. PICK r \in Overlaps(mo.reg) : \E n \in d.defs[r] :
           e = Edge(i, n, IF mo.def THEN "Output" ELSE "Anti", IF mo.def THEN 1 ELSE 0, r)
    BY <1>3 DEF AntiOrOutput
  <2>2. r \in Regs
    BY <1>2, <2>1 DEF Overlaps, Aliases
  <2>3. PICK n \in Nat : /\ Defines(c, n, r)
                        /\ e = Edge(i, n, IF mo.def THEN "Output" ELSE "Anti", IF mo.def THEN 1 ELSE 0, r)
    BY <1>1, <2>1, <2>2 DEF DefsFit
  <2>4. e = [from |-> i, to |-> n, kind |-> IF mo.def THEN "Output" ELSE "Anti",
             latency |-> IF mo.def THEN 1 ELSE 0, reg |-> r]
    BY <2>3 DEF Edge
  <2>5. e \in GraphEdge
    BY <1>2, <2>2, <2>3, <2>4 DEF GraphEdge
  <2>6. e.to = n /\ e.reg = r
    BY <2>4
  <2> QED BY <2>3, <2>5, <2>6
<1> QED BY <1>3 DEF AntiEdgesFit

LEMMA DataEdgesFit ==
  ASSUME NEW m \in Nat, NEW c \in [1..m -> Instruction], NEW i \in 1..m,
         NEW d \in WalkOf(c), NEW mo \in Operand
  PROVE  DataEdges(c, d, i, mo) \in SUBSET GraphEdge /\ AntiEdgesFit(c, DataEdges(c, d, i, mo))
<1>1. d.uses \in [Regs -> SUBSET Nat]
  BY WalkIs
<1>2. mo.reg \in Regs /\ mo.def \in BOOLEAN /\ c[i].latency \in Nat
  BY DEF Operand, Instruction
<1>3. ASSUME NEW e \in DataEdges(c, d, i, mo)
      PROVE  e \in GraphEdge /\ e.kind # "Anti"
  <2>1. PICK r \in Overlaps(mo.reg) : \E n \in d.uses[r] : e = Edge(i, n, "Data", c[i].latency, r)
    BY <1>2, <1>3 DEF DataEdges
  <2>2. r \in Regs
    BY <1>2, <2>1 DEF Overlaps, Aliases
  <2>3. PICK n \in Nat : e = Edge(i, n, "Data", c[i].latency, r)
    BY <1>1, <2>1, <2>2
  <2>4. e = [from |-> i, to |-> n, kind |-> "Data", latency |-> c[i].latency, reg |-> r]
    BY <2>3 DEF Edge
  <2> QED BY <1>2, <2>2, <2>3, <2>4 DEF GraphEdge
<1> QED BY <1>3 DEF AntiEdgesFit

LEMMA AddOperandKeeps ==
  ASSUME NEW m \in Nat, NEW c \in [1..m -> Instruction], NEW i \in 1..m,
         NEW d \in WalkOf(c), NEW k \in DOMAIN c[i].ops, NEW mo \in Operand, mo = c[i].ops[k]
  PROVE  AddOperand(c, d, i, mo) \in WalkOf(c)
<1> DEFINE E == d.edges \cup AntiOrOutput(c, d, i, mo) \cup DataEdges(c, d, i, mo)
<1>1. E \in SUBSET GraphEdge /\ AntiEdgesFit(c, E)
  <2>1. /\ AntiOrOutput(c, d, i, mo) \in SUBSET GraphEdge
        /\ AntiEdgesFit(c, AntiOrOutput(c, d, i, mo))
    BY AntiOrOutputFit
  <2>2. DataEdges(c, d, i, mo) \in SUBSET GraphEdge /\ AntiEdgesFit(c, DataEdges(c, d, i, mo))
    BY DataEdgesFit
  <2>3. d.edges \in SUBSET GraphEdge /\ AntiEdgesFit(c, d.edges)
    BY WalkIs
  <2> QED BY <2>1, <2>2, <2>3 DEF AntiEdgesFit
<1>2. mo.reg \in Regs /\ mo.def \in BOOLEAN
  BY DEF Operand
<1>3. d.uses \in [Regs -> SUBSET Nat] /\ d.defs \in [Regs -> SUBSET Nat] /\ DefsFit(c, d.defs)
  BY WalkIs
<1>4. PICK linked : linked = [d EXCEPT !.edges = E]
  OBVIOUS
<1> HIDE DEF E
<1>5. linked \in WalkOf(c)
  BY <1>1, <1>4 DEF WalkOf
<1>6. linked.uses = d.uses /\ linked.defs = d.defs
  BY <1>4, WalkIs
<1>7. CASE ~mo.def
  <2>1. PICK us : us = [d.uses EXCEPT ![mo.reg] = @ \cup {i}]
    OBVIOUS
  <2>2. us \in [Regs -> SUBSET Nat]
    BY <1>2, <1>3, <2>1
  <2>3. AddOperand(c, d, i, mo) = [linked EXCEPT !.uses = us]
    BY <1>4, <1>6, <1>7, <2>1 DEF AddOperand, E
  <2> QED BY <1>5, <2>2, <2>3 DEF WalkOf
<1>8. CASE mo.def
  <2>1. PICK us, ds : us = [d.uses EXCEPT ![mo.reg] = {}] /\ ds = DefsAfter(d, i, mo)
    OBVIOUS
  <2>2. us \in [Regs -> SUBSET Nat] /\ ds \in [Regs -> SUBSET Nat]
    BY <1>2, <1>3, <2>1 DEF DefsAfter
  <2>3. Defines(c, i, mo.reg)
    BY <1>8 DEF Defines
  <2>4. DefsFit(c, ds)
    BY <1>2, <1>3, <2>1, <2>3 DEF DefsFit, DefsAfter
  <2>5. AddOperand(c, d, i, mo) = [linked EXCEPT !.uses = us, !.defs = ds]
    BY <1>4, <1>6, <1>8, <2>1 DEF AddOperand, E
  <2> QED BY <1>5, <2>2, <2>4, <2>5 DEF WalkOf
<1> QED BY <1>2, <1>7, <1>8

\* The walk over the operands.
AddOperands(c, d, i) == FoldLeft(LAMBDA e, mo : AddOperand(c, e, i, mo), d, c[i].ops)

LEMMA AddOperandsKeep ==
  ASSUME NEW m \in Nat, NEW c \in [1..m -> Instruction], NEW i \in 1..m, NEW d \in WalkOf(c)
  PROVE  AddOperands(c, d, i) \in WalkOf(c)
<1>1. PICK z, ks : /\ z \in Nat /\ ks = c[i].ops /\ DOMAIN ks = 1..z
                   /\ \A k \in 1..z : ks[k] \in Operand
  <2>1. c[i].ops \in Seq(Operand)
    BY DEF Instruction
  <2> QED BY <2>1
<1>2. \A k \in 1..z : ks[k] \in Operand /\ k \in DOMAIN c[i].ops /\ ks[k] = c[i].ops[k]
  BY <1>1
<1>3. DOMAIN ks = 1..z
  BY <1>1
<1> DEFINE IsFold(p) == p = [S \in SUBSET DOMAIN ks |->
                IF S = {} THEN d ELSE AddOperand(c, p[S \ {Max(S)}], i, ks[Max(S)])]
           Fold == CHOOSE p : IsFold(p)
<1>4. AddOperands(c, d, i) = Fold[DOMAIN ks]
  BY <1>1 DEF AddOperands, FoldLeft, MapThenFoldSet
<1>5. PICK V : V = WalkOf(c)
  OBVIOUS
<1>6. \A k \in 1..z : \A e \in V : AddOperand(c, e, i, ks[k]) \in V
  BY <1>2, <1>5, AddOperandKeeps
<1>7. PICK step : step = [x \in (1..z) \X V |-> AddOperand(c, x[2], i, ks[x[1]])]
  OBVIOUS
<1>8. PICK pick : pick = [S \in SUBSET (1..z) |-> Max(S)]
  OBVIOUS
<1>9. \A S \in SUBSET (1..z) : S # {} => pick[S] \in S
  BY <1>1, <1>8, ExtremesAreIn
<1>10. PICK it : IsFolded(it, z, V, d, step, pick)
  <2>1. step \in [(1..z) \X V -> V] /\ d \in V
    BY <1>5, <1>6, <1>7
  <2>2. Foldable(z, V, d, step, pick)
    BY <1>1, <1>9, <2>1 DEF Foldable
  <2> QED BY <2>2, StepsFold
<1>11. ASSUME NEW S \in SUBSET (1..z)
       PROVE  it[S] = IF S = {} THEN d ELSE AddOperand(c, it[S \ {Max(S)}], i, ks[Max(S)])
  <2>1. CASE S = {}
    BY <1>10, <2>1 DEF IsFolded, FoldedOver
  <2>2. CASE S # {}
    <3>1. pick[S] = Max(S) /\ Max(S) \in 1..z
      BY <1>3, <1>8, <1>9, <2>2
    <3>2. it[S \ {Max(S)}] \in V
      BY <1>10 DEF IsFolded
    <3>3. step[<<Max(S), it[S \ {Max(S)}]>>] = AddOperand(c, it[S \ {Max(S)}], i, ks[Max(S)])
      BY <1>7, <3>1, <3>2
    <3> QED BY <1>10, <2>2, <3>1, <3>3 DEF IsFolded, FoldedOver
  <2> QED BY <2>1, <2>2
<1>12. IsFold(it)
  BY <1>3, <1>10, <1>11 DEF IsFolded
<1> HIDE DEF IsFold
<1>13. IsFold(Fold)
  BY <1>12
<1> HIDE DEF Fold
<1>14. ASSUME NEW S \in SUBSET (1..z)
       PROVE  Fold[S] = IF S = {} THEN d ELSE AddOperand(c, Fold[S \ {Max(S)}], i, ks[Max(S)])
  <2>1. S # {} => Max(S) \in 1..z
    BY <1>1, ExtremesAreIn
  <2> QED BY <1>3, <1>13, <2>1 DEF IsFold
<1>15. PICK Good : Good = {S \in SUBSET (1..z) : Fold[S] \in V}
  OBVIOUS
<1>16. {} \in Good
  BY <1>5, <1>14, <1>15
<1>17. ASSUME NEW S \in SUBSET (1..z), S # {} PROVE \E x \in S : S \ {x} \in Good => S \in Good
  <2>1. PICK x \in S : x = Max(S) /\ x \in 1..z
    BY <1>1, <1>17, ExtremesAreIn
  <2>2. SUFFICES ASSUME S \ {x} \in Good PROVE S \in Good
    BY <2>1
  <2>3. PICK e \in V : e = Fold[S \ {x}]
    BY <1>15, <2>2
  <2>4. Fold[S] = AddOperand(c, e, i, ks[x])
    BY <1>14, <1>17, <2>1, <2>3
  <2> QED BY <1>6, <1>15, <2>1, <2>3, <2>4
<1>18. 1..z \in Good
  BY <1>1, <1>16, <1>17, FoldInduction
<1> QED BY <1>3, <1>4, <1>5, <1>15, <1>18

\* Order edges to S.
LEMMA OrderedKeeps ==
  ASSUME NEW m \in Nat, NEW c \in [1..m -> Instruction], NEW i \in 1..m,
         NEW d \in WalkOf(c), NEW S \in SUBSET Nat
  PROVE  /\ Ordered(c, d, i, S) \in WalkOf(c)
         /\ \A f \in {"uses", "defs", "chain", "memDefs", "memUses", "pendingLoads"} :
              Ordered(c, d, i, S)[f] = d[f]
<1>1. PICK E : E = {Edge(i, n, "Order", c[i].latency, None) : n \in S}
  OBVIOUS
<1>2. c[i].latency \in Nat
  BY DEF Instruction
<1>3. \A e \in E : e \in GraphEdge /\ e.kind # "Anti"
  BY <1>1, <1>2 DEF Edge, GraphEdge
<1>4. PICK F : F = d.edges \cup E
  OBVIOUS
<1>5. F \in SUBSET GraphEdge /\ AntiEdgesFit(c, F)
  BY <1>3, <1>4, WalkIs DEF AntiEdgesFit
<1>6. Ordered(c, d, i, S) = [d EXCEPT !.edges = F]
  BY <1>1, <1>4, WalkIs DEF Ordered
<1>7. Ordered(c, d, i, S) \in WalkOf(c)
  BY <1>5, <1>6 DEF WalkOf
<1>8. Ordered(c, d, i, S) = [edges |-> F, uses |-> d.uses, defs |-> d.defs, chain |-> d.chain,
                 memDefs |-> d.memDefs, memUses |-> d.memUses, pendingLoads |-> d.pendingLoads]
  BY <1>6, WalkIs
<1>9. d["uses"] = d.uses /\ d["defs"] = d.defs /\ d["chain"] = d.chain /\ d["memDefs"] = d.memDefs
      /\ d["memUses"] = d.memUses /\ d["pendingLoads"] = d.pendingLoads
  OBVIOUS
<1> QED BY <1>7, <1>8, <1>9

LEMMA ChainSets ==
  ASSUME NEW c, NEW d \in WalkOf(c)
  PROVE  /\ LastStores(d) \in SUBSET Nat /\ Known(d.chain) \in SUBSET Nat
         /\ d.pendingLoads \in SUBSET Nat
         /\ UNION {d.memUses[v] : v \in Objects} \in SUBSET Nat
         /\ \A v \in Objects : Known(d.memDefs[v]) \in SUBSET Nat /\ d.memUses[v] \in SUBSET Nat
<1>1. /\ d.memDefs \in [Objects -> Nat] /\ d.memUses \in [Objects -> SUBSET Nat]
      /\ d.chain \in Nat /\ d.pendingLoads \in SUBSET Nat
  BY WalkIs
<1> QED BY <1>1 DEF LastStores, Known

LEMMA AddMemoryKeeps ==
  ASSUME NEW m \in Nat, NEW c \in [1..m -> Instruction], NEW i \in 1..m, NEW d \in WalkOf(c)
  PROVE  AddMemory(c, d, i) \in WalkOf(c)
<1>1. PICK kind, place : kind = c[i].mem[1] /\ place = c[i].mem[2]
  OBVIOUS
<1>2. /\ kind \in {"none", "load", "store", "barrier"} /\ place \in Objects \cup {Anywhere}
      /\ kind = "store" => place \in Objects
  BY <1>1 DEF Instruction
<1>3. /\ LastStores(d) \in SUBSET Nat /\ Known(d.chain) \in SUBSET Nat
      /\ d.pendingLoads \in SUBSET Nat
      /\ UNION {d.memUses[v] : v \in Objects} \in SUBSET Nat
      /\ \A v \in Objects : Known(d.memDefs[v]) \in SUBSET Nat /\ d.memUses[v] \in SUBSET Nat
  BY ChainSets
<1>4. CASE kind = "barrier"
  <2>1. PICK S \in SUBSET Nat : S = Known(d.chain) \cup d.pendingLoads \cup LastStores(d)
                    \cup UNION {d.memUses[v] : v \in Objects}
    BY <1>3
  <2>2. PICK o \in WalkOf(c) : o = Ordered(c, d, i, S)
    BY OrderedKeeps
  <2>3. PICK ds, us : /\ ds = [v \in Objects |-> IF o.memDefs[v] = None THEN None ELSE i]
                      /\ us = [v \in Objects |-> {}]
    OBVIOUS
  <2>4. ds \in [Objects -> Nat] /\ us \in [Objects -> SUBSET Nat]
    BY <2>3 DEF None
  <2>5. NewChain(c, d, i) = [o EXCEPT !.chain = i, !.pendingLoads = {}, !.memDefs = ds, !.memUses = us]
    BY <2>1, <2>2, <2>3, WalkIs DEF NewChain
  <2>6. NewChain(c, d, i) = [edges |-> o.edges, uses |-> o.uses, defs |-> o.defs, chain |-> i,
                 memDefs |-> ds, memUses |-> us, pendingLoads |-> {}]
    <3>1. o = [edges |-> o.edges, uses |-> o.uses, defs |-> o.defs, chain |-> o.chain,
               memDefs |-> o.memDefs, memUses |-> o.memUses, pendingLoads |-> o.pendingLoads]
      BY WalkIs
    <3> QED BY <2>5, <3>1
  <2>7. /\ o.edges \in SUBSET GraphEdge /\ o.uses \in [Regs -> SUBSET Nat]
        /\ o.defs \in [Regs -> SUBSET Nat] /\ AntiEdgesFit(c, o.edges) /\ DefsFit(c, o.defs)
    BY WalkIs
  <2>8. NewChain(c, d, i) \in WalkOf(c)
    BY <2>4, <2>6, <2>7 DEF WalkOf
  <2> QED BY <1>1, <1>4, <2>8 DEF AddMemory
<1>5. CASE kind = "store"
  <2>1. PICK S \in SUBSET Nat : S = Known(d.memDefs[place]) \cup d.memUses[place] \cup d.pendingLoads
                                       \cup Known(d.chain)
    BY <1>2, <1>3, <1>5
  <2>2. PICK o \in WalkOf(c) : o = Ordered(c, d, i, S)
    BY OrderedKeeps
  <2>3. PICK ds, us : /\ ds = [o.memDefs EXCEPT ![place] = i] /\ us = [o.memUses EXCEPT ![place] = {}]
    OBVIOUS
  <2>4. ds \in [Objects -> Nat] /\ us \in [Objects -> SUBSET Nat]
    <3>1. o.memDefs \in [Objects -> Nat] /\ o.memUses \in [Objects -> SUBSET Nat]
      BY WalkIs
    <3>2. i \in Nat /\ place \in Objects
      BY <1>2, <1>5
    <3>3. ds \in [Objects -> Nat]
      BY <2>3, <3>1, <3>2
    <3>4. us \in [Objects -> SUBSET Nat]
      BY <2>3, <3>1, <3>2
    <3> QED BY <3>3, <3>4
  <2>5. StoreTo(c, d, i, place) = [o EXCEPT !.memDefs = ds, !.memUses = us]
    BY <2>1, <2>2, <2>3, WalkIs DEF StoreTo
  <2>6. PICK q \in WalkOf(c) : q = [o EXCEPT !.memDefs = ds]
    BY <2>4 DEF WalkOf
  <2>7. [q EXCEPT !.memUses = us] \in WalkOf(c)
    BY <2>4 DEF WalkOf
  <2>8. StoreTo(c, d, i, place) = [q EXCEPT !.memUses = us]
    BY <2>5, <2>6, WalkIs
  <2> QED BY <1>1, <1>5, <2>7, <2>8 DEF AddMemory
<1>6. CASE kind = "load" /\ place \in Objects
  <2>1. PICK S \in SUBSET Nat : S = Known(d.memDefs[place]) \cup Known(d.chain)
    BY <1>3, <1>6
  <2>2. PICK o \in WalkOf(c) : o = Ordered(c, d, i, S)
    BY OrderedKeeps
  <2>3. PICK us : us = [o.memUses EXCEPT ![place] = @ \cup {i}]
    OBVIOUS
  <2>4. us \in [Objects -> SUBSET Nat]
    <3>1. o.memUses \in [Objects -> SUBSET Nat]
      BY WalkIs
    <3> QED BY <1>6, <2>3, <3>1
  <2>5. LoadFrom(c, d, i, place) = [o EXCEPT !.memUses = us]
    BY <2>1, <2>2, <2>3, WalkIs DEF LoadFrom
  <2>6. LoadFrom(c, d, i, place) \in WalkOf(c)
    BY <2>4, <2>5 DEF WalkOf
  <2>7. place # Anywhere
    BY <1>6, BlockAssumption
  <2> QED BY <1>1, <1>6, <2>6, <2>7 DEF AddMemory
<1>7. CASE kind = "load" /\ place \notin Objects
  <2>1. PICK S \in SUBSET Nat : S = Known(d.chain) \cup LastStores(d)
    BY <1>3
  <2>2. PICK o \in WalkOf(c) : o = Ordered(c, d, i, S)
    BY OrderedKeeps
  <2>3. PICK ls : ls = o.pendingLoads \cup {i}
    OBVIOUS
  <2>4. ls \in SUBSET Nat
    BY <2>3, WalkIs
  <2>5. LoadAnything(c, d, i) = [o EXCEPT !.pendingLoads = ls]
    BY <2>1, <2>2, <2>3, WalkIs DEF LoadAnything
  <2>6. LoadAnything(c, d, i) \in WalkOf(c)
    BY <2>4, <2>5 DEF WalkOf
  <2>7. AddMemory(c, d, i) = LoadAnything(c, d, i)
    BY <1>1, <1>2, <1>7 DEF AddMemory
  <2> QED BY <2>6, <2>7
<1>8. CASE kind = "none"
  BY <1>1, <1>8 DEF AddMemory
<1> QED BY <1>2, <1>4, <1>5, <1>6, <1>7, <1>8

LEMMA AddInstrKeeps ==
  ASSUME NEW m \in Nat, NEW c \in [1..m -> Instruction], NEW i \in 1..m, NEW d \in WalkOf(c)
  PROVE  AddInstr(c, d, i) \in WalkOf(c)
<1>1. AddInstr(c, d, i) = AddMemory(c, AddOperands(c, d, i), i)
  BY DEF AddInstr, AddOperands, FoldLeft, MapThenFoldSet
<1> QED BY <1>1, AddOperandsKeep, AddMemoryKeeps

\* The graph of any region.
LEMMA GraphIs ==
  ASSUME NEW m \in Nat, NEW c \in [1..m -> Instruction]
  PROVE  BuildSchedGraph(c) \in SUBSET GraphEdge /\ AntiEdgesFit(c, BuildSchedGraph(c))
<1>1. PICK ks : ks = [k \in DOMAIN c |-> k]
  OBVIOUS
<1>2. Start \in WalkOf(c)
  BY DEF Start, WalkOf, AntiEdgesFit, DefsFit, None
<1>3. DOMAIN ks = 1..m /\ \A k \in 1..m : ks[k] = k
  BY <1>1
<1> DEFINE IsFold(p) == p = [S \in SUBSET DOMAIN ks |->
                IF S = {} THEN Start ELSE AddInstr(c, p[S \ {Min(S)}], ks[Min(S)])]
           Fold == CHOOSE p : IsFold(p)
<1>4. BuildSchedGraph(c) = Fold[DOMAIN ks].edges
  BY <1>1 DEF BuildSchedGraph, FoldRight, MapThenFoldSet
<1>5. PICK V : V = WalkOf(c)
  OBVIOUS
<1>6. \A k \in 1..m : \A d \in V : AddInstr(c, d, k) \in V
  BY <1>5, AddInstrKeeps
<1>7. PICK step : step = [x \in (1..m) \X V |-> AddInstr(c, x[2], x[1])]
  OBVIOUS
<1>8. PICK pick : pick = [S \in SUBSET (1..m) |-> Min(S)]
  OBVIOUS
<1>9. \A S \in SUBSET (1..m) : S # {} => pick[S] \in S
  BY <1>8, ExtremesAreIn
<1>10. PICK it : IsFolded(it, m, V, Start, step, pick)
  <2>1. step \in [(1..m) \X V -> V] /\ Start \in V
    BY <1>2, <1>5, <1>6, <1>7
  <2>2. Foldable(m, V, Start, step, pick)
    BY <1>9, <2>1 DEF Foldable
  <2> QED BY <2>2, StepsFold
<1>11. ASSUME NEW S \in SUBSET (1..m)
       PROVE  it[S] = IF S = {} THEN Start ELSE AddInstr(c, it[S \ {Min(S)}], ks[Min(S)])
  <2>1. CASE S = {}
    BY <1>10, <2>1 DEF IsFolded, FoldedOver
  <2>2. CASE S # {}
    <3>1. pick[S] = Min(S) /\ Min(S) \in 1..m /\ ks[Min(S)] = Min(S)
      BY <1>3, <1>8, <1>9, <2>2
    <3>2. it[S \ {Min(S)}] \in V
      BY <1>10 DEF IsFolded
    <3>3. step[<<Min(S), it[S \ {Min(S)}]>>] = AddInstr(c, it[S \ {Min(S)}], Min(S))
      BY <1>7, <3>1, <3>2
    <3> QED BY <1>10, <2>2, <3>1, <3>3 DEF IsFolded, FoldedOver
  <2> QED BY <2>1, <2>2
<1>12. IsFold(it)
  BY <1>3, <1>10, <1>11 DEF IsFolded
<1> HIDE DEF IsFold
<1>13. IsFold(Fold)
  BY <1>12
<1> HIDE DEF Fold
<1>14. ASSUME NEW S \in SUBSET (1..m)
       PROVE  Fold[S] = IF S = {} THEN Start ELSE AddInstr(c, Fold[S \ {Min(S)}], Min(S))
  <2>1. S # {} => Min(S) \in 1..m
    BY ExtremesAreIn
  <2>2. Fold[S] = IF S = {} THEN Start ELSE AddInstr(c, Fold[S \ {Min(S)}], ks[Min(S)])
    BY <1>3, <1>13 DEF IsFold
  <2>3. S # {} => ks[Min(S)] = Min(S)
    BY <1>3, <2>1
  <2> QED BY <2>2, <2>3
<1>15. PICK Good : Good = {S \in SUBSET (1..m) : Fold[S] \in V}
  OBVIOUS
<1>16. {} \in Good
  BY <1>2, <1>5, <1>14, <1>15
<1>17. ASSUME NEW S \in SUBSET (1..m), S # {} PROVE \E x \in S : S \ {x} \in Good => S \in Good
  <2>1. PICK x \in S : x = Min(S) /\ x \in 1..m
    BY <1>17, ExtremesAreIn
  <2>2. SUFFICES ASSUME S \ {x} \in Good PROVE S \in Good
    BY <2>1
  <2>3. PICK d \in V : d = Fold[S \ {x}]
    BY <1>15, <2>2
  <2>4. Fold[S] = AddInstr(c, d, x)
    BY <1>14, <1>17, <2>1, <2>3
  <2> QED BY <1>6, <1>15, <2>1, <2>3, <2>4
<1>18. 1..m \in Good
  BY <1>16, <1>17, FoldInduction
<1>19. Fold[DOMAIN ks] \in WalkOf(c)
  BY <1>3, <1>5, <1>15, <1>18
<1> QED BY <1>4, <1>19, WalkIs

-----------------------------------------------------------------------------
(***************************************************************************)
(* Regions.                                                                *)
(***************************************************************************)
\* Begin from the boundaries above.
BeginAfter(above) == IF above = {} THEN 1 ELSE Max(above) + 1

BoundariesAbove(t) == {p \in 1..(t - 1) : Boundary(layout[p])}

LEMMA BeginIs ==
  ASSUME NEW t \in Nat
  PROVE  /\ Begin(t) = BeginAfter(BoundariesAbove(t))
         /\ Begin(t) \in Nat /\ Begin(t) >= 1 /\ (t >= 1 => Begin(t) <= t)
<1>1. Begin(t) = BeginAfter(BoundariesAbove(t))
  BY DEF Begin, BeginAfter, BoundariesAbove
<1>2. CASE BoundariesAbove(t) = {}
  BY <1>1, <1>2 DEF BeginAfter
<1>3. CASE BoundariesAbove(t) # {}
  <2>1. BoundariesAbove(t) \in SUBSET (1..(t - 1)) /\ t - 1 \in Nat
    BY <1>3 DEF BoundariesAbove
  <2>2. Max(BoundariesAbove(t)) \in 1..(t - 1)
    BY <1>3, <2>1, ExtremesAreIn
  <2> QED BY <1>1, <1>3, <2>2 DEF BeginAfter
<1> QED BY <1>1, <1>2, <1>3

\* An anti-dependence in the graph of a region ends at an instruction that
\* writes its register.
LEMMA RegionGraphFits ==
  ASSUME code \in [1..Length -> Instruction], NEW t \in 1..(Length + 1),
         \A p \in 1..(t - 1) : layout[p] = p
  PROVE  \A e \in RegionGraph(t) : e.kind = "Anti" => Defines(code, e.to, e.reg)
<1>1. PICK b \in Nat : b = Begin(t) /\ b >= 1 /\ b <= t
  BY BeginIs
<1>2. PICK m, c : m \in Nat /\ m = t - b /\ c = Region(t)
  BY <1>1
<1>3. \A k \in 1..m : c[k] = code[b + k - 1] /\ b + k - 1 \in 1..Length
  <2>1. ASSUME NEW k \in 1..m PROVE c[k] = code[b + k - 1] /\ b + k - 1 \in 1..Length
    <3>1. b + k - 1 \in 1..(t - 1) /\ b + k - 1 \in 1..Length
      BY <1>1, <1>2, BlockAssumption
    <3>2. c[k] = BlockCode[b + k - 1]
      BY <1>1, <1>2 DEF Region
    <3>3. layout[b + k - 1] = b + k - 1
      BY <3>1
    <3> QED BY <3>1, <3>2, <3>3 DEF BlockCode
  <2> QED BY <2>1
<1>4. c \in [1..m -> Instruction]
  <2>1. c = [k \in 1..m |-> BlockCode[b + k - 1]]
    BY <1>1, <1>2 DEF Region
  <2> QED BY <1>3, <2>1
<1>5. ASSUME NEW f \in BuildSchedGraph(c), f.kind = "Anti"
      PROVE  Defines(code, f.to + b - 1, f.reg)
  <2>1. Defines(c, f.to, f.reg)
    BY <1>2, <1>4, <1>5, GraphIs DEF AntiEdgesFit
  <2>2. f.to \in 1..m
    BY <1>4, <2>1 DEF Defines
  <2>3. c[f.to] = code[f.to + b - 1] /\ f.to + b - 1 \in 1..Length
    BY <1>1, <1>3, <2>2
  <2> QED BY <2>1, <2>3 DEF Defines
<1>6. ASSUME NEW e \in RegionGraph(t), e.kind = "Anti" PROVE Defines(code, e.to, e.reg)
  <2>1. PICK f \in BuildSchedGraph(c) : e = [f EXCEPT !.from = @ + b - 1, !.to = @ + b - 1]
    BY <1>1, <1>2, <1>6 DEF RegionGraph
  <2>2. f \in GraphEdge
    BY <1>2, <1>4, GraphIs
  <2>3. e.kind = f.kind /\ e.reg = f.reg /\ e.to = f.to + b - 1
    BY <2>1, <2>2 DEF GraphEdge
  <2> QED BY <1>5, <1>6, <2>3
<1> QED BY <1>6

-----------------------------------------------------------------------------
(***************************************************************************)
(* Renaming.                                                               *)
(***************************************************************************)
\* A register that is free takes over what is known of the old one; the old
\* one is dead, and its kill, which is below the free one's def, is a def.
LEMMA RenamingKeeps ==
  ASSUME NEW I, NEW l \in LivenessOf(I), NEW old \in Regs, NEW new \in Suitable(l, old)
  PROVE  LivenessRenamed(l, old, new) \in LivenessOf(I)
<1>1. /\ new \in Regs /\ new # old /\ l.kill[new] = Unset /\ l.kill[old] <= l.def[new]
  BY DEF Suitable
<1>2. /\ l.classes \in [Regs -> Classes]
      /\ l.kill \in [Regs -> 0..Unset] /\ l.def \in [Regs -> 0..Unset]
      /\ l.refs \in [Regs -> SUBSET (I \X Nat)]
      /\ \A s \in Regs : (l.kill[s] = Unset) # (l.def[s] = Unset)
  BY LivenessIs
<1>3. Unset \in Nat
  BY BlockAssumption DEF Unset
<1>4. l.kill[old] # Unset
  <2>1. l.def[new] # Unset /\ l.def[new] \in 0..Unset /\ l.kill[old] \in 0..Unset
    BY <1>1, <1>2
  <2> QED BY <1>1, <1>3, <2>1
<1>5. PICK cs : cs = [l.classes EXCEPT ![new] = l.classes[old], ![old] = NoClass]
  OBVIOUS
<1>6. PICK kl : kl = [l.kill EXCEPT ![new] = l.kill[old], ![old] = Unset]
  OBVIOUS
<1>7. PICK df : df = [l.def EXCEPT ![new] = l.def[old], ![old] = l.kill[old]]
  OBVIOUS
<1>8. PICK rf : rf = [l.refs EXCEPT ![old] = {}]
  OBVIOUS
<1>9. cs \in [Regs -> Classes]
  <2>1. NoClass \in Classes
    BY DEF Classes
  <2> QED BY <1>1, <1>2, <1>5, <2>1
<1>10. kl \in [Regs -> 0..Unset] /\ df \in [Regs -> 0..Unset]
  <2>1. Unset \in 0..Unset
    BY <1>3
  <2>2. kl \in [Regs -> 0..Unset]
    BY <1>1, <1>2, <1>6, <2>1
  <2>3. df \in [Regs -> 0..Unset]
    BY <1>1, <1>2, <1>7
  <2> QED BY <2>2, <2>3
<1>11. rf \in [Regs -> SUBSET (I \X Nat)]
  BY <1>2, <1>8
<1>12. \A s \in Regs : (kl[s] = Unset) # (df[s] = Unset)
  BY <1>1, <1>2, <1>4, <1>6, <1>7
<1>13. LivenessRenamed(l, old, new) = [classes |-> cs, kill |-> kl, def |-> df, refs |-> rf]
  BY <1>5, <1>6, <1>7, <1>8 DEF LivenessRenamed
<1> QED BY <1>9, <1>10, <1>11, <1>12, <1>13 DEF LivenessOf

LEMMA RenamedIs ==
  ASSUME code \in [1..Length -> Instruction], NEW I, NEW refs \in SUBSET (I \X Nat), NEW new \in Regs
  PROVE  /\ Renamed(refs, new) \in [1..Length -> Instruction]
         /\ \A i \in 1..Length : /\ i \notin I => Renamed(refs, new)[i].ops = code[i].ops
                                 /\ Renamed(refs, new)[i].boundary = code[i].boundary
<1> DEFINE opsOf(i) == [k \in DOMAIN code[i].ops |->
              IF <<i, k>> \in refs THEN [code[i].ops[k] EXCEPT !.reg = new] ELSE code[i].ops[k]]
<1>1. ASSUME NEW i \in 1..Length
      PROVE  /\ opsOf(i) \in Seq(Operand)
             /\ i \notin I => opsOf(i) = code[i].ops
  <2>1. PICK ops : ops = code[i].ops /\ ops \in Seq(Operand)
    BY DEF Instruction
  <2>2. PICK n \in Nat : DOMAIN ops = 1..n /\ ops \in [1..n -> Operand]
    BY <2>1
  <2>3. ASSUME NEW k \in 1..n PROVE opsOf(i)[k] \in Operand
    BY <2>1, <2>2 DEF Operand
  <2>4. opsOf(i) \in [1..n -> Operand]
    BY <2>1, <2>2, <2>3
  <2>5. opsOf(i) \in Seq(Operand)
    <3>1. PICK g \in [1..n -> Operand] : g = opsOf(i)
      BY <2>4
    <3>2. g \in Seq(Operand)
      OBVIOUS
    <3> QED BY <3>1, <3>2
  <2>6. i \notin I => \A k \in 1..n : opsOf(i)[k] = ops[k]
    BY <2>1, <2>2
  <2> HIDE DEF opsOf
  <2> QED BY <2>1, <2>2, <2>4, <2>5, <2>6, SMTT(30)
<1> HIDE DEF opsOf
<1>2. Renamed(refs, new) = [i \in 1..Length |-> [code[i] EXCEPT !.ops = opsOf(i)]]
  BY DEF Renamed, opsOf, Instruction
<1>3. ASSUME NEW i \in 1..Length
      PROVE  /\ [code[i] EXCEPT !.ops = opsOf(i)] \in Instruction
             /\ [code[i] EXCEPT !.ops = opsOf(i)].ops = opsOf(i)
             /\ [code[i] EXCEPT !.ops = opsOf(i)].boundary = code[i].boundary
  <2>1. code[i] \in Instruction /\ opsOf(i) \in Seq(Operand)
    BY <1>1
  <2> QED BY <2>1 DEF Instruction
<1> QED BY <1>1, <1>2, <1>3

-----------------------------------------------------------------------------
(***************************************************************************)
(* The steps.                                                              *)
(***************************************************************************)
LEMMA LivenessSet ==
  ASSUME NEW I, NEW l \in LivenessOf(I), SetLiveness(l)
  PROVE  Liveness' \in LivenessOf(I)
<1>1. Liveness' = [classes |-> l.classes, kill |-> l.kill, def |-> l.def, refs |-> l.refs]
  BY DEF SetLiveness, Liveness
<1>2. Liveness' = l
  BY <1>1, LivenessIs
<1> QED BY <1>2

\* In a region, the instruction the walk comes to stands where it stood.
LEMMA WalkedInstruction ==
  ASSUME BlockInv, InRegion
  PROVE  /\ top # 0 /\ count \in 1..Length /\ count < top /\ layout[count] = count
         /\ Begin(top) <= count
         /\ Liveness \in LivenessOf(count..Length)
<1>1. top \in Nat /\ count \in Int /\ Length \in Nat
  BY BlockAssumption DEF BlockInv
<1>2. Begin(top) \in Nat /\ Begin(top) >= 1 /\ Begin(top) <= count
  BY <1>1, BeginIs DEF InRegion
<1>3. top # 0 /\ count \in 1..Length /\ count < top
  BY <1>1, <1>2 DEF BlockInv
<1>4. layout[count] = count
  <2>1. count \in 1..(top - 1)
    BY <1>1, <1>3
  <2> QED BY <2>1 DEF BlockInv
<1>5. Liveness \in LivenessOf((count + 1)..Length)
  BY DEF BlockInv
<1>6. (count + 1)..Length \subseteq count..Length
  BY <1>1
<1>7. Liveness \in LivenessOf(count..Length)
  BY <1>5, <1>6 DEF LivenessOf
<1> QED BY <1>2, <1>3, <1>4, <1>7

LEMMA AntiDepIsDefined ==
  ASSUME BlockInv, InRegion, NEW r \in AntiDepRegs(count)
  PROVE  r \in Regs /\ Defines(code, count, r)
<1>1. PICK e \in graph : e.kind = "Anti" /\ e.to = count /\ e.reg = r
  BY DEF AntiDepRegs
<1>2. Defines(code, count, r)
  <2>1. count \in 1..count
    BY WalkedInstruction, BlockAssumption
  <2> QED BY <1>1, <2>1 DEF BlockInv
<1>3. PICK n \in Nat : DOMAIN code[count].ops = 1..n /\ \A k \in 1..n : code[count].ops[k] \in Operand
  BY WalkedInstruction, OperandsAre DEF BlockInv
<1>4. r \in Regs
  BY <1>2, <1>3 DEF Defines, Operand
<1> QED BY <1>2, <1>4

\* "Register should be live if it's causing an anti-dependence!"
LEMMA AntiDepHasClass ==
  ASSUME BlockInv, InRegion, NEW r \in AntiDepRegs(count)
  PROVE  PrescanInstruction(Liveness, layout[count]).classes[r] # NoClass
<1>1. code \in [1..Length -> Instruction]
  BY DEF BlockInv
<1>2. count \in 1..Length /\ count \in count..Length /\ layout[count] = count
      /\ Liveness \in LivenessOf(count..Length)
  <2>1. count \in 1..Length /\ layout[count] = count /\ Liveness \in LivenessOf(count..Length)
    BY WalkedInstruction
  <2> QED BY <2>1, BlockAssumption
<1>3. r \in Regs /\ Defines(code, count, r)
  BY AntiDepIsDefined
<1> QED BY <1>1, <1>2, <1>3, PrescanKeeps

LEMMA FreeRegisterIsSuitable ==
  ASSUME NEW I, NEW l \in LivenessOf(I), NEW r \in Regs, l.classes[r] \notin {NoClass, Mixed},
         findSuitableFreeRegister(l, r) # NoReg
  PROVE  findSuitableFreeRegister(l, r) \in Suitable(l, r)
<1>1. l.classes[r] \in DOMAIN AllocationOrder
  BY LivenessIs DEF Classes
<1>2. PICK regs, free : /\ regs = AllocationOrder[l.classes[r]]
                        /\ free = {k \in DOMAIN regs : regs[k] \in Suitable(l, r)}
  OBVIOUS
<1>3. regs \in Seq(Regs)
  BY <1>1, <1>2, BlockAssumption
<1>4. PICK n \in Nat : DOMAIN regs = 1..n
  BY <1>3
<1>5. free # {} /\ findSuitableFreeRegister(l, r) = regs[Min(free)]
  BY <1>2 DEF findSuitableFreeRegister
<1>6. Min(free) \in free
  BY <1>2, <1>4, <1>5, ExtremesAreIn
<1> QED BY <1>2, <1>5, <1>6

\* What Begin sees: the boundaries, and where they stand.
LEMMA BeginStays ==
  ASSUME NEW t \in Nat, \A p \in 1..(t - 1) : Boundary(layout[p])' = Boundary(layout[p])
  PROVE  Begin(t)' = Begin(t)
<1>1. BoundariesAbove(t)' = BoundariesAbove(t)
  BY DEF BoundariesAbove
<1>2. Begin(t) = BeginAfter(BoundariesAbove(t)) /\ Begin(t)' = BeginAfter(BoundariesAbove(t)')
  BY DEF Begin, BeginAfter, BoundariesAbove
<1> QED BY <1>1, <1>2

LEMMA KeepKeeps ==
  ASSUME BlockInv, Keep
  PROVE  BlockInv'
<1>1. /\ top # 0 /\ count \in 1..Length /\ count < top /\ layout[count] = count
      /\ Begin(top) <= count /\ Liveness \in LivenessOf(count..Length)
  BY WalkedInstruction DEF Keep
<1>2. count' = count - 1 /\ code' = code /\ layout' = layout /\ top' = top /\ graph' = graph
  BY DEF Keep
<1>3. top \in 0..(Length + 1) /\ Length \in Nat /\ code \in [1..Length -> Instruction]
  BY BlockAssumption DEF BlockInv
<1>4. count \in count..Length
  BY <1>1, <1>3
<1>5. Liveness' \in LivenessOf(count..Length)
  <2>1. PrescanInstruction(Liveness, count) \in LivenessOf(count..Length)
    BY <1>1, <1>3, <1>4, PrescanKeeps
  <2>2. ScanInstruction(PrescanInstruction(Liveness, count), count, code, count)
           \in LivenessOf(count..Length)
    BY <1>1, <1>3, <1>4, <2>1, ScanKeeps
  <2>3. SetLiveness(ScanInstruction(PrescanInstruction(Liveness, count), count, code, count))
    BY <1>1 DEF Keep
  <2> QED BY <2>2, <2>3, LivenessSet
<1>6. Liveness' \in LivenessOf((count' + 1)..Length)
  <2>1. count' + 1 = count
    BY <1>1, <1>2
  <2> QED BY <1>5, <2>1
<1>7. Begin(top)' = Begin(top)
  BY <1>2 DEF Begin, Boundary
<1>8. IF top' = 0 THEN count' = 0 ELSE count' < top' /\ Begin(top)' <= count' + 1
  BY <1>1, <1>2, <1>3, <1>7
<1>9. count' \in 0..Length /\ top' \in 0..(Length + 1) /\ code' \in [1..Length -> Instruction]
  BY <1>1, <1>2, <1>3
<1>10. \A p \in 1..(top' - 1) : layout'[p] = p
  BY <1>2 DEF BlockInv
<1>11. \A p \in 1..count' : \A e \in graph' : e.kind = "Anti" /\ e.to = p => Defines(code', p, e.reg)
  <2>1. 1..count' \subseteq 1..count
    BY <1>1, <1>2, <1>3
  <2> QED BY <1>2, <2>1 DEF BlockInv
<1> QED BY <1>6, <1>8, <1>9, <1>10, <1>11 DEF BlockInv

LEMMA BreakKeeps ==
  ASSUME BlockInv, Break
  PROVE  BlockInv'
<1>1. /\ top # 0 /\ count \in 1..Length /\ count < top /\ layout[count] = count
      /\ Begin(top) <= count /\ Liveness \in LivenessOf(count..Length)
  BY WalkedInstruction DEF Break
<1>2. count' = count - 1 /\ layout' = layout /\ top' = top /\ graph' = graph
  BY DEF Break
<1>3. top \in 0..(Length + 1) /\ Length \in Nat /\ code \in [1..Length -> Instruction]
  BY BlockAssumption DEF BlockInv
<1>4. count \in count..Length
  BY <1>1, <1>3
<1>5. PICK I : I = count..Length
  OBVIOUS
<1>6. PICK l : l = PrescanInstruction(Liveness, count)
  OBVIOUS
<1>7. l \in LivenessOf(I)
  BY <1>1, <1>3, <1>4, <1>5, <1>6, PrescanKeeps
<1>8. PICK old \in Breakable(l, count) :
        /\ findSuitableFreeRegister(l, old) # NoReg
        /\ code' = Renamed(l.refs[old], findSuitableFreeRegister(l, old))
        /\ SetLiveness(ScanInstruction(LivenessRenamed(l, old, findSuitableFreeRegister(l, old)),
                                       count, code', count))
  BY <1>1, <1>6 DEF Break
<1>9. old \in Regs /\ l.classes[old] \notin {NoClass, Mixed}
  <2>1. old \in AntiDepRegs(count) /\ l.classes[old] # Mixed
    BY <1>8 DEF Breakable
  <2>2. InRegion
    BY DEF Break
  <2> QED BY <1>1, <1>6, <2>1, <2>2, AntiDepIsDefined, AntiDepHasClass
<1>10. PICK new \in Suitable(l, old) : new = findSuitableFreeRegister(l, old)
  BY <1>7, <1>8, <1>9, FreeRegisterIsSuitable
<1>11. new \in Regs
  BY <1>10 DEF Suitable
<1>12. l.refs[old] \in SUBSET (I \X Nat)
  BY <1>7, <1>9, LivenessIs
<1>13. code' = Renamed(l.refs[old], new)
  BY <1>8, <1>10
<1>14. code' \in [1..Length -> Instruction]
  BY <1>3, <1>11, <1>12, <1>13, RenamedIs
<1>15. \A i \in 1..Length : /\ i \notin I => code'[i].ops = code[i].ops
                            /\ code'[i].boundary = code[i].boundary
  <2>1. PICK refs \in SUBSET (I \X Nat) : refs = l.refs[old]
    BY <1>12
  <2>2. \A i \in 1..Length : /\ i \notin I => Renamed(refs, new)[i].ops = code[i].ops
                             /\ Renamed(refs, new)[i].boundary = code[i].boundary
    BY <1>3, <1>11, RenamedIs, SMTT(30)
  <2> QED BY <1>13, <2>1, <2>2
<1>16. Liveness' \in LivenessOf(I)
  <2>1. PICK k \in LivenessOf(I) : k = LivenessRenamed(l, old, new)
    BY <1>7, <1>9, RenamingKeeps
  <2>2. PICK c \in [1..Length -> Instruction] : c = code'
    BY <1>14
  <2>3. ScanInstruction(k, count, c, count) \in LivenessOf(I)
    BY <1>1, <1>4, <1>5, ScanKeeps
  <2>4. SetLiveness(ScanInstruction(k, count, c, count))
    BY <1>8, <1>10, <2>1, <2>2
  <2> QED BY <2>3, <2>4, LivenessSet
<1>17. Liveness' \in LivenessOf((count' + 1)..Length)
  <2>1. count' + 1 = count
    BY <1>1, <1>2
  <2> QED BY <1>5, <1>16, <2>1
<1>18. Begin(top)' = Begin(top)
  <2>1. ASSUME NEW p \in 1..(top - 1) PROVE Boundary(layout[p])' = Boundary(layout[p])
    <3>1. p \in 1..Length /\ layout[p] = p
      BY <1>3 DEF BlockInv
    <3>2. code'[p].boundary = code[p].boundary
      BY <1>15, <3>1
    <3> QED BY <1>2, <3>1, <3>2 DEF Boundary
  <2>2. top \in Nat /\ top' = top
    BY <1>2, <1>3
  <2>3. PICK t \in Nat : t = top /\ t = top'
    BY <2>2
  <2>4. Begin(t)' = Begin(t)
    BY <2>1, <2>3, BeginStays
  <2> QED BY <2>3, <2>4 DEF Begin
<1>19. IF top' = 0 THEN count' = 0 ELSE count' < top' /\ Begin(top)' <= count' + 1
  BY <1>1, <1>2, <1>3, <1>18
<1>20. count' \in 0..Length /\ top' \in 0..(Length + 1)
  BY <1>1, <1>2, <1>3
<1>21. \A p \in 1..(top' - 1) : layout'[p] = p
  BY <1>2 DEF BlockInv
<1>22. \A p \in 1..count' : \A e \in graph' : e.kind = "Anti" /\ e.to = p => Defines(code', p, e.reg)
  <2>1. ASSUME NEW p \in 1..count', NEW e \in graph, e.kind = "Anti", e.to = p
        PROVE  Defines(code', p, e.reg)
    <3>1. p \in 1..count /\ p \in 1..Length /\ p \notin I
      BY <1>1, <1>2, <1>3, <1>5
    <3>2. Defines(code, p, e.reg)
      BY <2>1, <3>1 DEF BlockInv
    <3>3. code'[p].ops = code[p].ops /\ p \in DOMAIN code'
      BY <1>14, <1>15, <3>1
    <3> QED BY <3>2, <3>3 DEF Defines
  <2> QED BY <1>2, <2>1
<1> QED BY <1>14, <1>17, <1>19, <1>20, <1>21, <1>22 DEF BlockInv

\* A region is scheduled in itself.
LEMMA SchedulesStayAbove ==
  ASSUME BlockInv, NEW s \in Schedules, NEW p \in 1..(Begin(top) - 1), p \in 1..Length
  PROVE  s[p] = layout[p]
<1>1. PICK low : low = Begin(top)
  OBVIOUS
<1>2. \E f : s = [q \in 1..Length |-> IF q \in low..(top - 1) THEN layout[f[q - low + 1] + low - 1]
                                      ELSE layout[q]]
  BY <1>1 DEF Schedules
<1>3. top \in Nat
  BY BlockAssumption DEF BlockInv
<1>4. low \in Nat /\ p \notin low..(top - 1)
  BY <1>1, <1>3, BeginIs
<1> QED BY <1>2, <1>4

\* What was defined in the region is not live.
LEMMA ClobberedAreDead ==
  ASSUME BlockInv, NEW r \in Clobbered
  PROVE  r \in Regs /\ killIndices[r] = Unset /\ top \in 0..Unset /\ top # Unset
<1>1. r \in Regs /\ defIndices[r] < top
  BY DEF Clobbered
<1>2. top \in 0..(Length + 1) /\ Length \in Nat
  BY BlockAssumption DEF BlockInv
<1>3. /\ killIndices \in [Regs -> 0..Unset] /\ defIndices \in [Regs -> 0..Unset]
      /\ \A s \in Regs : (killIndices[s] = Unset) # (defIndices[s] = Unset)
  BY DEF BlockInv, LivenessOf, Liveness
<1>4. defIndices[r] # Unset /\ top \in 0..Unset /\ top # Unset
  BY <1>1, <1>2, <1>3 DEF Unset
<1> QED BY <1>1, <1>3, <1>4

LEMMA MovedKeeps ==
  ASSUME BlockInv
  PROVE  Moved \in LivenessOf((count + 1)..Length)
<1>1. PICK I, l : I = (count + 1)..Length /\ l = Liveness /\ l \in LivenessOf(I)
  BY DEF BlockInv
<1>2. PICK cs, df : /\ cs = [r \in Regs |-> IF r \in Clobbered THEN Mixed ELSE l.classes[r]]
                    /\ df = [r \in Regs |-> IF r \in Clobbered THEN top ELSE l.def[r]]
  OBVIOUS
<1>3. /\ l.classes \in [Regs -> Classes]
      /\ l.kill \in [Regs -> 0..Unset] /\ l.def \in [Regs -> 0..Unset]
      /\ l.refs \in [Regs -> SUBSET (I \X Nat)]
      /\ \A s \in Regs : (l.kill[s] = Unset) # (l.def[s] = Unset)
  BY <1>1 DEF LivenessOf
<1>4. l.kill = killIndices
  BY <1>1 DEF Liveness
<1>5. cs \in [Regs -> Classes]
  BY <1>2, <1>3 DEF Classes
<1>6. df \in [Regs -> 0..Unset]
  BY <1>2, <1>3, ClobberedAreDead
<1>7. \A s \in Regs : (l.kill[s] = Unset) # (df[s] = Unset)
  BY <1>2, <1>3, <1>4, ClobberedAreDead
<1>8. Moved = [classes |-> cs, kill |-> l.kill, def |-> df, refs |-> l.refs]
  <2>1. Moved = [Liveness EXCEPT !.classes = cs, !.def = df]
    <3>1. Liveness.classes = l.classes /\ Liveness.def = l.def
      BY <1>1
    <3> QED BY <1>2, <3>1 DEF Moved, Liveness
  <2>2. l = [classes |-> l.classes, kill |-> l.kill, def |-> l.def, refs |-> l.refs]
    BY <1>1 DEF Liveness
  <2>3. Moved = [l EXCEPT !.classes = cs, !.def = df]
    BY <1>1, <2>1
  <2> QED BY <2>2, <2>3
<1> QED BY <1>1, <1>3, <1>5, <1>6, <1>7, <1>8 DEF LivenessOf

\* What Run sets at the region that ends at t, the instruction at t observed.
LEMMA ScheduleKeeps ==
  ASSUME BlockInv, Schedule
  PROVE  BlockInv'
<1>1. /\ top \in 0..(Length + 1) /\ count \in 0..Length /\ Length \in Nat
      /\ code \in [1..Length -> Instruction]
  BY BlockAssumption DEF BlockInv
<1>2. count > 0 /\ ~InRegion /\ layout' \in Schedules /\ Run(count) /\ code' = code
  BY DEF Schedule
<1>3. top' = count /\ count' = count - 1 /\ graph' = RegionGraph(count)
  BY <1>2 DEF Run
<1>4. Begin(top) = count + 1 /\ count < top
  <2>1. Begin(top) \in Nat /\ count < top /\ Begin(top) <= count + 1
    BY <1>1, <1>2, BeginIs DEF BlockInv
  <2>2. ~(count >= Begin(top))
    BY <1>2 DEF InRegion
  <2> QED BY <1>1, <2>1, <2>2
<1>5. \A p \in 1..count : layout[p] = p /\ layout'[p] = p
  <2>1. ASSUME NEW p \in 1..count PROVE layout[p] = p /\ layout'[p] = p
    <3>1. p \in 1..(top - 1) /\ p \in 1..(Begin(top) - 1) /\ p \in 1..Length
      BY <1>1, <1>4
    <3>2. layout[p] = p
      BY <3>1 DEF BlockInv
    <3>3. layout'[p] = layout[p]
      BY <1>2, <3>1, SchedulesStayAbove
    <3> QED BY <3>2, <3>3
  <2> QED BY <2>1
<1>6. PICK t \in 1..Length : t = count /\ layout[t] = t
  BY <1>1, <1>2, <1>5
<1>7. Liveness' \in LivenessOf(t..Length)
  <2>1. Moved \in LivenessOf(t..Length)
    <3>1. Moved \in LivenessOf((count + 1)..Length)
      BY MovedKeeps
    <3>2. (count + 1)..Length \subseteq t..Length
      BY <1>1, <1>6
    <3> QED BY <3>1, <3>2 DEF LivenessOf
  <2>2. t \in t..Length
    BY <1>1
  <2>3. PrescanInstruction(Moved, t) \in LivenessOf(t..Length)
    BY <1>1, <2>1, <2>2, PrescanKeeps
  <2>4. ScanInstruction(PrescanInstruction(Moved, t), t, code, t) \in LivenessOf(t..Length)
    BY <1>1, <2>2, <2>3, ScanKeeps
  <2>5. SetLiveness(ScanInstruction(PrescanInstruction(Moved, t), t, code, t))
    BY <1>6 DEF Schedule
  <2> QED BY <2>4, <2>5, LivenessSet
<1>8. Liveness' \in LivenessOf((count' + 1)..Length)
  <2>1. count' + 1 = t
    BY <1>1, <1>3, <1>6
  <2> QED BY <1>7, <2>1
<1>9. Begin(t) \in Nat /\ Begin(t) <= t
  BY <1>1, BeginIs
<1>10. Begin(top)' = Begin(t)
  <2>1. ASSUME NEW p \in 1..(t - 1) PROVE Boundary(layout[p])' = Boundary(layout[p])
    <3>1. layout[p] = p /\ layout'[p] = p
      BY <1>1, <1>5, <1>6
    <3> QED BY <1>2, <3>1 DEF Boundary
  <2>2. Begin(t)' = Begin(t)
    BY <2>1, BeginStays
  <2>3. Begin(top)' = Begin(t)'
    BY <1>3, <1>6 DEF Begin
  <2> QED BY <2>2, <2>3
<1>11. IF top' = 0 THEN count' = 0 ELSE count' < top' /\ Begin(top)' <= count' + 1
  BY <1>1, <1>2, <1>3, <1>6, <1>9, <1>10
<1>12. count' \in 0..Length /\ top' \in 0..(Length + 1) /\ code' \in [1..Length -> Instruction]
  BY <1>1, <1>2, <1>3
<1>13. \A p \in 1..(top' - 1) : layout'[p] = p
  BY <1>1, <1>3, <1>5
<1>14. \A e \in RegionGraph(t) : e.kind = "Anti" => Defines(code, e.to, e.reg)
  <2>1. \A p \in 1..(t - 1) : layout[p] = p
    BY <1>1, <1>5, <1>6
  <2>2. t \in 1..(Length + 1)
    BY <1>1
  <2> QED BY <1>1, <2>1, <2>2, RegionGraphFits
<1>15. \A p \in 1..count' : \A e \in graph' : e.kind = "Anti" /\ e.to = p => Defines(code', p, e.reg)
  BY <1>2, <1>3, <1>6, <1>14
<1> QED BY <1>8, <1>11, <1>12, <1>13, <1>15 DEF BlockInv

LEMMA ScheduleLastKeeps ==
  ASSUME BlockInv, ScheduleLast
  PROVE  BlockInv'
<1>1. /\ count = 0 /\ top' = 0 /\ count' = count /\ code' = code /\ graph' = graph
      /\ Liveness' = Liveness
  BY DEF ScheduleLast, liveness, Liveness
<1>2. Length \in Nat
  BY BlockAssumption
<1>3. count' \in 0..Length /\ top' \in 0..(Length + 1) /\ code' \in [1..Length -> Instruction]
  BY <1>1, <1>2 DEF BlockInv
<1>4. Liveness' \in LivenessOf((count' + 1)..Length)
  BY <1>1 DEF BlockInv
<1> QED BY <1>1, <1>3, <1>4 DEF BlockInv

LEMMA StutterKeeps ==
  ASSUME BlockInv, UNCHANGED blockVars
  PROVE  BlockInv'
<1>1. /\ code' = code /\ layout' = layout /\ top' = top /\ count' = count /\ graph' = graph
      /\ Liveness' = Liveness
  BY DEF blockVars, liveness, Liveness
<1>2. Begin(top)' = Begin(top)
  BY <1>1 DEF Begin, Boundary
<1> QED BY <1>1, <1>2 DEF BlockInv

LEMMA StartOfBlock ==
  ASSUME StartBlock
  PROVE  BlockInv
<1>1. Length \in Nat
  BY BlockAssumption
<1>2. code \in [1..Length -> Instruction]
  <2>1. PICK Instrs \in InstrSets : code \in [1..Length -> Instrs]
    BY DEF StartBlock
  <2>2. Instrs \subseteq Instruction
    BY BlockAssumption
  <2> QED BY <2>1, <2>2
<1>3. top = Length + 1 /\ count = Length /\ graph = RegionGraph(top)
  BY DEF StartBlock
<1>4. \A p \in 1..(top - 1) : layout[p] = p
  BY <1>1, <1>3 DEF StartBlock
<1>5. Begin(top) \in Nat /\ Begin(top) <= top
  BY <1>1, <1>3, BeginIs
<1>6. IF top = 0 THEN count = 0 ELSE count < top /\ Begin(top) <= count + 1
  BY <1>1, <1>3, <1>5
<1>7. PICK live : /\ classes = [r \in Regs |-> IF r \in live THEN Mixed ELSE NoClass]
                  /\ killIndices = [r \in Regs |-> IF r \in live THEN Length + 1 ELSE Unset]
                  /\ defIndices = [r \in Regs |-> IF r \in live THEN Unset ELSE Length + 1]
  BY DEF StartBlock
<1>8. regRefs = [r \in Regs |-> {}]
  BY DEF StartBlock
<1>9. classes \in [Regs -> Classes]
  BY <1>7 DEF Classes
<1>10. Length + 1 \in 0..Unset /\ Unset \in 0..Unset /\ Length + 1 # Unset
  BY <1>1 DEF Unset
<1>11. /\ killIndices \in [Regs -> 0..Unset] /\ defIndices \in [Regs -> 0..Unset]
       /\ \A r \in Regs : (killIndices[r] = Unset) # (defIndices[r] = Unset)
  BY <1>7, <1>10
<1>12. Liveness \in LivenessOf((count + 1)..Length)
  BY <1>8, <1>9, <1>11 DEF Liveness, LivenessOf
<1>13. PICK t \in 1..(Length + 1) : t = top
  BY <1>1, <1>3
<1>14. \A e \in RegionGraph(t) : e.kind = "Anti" => Defines(code, e.to, e.reg)
  BY <1>2, <1>4, <1>13, RegionGraphFits
<1>15. \A p \in 1..count : \A e \in graph : e.kind = "Anti" /\ e.to = p => Defines(code, p, e.reg)
  BY <1>3, <1>13, <1>14
<1>16. count \in 0..Length /\ top \in 0..(Length + 1)
  BY <1>1, <1>3
<1> QED BY <1>2, <1>4, <1>6, <1>12, <1>15, <1>16 DEF BlockInv

\* The inductive invariant: what is known of the registers is of the
\* instructions below the walk and names each of them dead or live, what is
\* above still stands where it stood, and the graph fits it.
THEOREM BlockInvariance == BlockSpec => []BlockInv
<1>1. StartBlock => BlockInv
  BY StartOfBlock
<1>2. BlockInv /\ [BlockNext]_blockVars => BlockInv'
  <2> SUFFICES ASSUME BlockInv, [BlockNext]_blockVars PROVE BlockInv'
    OBVIOUS
  <2>1. CASE Break
    BY <2>1, BreakKeeps
  <2>2. CASE Keep
    BY <2>2, KeepKeeps
  <2>3. CASE Schedule
    BY <2>3, ScheduleKeeps
  <2>4. CASE ScheduleLast
    BY <2>4, ScheduleLastKeeps
  <2>5. CASE UNCHANGED blockVars
    BY <2>5, StutterKeeps
  <2> QED BY <2>1, <2>2, <2>3, <2>4, <2>5 DEF BlockNext
<1> QED BY <1>1, <1>2, PTL DEF BlockSpec

\* The assertions of SchedulePostRATDList never fire, for any registers,
\* classes, instructions and length of the block: a register is either live or
\* dead, one that a region defined is dead above it, and an anti-dependence
\* that is considered is of a register with a class.
THEOREM MapsStayConsistent == BlockSpec => []MapsConsistent
<1>1. BlockInv => MapsConsistent
  <2> SUFFICES ASSUME BlockInv PROVE MapsConsistent
    OBVIOUS
  <2>1. \A r \in Regs : (killIndices[r] = Unset) # (defIndices[r] = Unset)
    BY DEF BlockInv, LivenessOf, Liveness
  <2>2. \A r \in Clobbered : killIndices[r] = Unset
    BY ClobberedAreDead
  <2>3. InRegion => \A r \in AntiDepRegs(count) :
          PrescanInstruction(Liveness, layout[count]).classes[r] # NoClass
    BY AntiDepHasClass
  <2> QED BY <2>1, <2>2, <2>3 DEF MapsConsistent
<1> QED BY <1>1, BlockInvariance, PTL

-----------------------------------------------------------------------------
(***************************************************************************)
(* The bottom-up scheduler: the inductive invariant.                       *)
(***************************************************************************)
EdgeKinds == {"data", "flags", "order", "artificial"}

\* Node d writes the flags that s reads.
FlagsEdge(d, s, E) == <<d, s, "flags">> \in E

\* Nodes U, numbered from 1 on, with edges E between them; W write the flags,
\* the others that do, as o says, are copies.
NodesOK(U, E, W, o) ==
  /\ \E k \in Nat : U = 1..k
  /\ U \subseteq SUnits
  /\ E \subseteq U \X U \X EdgeKinds
  /\ W \subseteq U
  /\ o \in [U -> Int]

\* Each node reads the flags of one that writes them, and writes none.
FlagsOK(E, W, o) ==
  \A d, s \in SUnits : FlagsEdge(d, s, E) =>
     /\ d \in W \/ o[d] = NoUnit
     /\ s \notin W
     /\ \A x \in SUnits : ~FlagsEdge(s, x, E)
     /\ \A x \in SUnits : FlagsEdge(x, s, E) => x = d

\* In the schedule seq every edge goes up, and the i-th node has height i - 1.
ScheduleOK(U, E, seq, h) ==
  /\ seq \in Seq(U)
  /\ h \in [SUnits -> Nat]
  /\ \A i \in 1..Len(seq) : h[seq[i]] = i - 1
  /\ \A e \in E : \A j \in 1..Len(seq) :
       e[1] = seq[j] => \E i \in 1..(j - 1) : seq[i] = e[2]

\* What is ready is not scheduled, but its successors are.
ReadyOK(U, E, seq, rdy) ==
  /\ rdy \subseteq U
  /\ rdy \cap ToSet(seq) = {}
  /\ \A e \in E : e[1] \in rdy => e[2] \in ToSet(seq)

\* The one def that scheduled nodes still wait for is def, and since is the
\* cycle of the first of them.
LiveOK(E, seq, def, since) ==
  /\ \A d \in SUnits : \A i \in 1..Len(seq) :
       FlagsEdge(d, seq[i], E) => d \in ToSet(seq) \/ (d = def /\ since < i)
  /\ def # NoUnit => /\ def \notin ToSet(seq)
                     /\ since \in 0..(Len(seq) - 1)
                     /\ FlagsEdge(def, seq[since + 1], E)

\* u writes the flags.
WritesIn(u, E, W, o) ==
  u \in W \/ (o[u] = NoUnit /\ \E s \in SUnits : FlagsEdge(u, s, E))

\* Nothing writes the flags between a use and its def.
IntactIn(E, W, o, seq) ==
  \A d \in SUnits : \A i, j \in 1..Len(seq) :
     FlagsEdge(d, seq[i], E) /\ i < j /\ WritesIn(seq[j], E, W, o) /\ seq[j] # d
     => \E k \in (i + 1)..(j - 1) : seq[k] = d

RoundOK(U, E, W, o, seq, h, rdy, def, since) ==
  /\ NodesOK(U, E, W, o)
  /\ FlagsOK(E, W, o)
  /\ ScheduleOK(U, E, seq, h)
  /\ ReadyOK(U, E, seq, rdy)
  /\ def \in U \cup {NoUnit} /\ since \in Nat
  /\ LiveOK(E, seq, def, since)
  /\ IntactIn(E, W, o, seq)

RoundInv ==
  /\ RoundOK(Numbered, edges, writers, origin, Sequence, height, ready, liveDef, liveCycle)
  /\ CurCycle = Len(Sequence)
  /\ 1..Size \subseteq Numbered

-----------------------------------------------------------------------------
LEMMA EdgeIs ==
  ASSUME NEW U, NEW E \in SUBSET (U \X U \X EdgeKinds), NEW e \in E
  PROVE  e = <<e[1], e[2], e[3]>> /\ e[1] \in U /\ e[2] \in U /\ e[3] \in EdgeKinds
OBVIOUS

LEMMA SuccsAre ==
  ASSUME NEW U, NEW E, NEW W, NEW o, NodesOK(U, E, W, o), NEW u \in U
  PROVE  /\ \A s : s \in SuccsIn(u, E) <=> \E e \in E : e[1] = u /\ e[2] = s
         /\ \A d : d \in PredsIn(u, E) <=> \E e \in E : e[1] = d /\ e[2] = u
         /\ \A s : s \in FlagsSuccs(u, E) <=> FlagsEdge(u, s, E)
         /\ \A d : d \in FlagsPreds(u, E) <=> FlagsEdge(d, u, E)
         /\ SuccsIn(u, E) \subseteq U /\ PredsIn(u, E) \subseteq U
<1>0. U \in SUBSET SUnits /\ E \in SUBSET (U \X U \X EdgeKinds)
  BY DEF NodesOK
<1>1. \A e \in E : e[1] \in U /\ e[2] \in U
  BY <1>0, EdgeIs
<1>2. \A d, s : FlagsEdge(d, s, E) => d \in U /\ s \in U
  BY <1>0 DEF FlagsEdge
<1>3. \A d, s : FlagsEdge(d, s, E) => \E e \in E : e[1] = d /\ e[2] = s
  <2> SUFFICES ASSUME NEW d, NEW s, FlagsEdge(d, s, E) PROVE \E e \in E : e[1] = d /\ e[2] = s
    OBVIOUS
  <2>1. <<d, s, "flags">> \in E
    BY DEF FlagsEdge
  <2> QED BY <2>1
<1>4. \A s : s \in SuccsIn(u, E) <=> \E e \in E : e[1] = u /\ e[2] = s
  BY <1>0, <1>1 DEF SuccsIn
<1>5. \A d : d \in PredsIn(u, E) <=> \E e \in E : e[1] = d /\ e[2] = u
  BY <1>0, <1>1 DEF PredsIn
<1>6. \A s : s \in FlagsSuccs(u, E) <=> FlagsEdge(u, s, E)
  BY <1>3, <1>4 DEF FlagsSuccs, FlagsEdge
<1>7. \A d : d \in FlagsPreds(u, E) <=> FlagsEdge(d, u, E)
  BY <1>3, <1>5 DEF FlagsPreds, FlagsEdge
<1> QED BY <1>1, <1>4, <1>5, <1>6, <1>7

LEMMA Appended ==
  ASSUME NEW U, NEW seq \in Seq(U), NEW u \in U
  PROVE  /\ Append(seq, u) \in Seq(U) /\ Len(Append(seq, u)) = Len(seq) + 1
         /\ \A i \in 1..Len(seq) : Append(seq, u)[i] = seq[i]
         /\ Append(seq, u)[Len(seq) + 1] = u
         /\ ToSet(Append(seq, u)) = ToSet(seq) \cup {u}
         /\ Len(seq) \in Nat /\ \A x : x \in ToSet(seq) <=> \E i \in 1..Len(seq) : seq[i] = x
<1>1. /\ Append(seq, u) \in Seq(U) /\ Len(Append(seq, u)) = Len(seq) + 1 /\ Len(seq) \in Nat
      /\ DOMAIN seq = 1..Len(seq) /\ DOMAIN Append(seq, u) = 1..(Len(seq) + 1)
  OBVIOUS
<1>2. \A i \in 1..Len(seq) : Append(seq, u)[i] = seq[i]
  OBVIOUS
<1>3. Append(seq, u)[Len(seq) + 1] = u
  OBVIOUS
<1>4. \A x : x \in ToSet(seq) <=> \E i \in 1..Len(seq) : seq[i] = x
  BY <1>1 DEF ToSet
<1>5. \A x : x \in ToSet(Append(seq, u)) <=> \E i \in 1..(Len(seq) + 1) : Append(seq, u)[i] = x
  BY <1>1 DEF ToSet
<1>6. \A x : x \in ToSet(Append(seq, u)) <=> x \in ToSet(seq) \/ x = u
  <2> SUFFICES ASSUME NEW x PROVE x \in ToSet(Append(seq, u)) <=> x \in ToSet(seq) \/ x = u
    OBVIOUS
  <2>1. ASSUME x \in ToSet(Append(seq, u)) PROVE x \in ToSet(seq) \/ x = u
    <3>1. PICK i \in 1..(Len(seq) + 1) : Append(seq, u)[i] = x
      BY <1>5, <2>1
    <3>2. i \in 1..Len(seq) \/ i = Len(seq) + 1
      BY <1>1
    <3> QED BY <1>2, <1>3, <1>4, <3>1, <3>2
  <2>2. ASSUME x \in ToSet(seq) PROVE x \in ToSet(Append(seq, u))
    <3>1. PICK i \in 1..Len(seq) : seq[i] = x
      BY <1>4, <2>2
    <3>2. i \in 1..(Len(seq) + 1)
      BY <1>1
    <3> QED BY <1>2, <1>5, <3>1, <3>2
  <2>3. ASSUME x = u PROVE x \in ToSet(Append(seq, u))
    <3>1. Len(seq) + 1 \in 1..(Len(seq) + 1)
      BY <1>1
    <3> QED BY <1>3, <1>5, <2>3, <3>1
  <2> QED BY <2>1, <2>2, <2>3
<1> QED BY <1>1, <1>2, <1>3, <1>4, <1>6

\* What u finds in r may be scheduled: it is not delayed.
Fits(u, U, E, W, seq, r) ==
  /\ u \in U /\ u \notin ToSet(seq)
  /\ \A e \in E : e[1] = u => e[2] \in ToSet(seq)
  /\ r.def # NoUnit => /\ \A d \in SUnits : FlagsEdge(d, u, E) => d = r.def
                       /\ u \in W => u = r.def

LEMMA InSchedule ==
  ASSUME NEW U, NEW seq \in Seq(U)
  PROVE  /\ Len(seq) \in Nat /\ DOMAIN seq = 1..Len(seq)
         /\ \A x : x \in ToSet(seq) <=> \E i \in 1..Len(seq) : seq[i] = x
         /\ \A i \in 1..Len(seq) : seq[i] \in U /\ seq[i] \in ToSet(seq)
<1>1. Len(seq) \in Nat /\ DOMAIN seq = 1..Len(seq) /\ \A i \in 1..Len(seq) : seq[i] \in U
  OBVIOUS
<1>2. \A x : x \in ToSet(seq) <=> \E i \in 1..Len(seq) : seq[i] = x
  BY <1>1 DEF ToSet
<1> QED BY <1>1, <1>2

\* The units of the flags edges.
LEMMA FlagsBetween ==
  ASSUME NEW U, NEW E, NEW W, NEW o, NodesOK(U, E, W, o)
  PROVE  \A d, s : FlagsEdge(d, s, E) =>
            d \in U /\ s \in U /\ d \in SUnits /\ s \in SUnits /\ d \in Nat \ {0}
<1> SUFFICES ASSUME NEW d, NEW s, FlagsEdge(d, s, E)
             PROVE  d \in U /\ s \in U /\ d \in SUnits /\ s \in SUnits /\ d \in Nat \ {0}
  OBVIOUS
<1>1. E \subseteq U \X U \X EdgeKinds
  BY DEF NodesOK
<1>2. <<d, s, "flags">> \in U \X U \X EdgeKinds
  BY <1>1 DEF FlagsEdge
<1>3. d \in U /\ s \in U
  BY <1>2
<1>4. PICK k \in Nat : U = 1..k
  BY DEF NodesOK
<1> QED BY <1>3, <1>4 DEF NodesOK

\* A def comes above its uses.
LEMMA UsesFirst ==
  ASSUME NEW U, NEW E, NEW W, NEW o, NEW seq, NEW h, NodesOK(U, E, W, o),
         ScheduleOK(U, E, seq, h), NEW e \in E, NEW j \in 1..Len(seq), e[1] = seq[j]
  PROVE  \E i \in 1..Len(seq) : i < j /\ seq[i] = e[2]
<1>1. PICK i \in 1..(j - 1) : seq[i] = e[2]
  BY DEF ScheduleOK
<1>2. Len(seq) \in Nat
  BY DEF ScheduleOK
<1> QED BY <1>1, <1>2

LEMMA DefsAbove ==
  ASSUME NEW U, NEW E, NEW W, NEW o, NEW seq, NEW h, NodesOK(U, E, W, o),
         ScheduleOK(U, E, seq, h), NEW d, NEW s, FlagsEdge(d, s, E),
         NEW j \in 1..Len(seq), d = seq[j]
  PROVE  \E i \in 1..Len(seq) : i < j /\ seq[i] = s
<1>1. PICK e \in E : e[1] = d /\ e[2] = s
  BY DEF FlagsEdge
<1> QED BY <1>1, UsesFirst

\* No node stands twice in the schedule.
LEMMA StandsOnce ==
  ASSUME NEW U, NEW E, NEW seq, NEW h, ScheduleOK(U, E, seq, h),
         NEW i \in 1..Len(seq), NEW j \in 1..Len(seq), seq[i] = seq[j]
  PROVE  i = j
<1>1. h[seq[i]] = i - 1 /\ h[seq[j]] = j - 1 /\ Len(seq) \in Nat
  BY DEF ScheduleOK
<1> QED BY <1>1

\* The schedule seq with what r says is ready and live.
StateOK(U, E, W, o, seq, h, r) ==
  /\ r = [ready |-> r.ready, def |-> r.def, since |-> r.since]
  /\ RoundOK(U, E, W, o, seq, h, r.ready, r.def, r.since)

\* The live def after u, in cycle c: a node that somebody waits for is the live def.
LiveStep(r, q, u, c, E) ==
  /\ q.ready = r.ready
  /\ \/ /\ u = r.def /\ q.def = NoUnit /\ q.since = 0
        /\ \E s \in SUnits : FlagsEdge(u, s, E)
     \/ /\ q = r
        /\ ~ \E s \in SUnits : FlagsEdge(u, s, E)
        /\ r.def = NoUnit => ~ \E d \in SUnits : FlagsEdge(d, u, E)
     \/ /\ r.def = NoUnit /\ q.since = c /\ FlagsEdge(q.def, u, E)
        /\ ~ \E s \in SUnits : FlagsEdge(u, s, E)

LEMMA LiveAfter ==
  ASSUME NEW U, NEW E, NEW W, NEW o, NEW seq, NEW r, NEW u,
         StateOK(U, E, W, o, seq, height, r), Fits(u, U, E, W, seq, r)
  PROVE  LiveStep(r, Written(Read(r, u, Len(seq), E), u, E), u, Len(seq), E)
<1>0. PICK q : q = Written(Read(r, u, Len(seq), E), u, E)
  OBVIOUS
<1>1. /\ NodesOK(U, E, W, o) /\ FlagsOK(E, W, o) /\ ScheduleOK(U, E, seq, height)
      /\ LiveOK(E, seq, r.def, r.since) /\ r.since \in Nat /\ r.def \in U \cup {NoUnit}
  BY DEF StateOK, RoundOK
<1>2. U \in SUBSET SUnits /\ E \in SUBSET (U \X U \X EdgeKinds) /\ u \in U /\ u \in SUnits /\ u # NoUnit
  BY <1>1 DEF NodesOK, Fits, NoUnit
<1>3. /\ \A s : s \in FlagsSuccs(u, E) <=> FlagsEdge(u, s, E)
      /\ \A d : d \in FlagsPreds(u, E) <=> FlagsEdge(d, u, E)
  BY <1>1, <1>2, SuccsAre
<1>4. \A d, s : FlagsEdge(d, s, E) => d \in SUnits /\ s \in SUnits
  BY <1>1, FlagsBetween
<1>5. seq \in Seq(U)
  BY <1>1 DEF ScheduleOK
<1>6. CASE \E s \in SUnits : FlagsEdge(u, s, E)
  <2>1. PICK s \in SUnits : FlagsEdge(u, s, E)
    BY <1>6
  <2>2. s \in ToSet(seq)
    <3>1. PICK e \in E : e[1] = u /\ e[2] = s
      BY <2>1 DEF FlagsEdge
    <3> QED BY <3>1 DEF Fits
  <2>3. PICK i \in 1..Len(seq) : seq[i] = s
    BY <1>5, <2>2, InSchedule
  <2>4. u = r.def
    BY <1>1, <1>2, <2>1, <2>3 DEF LiveOK, Fits
  <2>5. r.def # NoUnit
    BY <1>2, <2>4
  <2>6. FlagsEdge(u, seq[r.since + 1], E) /\ r.since \in 0..(Len(seq) - 1)
    BY <1>1, <2>4, <2>5 DEF LiveOK
  <2>7. Read(r, u, Len(seq), E) = r
    BY <2>5 DEF Read
  <2>8. height[seq[r.since + 1]] = r.since
    <3>1. r.since + 1 \in 1..Len(seq)
      BY <1>5, <2>6
    <3>2. height[seq[r.since + 1]] = (r.since + 1) - 1
      BY <1>1, <3>1 DEF ScheduleOK
    <3> QED BY <1>1, <3>2
  <2>9. q = [r EXCEPT !.def = NoUnit, !.since = 0]
    BY <1>0, <1>3, <2>6, <2>7, <2>8 DEF Written
  <2>10. q = [ready |-> r.ready, def |-> NoUnit, since |-> 0]
    BY <2>9 DEF StateOK
  <2>11. LiveStep(r, q, u, Len(seq), E)
    BY <1>6, <2>4, <2>10 DEF LiveStep
  <2> QED BY <1>0, <2>11
<1>7. CASE ~ \E s \in SUnits : FlagsEdge(u, s, E)
  <2>1. FlagsSuccs(u, E) = {}
    BY <1>3, <1>4, <1>7
  <2>2. q = Read(r, u, Len(seq), E)
    BY <1>0, <2>1 DEF Written
  <2>3. CASE r.def # NoUnit \/ FlagsPreds(u, E) = {}
    <3>1. q = r
      BY <2>2, <2>3 DEF Read
    <3>2. r.def = NoUnit => ~ \E d \in SUnits : FlagsEdge(d, u, E)
      BY <1>3, <2>3
    <3>3. LiveStep(r, q, u, Len(seq), E)
      BY <1>7, <3>1, <3>2 DEF LiveStep
    <3> QED BY <1>0, <3>3
  <2>4. CASE r.def = NoUnit /\ FlagsPreds(u, E) # {}
    <3>1. q = [r EXCEPT !.def = CHOOSE d \in FlagsPreds(u, E) : TRUE, !.since = Len(seq)]
      BY <2>2, <2>4 DEF Read
    <3>2. PICK x : x = CHOOSE d \in FlagsPreds(u, E) : TRUE
      OBVIOUS
    <3>3. x \in FlagsPreds(u, E)
      BY <2>4, <3>2
    <3>4. q = [ready |-> r.ready, def |-> x, since |-> Len(seq)]
      BY <3>1, <3>2 DEF StateOK
    <3>5. LiveStep(r, q, u, Len(seq), E)
      BY <1>3, <1>7, <2>4, <3>3, <3>4 DEF LiveStep
    <3> QED BY <1>0, <3>5
  <2> QED BY <2>3, <2>4
<1> QED BY <1>6, <1>7

LEMMA AppendedSchedule ==
  ASSUME NEW U, NEW E, NEW W, NEW o, NEW seq, NEW h, NodesOK(U, E, W, o),
         ScheduleOK(U, E, seq, h), NEW u \in U, u \notin ToSet(seq),
         \A e \in E : e[1] = u => e[2] \in ToSet(seq)
  PROVE  ScheduleOK(U, E, Append(seq, u), [h EXCEPT ![u] = Len(seq)])
<1>1. seq \in Seq(U) /\ h \in [SUnits -> Nat] /\ Len(seq) \in Nat /\ u \in SUnits
  BY DEF ScheduleOK, NodesOK
<1>2. PICK t : t = Append(seq, u)
  OBVIOUS
<1>3. /\ t \in Seq(U) /\ Len(t) = Len(seq) + 1
      /\ \A i \in 1..Len(seq) : t[i] = seq[i]
      /\ t[Len(seq) + 1] = u
  BY <1>1, <1>2, Appended
<1>4. PICK g : g = [h EXCEPT ![u] = Len(seq)]
  OBVIOUS
<1>5. g \in [SUnits -> Nat]
  BY <1>1, <1>4
<1>6. ASSUME NEW i \in 1..Len(t) PROVE g[t[i]] = i - 1
  <2>1. CASE i = Len(seq) + 1
    BY <1>1, <1>3, <1>4, <2>1
  <2>2. CASE i # Len(seq) + 1
    <3>1. i \in 1..Len(seq)
      BY <1>1, <1>3, <2>2
    <3>2. t[i] = seq[i] /\ seq[i] # u /\ seq[i] \in SUnits
      BY <1>1, <1>3, <3>1, InSchedule DEF NodesOK
    <3> QED BY <1>1, <1>4, <3>1, <3>2 DEF ScheduleOK
  <2> QED BY <2>1, <2>2
<1>7. ASSUME NEW e \in E, NEW j \in 1..Len(t), e[1] = t[j]
      PROVE  \E i \in 1..(j - 1) : t[i] = e[2]
  <2>1. CASE j = Len(seq) + 1
    <3>1. e[2] \in ToSet(seq)
      BY <1>3, <1>7, <2>1
    <3>2. PICK i \in 1..Len(seq) : seq[i] = e[2]
      BY <1>1, <3>1, InSchedule
    <3> QED BY <1>1, <1>3, <2>1, <3>2
  <2>2. CASE j # Len(seq) + 1
    <3>1. j \in 1..Len(seq)
      BY <1>1, <1>3, <2>2
    <3>2. PICK i \in 1..(j - 1) : seq[i] = e[2]
      BY <1>3, <1>7, <3>1 DEF ScheduleOK
    <3>3. i \in 1..Len(seq)
      BY <1>1, <3>1
    <3> QED BY <1>3, <3>2, <3>3
  <2> QED BY <2>1, <2>2
<1> QED BY <1>2, <1>3, <1>4, <1>5, <1>6, <1>7 DEF ScheduleOK

LEMMA ReadyAfter ==
  ASSUME NEW U, NEW E, NEW W, NEW o, NEW seq, NEW h, NEW rdy, NodesOK(U, E, W, o),
         ScheduleOK(U, E, seq, h), ReadyOK(U, E, seq, rdy), NEW u \in U, u \notin ToSet(seq),
         \A e \in E : e[1] = u => e[2] \in ToSet(seq)
  PROVE  ReadyOK(U, E, Append(seq, u), (rdy \ {u}) \cup LastPreds(u, ToSet(seq), E))
<1>1. /\ seq \in Seq(U) /\ u \in SUnits /\ U \in SUBSET SUnits
      /\ E \in SUBSET (U \X U \X EdgeKinds)
  BY DEF ScheduleOK, NodesOK
<1>2. ToSet(Append(seq, u)) = ToSet(seq) \cup {u}
  BY <1>1, Appended
<1>3. ASSUME NEW p \in LastPreds(u, ToSet(seq), E)
      PROVE  /\ p \in U /\ p \notin ToSet(seq) /\ p # u
             /\ \A e \in E : e[1] = p => e[2] \in ToSet(seq) \cup {u}
  <2>1. p \in PredsIn(u, E) /\ SuccsIn(p, E) \subseteq ToSet(seq) \cup {u}
    BY DEF LastPreds
  <2>2. PICK e \in E : e[1] = p /\ e[2] = u
    BY <2>1 DEF PredsIn
  <2>3. p \in U /\ p \in SUnits
    BY <1>1, <2>2, EdgeIs
  <2>4. p \notin ToSet(seq)
    <3> SUFFICES ASSUME p \in ToSet(seq) PROVE FALSE
      OBVIOUS
    <3>1. PICK j \in 1..Len(seq) : seq[j] = p
      BY <1>1, InSchedule
    <3>2. \E i \in 1..Len(seq) : i < j /\ seq[i] = u
      BY <2>2, <3>1, UsesFirst
    <3> QED BY <1>1, <3>2, InSchedule
  <2>5. \A f \in E : f[1] = p => f[2] \in ToSet(seq) \cup {u}
    <3> SUFFICES ASSUME NEW f \in E, f[1] = p PROVE f[2] \in ToSet(seq) \cup {u}
      OBVIOUS
    <3>1. f[2] \in SUnits
      BY <1>1, EdgeIs
    <3>2. f[2] \in SuccsIn(p, E)
      BY <3>1 DEF SuccsIn
    <3> QED BY <2>1, <3>2
  <2>6. p # u
    BY <2>2
  <2> QED BY <2>3, <2>4, <2>5, <2>6
<1> QED BY <1>2, <1>3 DEF ReadyOK

LEMMA IntactAfter ==
  ASSUME NEW U, NEW E, NEW W, NEW o, NEW seq, NEW r, NEW u, NEW h,
         NodesOK(U, E, W, o), FlagsOK(E, W, o), ScheduleOK(U, E, seq, h),
         LiveOK(E, seq, r.def, r.since), IntactIn(E, W, o, seq), Fits(u, U, E, W, seq, r)
  PROVE  IntactIn(E, W, o, Append(seq, u))
<1>1. /\ seq \in Seq(U) /\ u \in U /\ u \in SUnits /\ u # NoUnit
  BY DEF ScheduleOK, NodesOK, Fits, NoUnit
<1>2. PICK t : t = Append(seq, u)
  OBVIOUS
<1>3. /\ Len(t) = Len(seq) + 1 /\ Len(seq) \in Nat
      /\ \A i \in 1..Len(seq) : t[i] = seq[i]
      /\ t[Len(seq) + 1] = u
  BY <1>1, <1>2, Appended
<1>4. SUFFICES ASSUME NEW d \in SUnits, NEW i \in 1..Len(t), NEW j \in 1..Len(t),
                      FlagsEdge(d, t[i], E), i < j, WritesIn(t[j], E, W, o), t[j] # d
               PROVE  \E k \in (i + 1)..(j - 1) : t[k] = d
  BY <1>2 DEF IntactIn
<1>5. i \in 1..Len(seq) /\ t[i] = seq[i]
  BY <1>3, <1>4
<1>6. CASE j # Len(seq) + 1
  <2>1. j \in 1..Len(seq) /\ t[j] = seq[j]
    BY <1>3, <1>6
  <2>2. PICK k \in (i + 1)..(j - 1) : seq[k] = d
    BY <1>4, <1>5, <2>1 DEF IntactIn
  <2>3. k \in 1..Len(seq)
    BY <1>3, <1>5, <2>1
  <2> QED BY <1>3, <2>2, <2>3
<1>7. CASE j = Len(seq) + 1
  <2>1. t[j] = u /\ d # u
    BY <1>3, <1>4, <1>7
  <2>2. d \in ToSet(seq)
    <3> SUFFICES ASSUME d \notin ToSet(seq) PROVE FALSE
      OBVIOUS
    <3>1. d = r.def
      BY <1>4, <1>5 DEF LiveOK
    <3>2. r.def # NoUnit
      BY <1>4, <3>1, FlagsBetween DEF NoUnit
    <3>3. u \notin W
      BY <2>1, <3>1, <3>2 DEF Fits
    <3>4. PICK s \in SUnits : FlagsEdge(u, s, E)
      BY <1>4, <2>1, <3>3 DEF WritesIn
    <3>5. s \in ToSet(seq)
      <4>1. PICK e \in E : e[1] = u /\ e[2] = s
        BY <3>4 DEF FlagsEdge
      <4> QED BY <4>1 DEF Fits
    <3>6. PICK x \in 1..Len(seq) : seq[x] = s
      BY <1>1, <3>5, InSchedule
    <3>7. u = r.def
      BY <1>1, <3>4, <3>6 DEF LiveOK, Fits
    <3> QED BY <2>1, <3>1, <3>7
  <2>3. PICK k \in 1..Len(seq) : seq[k] = d
    BY <1>1, <2>2, InSchedule
  <2>4. PICK m \in 1..Len(seq) : m < k /\ seq[m] = seq[i]
    BY <1>4, <1>5, <2>3, DefsAbove
  <2>5. m = i
    BY <1>5, <2>4, StandsOnce
  <2>6. k \in (i + 1)..(j - 1)
    BY <1>3, <1>5, <1>7, <2>4, <2>5
  <2> QED BY <1>3, <2>3, <2>6
<1> QED BY <1>6, <1>7

LEMMA ScheduleNodeKeeps ==
  ASSUME NEW U, NEW E, NEW W, NEW o, NEW seq, NEW r, NEW u,
         StateOK(U, E, W, o, seq, height, r), Fits(u, U, E, W, seq, r),
         ScheduleNode(u, Len(seq), seq, r, E)
  PROVE  /\ RoundOK(U, E, W, o, Sequence', height', ready', liveDef', liveCycle')
         /\ CurCycle' = Len(Sequence') /\ edges' = E
<1>1. PICK q : q = Written(Read(r, u, Len(seq), E), u, E)
  OBVIOUS
<1>2. /\ Sequence' = Append(seq, u)
      /\ height' = [height EXCEPT ![u] = Len(seq)]
      /\ ready' = (q.ready \ {u}) \cup LastPreds(u, ToSet(seq), E)
      /\ liveDef' = q.def /\ liveCycle' = q.since
      /\ edges' = E
      /\ CurCycle' = Len(seq) + 1
  BY <1>1 DEF ScheduleNode
<1>3. /\ NodesOK(U, E, W, o) /\ FlagsOK(E, W, o) /\ ScheduleOK(U, E, seq, height)
      /\ ReadyOK(U, E, seq, r.ready) /\ IntactIn(E, W, o, seq)
      /\ LiveOK(E, seq, r.def, r.since) /\ r.since \in Nat /\ r.def \in U \cup {NoUnit}
  BY DEF StateOK, RoundOK
<1>4. /\ u \in U /\ u \notin ToSet(seq) /\ u # NoUnit /\ u \in SUnits
      /\ \A e \in E : e[1] = u => e[2] \in ToSet(seq)
  BY <1>3 DEF Fits, NodesOK, NoUnit
<1>5. seq \in Seq(U) /\ Len(seq) \in Nat
  BY <1>3 DEF ScheduleOK
<1>6. /\ q.ready = r.ready
      /\ \/ /\ u = r.def /\ q.def = NoUnit /\ q.since = 0
            /\ \E s \in SUnits : FlagsEdge(u, s, E)
         \/ /\ q = r
            /\ ~ \E s \in SUnits : FlagsEdge(u, s, E)
            /\ r.def = NoUnit => ~ \E d \in SUnits : FlagsEdge(d, u, E)
         \/ /\ r.def = NoUnit /\ q.since = Len(seq) /\ FlagsEdge(q.def, u, E)
            /\ ~ \E s \in SUnits : FlagsEdge(u, s, E)
  BY <1>1, LiveAfter DEF LiveStep
<1>7. ScheduleOK(U, E, Append(seq, u), [height EXCEPT ![u] = Len(seq)])
  BY <1>3, <1>4, AppendedSchedule
<1>8. ReadyOK(U, E, Append(seq, u), (r.ready \ {u}) \cup LastPreds(u, ToSet(seq), E))
  BY <1>3, <1>4, ReadyAfter
<1>9. IntactIn(E, W, o, Append(seq, u))
  BY <1>3, IntactAfter
<1>10. PICK t : t = Append(seq, u)
  OBVIOUS
<1>11. /\ Len(t) = Len(seq) + 1
       /\ \A i \in 1..Len(seq) : t[i] = seq[i]
       /\ t[Len(seq) + 1] = u
       /\ ToSet(t) = ToSet(seq) \cup {u}
  BY <1>4, <1>5, <1>10, Appended
<1>12. q.def \in U \cup {NoUnit} /\ q.since \in Nat
  BY <1>3, <1>5, <1>6, FlagsBetween
<1>13. LiveOK(E, t, q.def, q.since)
  <2>1. ASSUME NEW d \in SUnits, NEW i \in 1..Len(t), FlagsEdge(d, t[i], E), d \notin ToSet(t)
        PROVE  d = q.def /\ q.since < i
    <3>1. d \notin ToSet(seq) /\ d # u /\ d # NoUnit
      BY <1>3, <1>11, <2>1, FlagsBetween DEF NoUnit
    <3>2. CASE i # Len(seq) + 1
      <4>1. i \in 1..Len(seq) /\ t[i] = seq[i]
        BY <1>5, <1>11, <3>2
      <4>2. d = r.def /\ r.since < i
        BY <1>3, <2>1, <3>1, <4>1 DEF LiveOK
      <4>3. q = r
        BY <1>6, <3>1, <4>2
      <4> QED BY <4>2, <4>3
    <3>3. CASE i = Len(seq) + 1
      <4>1. FlagsEdge(d, u, E)
        BY <1>11, <2>1, <3>3
      <4>2. ~ \E s \in SUnits : FlagsEdge(u, s, E)
        BY <1>3, <1>4, <4>1 DEF FlagsOK
      <4>3. CASE r.def = NoUnit
        <5>1. q.since = Len(seq) /\ FlagsEdge(q.def, u, E)
          BY <1>6, <4>1, <4>2, <4>3
        <5>2. q.def \in SUnits
          BY <1>3, <5>1, FlagsBetween
        <5>3. d = q.def
          BY <1>3, <1>4, <4>1, <5>1, <5>2 DEF FlagsOK
        <5> QED BY <1>5, <3>3, <5>1, <5>3
      <4>4. CASE r.def # NoUnit
        <5>1. d = r.def
          BY <4>1, <4>4 DEF Fits
        <5>2. q = r
          BY <1>6, <4>2, <4>4
        <5>3. r.since \in 0..(Len(seq) - 1)
          BY <1>3, <4>4 DEF LiveOK
        <5> QED BY <1>5, <3>3, <5>1, <5>2, <5>3
      <4> QED BY <4>3, <4>4
    <3> QED BY <3>2, <3>3
  <2>2. ASSUME q.def # NoUnit
        PROVE  /\ q.def \notin ToSet(t) /\ q.since \in 0..(Len(t) - 1)
               /\ FlagsEdge(q.def, t[q.since + 1], E)
    <3>1. CASE q = r
      <4>1. /\ r.def \notin ToSet(seq) /\ r.since \in 0..(Len(seq) - 1)
            /\ FlagsEdge(r.def, seq[r.since + 1], E)
        BY <1>3, <2>2, <3>1 DEF LiveOK
      <4>2. r.since + 1 \in 1..Len(seq) /\ r.since \in 0..(Len(t) - 1)
        BY <1>5, <1>11, <4>1
      <4>3. r.def # u
        BY <1>3, <1>6, <2>2, <3>1, <4>1, FlagsBetween
      <4> QED BY <1>11, <3>1, <4>1, <4>2, <4>3
    <3>2. CASE q # r
      <4>1. /\ r.def = NoUnit /\ q.since = Len(seq) /\ FlagsEdge(q.def, u, E)
            /\ ~ \E s \in SUnits : FlagsEdge(u, s, E)
        BY <1>6, <2>2, <3>2
      <4>2. q.def \notin ToSet(seq)
        <5> SUFFICES ASSUME q.def \in ToSet(seq) PROVE FALSE
          OBVIOUS
        <5>1. PICK j \in 1..Len(seq) : seq[j] = q.def
          BY <1>5, InSchedule
        <5>2. \E i \in 1..Len(seq) : i < j /\ seq[i] = u
          BY <1>3, <4>1, <5>1, DefsAbove
        <5> QED BY <1>4, <1>5, <5>2, InSchedule
      <4>3. q.def # u
        BY <1>4, <4>1
      <4> QED BY <1>5, <1>11, <4>1, <4>2, <4>3
    <3> QED BY <3>1, <3>2
  <2> QED BY <2>1, <2>2 DEF LiveOK
<1>14. RoundOK(U, E, W, o, Sequence', height', ready', liveDef', liveCycle')
  BY <1>2, <1>3, <1>6, <1>7, <1>8, <1>9, <1>10, <1>12, <1>13 DEF RoundOK
<1> QED BY <1>2, <1>10, <1>11, <1>14

-----------------------------------------------------------------------------
(***************************************************************************)
(* Backtracking.                                                           *)
(***************************************************************************)
Below(j) == {Sequence[i] : i \in 1..j}

\* r when all but the first j nodes have been unscheduled: the flags stay live
\* down to their first use.
Unwound(r, j) ==
  /\ r = [ready |-> r.ready, def |-> r.def, since |-> r.since]
  /\ r.ready \subseteq Numbered /\ r.ready \cap Below(j) = {}
  /\ \A e \in edges : e[1] \in r.ready => e[2] \in Below(j)
  /\ IF j = liveCycle THEN r.def = NoUnit /\ r.since = 0
     ELSE r.def = liveDef /\ r.since = liveCycle

LEMMA RoundParts ==
  ASSUME RoundInv
  PROVE  /\ NodesOK(Numbered, edges, writers, origin) /\ FlagsOK(edges, writers, origin)
         /\ ScheduleOK(Numbered, edges, Sequence, height)
         /\ ReadyOK(Numbered, edges, Sequence, ready)
         /\ liveDef \in Numbered \cup {NoUnit} /\ liveCycle \in Nat
         /\ LiveOK(edges, Sequence, liveDef, liveCycle)
         /\ IntactIn(edges, writers, origin, Sequence)
         /\ Sequence \in Seq(Numbered) /\ Len(Sequence) \in Nat
         /\ Numbered \in SUBSET SUnits
         /\ edges \in SUBSET (Numbered \X Numbered \X EdgeKinds)
         /\ height \in [SUnits -> Nat]
<1>1. RoundOK(Numbered, edges, writers, origin, Sequence, height, ready, liveDef, liveCycle)
  BY DEF RoundInv
<1>2. /\ NodesOK(Numbered, edges, writers, origin) /\ FlagsOK(edges, writers, origin)
      /\ ScheduleOK(Numbered, edges, Sequence, height)
      /\ ReadyOK(Numbered, edges, Sequence, ready)
      /\ liveDef \in Numbered \cup {NoUnit} /\ liveCycle \in Nat
      /\ LiveOK(edges, Sequence, liveDef, liveCycle)
      /\ IntactIn(edges, writers, origin, Sequence)
  BY <1>1 DEF RoundOK
<1>3. Sequence \in Seq(Numbered) /\ Len(Sequence) \in Nat /\ height \in [SUnits -> Nat]
  BY <1>2 DEF ScheduleOK
<1>4. Numbered \in SUBSET SUnits /\ edges \in SUBSET (Numbered \X Numbered \X EdgeKinds)
  BY <1>2 DEF NodesOK
<1> QED BY <1>2, <1>3, <1>4

\* While the flags are live nothing writes them.
LEMMA NobodyWrites ==
  ASSUME RoundInv, liveDef # NoUnit, NEW j \in 1..Len(Sequence), liveCycle + 1 <= j
  PROVE  ~ \E s \in SUnits : FlagsEdge(Sequence[j], s, edges)
<1> SUFFICES ASSUME NEW s \in SUnits, FlagsEdge(Sequence[j], s, edges) PROVE FALSE
  OBVIOUS
<1>1. /\ NodesOK(Numbered, edges, writers, origin) /\ FlagsOK(edges, writers, origin)
      /\ LiveOK(edges, Sequence, liveDef, liveCycle)
      /\ IntactIn(edges, writers, origin, Sequence)
      /\ Sequence \in Seq(Numbered) /\ Len(Sequence) \in Nat /\ liveCycle \in Nat
  BY RoundParts
<1>2. /\ liveDef \notin ToSet(Sequence) /\ liveCycle \in 0..(Len(Sequence) - 1)
      /\ FlagsEdge(liveDef, Sequence[liveCycle + 1], edges)
  BY <1>1 DEF LiveOK
<1>3. liveDef \in SUnits /\ Sequence[j] \in SUnits /\ liveCycle + 1 \in 1..Len(Sequence)
  BY <1>1, <1>2, FlagsBetween
<1>4. WritesIn(Sequence[j], edges, writers, origin)
  BY <1>1, <1>3 DEF FlagsOK, WritesIn
<1>5. j # liveCycle + 1
  BY <1>1, <1>2, <1>3, FlagsBetween DEF FlagsOK
<1>6. Sequence[j] # liveDef
  BY <1>1, <1>2, InSchedule
<1>7. PICK k \in (liveCycle + 2)..(j - 1) : Sequence[k] = liveDef
  <2>1. liveCycle + 1 < j
    BY <1>1, <1>5
  <2>2. \E k \in ((liveCycle + 1) + 1)..(j - 1) : Sequence[k] = liveDef
    BY <1>1, <1>2, <1>3, <1>4, <1>6, <2>1 DEF IntactIn
  <2> QED BY <1>1, <2>2
<1>8. k \in 1..Len(Sequence)
  BY <1>1
<1> QED BY <1>1, <1>2, <1>7, <1>8, InSchedule

LEMMA UnwindsOne ==
  ASSUME RoundInv, liveDef # NoUnit, NEW j \in 1..Len(Sequence), liveCycle + 1 <= j,
         NEW r, Unwound(r, j)
  PROVE  Unwound(Unscheduled(r, Sequence[j]), j - 1)
<1>1. PICK u : u = Sequence[j]
  OBVIOUS
<1>2. /\ NodesOK(Numbered, edges, writers, origin) /\ FlagsOK(edges, writers, origin)
      /\ ScheduleOK(Numbered, edges, Sequence, height)
      /\ LiveOK(edges, Sequence, liveDef, liveCycle)
      /\ Sequence \in Seq(Numbered) /\ Len(Sequence) \in Nat /\ liveCycle \in Nat
      /\ Numbered \in SUBSET SUnits
      /\ edges \in SUBSET (Numbered \X Numbered \X EdgeKinds)
  BY RoundParts
<1>3. u \in Numbered /\ u \in SUnits /\ height[u] = j - 1
  BY <1>1, <1>2, InSchedule DEF ScheduleOK
<1>4. /\ \A d : d \in PredsIn(u, edges) <=> \E e \in edges : e[1] = d /\ e[2] = u
      /\ \A s : s \in FlagsSuccs(u, edges) <=> FlagsEdge(u, s, edges)
      /\ \A d : d \in FlagsPreds(u, edges) <=> FlagsEdge(d, u, edges)
  BY <1>2, <1>3, SuccsAre
<1>5. FlagsSuccs(u, edges) = {}
  BY <1>1, <1>2, <1>4, NobodyWrites, FlagsBetween
<1>6. /\ r = [ready |-> r.ready, def |-> r.def, since |-> r.since]
      /\ r.ready \subseteq Numbered /\ r.ready \cap Below(j) = {}
      /\ \A e \in edges : e[1] \in r.ready => e[2] \in Below(j)
      /\ r.def = liveDef /\ r.since = liveCycle
  BY <1>2 DEF Unwound
<1>7. PICK q : q = IF FlagsPreds(u, edges) # {} /\ height[u] = r.since
                   THEN [r EXCEPT !.def = NoUnit, !.since = 0] ELSE r
  OBVIOUS
<1>8. Unscheduled(r, u) = [ready |-> (q.ready \ PredsIn(u, edges)) \cup {u},
                           def |-> q.def, since |-> q.since]
  <2>1. {height[s] : s \in {s \in FlagsSuccs(u, edges) : height[s] < q.since}} = {}
    BY <1>5
  <2> QED BY <1>5, <1>7, <2>1 DEF Unscheduled
<1>9. /\ q.ready = r.ready
      /\ IF j - 1 = liveCycle THEN q.def = NoUnit /\ q.since = 0
         ELSE q.def = liveDef /\ q.since = liveCycle
  <2>1. CASE j - 1 = liveCycle
    <3>1. FlagsEdge(liveDef, u, edges)
      <4>1. liveCycle + 1 = j
        BY <1>2, <2>1
      <4> QED BY <1>1, <1>2, <4>1 DEF LiveOK
    <3>2. q = [r EXCEPT !.def = NoUnit, !.since = 0]
      BY <1>3, <1>4, <1>6, <1>7, <2>1, <3>1
    <3>3. q = [ready |-> r.ready, def |-> NoUnit, since |-> 0]
      BY <1>6, <3>2
    <3> QED BY <2>1, <3>3
  <2>2. CASE j - 1 # liveCycle
    BY <1>3, <1>6, <1>7, <2>2
  <2> QED BY <2>1, <2>2
<1>10. PICK R : R = (r.ready \ PredsIn(u, edges)) \cup {u}
  OBVIOUS
<1>11. \A x : x \in Below(j) <=> x \in Below(j - 1) \/ x = u
  <2>1. \A i : i \in 1..j <=> i \in 1..(j - 1) \/ i = j
    BY <1>2
  <2> QED BY <1>1, <2>1 DEF Below
<1>12. u \notin Below(j - 1)
  <2> SUFFICES ASSUME NEW i \in 1..(j - 1), Sequence[i] = u PROVE FALSE
    BY DEF Below
  <2>1. i \in 1..Len(Sequence)
    BY <1>2
  <2>2. i = j
    BY <1>1, <1>2, <2>1, StandsOnce
  <2> QED BY <1>2, <2>2
<1>13. R \subseteq Numbered /\ R \cap Below(j - 1) = {}
  BY <1>3, <1>6, <1>10, <1>11, <1>12
<1>14. ASSUME NEW e \in edges, e[1] \in R PROVE e[2] \in Below(j - 1)
  <2>1. CASE e[1] = u
    <3>1. PICK i \in 1..(j - 1) : Sequence[i] = e[2]
      BY <1>1, <1>2, <2>1 DEF ScheduleOK
    <3> QED BY <3>1 DEF Below
  <2>2. CASE e[1] # u
    BY <1>4, <1>6, <1>10, <1>11, <1>14, <2>2
  <2> QED BY <2>1, <2>2
<1>15. PICK x : x = [ready |-> R, def |-> q.def, since |-> q.since]
  OBVIOUS
<1>16. x = Unscheduled(r, u)
  BY <1>8, <1>9, <1>10, <1>15
<1>17. Unwound(x, j - 1)
  BY <1>9, <1>13, <1>14, <1>15 DEF Unwound
<1> QED BY <1>1, <1>16, <1>17

\* Unscheduling a node whatever the state.
LEMMA UnscheduledTyped ==
  ASSUME RoundInv, NEW u \in Numbered,
         NEW r \in [ready : SUBSET Numbered, def : Nat, since : Nat]
  PROVE  Unscheduled(r, u) \in [ready : SUBSET Numbered, def : Nat, since : Nat]
<1>1. /\ Numbered \in SUBSET SUnits /\ height \in [SUnits -> Nat] /\ Numbered \subseteq Nat
      /\ \A s \in FlagsSuccs(u, edges) : s \in SUnits
  BY RoundParts DEF NodesOK, FlagsSuccs, SuccsIn
<1>2. PICK q : q = IF FlagsPreds(u, edges) # {} /\ height[u] = r.since
                   THEN [r EXCEPT !.def = NoUnit, !.since = 0] ELSE r
  OBVIOUS
<1>3. q \in [ready : SUBSET Numbered, def : Nat, since : Nat]
  BY <1>2 DEF NoUnit
<1>4. PICK C : C = {height[s] : s \in {s \in FlagsSuccs(u, edges) : height[s] < q.since}}
  OBVIOUS
<1>5. C \in SUBSET Nat
  BY <1>1, <1>4
<1>6. PICK d : d = IF q.def = NoUnit /\ FlagsSuccs(u, edges) # {} THEN u ELSE q.def
  OBVIOUS
<1>7. PICK c : c = IF C = {} THEN q.since ELSE CHOOSE y \in C : \A x \in C : y <= x
  OBVIOUS
<1>8. c \in Nat
  <2>1. CASE C = {}
    BY <1>3, <1>7, <2>1
  <2>2. CASE C # {}
    <3>1. \E y \in C : \A x \in C : y <= x
      BY <1>5, <2>2, LeastNat
    <3>2. c \in C
      BY <1>7, <2>2, <3>1
    <3> QED BY <1>5, <3>2
  <2> QED BY <2>1, <2>2
<1>9. d \in Nat
  BY <1>1, <1>3, <1>6
<1>10. Unscheduled(r, u) = [ready |-> (q.ready \ PredsIn(u, edges)) \cup {u}, def |-> d, since |-> c]
  BY <1>2, <1>4, <1>6, <1>7 DEF Unscheduled
<1>11. (q.ready \ PredsIn(u, edges)) \cup {u} \subseteq Numbered
  BY <1>3
<1> QED BY <1>8, <1>9, <1>10, <1>11

\* The nodes that BacktrackBottomUp unschedules, the last one first.
LEMMA UnwoundNodes ==
  ASSUME RoundInv, liveDef # NoUnit, NEW rev,
         rev = Reverse(SubSeq(Sequence, liveCycle + 1, Len(Sequence)))
  PROVE  LET n == Len(Sequence) - liveCycle
         IN  /\ n \in Nat /\ n > 0 /\ DOMAIN rev = 1..n
             /\ \A i \in 1..n : rev[i] = Sequence[Len(Sequence) - i + 1]
<1>1. /\ Sequence \in Seq(Numbered) /\ Len(Sequence) \in Nat /\ liveCycle \in Nat
      /\ liveCycle \in 0..(Len(Sequence) - 1)
  BY RoundParts DEF LiveOK
<1>2. PICK L \in Nat : L = Len(Sequence)
  BY <1>1
<1>3. PICK n \in Nat : n = L - liveCycle /\ n > 0
  <2>1. L - liveCycle \in Nat /\ L - liveCycle > 0
    BY <1>1, <1>2
  <2> QED BY <2>1
<1>4. PICK sub : sub = SubSeq(Sequence, liveCycle + 1, L)
  OBVIOUS
<1>5. Len(sub) = n /\ \A i \in 1..n : sub[i] = Sequence[liveCycle + i]
  <2>1. sub = [i \in 1..n |-> Sequence[liveCycle + i]]
    BY <1>1, <1>2, <1>3, <1>4
  <2>2. Len(sub) = n
    BY <1>1, <1>2, <1>3, <1>4
  <2> QED BY <2>1, <2>2
<1>6. rev = [i \in 1..n |-> sub[(n - i) + 1]]
  BY <1>2, <1>4, <1>5 DEF Reverse
<1>7. ASSUME NEW i \in 1..n PROVE rev[i] = Sequence[L - i + 1]
  <2>1. (n - i) + 1 \in 1..n /\ liveCycle + ((n - i) + 1) = L - i + 1
    BY <1>1, <1>3
  <2>2. sub[(n - i) + 1] = Sequence[liveCycle + ((n - i) + 1)]
    BY <1>5, <2>1
  <2> QED BY <1>6, <2>1, <2>2
<1> QED BY <1>2, <1>3, <1>6, <1>7

\* Backtracking ends before the flags became live.
LEMMA Backtracked ==
  ASSUME RoundInv, liveDef # NoUnit
  PROVE  Unwound(BacktrackBottomUp, liveCycle)
<1>1. /\ Sequence \in Seq(Numbered) /\ Len(Sequence) \in Nat /\ liveCycle \in Nat
      /\ liveCycle \in 0..(Len(Sequence) - 1) /\ Numbered \subseteq Nat
      /\ ReadyOK(Numbered, edges, Sequence, ready) /\ liveDef \in Nat
  <2>1. /\ NodesOK(Numbered, edges, writers, origin) /\ LiveOK(edges, Sequence, liveDef, liveCycle)
        /\ Sequence \in Seq(Numbered) /\ Len(Sequence) \in Nat /\ liveCycle \in Nat
        /\ ReadyOK(Numbered, edges, Sequence, ready) /\ liveDef \in Numbered \cup {NoUnit}
    BY RoundParts
  <2>2. Numbered \subseteq Nat
    BY <2>1 DEF NodesOK
  <2> QED BY <2>1, <2>2 DEF LiveOK, NoUnit
<1>2. PICK rev : rev = Reverse(SubSeq(Sequence, liveCycle + 1, Len(Sequence)))
  OBVIOUS
<1>3. PICK n \in Nat : n = Len(Sequence) - liveCycle
  BY <1>1
<1>4. /\ n > 0 /\ DOMAIN rev = 1..n
      /\ \A i \in 1..n : rev[i] = Sequence[Len(Sequence) - i + 1]
  BY <1>2, <1>3, UnwoundNodes
<1> DEFINE IsFold(p) == p = [S \in SUBSET DOMAIN rev |->
                IF S = {} THEN State ELSE Unscheduled(p[S \ {Max(S)}], rev[Max(S)])]
           Fold == CHOOSE p : IsFold(p)
<1>5. BacktrackBottomUp = Fold[DOMAIN rev]
  BY <1>2 DEF BacktrackBottomUp, FoldLeft, MapThenFoldSet
<1>6. PICK V : V = [ready : SUBSET Numbered, def : Nat, since : Nat]
  OBVIOUS
<1>7. State \in V
  BY <1>1, <1>6 DEF State, ReadyOK
<1>8. \A i \in 1..n : rev[i] \in Numbered
  BY <1>1, <1>3, <1>4
<1>9. \A i \in 1..n : \A m \in V : Unscheduled(m, rev[i]) \in V
  BY <1>6, <1>8, UnscheduledTyped
<1>10. PICK step : step = [x \in (1..n) \X V |-> Unscheduled(x[2], rev[x[1]])]
  OBVIOUS
<1>11. step \in [(1..n) \X V -> V]
  BY <1>9, <1>10
<1>12. PICK pick : pick = [S \in SUBSET (1..n) |-> Max(S)]
  OBVIOUS
<1>13. \A S \in SUBSET (1..n) : S # {} => pick[S] \in S
  BY <1>12, ExtremesAreIn
<1>14. PICK it \in [SUBSET (1..n) -> V] :
          \A S \in SUBSET (1..n) : it[S] = FoldedOver(it, State, step, pick, S)
  <2>1. Foldable(n, V, State, step, pick)
    BY <1>7, <1>11, <1>13 DEF Foldable
  <2>2. PICK it : IsFolded(it, n, V, State, step, pick)
    BY <2>1, StepsFold
  <2> QED BY <2>2 DEF IsFolded
<1>15. ASSUME NEW S \in SUBSET (1..n)
       PROVE  it[S] = IF S = {} THEN State ELSE Unscheduled(it[S \ {Max(S)}], rev[Max(S)])
  <2>1. CASE S = {}
    BY <1>14, <2>1 DEF FoldedOver
  <2>2. CASE S # {}
    <3>1. pick[S] = Max(S) /\ Max(S) \in 1..n
      BY <1>12, <1>13, <2>2
    <3>2. it[S \ {Max(S)}] \in V
      BY <1>14
    <3>3. step[<<Max(S), it[S \ {Max(S)}]>>] = Unscheduled(it[S \ {Max(S)}], rev[Max(S)])
      BY <1>10, <3>1, <3>2
    <3> QED BY <1>14, <2>2, <3>1, <3>3 DEF FoldedOver
  <2> QED BY <2>1, <2>2
<1>16. IsFold(it)
  BY <1>4, <1>14, <1>15
<1> HIDE DEF IsFold
<1>17. IsFold(Fold)
  BY <1>16
<1> HIDE DEF Fold
<1>18. ASSUME NEW S \in SUBSET (1..n)
       PROVE  Fold[S] = IF S = {} THEN State ELSE Unscheduled(Fold[S \ {Max(S)}], rev[Max(S)])
  BY <1>4, <1>17 DEF IsFold
<1>19. PICK Good : Good = {S \in SUBSET (1..n) :
          \A k \in 0..n : S = 1..k => Unwound(Fold[S], Len(Sequence) - k)}
  OBVIOUS
<1>20. {} \in Good
  <2>1. ASSUME NEW k \in 0..n, {} = 1..k PROVE k = 0
    BY <2>1
  <2>2. Unwound(State, Len(Sequence))
    <3>1. Below(Len(Sequence)) = ToSet(Sequence)
      BY <1>1 DEF Below, ToSet
    <3>2. /\ State = [ready |-> State.ready, def |-> State.def, since |-> State.since]
          /\ State.ready = ready /\ State.def = liveDef /\ State.since = liveCycle
      BY DEF State
    <3>3. Len(Sequence) # liveCycle
      BY <1>1
    <3> QED BY <1>1, <3>1, <3>2, <3>3 DEF Unwound, ReadyOK
  <2>3. Fold[{}] = State
    BY <1>18
  <2> QED BY <1>1, <1>19, <2>1, <2>2, <2>3
<1>21. ASSUME NEW S \in SUBSET (1..n), S # {} PROVE \E x \in S : S \ {x} \in Good => S \in Good
  <2>1. PICK x \in S : x = Max(S) /\ x \in 1..n /\ \A y \in S : y <= x
    BY <1>21, ExtremesAreIn
  <2>2. SUFFICES ASSUME S \ {x} \in Good PROVE S \in Good
    BY <2>1
  <2>3. SUFFICES ASSUME NEW k \in 0..n, S = 1..k PROVE Unwound(Fold[S], Len(Sequence) - k)
    BY <1>19
  <2>4. k = x /\ k \in 1..n
    <3>1. x \in 1..k
      BY <2>3
    <3>2. k \in S
      BY <2>3, <3>1
    <3> QED BY <2>1, <2>3, <3>1, <3>2
  <2>5. S \ {x} = 1..(k - 1) /\ k - 1 \in 0..n
    BY <2>3, <2>4
  <2>6. PICK j : j = Len(Sequence) - (k - 1)
    OBVIOUS
  <2>7. j \in 1..Len(Sequence) /\ liveCycle + 1 <= j /\ j = Len(Sequence) - k + 1 /\ j - 1 = Len(Sequence) - k
    BY <1>1, <1>3, <2>4, <2>6
  <2>8. Unwound(Fold[S \ {x}], j)
    BY <1>19, <2>2, <2>5, <2>6
  <2>9. rev[x] = Sequence[j]
    BY <1>4, <2>4, <2>7
  <2>10. Fold[S] = Unscheduled(Fold[S \ {x}], Sequence[j])
    BY <1>18, <1>21, <2>1, <2>9
  <2>11. Unwound(Unscheduled(Fold[S \ {x}], Sequence[j]), j - 1)
    BY <2>7, <2>8, UnwindsOne
  <2> QED BY <2>7, <2>10, <2>11
<1>22. 1..n \in Good
  BY <1>20, <1>21, FoldInduction
<1>23. Unwound(Fold[1..n], Len(Sequence) - n)
  BY <1>19, <1>22
<1>24. Len(Sequence) - n = liveCycle
  BY <1>1, <1>3
<1> QED BY <1>4, <1>5, <1>23, <1>24

\* F is E with an edge that holds try back until u is scheduled.
HeldBack(u, try, E, F) == F = E \cup {<<u, try, "artificial">>}

\* An edge without a value changes nothing about the flags.
LEMMA ArtificialEdge ==
  ASSUME NEW U, NEW E, NEW W, NEW o, NodesOK(U, E, W, o), NEW a \in U, NEW b \in U,
         NEW F, HeldBack(a, b, E, F)
  PROVE  /\ NodesOK(U, F, W, o)
         /\ \A d, s : FlagsEdge(d, s, F) <=> FlagsEdge(d, s, E)
         /\ FlagsOK(E, W, o) => FlagsOK(F, W, o)
         /\ \A seq : IntactIn(E, W, o, seq) => IntactIn(F, W, o, seq)
         /\ \A e \in F : e \in E \/ (e[1] = a /\ e[2] = b)
<1>1. \A d, s : FlagsEdge(d, s, F) <=> FlagsEdge(d, s, E)
  BY DEF FlagsEdge, HeldBack
<1>2. NodesOK(U, F, W, o)
  BY DEF NodesOK, EdgeKinds, HeldBack
<1>3. FlagsOK(E, W, o) => FlagsOK(F, W, o)
  BY <1>1 DEF FlagsOK
<1>4. \A seq : IntactIn(E, W, o, seq) => IntactIn(F, W, o, seq)
  BY <1>1 DEF IntactIn, WritesIn
<1>5. \A e \in F : e \in E \/ (e[1] = a /\ e[2] = b)
  BY DEF HeldBack
<1> QED BY <1>1, <1>2, <1>3, <1>4, <1>5

\* What is left of the schedule after backtracking.
LEMMA RestOfSchedule ==
  ASSUME RoundInv, liveDef # NoUnit, NEW seq, seq = SubSeq(Sequence, 1, liveCycle)
  PROVE  /\ seq \in Seq(Numbered) /\ Len(seq) = liveCycle
         /\ \A i \in 1..liveCycle : seq[i] = Sequence[i]
         /\ ToSet(seq) = Below(liveCycle)
         /\ \A d, s : FlagsEdge(d, s, edges) /\ s \in ToSet(seq) => d \in ToSet(seq)
         /\ ScheduleOK(Numbered, edges, seq, height)
         /\ IntactIn(edges, writers, origin, seq)
<1>1. /\ NodesOK(Numbered, edges, writers, origin) /\ FlagsOK(edges, writers, origin)
      /\ ScheduleOK(Numbered, edges, Sequence, height)
      /\ LiveOK(edges, Sequence, liveDef, liveCycle)
      /\ IntactIn(edges, writers, origin, Sequence)
      /\ Sequence \in Seq(Numbered) /\ Len(Sequence) \in Nat /\ liveCycle \in Nat
  BY RoundParts
<1>2. liveCycle \in 0..(Len(Sequence) - 1)
  BY <1>1 DEF LiveOK
<1>3. seq = [i \in 1..liveCycle |-> Sequence[i]]
  BY <1>1, <1>2
<1>4. /\ seq \in Seq(Numbered) /\ Len(seq) = liveCycle
      /\ \A i \in 1..liveCycle : seq[i] = Sequence[i] /\ i \in 1..Len(Sequence)
  BY <1>1, <1>2, <1>3
<1>5. ToSet(seq) = Below(liveCycle)
  BY <1>3 DEF ToSet, Below
<1>6. ASSUME NEW d, NEW s, FlagsEdge(d, s, edges), s \in ToSet(seq) PROVE d \in ToSet(seq)
  <2>1. PICK i \in 1..liveCycle : s = Sequence[i]
    BY <1>5, <1>6 DEF Below
  <2>2. d \in SUnits /\ i \in 1..Len(Sequence) /\ s \in SUnits
    BY <1>1, <1>4, <1>6, FlagsBetween
  <2>3. d \in ToSet(Sequence)
    BY <1>1, <1>6, <2>1, <2>2 DEF LiveOK
  <2>4. PICK j \in 1..Len(Sequence) : Sequence[j] = d
    BY <1>1, <2>3, InSchedule
  <2>5. ~(liveCycle + 1 <= j)
    BY <1>6, <2>2, <2>4, NobodyWrites
  <2>6. j \in 1..liveCycle
    BY <1>1, <2>5
  <2> QED BY <1>5, <2>4, <2>6 DEF Below
<1>7. ScheduleOK(Numbered, edges, seq, height)
  <2>1. ASSUME NEW e \in edges, NEW j \in 1..liveCycle, e[1] = seq[j]
        PROVE  \E i \in 1..(j - 1) : seq[i] = e[2]
    <3>1. PICK i \in 1..(j - 1) : Sequence[i] = e[2]
      BY <1>1, <1>4, <2>1 DEF ScheduleOK
    <3>2. i \in 1..liveCycle
      BY <1>1
    <3> QED BY <1>4, <3>1, <3>2
  <2>2. \A i \in 1..liveCycle : height[seq[i]] = i - 1
    BY <1>1, <1>4 DEF ScheduleOK
  <2> QED BY <1>1, <1>4, <2>1, <2>2 DEF ScheduleOK
<1>8. IntactIn(edges, writers, origin, seq)
  <2> SUFFICES ASSUME NEW d \in SUnits, NEW i \in 1..liveCycle, NEW j \in 1..liveCycle,
                      FlagsEdge(d, seq[i], edges), i < j,
                      WritesIn(seq[j], edges, writers, origin), seq[j] # d
               PROVE  \E k \in (i + 1)..(j - 1) : seq[k] = d
    BY <1>4 DEF IntactIn
  <2>1. PICK k \in (i + 1)..(j - 1) : Sequence[k] = d
    BY <1>1, <1>4 DEF IntactIn
  <2>2. k \in 1..liveCycle
    BY <1>1
  <2> QED BY <1>4, <2>1, <2>2
<1> QED BY <1>4, <1>5, <1>6, <1>7, <1>8

\* The rounds of the loop but those that create nodes.
LEMMA BacktrackKeeps ==
  ASSUME RoundInv, NEW try, Backtrack(try)
  PROVE  RoundInv'
<1>1. PICK left : left = BacktrackBottomUp
  OBVIOUS
<1>2. PICK r : r = [left EXCEPT !.ready = @ \ {OldSU}]
  OBVIOUS
<1>3. PICK E : E = edges \cup {<<OldSU, try, "artificial">>}
  OBVIOUS
<1>4. PICK seq : seq = SubSeq(Sequence, 1, liveCycle)
  OBVIOUS
<1>5. /\ AllDelayed /\ try \in ready
      /\ \E u \in (IF try \in r.ready THEN {try} ELSE r.ready \ ready) :
           ScheduleNode(u, liveCycle, seq, r, E)
      /\ UNCHANGED <<writers, way, origin, built>>
  BY <1>1, <1>2, <1>3, <1>4 DEF Backtrack
<1>6. PICK u \in r.ready : ScheduleNode(u, liveCycle, seq, r, E)
  BY <1>5
<1>7. liveDef # NoUnit
  BY <1>5 DEF AllDelayed, DelayForLiveRegs
<1>8. /\ NodesOK(Numbered, edges, writers, origin) /\ FlagsOK(edges, writers, origin)
      /\ Sequence \in Seq(Numbered) /\ Len(Sequence) \in Nat /\ liveCycle \in Nat
      /\ LiveOK(edges, Sequence, liveDef, liveCycle) /\ ReadyOK(Numbered, edges, Sequence, ready)
      /\ ScheduleOK(Numbered, edges, Sequence, height)
  BY RoundParts
<1>9. Unwound(left, liveCycle)
  BY <1>1, <1>7, Backtracked
<1>10. /\ r = [ready |-> left.ready \ {OldSU}, def |-> NoUnit, since |-> 0]
       /\ left.ready \subseteq Numbered /\ left.ready \cap Below(liveCycle) = {}
       /\ \A e \in edges : e[1] \in left.ready => e[2] \in Below(liveCycle)
  BY <1>2, <1>9 DEF Unwound
<1>11. /\ seq \in Seq(Numbered) /\ Len(seq) = liveCycle
       /\ \A i \in 1..liveCycle : seq[i] = Sequence[i]
       /\ ToSet(seq) = Below(liveCycle)
       /\ \A d, s : FlagsEdge(d, s, edges) /\ s \in ToSet(seq) => d \in ToSet(seq)
       /\ ScheduleOK(Numbered, edges, seq, height)
       /\ IntactIn(edges, writers, origin, seq)
  BY <1>4, <1>7, RestOfSchedule
<1>12. OldSU \in Numbered /\ OldSU \notin ToSet(seq) /\ try \in Numbered
  <2>1. liveCycle + 1 \in 1..Len(Sequence)
    BY <1>7, <1>8 DEF LiveOK
  <2>2. OldSU \in Numbered
    BY <1>8, <2>1, InSchedule DEF OldSU
  <2>3. OldSU \notin ToSet(seq)
    <3> SUFFICES ASSUME OldSU \in ToSet(seq) PROVE FALSE
      OBVIOUS
    <3>1. PICK i \in 1..liveCycle : OldSU = Sequence[i]
      BY <1>11 DEF Below
    <3>2. i \in 1..Len(Sequence) /\ i # liveCycle + 1
      BY <1>8, <2>1
    <3> QED BY <1>8, <2>1, <3>1, <3>2, StandsOnce DEF OldSU
  <2> QED BY <1>5, <1>8, <2>2, <2>3 DEF ReadyOK
<1>13. /\ NodesOK(Numbered, E, writers, origin) /\ FlagsOK(E, writers, origin)
       /\ \A d, s : FlagsEdge(d, s, E) <=> FlagsEdge(d, s, edges)
       /\ IntactIn(E, writers, origin, seq)
       /\ \A e \in E : e \in edges \/ (e[1] = OldSU /\ e[2] = try)
  <2>1. NodesOK(Numbered, edges, writers, origin) /\ HeldBack(OldSU, try, edges, E)
    BY <1>3, <1>8 DEF HeldBack
  <2>2. /\ NodesOK(Numbered, E, writers, origin)
        /\ \A d, s : FlagsEdge(d, s, E) <=> FlagsEdge(d, s, edges)
        /\ FlagsOK(edges, writers, origin) => FlagsOK(E, writers, origin)
        /\ \A t : IntactIn(edges, writers, origin, t) => IntactIn(E, writers, origin, t)
        /\ \A e \in E : e \in edges \/ (e[1] = OldSU /\ e[2] = try)
    BY <1>12, <2>1, ArtificialEdge
  <2> QED BY <1>8, <1>11, <2>2
<1>14. ScheduleOK(Numbered, E, seq, height)
  <2>1. \A i \in 1..Len(seq) : seq[i] # OldSU
    BY <1>11, <1>12, InSchedule
  <2> QED BY <1>11, <1>13, <2>1 DEF ScheduleOK
<1>15. ReadyOK(Numbered, E, seq, r.ready)
  BY <1>10, <1>11, <1>13 DEF ReadyOK
<1>16. LiveOK(E, seq, r.def, r.since)
  <2>1. \A i \in 1..Len(seq) : seq[i] \in ToSet(seq)
    BY <1>11, InSchedule
  <2> QED BY <1>10, <1>11, <1>13, <2>1 DEF LiveOK
<1>17. StateOK(Numbered, E, writers, origin, seq, height, r)
  <2>1. r.def = NoUnit /\ r.since = 0 /\ r = [ready |-> r.ready, def |-> r.def, since |-> r.since]
    BY <1>10
  <2> QED BY <1>13, <1>14, <1>15, <1>16, <2>1 DEF StateOK, RoundOK
<1>18. Fits(u, Numbered, E, writers, seq, r)
  BY <1>10, <1>15 DEF Fits, ReadyOK
<1>19. /\ RoundOK(Numbered, E, writers, origin, Sequence', height', ready', liveDef', liveCycle')
       /\ CurCycle' = Len(Sequence') /\ edges' = E
  BY <1>6, <1>11, <1>17, <1>18, ScheduleNodeKeeps
<1> QED BY <1>5, <1>19 DEF RoundInv, Numbered

LEMMA ScheduleReadyKeeps ==
  ASSUME RoundInv, NEW u, ScheduleReady(u)
  PROVE  RoundInv'
<1>1. /\ u \in ready /\ ~DelayForLiveRegs(u)
      /\ ScheduleNode(u, CurCycle, Sequence, State, edges)
      /\ UNCHANGED <<writers, way, origin, built>>
  BY DEF ScheduleReady
<1>2. CurCycle = Len(Sequence)
  BY DEF RoundInv
<1>3. /\ NodesOK(Numbered, edges, writers, origin) /\ ReadyOK(Numbered, edges, Sequence, ready)
  BY RoundParts
<1>4. /\ State = [ready |-> State.ready, def |-> State.def, since |-> State.since]
      /\ State.ready = ready /\ State.def = liveDef /\ State.since = liveCycle
  BY DEF State
<1>5. StateOK(Numbered, edges, writers, origin, Sequence, height, State)
  BY <1>4 DEF StateOK, RoundInv
<1>6. Fits(u, Numbered, edges, writers, Sequence, State)
  <2>1. u \in Numbered
    BY <1>1, <1>3 DEF ReadyOK
  <2>2. \A d : d \in FlagsPreds(u, edges) <=> FlagsEdge(d, u, edges)
    BY <1>3, <2>1, SuccsAre
  <2> QED BY <1>1, <1>3, <1>4, <2>1, <2>2 DEF Fits, ReadyOK, DelayForLiveRegs
<1>7. /\ RoundOK(Numbered, edges, writers, origin, Sequence', height', ready', liveDef', liveCycle')
      /\ CurCycle' = Len(Sequence') /\ edges' = edges
  BY <1>1, <1>2, <1>5, <1>6, ScheduleNodeKeeps
<1> QED BY <1>1, <1>7 DEF RoundInv, Numbered

-----------------------------------------------------------------------------
(***************************************************************************)
(* The rounds that create nodes.                                           *)
(***************************************************************************)
\* F is E after n has taken over the scheduled uses of d: neither the schedule
\* nor the ready nodes R notice.
Handed(E, F, d, n, R) ==
  /\ \A e \in F : e[1] \in placed \cup R => e \in E
  /\ \A x, s : s \in placed /\ FlagsEdge(x, s, F) =>
        (FlagsEdge(x, s, E) /\ x # d) \/ (x = n /\ FlagsEdge(d, s, E))
  /\ \A s \in placed : FlagsEdge(d, s, E) => FlagsEdge(n, s, F)

\* d is not ready, so nothing above it is; it reads no flags.
Waits(d, E, R) ==
  /\ d \notin placed \cup R
  /\ \A e \in E : e[2] = d => e[1] \notin placed \cup R
  /\ \A x : ~FlagsEdge(x, d, E)

\* n, which nobody knew, may be scheduled with the def it is itself.
Handable(n, F) ==
  /\ \A e \in F : e[1] = n => e[2] \in placed
  /\ \A x : ~FlagsEdge(x, n, F)

LEMMA LiveDefWaits ==
  ASSUME RoundInv, AllDelayed
  PROVE  /\ liveDef \in Numbered /\ liveDef # NoUnit
         /\ liveDef \in writers \/ origin[liveDef] = NoUnit
         /\ Waits(liveDef, edges, ready)
<1>1. liveDef # NoUnit
  BY DEF AllDelayed, DelayForLiveRegs
<1>2. /\ NodesOK(Numbered, edges, writers, origin) /\ FlagsOK(edges, writers, origin)
      /\ LiveOK(edges, Sequence, liveDef, liveCycle) /\ ReadyOK(Numbered, edges, Sequence, ready)
      /\ ScheduleOK(Numbered, edges, Sequence, height) /\ Sequence \in Seq(Numbered)
      /\ liveDef \in Numbered \cup {NoUnit}
  BY RoundParts
<1>3. liveDef \in Numbered /\ liveDef \notin placed
  BY <1>1, <1>2 DEF LiveOK, placed
<1>4. PICK s \in SUnits : FlagsEdge(liveDef, s, edges) /\ liveDef \in SUnits
  BY <1>1, <1>2, FlagsBetween DEF LiveOK
<1>5. liveDef \in writers \/ origin[liveDef] = NoUnit
  BY <1>2, <1>4 DEF FlagsOK
<1>6. \A x : ~FlagsEdge(x, liveDef, edges)
  BY <1>2, <1>4, FlagsBetween DEF FlagsOK
<1>7. liveDef \notin ready
  <2> SUFFICES ASSUME liveDef \in ready PROVE FALSE
    OBVIOUS
  <2>1. DelayForLiveRegs(liveDef)
    BY DEF AllDelayed
  <2>2. PICK d : d \in FlagsPreds(liveDef, edges)
    BY <2>1 DEF DelayForLiveRegs
  <2>3. FlagsEdge(d, liveDef, edges)
    BY <1>2, <1>3, <2>2, SuccsAre
  <2> QED BY <1>6, <2>3
<1>8. ASSUME NEW e \in edges, e[2] = liveDef, e[1] \in placed \cup ready PROVE FALSE
  <2>1. CASE e[1] \in ready
    BY <1>2, <1>3, <1>8, <2>1 DEF ReadyOK, placed
  <2>2. CASE e[1] \in placed
    <3>1. PICK j \in 1..Len(Sequence) : Sequence[j] = e[1]
      BY <1>2, <2>2, InSchedule DEF placed
    <3>2. \E i \in 1..Len(Sequence) : i < j /\ Sequence[i] = liveDef
      BY <1>2, <1>8, <3>1, UsesFirst
    <3> QED BY <1>2, <1>3, <3>2, InSchedule DEF placed
  <2> QED BY <1>8, <2>1, <2>2
<1> QED BY <1>1, <1>3, <1>5, <1>6, <1>7, <1>8 DEF Waits

\* Nodes the schedule does not know write nothing in it.
LEMMA IntactHanded ==
  ASSUME RoundInv, NEW U, NEW F, NEW W, NEW o, NEW n, NEW R, NEW d,
         d \notin placed, Handed(edges, F, d, n, R), n \notin Numbered,
         \A x \in Numbered : (x \in W => x \in writers) /\ o[x] = origin[x],
         NodesOK(U, F, W, o), d \in SUnits
  PROVE  IntactIn(F, W, o, Sequence)
<1>1. /\ IntactIn(edges, writers, origin, Sequence) /\ Sequence \in Seq(Numbered)
      /\ Len(Sequence) \in Nat
  BY RoundParts
<1>2. SUFFICES ASSUME NEW x \in SUnits, NEW i \in 1..Len(Sequence), NEW j \in 1..Len(Sequence),
                      FlagsEdge(x, Sequence[i], F), i < j,
                      WritesIn(Sequence[j], F, W, o), Sequence[j] # x
               PROVE  \E k \in (i + 1)..(j - 1) : Sequence[k] = x
  BY DEF IntactIn
<1>3. /\ Sequence[i] \in placed /\ Sequence[j] \in placed /\ Sequence[j] \in Numbered
  BY <1>1, InSchedule DEF placed
<1>4. WritesIn(Sequence[j], edges, writers, origin)
  <2>1. CASE Sequence[j] \in W
    BY <1>3, <2>1 DEF WritesIn
  <2>2. CASE Sequence[j] \notin W
    <3>1. PICK s \in SUnits : FlagsEdge(Sequence[j], s, F) /\ o[Sequence[j]] = NoUnit
      BY <1>2, <2>2 DEF WritesIn
    <3>2. <<Sequence[j], s, "flags">> \in edges
      <4>1. PICK e \in F : e = <<Sequence[j], s, "flags">>
        BY <3>1 DEF FlagsEdge
      <4>2. e[1] = Sequence[j]
        BY <4>1
      <4> QED BY <1>3, <4>1, <4>2 DEF Handed
    <3> QED BY <1>3, <3>1, <3>2 DEF WritesIn, FlagsEdge
  <2> QED BY <2>1, <2>2
<1>5. CASE FlagsEdge(x, Sequence[i], edges)
  BY <1>1, <1>2, <1>4, <1>5 DEF IntactIn
<1>6. CASE ~FlagsEdge(x, Sequence[i], edges)
  <2>1. FlagsEdge(d, Sequence[i], edges)
    BY <1>2, <1>3, <1>6 DEF Handed
  <2>2. PICK k \in (i + 1)..(j - 1) : Sequence[k] = d
    BY <1>1, <1>2, <1>3, <1>4, <2>1 DEF IntactIn
  <2>3. k \in 1..Len(Sequence)
    BY <1>1
  <2> QED BY <1>1, <2>2, <2>3, InSchedule DEF placed
<1> QED BY <1>5, <1>6

\* A round that hands the flags on to a new node schedules it.
LEMMA ResolveKeeps ==
  ASSUME RoundInv, NEW try, Stuck(try), NEW n, NEW F, Resolve(try, n, F),
         n \notin Numbered, n \in Numbered', Numbered \subseteq Numbered',
         NodesOK(Numbered', F, writers', origin'), FlagsOK(F, writers', origin'),
         \A x \in Numbered : (x \in writers' => x \in writers) /\ origin'[x] = origin[x],
         Handed(edges, F, liveDef, n, ready), Handable(n, F)
  PROVE  RoundInv'
<1>1. PICK U : U = Numbered'
  OBVIOUS
<1>2. PICK W : W = writers'
  OBVIOUS
<1>3. PICK o : o = origin'
  OBVIOUS
<1>4. PICK E : E = F \cup {<<try, n, "artificial">>}
  OBVIOUS
<1>5. PICK r : r = [ready |-> ready \ {try}, def |-> n, since |-> liveCycle]
  OBVIOUS
<1>7. /\ ScheduleNode(n, CurCycle, Sequence, r, E) /\ CurCycle = Len(Sequence)
      /\ 1..Size \subseteq Numbered
  BY <1>4, <1>5 DEF Resolve, RoundInv
<1>8. AllDelayed /\ try \in ready
  BY DEF Stuck
<1>9. /\ liveDef \in Numbered /\ liveDef # NoUnit /\ Waits(liveDef, edges, ready)
  BY <1>8, LiveDefWaits
<1>10. /\ ScheduleOK(Numbered, edges, Sequence, height)
       /\ ReadyOK(Numbered, edges, Sequence, ready)
       /\ LiveOK(edges, Sequence, liveDef, liveCycle) /\ liveCycle \in Nat
       /\ Sequence \in Seq(Numbered) /\ Len(Sequence) \in Nat
       /\ Numbered \in SUBSET SUnits
       /\ NodesOK(Numbered, edges, writers, origin)
  BY RoundParts
<1>11. IntactIn(F, W, o, Sequence)
  BY <1>1, <1>2, <1>3, <1>9, <1>10, IntactHanded DEF Waits
<1>12. try \in Numbered /\ try \notin placed /\ n \notin placed /\ n \in U /\ try \in U /\ try # n
  <2>1. n \notin placed
    BY <1>10, InSchedule DEF placed
  <2> QED BY <1>1, <1>8, <1>10, <2>1 DEF ReadyOK, placed
<1>13. /\ NodesOK(U, E, W, o) /\ FlagsOK(E, W, o) /\ IntactIn(E, W, o, Sequence)
       /\ \A d, s : FlagsEdge(d, s, E) <=> FlagsEdge(d, s, F)
       /\ \A e \in E : e \in F \/ (e[1] = try /\ e[2] = n)
  <2>1. NodesOK(U, F, W, o) /\ FlagsOK(F, W, o)
    BY <1>1, <1>2, <1>3
  <2>2. /\ NodesOK(U, E, W, o)
        /\ \A d, s : FlagsEdge(d, s, E) <=> FlagsEdge(d, s, F)
        /\ FlagsOK(F, W, o) => FlagsOK(E, W, o)
        /\ \A seq : IntactIn(F, W, o, seq) => IntactIn(E, W, o, seq)
        /\ \A e \in E : e \in F \/ (e[1] = try /\ e[2] = n)
    <3>1. NodesOK(U, F, W, o) /\ HeldBack(try, n, F, E)
      BY <1>4, <2>1 DEF HeldBack
    <3> QED BY <1>12, <3>1, ArtificialEdge
  <2> QED BY <1>11, <2>1, <2>2
<1>14. \A e \in E : e[1] \in placed => e \in edges
  BY <1>12, <1>13 DEF Handed
<1>15. \A e \in E : e[1] \in ready \ {try} => e \in edges
  BY <1>13 DEF Handed
<1>16. ScheduleOK(U, E, Sequence, height)
  <2>1. \A i \in 1..Len(Sequence) : Sequence[i] \in placed
    BY <1>10, InSchedule DEF placed
  <2>2. Sequence \in Seq(U)
    BY <1>1, <1>10
  <2> QED BY <1>10, <1>14, <2>1, <2>2 DEF ScheduleOK
<1>17. ReadyOK(U, E, Sequence, r.ready)
  BY <1>1, <1>5, <1>10, <1>15 DEF ReadyOK
<1>18. LiveOK(E, Sequence, n, liveCycle)
  <2>1. \A i \in 1..Len(Sequence) : Sequence[i] \in placed
    BY <1>10, InSchedule DEF placed
  <2>2. ASSUME NEW d \in SUnits, NEW i \in 1..Len(Sequence), FlagsEdge(d, Sequence[i], E)
        PROVE  d \in placed \/ (d = n /\ liveCycle < i)
    <3>1. FlagsEdge(d, Sequence[i], F) /\ Sequence[i] \in placed
      BY <1>13, <2>1, <2>2
    <3>2. CASE FlagsEdge(d, Sequence[i], edges) /\ d # liveDef
      BY <1>10, <3>2 DEF LiveOK, placed
    <3>3. CASE d = n /\ FlagsEdge(liveDef, Sequence[i], edges)
      BY <1>9, <1>10, <3>3 DEF LiveOK, placed
    <3> QED BY <3>1, <3>2, <3>3 DEF Handed
  <2>3. /\ liveCycle \in 0..(Len(Sequence) - 1)
        /\ FlagsEdge(liveDef, Sequence[liveCycle + 1], edges)
    BY <1>9, <1>10 DEF LiveOK
  <2>4. Sequence[liveCycle + 1] \in placed
    BY <1>10, <2>1, <2>3
  <2>5. FlagsEdge(n, Sequence[liveCycle + 1], E)
    BY <1>13, <2>3, <2>4 DEF Handed
  <2> QED BY <1>12, <2>2, <2>3, <2>5 DEF LiveOK, placed
<1>19. StateOK(U, E, W, o, Sequence, height, r)
  <2>1. /\ r.def = n /\ r.since = liveCycle
        /\ r = [ready |-> r.ready, def |-> r.def, since |-> r.since]
    BY <1>5
  <2> QED BY <1>10, <1>12, <1>13, <1>16, <1>17, <1>18, <2>1 DEF StateOK, RoundOK
<1>20. Fits(n, U, E, W, Sequence, r)
  <2>1. r.def = n
    BY <1>5
  <2>2. \A e \in E : e[1] = n => e[2] \in ToSet(Sequence)
    BY <1>12, <1>13 DEF Handable, placed
  <2> QED BY <1>12, <1>13, <2>1, <2>2 DEF Fits, Handable, placed
<1>21. /\ RoundOK(U, E, W, o, Sequence', height', ready', liveDef', liveCycle')
       /\ CurCycle' = Len(Sequence') /\ edges' = E
  BY <1>7, <1>19, <1>20, ScheduleNodeKeeps
<1> QED BY <1>1, <1>2, <1>3, <1>7, <1>21 DEF RoundInv

\* n gets the scheduled uses of d and waits for what d waits for.
CanClone(U, E, W, o, d, n, R, p) ==
  /\ U \in SUBSET SUnits /\ E \in SUBSET (U \X U \X EdgeKinds) /\ FlagsOK(E, W, o)
  /\ d \in U /\ Waits(d, E, R) /\ n \in SUnits /\ n \notin U
  /\ placed \in SUBSET U /\ R \in SUBSET U
  /\ \A x \in U : p[x] = o[x]

LEMMA ClonedHands ==
  ASSUME NEW U, NEW E, NEW W, NEW o, NEW d, NEW n, NEW R, NEW p,
         CanClone(U, E, W, o, d, n, R, p)
  PROVE  /\ Cloned(d, n, E) \in SUBSET ((U \cup {n}) \X (U \cup {n}) \X EdgeKinds)
         /\ FlagsOK(Cloned(d, n, E), W \cup {n}, p)
         /\ Handed(E, Cloned(d, n, E), d, n, R)
         /\ Handable(n, Cloned(d, n, E))
<1> USE DEF CanClone
<1>1. PICK F : F = Cloned(d, n, E)
  OBVIOUS
<1>2. \A e \in E : e = <<e[1], e[2], e[3]>> /\ e[1] \in U /\ e[2] \in U /\ e[3] \in EdgeKinds
  BY EdgeIs
<1>3. /\ \A e : e \in F =>
            \/ e \in E /\ (e[1] # d \/ e[2] \notin placed \/ e[3] = "artificial")
            \/ \E f \in E : /\ e = <<n, f[2], f[3]>>
                            /\ f[1] = d /\ f[3] # "artificial" /\ f[2] \in placed
            \/ \E f \in E : e = <<f[1], n, f[3]>> /\ f[2] = d
      /\ \A f \in E : f[1] = d /\ f[3] # "artificial" /\ f[2] \in placed
                       => <<n, f[2], f[3]>> \in F
  BY <1>1 DEF Cloned, MovedSuccs
<1>4. F \in SUBSET ((U \cup {n}) \X (U \cup {n}) \X EdgeKinds)
  <2>1. ASSUME NEW e \in F PROVE e \in (U \cup {n}) \X (U \cup {n}) \X EdgeKinds
    BY <1>2, <1>3
  <2> QED BY <2>1
<1>5. ASSUME NEW x, NEW s, FlagsEdge(x, s, F)
      PROVE  \/ FlagsEdge(x, s, E) /\ (x # d \/ s \notin placed)
             \/ x = n /\ FlagsEdge(d, s, E) /\ s \in placed
  <2>1. PICK e \in F : e = <<x, s, "flags">>
    BY <1>5 DEF FlagsEdge
  <2>2. e[1] = x /\ e[2] = s /\ e[3] = "flags"
    BY <2>1
  <2>3. CASE e \in E /\ (e[1] # d \/ e[2] \notin placed \/ e[3] = "artificial")
    BY <2>1, <2>2, <2>3 DEF FlagsEdge
  <2>4. CASE \E f \in E : /\ e = <<n, f[2], f[3]>>
                          /\ f[1] = d /\ f[3] # "artificial" /\ f[2] \in placed
    <3>1. PICK f \in E : /\ e = <<n, f[2], f[3]>>
                         /\ f[1] = d /\ f[2] \in placed
      BY <2>4
    <3>2. f = <<d, s, "flags">> /\ s \in placed /\ x = n
      BY <1>2, <2>2, <3>1
    <3> QED BY <3>2 DEF FlagsEdge
  <2>5. CASE \E f \in E : e = <<f[1], n, f[3]>> /\ f[2] = d
    <3>1. PICK f \in E : e = <<f[1], n, f[3]>> /\ f[2] = d
      BY <2>5
    <3>2. f = <<x, d, "flags">>
      BY <1>2, <2>2, <3>1
    <3> QED BY <3>2 DEF Waits, FlagsEdge
  <2> QED BY <1>3, <2>3, <2>4, <2>5
<1>6. \A x, s : FlagsEdge(x, s, E) => x \in U /\ s \in U /\ x \in SUnits /\ s \in SUnits
  BY DEF FlagsEdge
<1>7. FlagsOK(F, W \cup {n}, p)
  <2> SUFFICES ASSUME NEW x \in SUnits, NEW s \in SUnits, FlagsEdge(x, s, F)
               PROVE  /\ x \in W \cup {n} \/ p[x] = NoUnit
                      /\ s \notin W \cup {n}
                      /\ \A y \in SUnits : ~FlagsEdge(s, y, F)
                      /\ \A y \in SUnits : FlagsEdge(y, s, F) => y = x
    BY DEF FlagsOK
  <2>1. PICK z \in SUnits : FlagsEdge(z, s, E) /\ s \in U /\ s # n
    BY <1>5, <1>6
  <2>2. /\ s \notin W /\ \A y \in SUnits : ~FlagsEdge(s, y, E)
        /\ \A y \in SUnits : FlagsEdge(y, s, E) => y = z
    BY <2>1 DEF FlagsOK
  <2>3. x \in W \cup {n} \/ p[x] = NoUnit
    <3>1. CASE FlagsEdge(x, s, E)
      BY <1>6, <3>1 DEF FlagsOK
    <3> QED BY <1>5, <3>1
  <2>4. \A y \in SUnits : ~FlagsEdge(s, y, F)
    BY <1>5, <2>1, <2>2
  <2>5. ASSUME NEW y \in SUnits, FlagsEdge(y, s, F) PROVE y = x
    BY <1>5, <1>6, <2>1, <2>2, <2>5
  <2> QED BY <2>1, <2>2, <2>3, <2>4, <2>5
<1>8. ASSUME NEW e \in F, e[1] \in placed \cup R PROVE e \in E
  <2>1. e[1] # n
    BY <1>8
  <2>2. CASE \E f \in E : e = <<f[1], n, f[3]>> /\ f[2] = d
    BY <1>8, <2>2 DEF Waits
  <2> QED BY <1>3, <2>1, <2>2
<1>9. ASSUME NEW s \in placed, FlagsEdge(d, s, E) PROVE FlagsEdge(n, s, F)
  <2>1. PICK f \in E : f = <<d, s, "flags">>
    BY <1>9 DEF FlagsEdge
  <2>2. f[1] = d /\ f[2] = s /\ f[3] = "flags"
    BY <2>1
  <2> QED BY <1>3, <2>2 DEF FlagsEdge
<1>10. Handed(E, F, d, n, R)
  BY <1>5, <1>8, <1>9 DEF Handed
<1>11. Handable(n, F)
  <2>1. ASSUME NEW e \in F, e[1] = n PROVE e[2] \in placed
    <3>1. CASE \E f \in E : e = <<f[1], n, f[3]>> /\ f[2] = d
      BY <1>2, <2>1, <3>1
    <3>2. CASE \E f \in E : e = <<n, f[2], f[3]>> /\ f[2] \in placed
      BY <3>2
    <3>3. e \notin E
      BY <1>2, <2>1
    <3> QED BY <1>3, <3>1, <3>2, <3>3
  <2>2. ASSUME NEW x, FlagsEdge(x, n, F) PROVE FALSE
    BY <1>5, <1>6, <2>2
  <2> QED BY <2>1, <2>2 DEF Handable
<1> QED BY <1>1, <1>4, <1>7, <1>10, <1>11

\* n gets the values of d, the load m what controls it.
CanUnfold(U, E, W, o, d, m, n, R, p) ==
  /\ U \in SUBSET SUnits /\ E \in SUBSET (U \X U \X EdgeKinds) /\ FlagsOK(E, W, o)
  /\ d \in U /\ Waits(d, E, R)
  /\ m \in SUnits /\ m \notin U /\ n \in SUnits /\ n \notin U /\ m # n
  /\ placed \in SUBSET U /\ R \in SUBSET U
  /\ \A x \in U : p[x] = o[x]

LEMMA UnfoldedHands ==
  ASSUME NEW U, NEW E, NEW W, NEW o, NEW d, NEW m, NEW n, NEW A, NEW R, NEW p,
         CanUnfold(U, E, W, o, d, m, n, R, p)
  PROVE  /\ Unfolded(d, m, n, A, E) \in
              SUBSET ((U \cup {m, n}) \X (U \cup {m, n}) \X EdgeKinds)
         /\ FlagsOK(Unfolded(d, m, n, A, E), W \cup {n}, p)
         /\ Handed(E, Unfolded(d, m, n, A, E), d, n, R)
         /\ Waits(n, Unfolded(d, m, n, A, E), R)
<1> USE DEF CanUnfold
<1>1. PICK F : F = Unfolded(d, m, n, A, E)
  OBVIOUS
<1>2. \A e \in E : e = <<e[1], e[2], e[3]>> /\ e[1] \in U /\ e[2] \in U /\ e[3] \in EdgeKinds
  BY EdgeIs
<1>3. /\ \A e : e \in F =>
            \/ e \in E /\ e[1] # d /\ e[2] # d
            \/ \E f \in E : f[2] = d /\ e[1] = f[1] /\ e[2] \in {m, n}
                             /\ e[3] = f[3] /\ e = <<e[1], e[2], e[3]>>
            \/ \E f \in E : /\ f[1] = d /\ e[2] = f[2] /\ e[3] = f[3] /\ e = <<e[1], e[2], e[3]>>
                            /\ e[1] = n \/ (e[1] = m /\ Control(f))
            \/ e = <<m, n, "data">>
      /\ \A f \in E : f[1] = d /\ ~Control(f) => <<n, f[2], f[3]>> \in F
  <2>1. ASSUME NEW e \in F
        PROVE \/ e \in E /\ e[1] # d /\ e[2] # d
              \/ \E f \in E : f[2] = d /\ e[1] = f[1] /\ e[2] \in {m, n}
                               /\ e[3] = f[3] /\ e = <<e[1], e[2], e[3]>>
              \/ \E f \in E : /\ f[1] = d /\ e[2] = f[2] /\ e[3] = f[3] /\ e = <<e[1], e[2], e[3]>>
                              /\ e[1] = n \/ (e[1] = m /\ Control(f))
              \/ e = <<m, n, "data">>
    <3>1. CASE \E f \in E : f[2] = d /\ e = <<f[1], IF Control(f) \/ f[1] \in A THEN m ELSE n, f[3]>>
      BY <3>1
    <3>2. CASE \E f \in E : f[1] = d /\ e = <<IF Control(f) THEN m ELSE n, f[2], f[3]>>
      BY <3>2
    <3>3. CASE e \in {f \in E : d \notin {f[1], f[2]}}
      BY <3>3
    <3>4. CASE e = <<m, n, "data">>
      BY <3>4
    <3>5. \/ e \in {f \in E : d \notin {f[1], f[2]}}
          \/ \E f \in E : f[2] = d /\ e = <<f[1], IF Control(f) \/ f[1] \in A THEN m ELSE n, f[3]>>
          \/ \E f \in E : f[1] = d /\ e = <<IF Control(f) THEN m ELSE n, f[2], f[3]>>
          \/ e = <<m, n, "data">>
      BY <1>1, <2>1 DEF Unfolded
    <3> QED BY <3>1, <3>2, <3>3, <3>4, <3>5
  <2>2. ASSUME NEW f \in E, f[1] = d, ~Control(f) PROVE <<n, f[2], f[3]>> \in F
    <3>1. <<IF Control(f) THEN m ELSE n, f[2], f[3]>> \in F
      BY <1>1, <2>2 DEF Unfolded
    <3> QED BY <2>2, <3>1
  <2> QED BY <2>1, <2>2
<1>4. F \in SUBSET ((U \cup {m, n}) \X (U \cup {m, n}) \X EdgeKinds)
  <2>1. ASSUME NEW e \in F PROVE e \in (U \cup {m, n}) \X (U \cup {m, n}) \X EdgeKinds
    <3>1. CASE e \in E
      BY <1>2, <3>1
    <3>2. CASE e = <<m, n, "data">>
      BY <3>2 DEF EdgeKinds
    <3>3. CASE e = <<e[1], e[2], e[3]>> /\ e[1] \in U \cup {m, n} /\ e[2] \in U \cup {m, n}
                 /\ e[3] \in EdgeKinds
      BY <3>3
    <3> QED BY <1>2, <1>3, <2>1, <3>1, <3>2, <3>3
  <2> QED BY <2>1
<1>5. ASSUME NEW x, NEW s, FlagsEdge(x, s, F)
      PROVE  (FlagsEdge(x, s, E) /\ x # d) \/ (x = n /\ FlagsEdge(d, s, E))
  <2>1. PICK e \in F : e = <<x, s, "flags">>
    BY <1>5 DEF FlagsEdge
  <2>2. e[1] = x /\ e[2] = s /\ e[3] = "flags"
    BY <2>1
  <2>3. CASE e \in E /\ e[1] # d
    BY <2>1, <2>2, <2>3 DEF FlagsEdge
  <2>4. CASE \E f \in E : f[2] = d /\ e[1] = f[1] /\ e[3] = f[3]
    <3>1. PICK f \in E : f[2] = d /\ e[1] = f[1] /\ e[3] = f[3]
      BY <2>4
    <3>2. f = <<x, d, "flags">>
      BY <1>2, <2>2, <3>1
    <3> QED BY <3>2 DEF Waits, FlagsEdge
  <2>5. CASE \E f \in E : /\ f[1] = d /\ e[2] = f[2] /\ e[3] = f[3]
                          /\ e[1] = n \/ (e[1] = m /\ Control(f))
    <3>1. PICK f \in E : /\ f[1] = d /\ e[2] = f[2] /\ e[3] = f[3]
                         /\ e[1] = n \/ (e[1] = m /\ Control(f))
      BY <2>5
    <3>2. f = <<d, s, "flags">>
      BY <1>2, <2>2, <3>1
    <3>3. ~Control(f)
      BY <2>2, <3>1 DEF Control
    <3> QED BY <2>2, <3>1, <3>2, <3>3 DEF FlagsEdge
  <2>6. e # <<m, n, "data">>
    BY <2>1
  <2> QED BY <1>3, <2>3, <2>4, <2>5, <2>6
<1>6. \A x, s : FlagsEdge(x, s, E) => x \in U /\ s \in U /\ x \in SUnits /\ s \in SUnits
  BY DEF FlagsEdge
<1>7. FlagsOK(F, W \cup {n}, p)
  <2> SUFFICES ASSUME NEW x \in SUnits, NEW s \in SUnits, FlagsEdge(x, s, F)
               PROVE  /\ x \in W \cup {n} \/ p[x] = NoUnit
                      /\ s \notin W \cup {n}
                      /\ \A y \in SUnits : ~FlagsEdge(s, y, F)
                      /\ \A y \in SUnits : FlagsEdge(y, s, F) => y = x
    BY DEF FlagsOK
  <2>1. PICK z \in SUnits : FlagsEdge(z, s, E) /\ s \in U /\ s # n
    BY <1>5, <1>6
  <2>2. /\ s \notin W /\ \A y \in SUnits : ~FlagsEdge(s, y, E)
        /\ \A y \in SUnits : FlagsEdge(y, s, E) => y = z
    BY <2>1 DEF FlagsOK
  <2>3. x \in W \cup {n} \/ p[x] = NoUnit
    <3>1. CASE FlagsEdge(x, s, E)
      BY <1>6, <3>1 DEF FlagsOK
    <3> QED BY <1>5, <3>1
  <2>4. \A y \in SUnits : ~FlagsEdge(s, y, F)
    BY <1>5, <2>1, <2>2
  <2>5. ASSUME NEW y \in SUnits, FlagsEdge(y, s, F) PROVE y = x
    BY <1>5, <1>6, <2>1, <2>2, <2>5
  <2> QED BY <2>1, <2>2, <2>3, <2>4, <2>5
<1>8. ASSUME NEW e \in F, e[1] \in placed \cup R PROVE e \in E
  <2>1. e[1] # n /\ e[1] # m /\ e # <<m, n, "data">>
    BY <1>8
  <2>2. CASE \E f \in E : f[2] = d /\ e[1] = f[1]
    BY <1>8, <2>2 DEF Waits
  <2> QED BY <1>3, <2>1, <2>2
<1>9. ASSUME NEW s \in placed, FlagsEdge(d, s, E) PROVE FlagsEdge(n, s, F)
  <2>1. PICK f \in E : f = <<d, s, "flags">>
    BY <1>9 DEF FlagsEdge
  <2>2. f[1] = d /\ f[2] = s /\ f[3] = "flags" /\ ~Control(f)
    BY <2>1 DEF Control
  <2> QED BY <1>3, <2>2 DEF FlagsEdge
<1>10. Handed(E, F, d, n, R)
  BY <1>5, <1>8, <1>9 DEF Handed
<1>11. Waits(n, F, R)
  <2>1. ASSUME NEW e \in F, e[2] = n PROVE e[1] \notin placed \cup R
    <3>1. e \notin E
      BY <1>2, <2>1
    <3>2. CASE \E f \in E : f[2] = d /\ e[1] = f[1]
      BY <3>2 DEF Waits
    <3>3. CASE \E f \in E : e[2] = f[2]
      BY <1>2, <2>1, <3>3
    <3>4. CASE e = <<m, n, "data">>
      BY <3>4
    <3> QED BY <1>3, <3>1, <3>2, <3>3, <3>4
  <2>2. ASSUME NEW x, FlagsEdge(x, n, F) PROVE FALSE
    BY <1>5, <1>6, <2>2
  <2> QED BY <2>1, <2>2 DEF Waits
<1> QED BY <1>1, <1>4, <1>7, <1>10, <1>11

\* The flags of d go through m to the scheduled uses, which n now gives them to.
CanCopy(U, E, W, o, d, m, n, try, R, p) ==
  /\ U \in SUBSET SUnits /\ E \in SUBSET (U \X U \X EdgeKinds)
  /\ W \subseteq U /\ FlagsOK(E, W, o)
  /\ d \in U /\ (d \in W \/ o[d] = NoUnit) /\ Waits(d, E, R)
  /\ m \notin U /\ m \in SUnits /\ n \notin U /\ n \in SUnits /\ m # n /\ try \in U
  /\ placed \in SUBSET U /\ R \in SUBSET U
  /\ (\A x \in U : p[x] = o[x]) /\ p[n] = NoUnit

LEMMA CopiedHands ==
  ASSUME NEW U, NEW E, NEW W, NEW o, NEW d, NEW m, NEW n, NEW try, NEW R, NEW p, CanCopy(U, E, W, o, d, m, n, try, R, p)
  PROVE  /\ Copied(d, m, n, try, E) \in
              SUBSET ((U \cup {m, n}) \X (U \cup {m, n}) \X EdgeKinds)
         /\ FlagsOK(Copied(d, m, n, try, E), W, p)
         /\ Handed(E, Copied(d, m, n, try, E), d, n, R)
         /\ Handable(n, Copied(d, m, n, try, E))
<1> USE DEF CanCopy
<1>1. PICK F : F = Copied(d, m, n, try, E)
  OBVIOUS
<1>2. \A e \in E : e = <<e[1], e[2], e[3]>> /\ e[1] \in U /\ e[2] \in U /\ e[3] \in EdgeKinds
  BY EdgeIs
<1>3. /\ \A e : e \in F =>
            \/ e \in E /\ (e[1] # d \/ e[2] \notin placed \/ e[3] = "artificial")
            \/ \E f \in E : /\ e = <<n, f[2], f[3]>>
                            /\ f[1] = d /\ f[3] # "artificial" /\ f[2] \in placed
            \/ e \in {<<d, m, "flags">>, <<m, n, "data">>, <<m, try, "artificial">>}
      /\ \A f \in E : f[1] = d /\ f[3] # "artificial" /\ f[2] \in placed
                       => <<n, f[2], f[3]>> \in F
  BY <1>1 DEF Copied, MovedSuccs
<1>4. F \in SUBSET ((U \cup {m, n}) \X (U \cup {m, n}) \X EdgeKinds)
  <2>1. ASSUME NEW e \in F PROVE e \in (U \cup {m, n}) \X (U \cup {m, n}) \X EdgeKinds
    BY <1>2, <1>3 DEF EdgeKinds
  <2> QED BY <2>1
<1>5. ASSUME NEW x, NEW s, FlagsEdge(x, s, F)
      PROVE  \/ FlagsEdge(x, s, E) /\ (x # d \/ s \notin placed)
             \/ x = n /\ FlagsEdge(d, s, E) /\ s \in placed
             \/ x = d /\ s = m
  <2>1. PICK e \in F : e = <<x, s, "flags">>
    BY <1>5 DEF FlagsEdge
  <2>2. e[1] = x /\ e[2] = s /\ e[3] = "flags"
    BY <2>1
  <2>3. CASE e \in E /\ (e[1] # d \/ e[2] \notin placed \/ e[3] = "artificial")
    BY <2>1, <2>2, <2>3 DEF FlagsEdge
  <2>4. CASE \E f \in E : /\ e = <<n, f[2], f[3]>>
                          /\ f[1] = d /\ f[3] # "artificial" /\ f[2] \in placed
    <3>1. PICK f \in E : /\ e = <<n, f[2], f[3]>>
                         /\ f[1] = d /\ f[2] \in placed
      BY <2>4
    <3>2. f = <<d, s, "flags">> /\ s \in placed /\ x = n
      BY <1>2, <2>2, <3>1
    <3> QED BY <3>2 DEF FlagsEdge
  <2>5. CASE e \in {<<d, m, "flags">>, <<m, n, "data">>, <<m, try, "artificial">>}
    BY <2>1, <2>5
  <2> QED BY <1>3, <2>3, <2>4, <2>5
<1>6. \A x, s : FlagsEdge(x, s, E) => x \in U /\ s \in U /\ x \in SUnits /\ s \in SUnits
  BY DEF FlagsEdge
<1>7. FlagsOK(F, W, p)
  <2> SUFFICES ASSUME NEW x \in SUnits, NEW s \in SUnits, FlagsEdge(x, s, F)
               PROVE  /\ x \in W \/ p[x] = NoUnit
                      /\ s \notin W
                      /\ \A y \in SUnits : ~FlagsEdge(s, y, F)
                      /\ \A y \in SUnits : FlagsEdge(y, s, F) => y = x
    BY DEF FlagsOK
  <2>1. CASE s = m
    <3>1. x = d
      BY <1>5, <1>6, <2>1
    <3> QED BY <1>5, <1>6, <2>1, <3>1
  <2>2. CASE s # m
    <3>1. PICK z \in SUnits : FlagsEdge(z, s, E) /\ s \in U /\ s # n
      BY <1>5, <1>6, <2>2
    <3>2. /\ s \notin W /\ \A y \in SUnits : ~FlagsEdge(s, y, E)
          /\ \A y \in SUnits : FlagsEdge(y, s, E) => y = z
      BY <3>1 DEF FlagsOK
    <3>3. x \in W \/ p[x] = NoUnit
      <4>1. CASE FlagsEdge(x, s, E)
        BY <1>6, <4>1 DEF FlagsOK
      <4> QED BY <1>5, <2>2, <4>1
    <3>4. s # d
      BY <3>1 DEF Waits
    <3>5. \A y \in SUnits : ~FlagsEdge(s, y, F)
      BY <1>5, <3>1, <3>2, <3>4
    <3>6. ASSUME NEW y \in SUnits, FlagsEdge(y, s, F) PROVE y = x
      BY <1>5, <1>6, <2>2, <3>1, <3>2, <3>6
    <3> QED BY <3>2, <3>3, <3>5, <3>6
  <2> QED BY <2>1, <2>2
<1>8. ASSUME NEW e \in F, e[1] \in placed \cup R PROVE e \in E
  <2>1. e[1] # n /\ e[1] # m /\ e[1] # d
    BY <1>8 DEF Waits
  <2> QED BY <1>3, <2>1
<1>9. ASSUME NEW s \in placed, FlagsEdge(d, s, E) PROVE FlagsEdge(n, s, F)
  <2>1. PICK f \in E : f = <<d, s, "flags">>
    BY <1>9 DEF FlagsEdge
  <2>2. f[1] = d /\ f[2] = s /\ f[3] = "flags"
    BY <2>1
  <2> QED BY <1>3, <2>2 DEF FlagsEdge
<1>10. Handed(E, F, d, n, R)
  BY <1>5, <1>8, <1>9 DEF Handed
<1>11. Handable(n, F)
  <2>1. ASSUME NEW e \in F, e[1] = n PROVE e[2] \in placed
    <3>1. CASE e \in {<<d, m, "flags">>, <<m, n, "data">>, <<m, try, "artificial">>}
      BY <2>1, <3>1
    <3>2. CASE \E f \in E : e = <<n, f[2], f[3]>> /\ f[2] \in placed
      BY <3>2
    <3>3. e \notin E
      BY <1>2, <2>1
    <3> QED BY <1>3, <3>1, <3>2, <3>3
  <2>2. ASSUME NEW x, FlagsEdge(x, n, F) PROVE FALSE
    BY <1>5, <1>6, <2>2
  <2> QED BY <2>1, <2>2 DEF Handable
<1> QED BY <1>1, <1>4, <1>7, <1>10, <1>11

LEMMA FreshNumbers ==
  ASSUME RoundInv
  PROVE  \E k \in Nat : Numbered = 1..k /\ \A i \in Nat : Fresh(i) = k + i
<1>1. PICK k \in Nat : Numbered = 1..k
  BY RoundParts DEF NodesOK
<1>2. Cardinality(Numbered) = k
  BY <1>1, FS_Interval
<1> QED BY <1>1, <1>2 DEF Fresh

\* The new nodes S, of which W write the flags.
LEMMA CreateNodes ==
  ASSUME RoundInv, NEW S, NEW W, W \subseteq S, NEW f, \A u \in S : f[u] \in Int,
         Create(S, W, f), S \cap Numbered = {}, \E k \in Nat : Numbered \cup S = 1..k,
         NEW F, F \in SUBSET ((Numbered \cup S) \X (Numbered \cup S) \X EdgeKinds)
  PROVE  /\ Numbered' = Numbered \cup S /\ writers' = writers \cup W
         /\ \A x \in Numbered : origin'[x] = origin[x]
         /\ \A x \in S : origin'[x] = f[x]
         /\ NodesOK(Numbered', F, writers', origin')
<1>1. /\ S \subseteq SUnits /\ writers' = writers \cup W
      /\ origin' = [u \in Numbered \cup S |-> IF u \in S THEN f[u] ELSE origin[u]]
  BY DEF Create
<1>2. NodesOK(Numbered, edges, writers, origin)
  BY RoundParts
<1>3. Numbered' = Numbered \cup S
  BY <1>1 DEF Numbered
<1>4. /\ \A x \in Numbered : origin'[x] = origin[x]
      /\ \A x \in S : origin'[x] = f[x]
  BY <1>1
<1>5. origin' \in [Numbered \cup S -> Int]
  BY <1>1, <1>2 DEF NodesOK
<1>6. NodesOK(Numbered', F, writers', origin')
  BY <1>1, <1>2, <1>3, <1>5 DEF NodesOK
<1> QED BY <1>1, <1>3, <1>4, <1>6

LEMMA CloneKeeps ==
  ASSUME RoundInv, NEW try, Clone(try)
  PROVE  RoundInv'
<1>1. PICK n : n = Fresh(1)
  OBVIOUS
<1>2. PICK F : F = Cloned(liveDef, n, edges)
  OBVIOUS
<1>3. PICK f : f = [u \in {n} |-> origin[liveDef]]
  OBVIOUS
<1>4. Stuck(try) /\ Create({n}, {n}, f) /\ Resolve(try, n, F)
  BY <1>1, <1>2, <1>3 DEF Clone
<1>5. PICK k \in Nat : Numbered = 1..k /\ n = k + 1
  BY <1>1, FreshNumbers
<1>6. /\ n \notin Numbered /\ {n} \cap Numbered = {} /\ n \in SUnits
      /\ \E j \in Nat : Numbered \cup {n} = 1..j
  <2>1. Numbered \cup {n} = 1..(k + 1)
    BY <1>5
  <2>2. n \in SUnits
    BY <1>4 DEF Create
  <2> QED BY <1>5, <2>1, <2>2
<1>7. /\ liveDef \in Numbered /\ Waits(liveDef, edges, ready)
      /\ placed \in SUBSET Numbered /\ ready \in SUBSET Numbered
      /\ FlagsOK(edges, writers, origin) /\ Numbered \in SUBSET SUnits
      /\ edges \in SUBSET (Numbered \X Numbered \X EdgeKinds)
      /\ origin \in [Numbered -> Int]
  <2>1. liveDef \in Numbered /\ Waits(liveDef, edges, ready)
    BY <1>4, LiveDefWaits DEF Stuck
  <2>2. placed \in SUBSET Numbered
    BY RoundParts, InSchedule DEF placed
  <2>3. ready \in SUBSET Numbered
    BY RoundParts DEF ReadyOK
  <2>4. origin \in [Numbered -> Int]
    BY RoundParts DEF NodesOK
  <2> QED BY <2>1, <2>2, <2>3, <2>4, RoundParts
<1>8. PICK p : p = origin'
  OBVIOUS
<1>9. \A x \in Numbered : p[x] = origin[x]
  BY <1>4, <1>6, <1>8 DEF Create
<1>10. /\ F \in SUBSET ((Numbered \cup {n}) \X (Numbered \cup {n}) \X EdgeKinds)
       /\ FlagsOK(F, writers \cup {n}, p)
       /\ Handed(edges, F, liveDef, n, ready)
       /\ Handable(n, F)
  <2>1. CanClone(Numbered, edges, writers, origin, liveDef, n, ready, p)
    BY <1>6, <1>7, <1>9 DEF CanClone
  <2> QED BY <1>2, <2>1, ClonedHands
<1>11. f[n] \in Int
  BY <1>3, <1>7
<1>12. /\ Numbered' = Numbered \cup {n} /\ writers' = writers \cup {n}
       /\ \A x \in Numbered : origin'[x] = origin[x]
       /\ NodesOK(Numbered', F, writers', origin')
  BY <1>4, <1>6, <1>10, <1>11, CreateNodes
<1>13. \A x \in Numbered : (x \in writers' => x \in writers) /\ origin'[x] = origin[x]
  BY <1>6, <1>12
<1> QED BY <1>4, <1>6, <1>8, <1>10, <1>12, <1>13, ResolveKeeps

LEMMA CopyKeeps ==
  ASSUME RoundInv, NEW try, Copy(try)
  PROVE  RoundInv'
<1>1. PICK m : m = Fresh(1)
  OBVIOUS
<1>2. PICK n : n = Fresh(2)
  OBVIOUS
<1>3. PICK F : F = Copied(liveDef, m, n, try, edges)
  OBVIOUS
<1>4. PICK f : f = [u \in {m, n} |-> NoUnit]
  OBVIOUS
<1>5. Stuck(try) /\ Create({m, n}, {}, f) /\ Resolve(try, n, F)
  BY <1>1, <1>2, <1>3, <1>4 DEF Copy
<1>6. PICK k \in Nat : Numbered = 1..k /\ m = k + 1 /\ n = k + 2
  BY <1>1, <1>2, FreshNumbers
<1>7. /\ m \notin Numbered /\ n \notin Numbered /\ m # n /\ {m, n} \cap Numbered = {}
      /\ m \in SUnits /\ n \in SUnits /\ \E j \in Nat : Numbered \cup {m, n} = 1..j
  <2>1. Numbered \cup {m, n} = 1..(k + 2)
    BY <1>6
  <2>2. m \in SUnits /\ n \in SUnits
    BY <1>5 DEF Create
  <2> QED BY <1>6, <2>1, <2>2
<1>8. /\ liveDef \in Numbered /\ Waits(liveDef, edges, ready)
      /\ liveDef \in writers \/ origin[liveDef] = NoUnit
      /\ placed \in SUBSET Numbered /\ ready \in SUBSET Numbered /\ writers \subseteq Numbered
      /\ FlagsOK(edges, writers, origin) /\ Numbered \in SUBSET SUnits
      /\ edges \in SUBSET (Numbered \X Numbered \X EdgeKinds) /\ try \in Numbered
  <2>1. /\ liveDef \in Numbered /\ Waits(liveDef, edges, ready)
        /\ liveDef \in writers \/ origin[liveDef] = NoUnit
    BY <1>5, LiveDefWaits DEF Stuck
  <2>2. placed \in SUBSET Numbered
    BY RoundParts, InSchedule DEF placed
  <2>3. ready \in SUBSET Numbered /\ try \in Numbered
    BY <1>5, RoundParts DEF ReadyOK, Stuck
  <2>4. writers \subseteq Numbered
    BY RoundParts DEF NodesOK
  <2> QED BY <2>1, <2>2, <2>3, <2>4, RoundParts
<1>9. PICK p : p = origin'
  OBVIOUS
<1>10. (\A x \in Numbered : p[x] = origin[x]) /\ p[n] = NoUnit
  BY <1>4, <1>5, <1>7, <1>9 DEF Create
<1>11. /\ F \in SUBSET ((Numbered \cup {m, n}) \X (Numbered \cup {m, n}) \X EdgeKinds)
       /\ FlagsOK(F, writers, p)
       /\ Handed(edges, F, liveDef, n, ready)
       /\ Handable(n, F)
  <2>1. CanCopy(Numbered, edges, writers, origin, liveDef, m, n, try, ready, p)
    BY <1>7, <1>8, <1>10 DEF CanCopy
  <2> QED BY <1>3, <2>1, CopiedHands
<1>12. \A u \in {m, n} : f[u] \in Int
  BY <1>4 DEF NoUnit
<1>13. /\ Numbered' = Numbered \cup {m, n} /\ writers' = writers \cup {}
       /\ \A x \in Numbered : origin'[x] = origin[x]
       /\ NodesOK(Numbered', F, writers', origin')
  BY <1>5, <1>7, <1>11, <1>12, CreateNodes
<1>14. /\ writers' = writers /\ n \in Numbered' /\ Numbered \subseteq Numbered'
       /\ \A x \in Numbered : (x \in writers' => x \in writers) /\ origin'[x] = origin[x]
  BY <1>13
<1>15. FlagsOK(F, writers', origin')
  BY <1>9, <1>11, <1>14
<1> QED BY <1>5, <1>7, <1>11, <1>13, <1>14, <1>15, ResolveKeeps

LEMMA UnfoldKeeps ==
  ASSUME RoundInv, NEW try, Unfold(try)
  PROVE  RoundInv'
<1>1. PICK m : m = Fresh(1)
  OBVIOUS
<1>2. PICK n : n = Fresh(2)
  OBVIOUS
<1>3. PICK k : k = Fresh(3)
  OBVIOUS
<1>4. PICK A : /\ Stuck(try)
               /\ LET E == Unfolded(liveDef, m, n, A, edges)
                      whole == SuccsIn(n, E) \subseteq placed
                      new == IF whole THEN {m, n} ELSE {m, n, k}
                  IN  /\ Create(new, new \ {m},
                            [u \in new |-> IF u = m THEN -origin[liveDef] ELSE origin[liveDef]])
                      /\ IF whole THEN Resolve(try, n, E) ELSE Resolve(try, k, Cloned(n, k, E))
  BY <1>1, <1>2, <1>3 DEF Unfold
<1>5. PICK E : E = Unfolded(liveDef, m, n, A, edges)
  OBVIOUS
<1>6. PICK new : new = IF SuccsIn(n, E) \subseteq placed THEN {m, n} ELSE {m, n, k}
  OBVIOUS
<1>7. PICK f : f = [u \in new |-> IF u = m THEN -origin[liveDef] ELSE origin[liveDef]]
  OBVIOUS
<1>8. /\ Stuck(try) /\ Create(new, new \ {m}, f)
      /\ IF SuccsIn(n, E) \subseteq placed THEN Resolve(try, n, E)
         ELSE Resolve(try, k, Cloned(n, k, E))
  BY <1>4, <1>5, <1>6, <1>7
<1>9. PICK size \in Nat : Numbered = 1..size /\ m = size + 1 /\ n = size + 2 /\ k = size + 3
  BY <1>1, <1>2, <1>3, FreshNumbers
<1>10. /\ m \notin Numbered /\ n \notin Numbered /\ m # n
       /\ k \notin Numbered /\ k # m /\ k # n /\ new \cap Numbered = {} /\ m \in new /\ n \in new
       /\ new \subseteq SUnits /\ \E j \in Nat : Numbered \cup new = 1..j
  <2>1. Numbered \cup {m, n} = 1..(size + 2) /\ Numbered \cup {m, n, k} = 1..(size + 3)
    BY <1>9
  <2>2. new \subseteq SUnits
    BY <1>8 DEF Create
  <2>3. \E j \in Nat : Numbered \cup new = 1..j
    BY <1>6, <1>9, <2>1
  <2> QED BY <1>6, <1>9, <2>2, <2>3
<1>11. /\ liveDef \in Numbered /\ Waits(liveDef, edges, ready)
       /\ placed \in SUBSET Numbered /\ ready \in SUBSET Numbered
       /\ FlagsOK(edges, writers, origin) /\ Numbered \in SUBSET SUnits
       /\ edges \in SUBSET (Numbered \X Numbered \X EdgeKinds)
       /\ origin \in [Numbered -> Int]
  <2>1. liveDef \in Numbered /\ Waits(liveDef, edges, ready)
    BY <1>8, LiveDefWaits DEF Stuck
  <2>2. placed \in SUBSET Numbered
    BY RoundParts, InSchedule DEF placed
  <2>3. ready \in SUBSET Numbered
    BY RoundParts DEF ReadyOK
  <2>4. origin \in [Numbered -> Int]
    BY RoundParts DEF NodesOK
  <2> QED BY <2>1, <2>2, <2>3, <2>4, RoundParts
<1>12. PICK p : p = origin'
  OBVIOUS
<1>13. \A x \in Numbered : p[x] = origin[x]
  BY <1>8, <1>10, <1>12 DEF Create
<1>14. /\ E \in SUBSET ((Numbered \cup {m, n}) \X (Numbered \cup {m, n}) \X EdgeKinds)
       /\ FlagsOK(E, writers \cup {n}, p)
       /\ Handed(edges, E, liveDef, n, ready)
       /\ Waits(n, E, ready)
  <2>1. CanUnfold(Numbered, edges, writers, origin, liveDef, m, n, ready, p)
    BY <1>10, <1>11, <1>13 DEF CanUnfold
  <2> QED BY <1>5, <2>1, UnfoldedHands
<1>15. \A u \in new : f[u] \in Int
  BY <1>7, <1>11
<1>16. CASE SuccsIn(n, E) \subseteq placed
  <2>1. new = {m, n} /\ new \ {m} = {n} /\ Resolve(try, n, E)
    BY <1>6, <1>8, <1>10, <1>16
  <2>2. /\ Numbered' = Numbered \cup {m, n} /\ writers' = writers \cup {n}
        /\ \A x \in Numbered : origin'[x] = origin[x]
        /\ NodesOK(Numbered', E, writers', origin')
    <3>1. E \in SUBSET ((Numbered \cup new) \X (Numbered \cup new) \X EdgeKinds)
      BY <1>14, <2>1
    <3>2. new \ {m} \subseteq new
      OBVIOUS
    <3>3. /\ Numbered' = Numbered \cup new /\ writers' = writers \cup (new \ {m})
          /\ \A x \in Numbered : origin'[x] = origin[x]
          /\ NodesOK(Numbered', E, writers', origin')
      BY <1>8, <1>10, <1>15, <3>1, <3>2, CreateNodes
    <3> QED BY <2>1, <3>3
  <2>3. /\ n \in Numbered' /\ Numbered \subseteq Numbered'
        /\ \A x \in Numbered : (x \in writers' => x \in writers) /\ origin'[x] = origin[x]
        /\ FlagsOK(E, writers', origin')
    BY <1>10, <1>12, <1>14, <2>2
  <2>4. Handable(n, E)
    <3>1. ASSUME NEW e \in E, e[1] = n PROVE e[2] \in placed
      <4>1. e[2] \in Numbered \cup {m, n}
        BY <1>14, EdgeIs
      <4>2. e[2] \in SuccsIn(n, E)
        BY <1>10, <1>11, <3>1, <4>1 DEF SuccsIn
      <4> QED BY <1>16, <4>2
    <3> QED BY <1>14, <3>1 DEF Handable, Waits
  <2> QED BY <1>8, <1>10, <1>14, <2>1, <2>2, <2>3, <2>4, ResolveKeeps
<1>17. CASE ~(SuccsIn(n, E) \subseteq placed)
  <2>1. new = {m, n, k} /\ new \ {m} = {n, k} /\ Resolve(try, k, Cloned(n, k, E)) /\ k \in SUnits
    BY <1>6, <1>8, <1>10, <1>17
  <2>2. PICK F : F = Cloned(n, k, E)
    OBVIOUS
  <2>3. PICK U : U = Numbered \cup {m, n}
    OBVIOUS
  <2>4. /\ U \in SUBSET SUnits /\ n \in U /\ k \notin U /\ Numbered \cup {m, n, k} = U \cup {k}
        /\ placed \in SUBSET U /\ ready \in SUBSET U
        /\ E \in SUBSET (U \X U \X EdgeKinds)
    BY <1>10, <1>11, <1>14, <2>3
  <2>5. PICK W : W = writers \cup {n}
    OBVIOUS
  <2>6. /\ FlagsOK(E, W, p) /\ Waits(n, E, ready)
        /\ \A x \in U : p[x] = p[x]
    BY <1>14, <2>5
  <2>7. /\ F \in SUBSET ((U \cup {k}) \X (U \cup {k}) \X EdgeKinds)
        /\ FlagsOK(F, W \cup {k}, p)
        /\ Handed(E, F, n, k, ready)
        /\ Handable(k, F)
    <3>1. CanClone(U, E, W, p, n, k, ready, p)
      BY <2>1, <2>4, <2>6 DEF CanClone
    <3> QED BY <2>2, <3>1, ClonedHands
  <2>8. Handed(edges, F, liveDef, k, ready)
    <3>1. \A e \in F : e[1] \in placed \cup ready => e \in edges
      BY <1>14, <2>7 DEF Handed
    <3>2. ASSUME NEW x, NEW s, s \in placed, FlagsEdge(x, s, F)
          PROVE  (FlagsEdge(x, s, edges) /\ x # liveDef) \/ (x = k /\ FlagsEdge(liveDef, s, edges))
      <4>1. \/ FlagsEdge(x, s, E) /\ x # n
            \/ x = k /\ FlagsEdge(n, s, E)
        BY <2>7, <3>2 DEF Handed
      <4>2. \A y : FlagsEdge(y, s, E) => \/ FlagsEdge(y, s, edges) /\ y # liveDef
                                         \/ y = n /\ FlagsEdge(liveDef, s, edges)
        BY <1>14, <3>2 DEF Handed
      <4>3. ~FlagsEdge(n, s, edges)
        BY <1>10, <1>11 DEF FlagsEdge
      <4> QED BY <4>1, <4>2, <4>3
    <3>3. \A s \in placed : FlagsEdge(liveDef, s, edges) => FlagsEdge(k, s, F)
      BY <1>14, <2>7 DEF Handed
    <3> QED BY <3>1, <3>2, <3>3 DEF Handed
  <2>9. /\ Numbered' = Numbered \cup new /\ writers' = writers \cup {n, k}
        /\ \A x \in Numbered : origin'[x] = origin[x]
        /\ NodesOK(Numbered', F, writers', origin')
    <3>1. F \in SUBSET ((Numbered \cup new) \X (Numbered \cup new) \X EdgeKinds)
      BY <2>1, <2>4, <2>7
    <3>2. new \ {m} \subseteq new
      OBVIOUS
    <3>3. /\ Numbered' = Numbered \cup new /\ writers' = writers \cup (new \ {m})
          /\ \A x \in Numbered : origin'[x] = origin[x]
          /\ NodesOK(Numbered', F, writers', origin')
      BY <1>8, <1>10, <1>15, <3>1, <3>2, CreateNodes
    <3> QED BY <2>1, <3>3
  <2>10. /\ k \in Numbered' /\ Numbered \subseteq Numbered'
         /\ \A x \in Numbered : (x \in writers' => x \in writers) /\ origin'[x] = origin[x]
    BY <1>10, <2>1, <2>9
  <2>11. FlagsOK(F, writers', origin')
    <3>1. writers' = W \cup {k}
      BY <2>5, <2>9
    <3> QED BY <1>12, <2>7, <3>1
  <2> QED BY <1>8, <1>10, <2>1, <2>2, <2>7, <2>8, <2>9, <2>10, <2>11, ResolveKeeps
<1> QED BY <1>16, <1>17

-----------------------------------------------------------------------------
LEMMA BeginRoundsInv ==
  ASSUME BeginRounds
  PROVE  RoundInv
<1>0. PICK E \in Shapes, w \in Ways : \E F \in ReadsOf(E) :
         \E C \in ChainsOf(E, F, w), W \in WritersOf(F) :
           /\ edges = {<<e[1], e[2], KindOf(e, F, C)>> : e \in E}
           /\ writers = W
           /\ origin = [u \in GraphNodes |-> u]
           /\ Sequence = <<>> /\ height = [u \in SUnits |-> 0]
           /\ liveDef = NoUnit /\ liveCycle = 0
           /\ ready = {Size} /\ CurCycle = 0
  BY DEF BeginRounds
<1>1. PICK F \in ReadsOf(E) : \E C \in ChainsOf(E, F, w), W \in WritersOf(F) :
           /\ edges = {<<e[1], e[2], KindOf(e, F, C)>> : e \in E}
           /\ writers = W
           /\ origin = [u \in GraphNodes |-> u]
           /\ Sequence = <<>> /\ height = [u \in SUnits |-> 0]
           /\ liveDef = NoUnit /\ liveCycle = 0
           /\ ready = {Size} /\ CurCycle = 0
  BY <1>0
<1>2. PICK C \in ChainsOf(E, F, w), W \in WritersOf(F) :
           /\ edges = {<<e[1], e[2], KindOf(e, F, C)>> : e \in E}
           /\ writers = W
           /\ origin = [u \in GraphNodes |-> u]
           /\ Sequence = <<>> /\ height = [u \in SUnits |-> 0]
           /\ liveDef = NoUnit /\ liveCycle = 0
           /\ ready = {Size} /\ CurCycle = 0
  BY <1>1
<1>3. /\ E \subseteq {p \in GraphNodes \X GraphNodes : p[1] < p[2]}
      /\ F \subseteq E /\ \A f, g \in F : (f[2] = g[2] => f = g) /\ f[1] # g[2]
      /\ W \subseteq GraphNodes \ {f[2] : f \in F} /\ \A f \in F : f[1] \in W
  BY DEF Shapes, ReadsOf, WritersOf
<1>4. /\ Size \in Nat /\ Size > 0 /\ GraphNodes = 1..Size
      /\ GraphNodes \subseteq SUnits /\ GraphNodes \subseteq Nat
  BY GraphAssumption DEF GraphNodes
<1>5. Numbered = GraphNodes
  BY <1>2 DEF Numbered
<1>6. \A e \in E : /\ e = <<e[1], e[2]>> /\ e[1] \in GraphNodes
                   /\ e[2] \in GraphNodes /\ e[1] < e[2]
  BY <1>3
<1>7. ASSUME NEW x \in edges
      PROVE  \E e \in E : /\ x[1] = e[1] /\ x[2] = e[2] /\ (x[3] = "flags" => e \in F)
                         /\ x = <<x[1], x[2], x[3]>> /\ x[3] \in EdgeKinds
  <2>1. PICK e \in E : x = <<e[1], e[2], KindOf(e, F, C)>>
    BY <1>2
  <2>2. KindOf(e, F, C) \in EdgeKinds /\ (KindOf(e, F, C) = "flags" => e \in F)
    BY DEF KindOf, EdgeKinds
  <2> QED BY <2>1, <2>2
<1>8. edges \subseteq GraphNodes \X GraphNodes \X EdgeKinds
  <2>1. ASSUME NEW x \in edges PROVE x \in GraphNodes \X GraphNodes \X EdgeKinds
    <3>1. PICK e \in E : /\ x[1] = e[1] /\ x[2] = e[2]
                         /\ x = <<x[1], x[2], x[3]>> /\ x[3] \in EdgeKinds
      BY <1>7
    <3> QED BY <1>6, <3>1
  <2> QED BY <2>1
<1>9. NodesOK(Numbered, edges, writers, origin)
  <2>1. origin \in [GraphNodes -> Int]
    BY <1>2, <1>4
  <2> QED BY <1>2, <1>3, <1>4, <1>5, <1>8, <2>1 DEF NodesOK
<1>10. \A d, s : FlagsEdge(d, s, edges) => \E f \in F : f[1] = d /\ f[2] = s
  <2> SUFFICES ASSUME NEW d, NEW s, FlagsEdge(d, s, edges)
               PROVE  \E f \in F : f[1] = d /\ f[2] = s
    OBVIOUS
  <2>1. PICK x \in edges : x = <<d, s, "flags">>
    BY DEF FlagsEdge
  <2>2. PICK e \in E : x[1] = e[1] /\ x[2] = e[2] /\ (x[3] = "flags" => e \in F)
    BY <1>7
  <2> QED BY <2>1, <2>2
<1>11. FlagsOK(edges, writers, origin)
  <2> SUFFICES ASSUME NEW d \in SUnits, NEW s \in SUnits, FlagsEdge(d, s, edges)
               PROVE  /\ d \in writers /\ s \notin writers
                      /\ \A x \in SUnits : ~FlagsEdge(s, x, edges)
                      /\ \A x \in SUnits : FlagsEdge(x, s, edges) => x = d
    BY DEF FlagsOK
  <2>1. PICK f \in F : f[1] = d /\ f[2] = s
    BY <1>10
  <2>2. d \in writers /\ s \notin writers
    BY <1>2, <1>3, <2>1
  <2>3. ASSUME NEW x \in SUnits, FlagsEdge(s, x, edges) PROVE FALSE
    <3>1. PICK g \in F : g[1] = s /\ g[2] = x
      BY <1>10, <2>3
    <3> QED BY <1>3, <2>1, <3>1
  <2>4. ASSUME NEW x \in SUnits, FlagsEdge(x, s, edges) PROVE x = d
    <3>1. PICK g \in F : g[1] = x /\ g[2] = s
      BY <1>10, <2>4
    <3> QED BY <1>3, <2>1, <3>1
  <2> QED BY <2>2, <2>3, <2>4
<1>12. Len(Sequence) = 0 /\ Sequence \in Seq(GraphNodes) /\ ToSet(Sequence) = {}
  BY <1>2 DEF ToSet
<1>13. ScheduleOK(Numbered, edges, Sequence, height)
  <2>1. height \in [SUnits -> Nat]
    BY <1>2
  <2> QED BY <1>5, <1>12, <2>1 DEF ScheduleOK
<1>14. ReadyOK(Numbered, edges, Sequence, ready)
  <2>1. ASSUME NEW x \in edges, x[1] = Size PROVE FALSE
    <3>1. PICK e \in E : x[1] = e[1] /\ x[2] = e[2]
      BY <1>7
    <3> QED BY <1>4, <1>6, <2>1, <3>1
  <2> QED BY <1>2, <1>4, <1>5, <1>12, <2>1 DEF ReadyOK
<1>15. LiveOK(edges, Sequence, liveDef, liveCycle) /\ IntactIn(edges, writers, origin, Sequence)
  BY <1>2, <1>12 DEF LiveOK, IntactIn
<1> QED BY <1>2, <1>4, <1>5, <1>9, <1>11, <1>12, <1>13, <1>14, <1>15 DEF RoundInv, RoundOK

\* The schedule, what is ready and what is live belong together in every round.
THEOREM RoundInvariance == RoundSpec => []RoundInv
<1>1. BeginRounds => RoundInv
  BY BeginRoundsInv
<1>2. RoundInv /\ [RoundNext]_roundVars => RoundInv'
  <2> SUFFICES ASSUME RoundInv, [RoundNext]_roundVars PROVE RoundInv'
    OBVIOUS
  <2>1. CASE UNCHANGED roundVars
    BY <2>1 DEF RoundInv, RoundOK, Numbered, roundVars
  <2>2. ASSUME NEW u \in SUnits, ScheduleReady(u) PROVE RoundInv'
    BY <2>2, ScheduleReadyKeeps
  <2>3. ASSUME NEW u \in SUnits, Backtrack(u) PROVE RoundInv'
    BY <2>3, BacktrackKeeps
  <2>4. ASSUME NEW u \in SUnits, Clone(u) PROVE RoundInv'
    BY <2>4, CloneKeeps
  <2>5. ASSUME NEW u \in SUnits, Unfold(u) PROVE RoundInv'
    BY <2>5, UnfoldKeeps
  <2>6. ASSUME NEW u \in SUnits, Copy(u) PROVE RoundInv'
    BY <2>6, CopyKeeps
  <2> QED BY <2>1, <2>2, <2>3, <2>4, <2>5, <2>6 DEF RoundNext, Done
<1> QED BY <1>1, <1>2, PTL DEF RoundSpec

\* No node that writes the flags ever comes between a use of the flags and its def.
THEOREM FlagsStayIntact == RoundSpec => []FlagsIntact
<1>1. RoundInv => FlagsIntact
  <2> SUFFICES ASSUME RoundInv, NEW i \in DOMAIN Sequence, NEW j \in DOMAIN Sequence,
                      NEW e \in edges, e[3] = "flags", e[2] = Sequence[i], i < j,
                      WritesFlags(Sequence[j]), Sequence[j] # e[1]
               PROVE  \E k \in (i + 1)..(j - 1) : Sequence[k] = e[1]
    BY DEF FlagsIntact
  <2>1. /\ NodesOK(Numbered, edges, writers, origin)
        /\ IntactIn(edges, writers, origin, Sequence) /\ Sequence \in Seq(Numbered)
        /\ edges \in SUBSET (Numbered \X Numbered \X EdgeKinds) /\ Numbered \in SUBSET SUnits
    BY RoundParts
  <2>2. DOMAIN Sequence = 1..Len(Sequence) /\ Sequence[j] \in Numbered
    BY <2>1, InSchedule
  <2>3. e = <<e[1], e[2], e[3]>> /\ e[1] \in SUnits
    BY <2>1, EdgeIs
  <2>4. FlagsEdge(e[1], Sequence[i], edges)
    BY <2>3 DEF FlagsEdge
  <2>5. WritesIn(Sequence[j], edges, writers, origin)
    <3>1. CASE Sequence[j] \in writers
      BY <3>1 DEF WritesIn
    <3>2. CASE origin[Sequence[j]] = NoUnit /\ FlagsSuccs(Sequence[j], edges) # {}
      <4>1. PICK s : s \in FlagsSuccs(Sequence[j], edges)
        BY <3>2
      <4>2. FlagsEdge(Sequence[j], s, edges)
        BY <2>1, <2>2, <4>1, SuccsAre
      <4>3. s \in SUnits
        BY <2>1, <4>2, FlagsBetween
      <4> QED BY <3>2, <4>2, <4>3 DEF WritesIn
    <3> QED BY <3>1, <3>2 DEF WritesFlags
  <2> QED BY <2>1, <2>2, <2>3, <2>4, <2>5 DEF IntactIn
<1> QED BY <1>1, RoundInvariance, PTL

\* Every edge goes up the schedule, after whatever was taken back, cloned or copied.
THEOREM EdgesGoUp ==
  RoundSpec => [](\A e \in edges : e[1] \in placed => ComesAbove(e[1], e[2]))
<1>1. RoundInv => \A e \in edges : e[1] \in placed => ComesAbove(e[1], e[2])
  <2> SUFFICES ASSUME RoundInv, NEW e \in edges, e[1] \in placed PROVE ComesAbove(e[1], e[2])
    OBVIOUS
  <2>1. /\ NodesOK(Numbered, edges, writers, origin) /\ Sequence \in Seq(Numbered)
        /\ ScheduleOK(Numbered, edges, Sequence, height)
    BY RoundParts
  <2>2. PICK j \in 1..Len(Sequence) : Sequence[j] = e[1]
    BY <2>1, InSchedule DEF placed
  <2>3. PICK i \in 1..Len(Sequence) : i < j /\ Sequence[i] = e[2]
    BY <2>1, <2>2, UsesFirst
  <2>4. DOMAIN Sequence = 1..Len(Sequence)
    BY <2>1, InSchedule
  <2> QED BY <2>2, <2>3, <2>4 DEF ComesAbove
<1> QED BY <1>1, RoundInvariance, PTL
=============================================================================
