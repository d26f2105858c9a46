-------------------------- MODULE TopologicalSort --------------------------
(***************************************************************************)
(* ScheduleDAGTopologicalSort (lib/CodeGen/ScheduleDAG.cpp): a topological *)
(* order of the scheduling DAG kept up to date while the scheduler inserts *)
(* edges and nodes, and used to tell whether an edge would close a cycle.  *)
(*                                                                         *)
(* A node is its NodeNum.  An edge <<x, y, k>> is one SDep between x and y *)
(* (x in Preds of y, y in Succs of x); two SDeps between the same nodes    *)
(* differ in k.  The order of a Preds or Succs list is left open.          *)
(***************************************************************************)
EXTENDS Integers, FiniteSets

CONSTANTS
  InitNodes,   \* number of nodes BuildSchedGraph made
  MaxNodes,    \* bound on the number of nodes
  Kinds        \* what tells two SDeps between the same nodes apart

ASSUME TopologicalAssumption ==
  /\ InitNodes \in Nat \ {0}
  /\ MaxNodes \in Nat
  /\ InitNodes <= MaxNodes
  /\ IsFiniteSet(Kinds)

VARIABLES
  size,        \* SUnits.size()
  edges,       \* the Preds and Succs lists
  phase,       \* "init", "allocate" or "ready"
  node2Index,  \* Node2Index; while allocating, scratch space for degrees
  index2Node,  \* Index2Node
  id,          \* Id of InitDAGTopologicalSorting
  workList     \* its WorkList

topoVars == <<size, edges, phase, node2Index, index2Node, id, workList>>

NodeNums == 0..(size - 1)
Slots == 0..(MaxNodes - 1)
From(e) == e[1]
To(e)   == e[2]

Ranked(rank, E) == \A e \in E : rank[From(e)] < rank[To(e)]

\* BuildSchedGraph made some DAG.
TopoInit ==
  /\ size = InitNodes
  /\ edges \in SUBSET {e \in NodeNums \X NodeNums \X Kinds : e[1] # e[2]}
  /\ \E rank \in [NodeNums -> Slots] : Ranked(rank, edges)
  /\ phase = "init"
  /\ node2Index = [n \in Slots |-> 0]
  /\ index2Node = [n \in Slots |-> 0]
  /\ id = 0
  /\ workList = {}

(***************************************************************************)
(* InitDAGTopologicalSorting.                                              *)
(***************************************************************************)
\* The SDeps from n to a node of S.
EdgesInto(n, S) == {e \in edges : From(e) = n /\ To(e) \in S}

Degree(n) == Cardinality(EdgesInto(n, NodeNums))

CountDegrees ==
  /\ phase = "init"
  /\ phase' = "allocate"
  /\ node2Index' = [n \in Slots |-> IF n \in NodeNums THEN Degree(n)
                                    ELSE node2Index[n]]
  /\ workList' = {n \in NodeNums : Degree(n) = 0}
  /\ id' = size
  /\ UNCHANGED <<size, edges, index2Node>>

\* if (!--Node2Index[SU->NodeNum]), once for each SDep from m to the node n.
DegreeLeft(m, n) == node2Index[m] - Cardinality(EdgesInto(m, {n}))

\* One round of the loop: the node n taken from WorkList gets the next index.
AllocateNext(n) ==
  /\ phase = "allocate"
  /\ n \in workList
  /\ id' = id - 1
  /\ node2Index' = [m \in Slots |-> IF m = n THEN id - 1
                                    ELSE IF m \in NodeNums THEN DegreeLeft(m, n)
                                    ELSE node2Index[m]]
  /\ index2Node' = [index2Node EXCEPT ![id - 1] = n]
  /\ workList' = (workList \ {n}) \cup
       {m \in NodeNums : EdgesInto(m, {n}) # {} /\ DegreeLeft(m, n) = 0}
  /\ UNCHANGED <<size, edges, phase>>

InitDone ==
  /\ phase = "allocate"
  /\ workList = {}
  /\ phase' = "ready"
  /\ UNCHANGED <<size, edges, node2Index, index2Node, id, workList>>

(***************************************************************************)
(* DFS and IsReachable.                                                    *)
(***************************************************************************)
\* Fault: the search stops one index early.
BelowRegion(n, ub) == node2Index[n] < ub - 1

\* Visit successors that come before UpperBound.
InAffectedRegion(n, ub) == node2Index[n] < ub

\* DFS(n, UpperBound): the Visited nodes, unless it stopped at HasLoop.
Visited(n, ub) ==
  LET Extended(S) ==
        S \cup {To(e) : e \in {f \in edges : From(f) \in S /\ InAffectedRegion(To(f), ub)}}
      After[i \in Nat] == IF i = 0 THEN {n} ELSE Extended(After[i - 1])
  IN  After[size]

HasLoop(n, ub) ==
  LET V == Visited(n, ub) IN \E e \in edges : From(e) \in V /\ node2Index[To(e)] = ub

\* Fault: the two indices are compared the wrong way round.
ReachableSwapped(n, target) ==
  /\ node2Index[n] < node2Index[target]
  /\ HasLoop(target, node2Index[n])

\* Is there a path from target to n?
IsReachable(n, target) ==
  /\ node2Index[target] < node2Index[n]
  /\ HasLoop(target, node2Index[n])

(***************************************************************************)
(* AddPred, with Shift and Allocate.                                       *)
(***************************************************************************)
Before(S, n) == Cardinality({m \in S : node2Index[m] < node2Index[n]})

\* The index Shift gives to n when it moves the nodes V to the end of the
\* indices lb..ub: the others close up, and both keep their order.
Shifted(V, lb, ub, n) ==
  IF n \notin NodeNums \/ node2Index[n] \notin lb..ub THEN node2Index[n]
  ELSE IF n \in V THEN ub + 1 - Cardinality(V) + Before(V, n)
  ELSE node2Index[n] - Before(V, n)

\* Fault: Allocate fills one of the arrays only.
ShiftOneArray(V, lb, ub) ==
  /\ node2Index' = [n \in Slots |-> Shifted(V, lb, ub, n)]
  /\ UNCHANGED index2Node

Shift(V, lb, ub) ==
  /\ node2Index' = [n \in Slots |-> Shifted(V, lb, ub, n)]
  /\ index2Node' =
       [i \in Slots |-> IF i \in lb..ub
                        THEN CHOOSE n \in NodeNums : Shifted(V, lb, ub, n) = i
                        ELSE index2Node[i]]

\* Is Ord(X) < Ord(Y)?
MustShift(x, y) == node2Index[y] < node2Index[x]

\* ScheduleDAGRRList::AddPred(y, SDep(x, k)): Topo.AddPred, then addPred.  The
\* scheduler asks IsReachable first, by itself or within WillCreateCycle.
TopoAddPred(x, y, k) ==
  /\ phase = "ready"
  /\ x # y
  /\ ~IsReachable(x, y)
  /\ edges' = edges \cup {<<x, y, k>>}
  /\ IF MustShift(x, y)
       THEN Shift(Visited(y, node2Index[x]), node2Index[y], node2Index[x])
       ELSE UNCHANGED <<node2Index, index2Node>>
  /\ UNCHANGED <<size, phase, id, workList>>

\* Topo.RemovePred keeps the order: dropping an edge cannot invalidate it.
TopoRemovePred(e) ==
  /\ phase = "ready"
  /\ edges' = edges \ {e}
  /\ UNCHANGED <<size, phase, node2Index, index2Node, id, workList>>

\* CreateNewSUnit and CreateClone: a node more, and the order is rebuilt.
CreateNode ==
  /\ phase = "ready"
  /\ size < MaxNodes
  /\ size' = size + 1
  /\ phase' = "init"
  /\ UNCHANGED <<edges, node2Index, index2Node, id, workList>>

TopoNext ==
  \/ CountDegrees
  \/ \E n \in workList : AllocateNext(n)
  \/ InitDone
  \/ \E x, y \in NodeNums, k \in Kinds : TopoAddPred(x, y, k)
  \/ \E e \in edges : TopoRemovePred(e)
  \/ CreateNode

TopoSpec == TopoInit /\ [][TopoNext]_topoVars

(***************************************************************************)
(* Properties.                                                             *)
(***************************************************************************)
\* For every edge X->Y it is the case that ord(X) < ord(Y), after any sequence
\* of insertions, deletions and rebuilds; and the two arrays are inverses of
\* each other: both loops, the one over degrees in the same array and that of
\* Shift, allocate each index exactly once.
TopologicalOrder ==
  phase = "ready" =>
    /\ Ranked(node2Index, edges)
    /\ \A n \in NodeNums : node2Index[n] \in NodeNums /\ index2Node[node2Index[n]] = n
    /\ \A i \in NodeNums : index2Node[i] \in NodeNums /\ node2Index[index2Node[i]] = i

\* The pairs joined by a path of at least one edge.
Paths ==
  LET Step(P) == P \cup {<<From(q[1]), q[2][2]>> :
                           q \in {q \in edges \X P : To(q[1]) = q[2][1]}}
      Reach[i \in 0..MaxNodes] ==
        IF i = 0 THEN {<<From(e), To(e)>> : e \in edges}
        ELSE Step(Reach[i - 1])
  IN Reach[MaxNodes]

\* The bounded depth-first search answers reachability exactly: cutting it at
\* UpperBound loses no path.
ReachableExact ==
  phase = "ready" =>
    LET joined == Paths
    IN  \A n, target \in NodeNums : IsReachable(n, target) <=> <<target, n>> \in joined

\* The scheduler's edits never close a cycle, because IsReachable would
\* have said so: see AcyclicGraph.
Graph == INSTANCE AcyclicGraph
StaysAcyclic == Graph!Spec
=============================================================================
