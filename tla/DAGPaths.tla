------------------------------ MODULE DAGPaths ------------------------------
(***************************************************************************)
(* Edges of the scheduling DAG and the longest paths along them, shared by *)
(* the modules about it.  An SDep (include/llvm/CodeGen/ScheduleDAG.h) is  *)
(* <<n, kind, latency>>; a Preds list is a function from nodes to sets of  *)
(* them, n being the predecessor, and so is a Succs list.                  *)
(***************************************************************************)
EXTENDS Integers, FiniteSets

CONSTANT Nodes   \* the SUnits

ASSUME NodesAssumption == IsFiniteSet(Nodes)

Node(sdep)    == sdep[1]
Kind(sdep)    == sdep[2]
Latency(sdep) == sdep[3]

\* Some ranking of the nodes goes up along every edge: there is no cycle.
Acyclic(preds) ==
  \E rank \in [Nodes -> 0..(Cardinality(Nodes) - 1)] :
     \A u \in Nodes : \A e \in preds[u] : rank[Node(e)] < rank[u]

\* The nodes a work list takes in that starts with u and goes on along out to
\* neighbours in M.
Spreads(S, out, M) ==
  \A m \in S : \A e \in out[m] : Node(e) \in M => Node(e) \in S

Reached(u, out, M) ==
  {m \in Nodes : \A S \in SUBSET Nodes : u \in S /\ Spreads(S, out, M) => m \in S}

IsLargest(x, S) == x \in S /\ \A y \in S : y <= x

\* The longest path to each node along in, if a path may also start at a node
\* with the length floor gives it: the reference for getDepth and getHeight.
Longest(in, floor) ==
  LET Best(S) == CHOOSE x \in S : IsLargest(x, S)
      \* of at most i edges
      Path[i \in 0..Cardinality(Nodes)] ==
        IF i = 0 THEN floor
        ELSE [u \in Nodes |->
               Best({floor[u]} \cup
                    {Path[i - 1][Node(e)] + Latency(e) : e \in in[u]})]
  IN  Path[Cardinality(Nodes)]
=============================================================================
