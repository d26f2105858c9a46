---------------------------- MODULE AcyclicGraph ----------------------------
(***************************************************************************)
(* What the schedulers promise of the DAG they edit: whatever edges they   *)
(* insert, it stays one.                                                   *)
(***************************************************************************)
EXTENDS Naturals

CONSTANTS MaxNodes, Kinds

VARIABLES size, edges

NodeNums == 0..(size - 1)

\* A finite graph has no cycle iff its nodes can be ranked along its edges.
Acyclic(N, E) ==
  \E rank \in [N -> 0..(MaxNodes - 1)] :
     \A e \in E : rank[e[1]] < rank[e[2]]

Init ==
  /\ size \in 1..MaxNodes
  /\ edges \subseteq NodeNums \X NodeNums \X Kinds
  /\ Acyclic(NodeNums, edges)

Insert(x, y, k) ==
  /\ edges' = edges \cup {<<x, y, k>>}
  /\ Acyclic(NodeNums, edges')
  /\ UNCHANGED size

Remove(e) == edges' = edges \ {e} /\ UNCHANGED size

Grow == size < MaxNodes /\ size' = size + 1 /\ UNCHANGED edges

Next ==
  \/ \E x, y \in NodeNums, k \in Kinds : Insert(x, y, k)
  \/ \E e \in edges : Remove(e)
  \/ Grow

Spec == Init /\ [][Next]_<<size, edges>>
=============================================================================
