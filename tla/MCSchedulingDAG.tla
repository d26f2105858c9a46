-------------------------- MODULE MCSchedulingDAG --------------------------
(***************************************************************************)
(* Two parts of the scheduling DAG for TLC: the edges and lengths that     *)
(* SUnits keep, or the topological order of their numbers.                 *)
(***************************************************************************)
EXTENDS SUnitDAG, TopologicalSort, TLC

CONSTANTS
  a, b, c,       \* nodes
  data, order    \* kinds of dependence

VARIABLE part   \* which of the two runs

EitherInit ==
  /\ Init /\ TopoInit
  /\ \/ part = "topo"
     \/ part = "units" /\ edges = {}

EitherNext ==
  /\ UNCHANGED part
  /\ \/ part = "units" /\ Next /\ UNCHANGED topoVars
     \/ part = "topo" /\ TopoNext /\ UNCHANGED vars

EitherSpec == EitherInit /\ [][EitherNext]_<<vars, part, topoVars>>

\* Two kinds of edge, one twice as long as the other.
NonZeroDeps == {<<"data", 1>>, <<"order", 2>>}

\* A data edge, and the artificial ordering edge without latency that the
\* register-pressure heuristics insert.
ZeroLatencyDeps == {<<"data", 1>>, <<"order", 0>>}

Symmetry == Permutations(Nodes) \cup Permutations(Kinds)
=============================================================================
