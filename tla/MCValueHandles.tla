--------------------------- MODULE MCValueHandles ---------------------------
(* ValueHandles for TLC: handles of every kind on two Values.              *)
EXTENDS ValueHandles, TLC

Symmetry == Permutations(Handles) \cup Permutations(Values)
=============================================================================
