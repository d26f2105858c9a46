-------------------------- MODULE MCManagedStatic --------------------------
(* Instances of ManagedStatic for TLC. *)
EXTENDS ManagedStatic

CONSTANTS main, worker1, worker2, info, lock, file

\* The destructor of info brings back file, whose constructor uses lock.
MCCreatorUses == [s \in Statics |-> IF s = file THEN {lock} ELSE {}]
MCDeleterUses == [s \in Statics |-> IF s = info THEN {file} ELSE {}]
MCRank == [s \in Statics |-> CASE s = info -> 3 [] s = file -> 2 [] OTHER -> 1]
=============================================================================
