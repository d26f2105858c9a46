------------------------------- MODULE MCJIT -------------------------------
(***************************************************************************)
(* Two parts of the JIT for TLC: the threads that compile and run code, or *)
(* the memory that code is emitted into.                                   *)
(***************************************************************************)
EXTENDS LazyJIT, CodeMemory

VARIABLE part   \* which of the two runs

\* Calls by name, also back, and through the address of h.
Program == {<<"f", "g", "call">>, <<"g", "h", "pointer">>, <<"g", "f", "call">>}
SmallSpace == {<<5, 4>>}

EitherInit == part \in {"threads", "memory"} /\ Init /\ MemoryInit

EitherNext ==
  /\ UNCHANGED part
  /\ \/ part = "threads" /\ Next /\ UNCHANGED memoryVars
     \/ part = "memory" /\ lazy /\ MemoryNext /\ UNCHANGED vars

EitherSpec ==
  /\ EitherInit /\ [][EitherNext]_<<vars, part, memoryVars>>
  /\ \A t \in Threads : WF_vars(Resolve(t))
=============================================================================
