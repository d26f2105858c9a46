----------------------------- MODULE MCUseLists -----------------------------
(***************************************************************************)
(* Two parts of Use.cpp for TLC: the use lists, in which Users of a kind   *)
(* and Values are interchangeable, or the way from a Use to its User.      *)
(***************************************************************************)
EXTENDS UseLists, TLC

CONSTANT Sizes

VARIABLES
  part,   \* which of the two runs
  Size, tag, Stop, Done, Count, Current, Offset, phase

wayVars == <<Size, tag, Stop, Done, Count, Current, Offset, phase>>

Way == INSTANCE Waymarking

ASSUME WayAssumption == Way!SizesAssumption

EitherInit ==
  /\ UseInit /\ Way!Init
  /\ \/ part = "way"
     \/ part = "lists" /\ \A n \in Sizes : Size <= n

EitherNext ==
  /\ UNCHANGED part
  /\ \/ part = "lists" /\ UseNext /\ UNCHANGED wayVars
     \/ part = "way" /\ Way!Next /\ UNCHANGED useVars

EitherSpec == EitherInit /\ [][EitherNext]_<<useVars, part, wayVars>>

\* What getUser relies on.
LeadsHome == Way!LeadsHome

Symmetry == Permutations(Value) \cup Permutations(Phi)
UpTo70   == 1..70
=============================================================================
