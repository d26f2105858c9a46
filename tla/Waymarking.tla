----------------------------- MODULE Waymarking -----------------------------
(***************************************************************************)
(* The waymarking algorithm (lib/VMCore/Use.cpp): the Uses of a User form an *)
(* array, and two bits in each of them lead from any Use to the end of the   *)
(* array, where the User is found.                                          *)
(*                                                                         *)
(* A Use is its index, 0 the first; the User is at index Size.  The loops of *)
(* initTags and getImpliedUser go one Use per step.                         *)
(***************************************************************************)
EXTENDS Naturals

CONSTANT Sizes   \* numbers of Uses

SizesAssumption == Sizes \subseteq Nat \ {0}

\* PrevPtrTag: the digits 0 and 1, and the two stops.
Digits == {0, 1}
stopTag == 2
fullStopTag == 3

VARIABLES
  Size,      \* the Uses of this User
  tag,       \* the two bits in Prev of each Use
  Stop, Done, Count,   \* initTags: its locals
  Current, Offset,     \* getImpliedUser: its locals
  phase

vars == <<Size, tag, Stop, Done, Count, Current, Offset, phase>>

Init ==
  /\ Size \in Sizes
  /\ tag = [i \in {} |-> 0]
  /\ Stop = Size
  /\ Done = 0
  /\ Count = 0
  /\ Current = 0
  /\ Offset = 0
  /\ phase = "init"

\* One tag, from the end: the digits of the distance to the User at the last
\* stop, the least significant first, then a new stop.
Mark ==
  /\ Count' = IF Count = 0 THEN Done + 1 ELSE Count \div 2
  /\ tag' = [i \in DOMAIN tag \cup {Stop - 1} |->
               IF i # Stop - 1 THEN tag[i]
               ELSE IF Count # 0 THEN Count % 2
               ELSE IF Done = 0 THEN fullStopTag ELSE stopTag]

InitTags ==
  /\ phase = "init"
  /\ Stop # 0
  /\ Mark
  /\ Stop' = Stop - 1
  /\ Done' = Done + 1
  /\ UNCHANGED <<Size, Current, Offset, phase>>

Ask(i) ==
  /\ phase = "init"
  /\ Stop = 0
  /\ Current' = i
  /\ phase' = "seek"
  /\ UNCHANGED <<Size, tag, Stop, Done, Count, Offset>>

\* Looking for a stop: the digits before it belong to one further on.
Seek ==
  /\ phase = "seek"
  /\ tag[Current] \in Digits
  /\ Current' = Current + 1
  /\ UNCHANGED <<Size, tag, Stop, Done, Count, Offset, phase>>

\* A stop: the digit that follows it is always 1, and is not read.
Stopped ==
  /\ phase = "seek"
  /\ tag[Current] = stopTag
  /\ Current' = Current + 2
  /\ Offset' = 1
  /\ phase' = "decode"
  /\ UNCHANGED <<Size, tag, Stop, Done, Count>>

FullStopped ==
  /\ phase = "seek"
  /\ tag[Current] = fullStopTag
  /\ Current' = Current + 1
  /\ phase' = "found"
  /\ UNCHANGED <<Size, tag, Stop, Done, Count, Offset>>

\* Fault: the digits are taken with the least significant one first.
DecodeReversed ==
  /\ phase = "decode"
  /\ tag[Current] \in Digits
  /\ Current' = Current + 1
  /\ Offset' = Offset + 2 * tag[Current]
  /\ UNCHANGED <<Size, tag, Stop, Done, Count, phase>>

Decode ==
  /\ phase = "decode"
  /\ tag[Current] \in Digits
  /\ Current' = Current + 1
  /\ Offset' = 2 * Offset + tag[Current]
  /\ UNCHANGED <<Size, tag, Stop, Done, Count, phase>>

Decoded ==
  /\ phase = "decode"
  /\ tag[Current] \notin Digits
  /\ Current' = Current + Offset
  /\ phase' = "found"
  /\ UNCHANGED <<Size, tag, Stop, Done, Count, Offset>>

Next ==
  \/ InitTags
  \/ \E i \in 0..(Size - 1) : Ask(i)
  \/ Seek
  \/ Stopped
  \/ FullStopped
  \/ Decode
  \/ Decoded

Spec == Init /\ [][Next]_vars

(***************************************************************************)
(* Properties                                                              *)
(***************************************************************************)
\* From every Use of every User the walk ends at the User, and what it reads on
\* the way are Uses of that User (getImpliedUser, which getUser relies on to
\* reinterpret what follows the array).
LeadsHome ==
  /\ phase \in {"seek", "decode"} => Current < Size
  /\ phase = "found" => Current = Size
=============================================================================
