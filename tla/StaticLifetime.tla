--------------------------- MODULE StaticLifetime ---------------------------
(***************************************************************************)
(* What ManagedStatic promises its clients, without threads, frames, lock  *)
(* or list: an object becomes available only when everything its           *)
(* constructor uses is available, and stops being so only when nothing     *)
(* available was built from it.                                            *)
(***************************************************************************)
CONSTANTS Statics, CreatorUses

VARIABLE alive   \* the statics a dereference may return

Init == alive = {}

Appear(s) ==
  /\ s \notin alive
  /\ CreatorUses[s] \subseteq alive
  /\ alive' = alive \cup {s}

Vanish(s) ==
  /\ s \in alive
  /\ \A user \in alive : s \notin CreatorUses[user]
  /\ alive' = alive \ {s}

Next == \E s \in Statics : Appear(s) \/ Vanish(s)

Spec == Init /\ [][Next]_alive
=============================================================================
