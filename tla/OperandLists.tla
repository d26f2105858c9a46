---------------------------- MODULE OperandLists ----------------------------
(***************************************************************************)
(* What Users promise: each has a sequence of operands, which changes only as *)
(* the operation that is called says. How many Uses are reserved, where they *)
(* are and in which order a Value lists its uses is not visible.             *)
(***************************************************************************)
EXTENDS Naturals, Sequences, SequencesExt

CONSTANTS User, Value, NoUser

VARIABLE operands   \* the operands of every User, or NoUser

(***************************************************************************)
(* What an operation makes of the operands ops of its User.                *)
(***************************************************************************)
\* A new User has up to two operands, or those of another one.
Create(ops, new, others) ==
  /\ ops = NoUser /\ new # NoUser
  /\ new \in others \cup UNION {[1..n -> Value] : n \in 0..2}

Destroy(ops, new) == ops # NoUser /\ new = NoUser

Add(ops, new) == \E v \in Value : new = Append(ops, v)

Erase(ops, new) == \E i \in DOMAIN ops : new = RemoveAt(ops, i)

Set(ops, new) == \E i \in DOMAIN ops, v \in Value : new = [ops EXCEPT ![i] = v]

Swap(ops, new) ==
  \E i, j \in DOMAIN ops : new = [ops EXCEPT ![i] = ops[j], ![j] = ops[i]]

Change(ops, new, others) ==
  \/ Create(ops, new, others) \/ Destroy(ops, new)
  \/ /\ NoUser \notin {ops, new}
     /\ Add(ops, new) \/ Erase(ops, new) \/ Set(ops, new) \/ Swap(ops, new)

\* Every operand of every User that was v is w.
Replace(all, new) ==
  \E v, w \in Value :
    new = [u \in User |->
             IF all[u] = NoUser THEN NoUser
             ELSE [i \in DOMAIN all[u] |-> IF all[u][i] = v THEN w ELSE all[u][i]]]

-----------------------------------------------------------------------------
Init == operands = [u \in User |-> NoUser]

Next ==
  LET all == operands  new == operands' IN
  \/ \E u \in User :
       /\ \A w \in User \ {u} : new[w] = all[w]
       /\ Change(all[u], new[u], {all[w] : w \in User})
  \/ Replace(all, new)

Spec == Init /\ [][Next]_operands
=============================================================================
