-------------------------- MODULE MCAntiDepBreaker --------------------------
(* Instances of AntiDepBreaker for TLC. *)
EXTENDS AntiDepBreaker

CONSTANTS a, b, c, al, bl   \* registers; al and bl are parts of a and b
CONSTANTS v, w              \* objects in memory

MCUnits == [r \in Regs |-> CASE r = a -> {a, al} [] r = b -> {b, bl} [] OTHER -> {r}]
MCOrder == [gr |-> <<a, b, c>>, gr8 |-> <<al, bl>>]

Cls(r) == IF r \in {al, bl} THEN "gr8" ELSE "gr"
Op(r, def, dead) == [reg |-> r, def |-> def, dead |-> dead, class |-> Cls(r), tied |-> FALSE]
Use(r) == Op(r, FALSE, FALSE)
Def(r) == Op(r, TRUE, FALSE)
Dead(r) == Op(r, TRUE, TRUE)
Tied(r) == [Def(r) EXCEPT !.tied = TRUE]
Implicit(mo) == [mo EXCEPT !.class = NoClass]

Instr(ops) == [ops |-> ops, mem |-> <<"none", Anywhere>>, latency |-> 1, boundary |-> FALSE]
Fence == [Instr(<<>>) EXCEPT !.boundary = TRUE]   \* a terminator or a label

\* Registers of one size.
Plain ==
  {Fence} \cup {Instr(ops) :
     ops \in {<<Def(a)>>, <<Dead(b)>>, <<Use(a)>>, <<Def(b), Use(a)>>, <<Tied(a), Use(a)>>}}
Parts ==
  {Instr(ops) : ops \in {<<Def(a)>>, <<Def(al)>>, <<Def(bl)>>, <<Use(a)>>, <<Use(al)>>,
                         <<Implicit(Use(al))>>}}
Memory ==
  {[Instr(<<>>) EXCEPT !.mem = mem] :
     mem \in {<<"barrier", Anywhere>>, <<"load", Anywhere>>, <<"store", v>>, <<"load", v>>,
              <<"store", w>>}}

MCInstrSets == {Plain, Parts, Memory}
=============================================================================
