----------------------------- MODULE SchedGraph -----------------------------
(***************************************************************************)
(* ScheduleDAGInstrs::BuildSchedGraph (lib/CodeGen/ScheduleDAGInstrs.cpp): *)
(* the dependence graph of a region of machine code, built in one walk     *)
(* from its bottom to its top.  The walk keeps, for each register, the     *)
(* instructions below that a new one must come before; it forgets those    *)
(* that are ordered through another one.                                   *)
(*                                                                         *)
(* An instruction is [ops, mem, latency].  ops is the sequence of its      *)
(* register operands [reg, def, dead]; mem says how it touches memory, and *)
(* which object if that is known: "barrier" stands for calls, unmodelled   *)
(* side effects, volatile accesses and stores to unknown places, "none"    *)
(* also for invariant loads.  The latencies targets and loops add are left *)
(* out.                                                                    *)
(***************************************************************************)
EXTENDS Integers, SequencesExt

CONSTANTS
  Regs,      \* physical registers
  Units,     \* Units[r]: the parts register r consists of
  Objects,   \* known memory objects
  Anywhere   \* the place of an access that is not known

Aliases(r)  == {s \in Regs \ {r} : Units[s] \cap Units[r] # {}}
Overlaps(r) == {r} \cup Aliases(r)

None == 0   \* a null SUnit*

Start ==
  [edges |-> {}, uses |-> [r \in Regs |-> {}], defs |-> [r \in Regs |-> {}],
   chain |-> None, memDefs |-> [v \in Objects |-> None],
   memUses |-> [v \in Objects |-> {}], pendingLoads |-> {}]

(***************************************************************************)
(* Register dependencies.  An edge is [from, to, kind, latency, reg].      *)
(***************************************************************************)
Edge(from, to, kind, latency, reg) ==
  [from |-> from, to |-> to, kind |-> kind, latency |-> latency, reg |-> reg]

\* MachineInstr::registerDefIsDead: a dead def of just this register.
registerDefIsDead(c, i, r) ==
  \E mo \in ToSet(c[i].ops) : mo.reg = r /\ mo.def /\ mo.dead

\* The edges from node i to the defs below of what operand mo names.
AntiOrOutput(c, d, i, mo) ==
  LET bothDead(n) == mo.def /\ mo.dead /\ registerDefIsDead(c, n, mo.reg)
  IN  UNION {{Edge(i, n, IF mo.def THEN "Output" ELSE "Anti", IF mo.def THEN 1 ELSE 0, r) :
                n \in {n \in d.defs[r] \ {i} : ~bothDead(n)}} : r \in Overlaps(mo.reg)}

DataEdges(c, d, i, mo) ==
  IF mo.def THEN UNION {{Edge(i, n, "Data", c[i].latency, r) : n \in d.uses[r] \ {i}} :
                          r \in Overlaps(mo.reg)}
  ELSE {}

\* if (!MO.isDead()) DefList.clear(); DefList.push_back(SU)
DefsAfter(d, i, mo) ==
  [d.defs EXCEPT ![mo.reg] = (IF mo.dead THEN @ ELSE {}) \cup {i}]

AddOperand(c, d, i, mo) ==
  LET linked == [d EXCEPT !.edges = @ \cup AntiOrOutput(c, d, i, mo)
                                      \cup DataEdges(c, d, i, mo)]
  IN  IF mo.def
      THEN [linked EXCEPT !.uses[mo.reg] = {}, !.defs = DefsAfter(d, i, mo)]
      ELSE [linked EXCEPT !.uses[mo.reg] = @ \cup {i}]

(***************************************************************************)
(* Chain dependencies.                                                     *)
(***************************************************************************)
Known(v) == {n \in {v} : n # None}

Ordered(c, d, i, S) ==
  [d EXCEPT !.edges = @ \cup {Edge(i, n, "Order", c[i].latency, None) : n \in S}]

LastStores(d) == UNION {Known(d.memDefs[v]) : v \in Objects}

\* new_chain: before all memory references below.
NewChain(c, d, i) ==
  [Ordered(c, d, i, Known(d.chain) \cup d.pendingLoads \cup LastStores(d)
                    \cup UNION {d.memUses[v] : v \in Objects})
     EXCEPT !.chain = i, !.pendingLoads = {},
            !.memDefs = [v \in Objects |-> IF @[v] = None THEN None ELSE i],
            !.memUses = [v \in Objects |-> {}]]

\* A store to v: before the store to v and the loads from v below.
StoreTo(c, d, i, v) ==
  [Ordered(c, d, i, Known(d.memDefs[v]) \cup d.memUses[v] \cup d.pendingLoads
                    \cup Known(d.chain))
     EXCEPT !.memDefs[v] = i, !.memUses[v] = {}]

\* (A chain with one known operand is a store: its ChainMMO asks for the edge.)
LoadFrom(c, d, i, v) ==
  [Ordered(c, d, i, Known(d.memDefs[v]) \cup Known(d.chain))
     EXCEPT !.memUses[v] = @ \cup {i}]

LoadAnything(c, d, i) ==
  [Ordered(c, d, i, Known(d.chain) \cup LastStores(d))
     EXCEPT !.pendingLoads = @ \cup {i}]

AddMemory(c, d, i) ==
  LET kind == c[i].mem[1]  place == c[i].mem[2]
  IN  CASE kind = "barrier" -> NewChain(c, d, i)
        [] kind = "store"   -> StoreTo(c, d, i, place)
        [] kind = "load" /\ place \in Objects -> LoadFrom(c, d, i, place)
        [] kind = "load" /\ place = Anywhere   -> LoadAnything(c, d, i)
        [] kind = "none"    -> d

AddInstr(c, d, i) ==
  AddMemory(c, FoldLeft(LAMBDA e, mo : AddOperand(c, e, i, mo), d, c[i].ops), i)

\* The graph of the whole region, for the modules that start from it.
BuildSchedGraph(c) ==
  FoldRight(LAMBDA i, d : AddInstr(c, d, i), [i \in DOMAIN c |-> i], Start).edges

(***************************************************************************)
(* What a program means: which writes its reads see.                       *)
(***************************************************************************)
\* The operands <<n, k>> that write unit u last before instruction i.
Writers(c, i, u) ==
  LET writes(n) == {<<n, k>> : k \in {k \in DOMAIN c[n].ops :
                                  c[n].ops[k].def /\ u \in Units[c[n].ops[k].reg]}}
      last == {n \in 1..(i - 1) : writes(n) # {} /\ \A m \in (n + 1)..(i - 1) : writes(m) = {}}
  IN  UNION {writes(n) : n \in last}

\* Where register r gets its value from, as seen by instruction i.
Sources(c, i, r) == UNION {Writers(c, i, u) : u \in Units[r]}

Uses(c, i) == {mo.reg : mo \in {mo \in ToSet(c[i].ops) : ~mo.def}}

\* A def marked dead is one nobody reads.
DeadAreDead(c) ==
  \A i \in DOMAIN c : \A r \in Uses(c, i) : \A w \in Sources(c, i, r) :
    ~c[w[1]].ops[w[2]].dead
=============================================================================
