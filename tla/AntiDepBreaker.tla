--------------------------- MODULE AntiDepBreaker ---------------------------
(***************************************************************************)
(* What the post-register-allocation scheduler does to a basic block       *)
(* (lib/CodeGen/PostRASchedulerList.cpp): from its bottom up, region by    *)
(* region, it renames registers to break anti-dependencies, reorders the   *)
(* region along its new graph, and observes the boundary above it.         *)
(*                                                                         *)
(* An operand has a register class too: NoClass for an implicit one; and   *)
(* tied says that a def has the register of a use.  Which edges lie on the *)
(* critical path, and which order along the graph is chosen, is left open. *)
(* IMPLICIT_DEF instructions are left out, and no instruction has two      *)
(* explicit defs: none of X86's has at this point.                         *)
(***************************************************************************)
EXTENDS SchedGraph

CONSTANTS
  AllocationOrder,  \* for each register class, its registers in this order
  Allocatable,      \* the allocatable registers
  LiveOut,          \* live at the end of the block, or callee-saved
  InstrSets,        \* sets of instructions, a block is made of one of them
  Length            \* length of the block

VARIABLES
  code,         \* code[i]: the instruction that stood at i at first
  layout,       \* layout[p]: the instruction at p now
  top,          \* InsertPosIndex: the end of the region
  count,        \* the place the walk comes to next
  graph,        \* SUnits: the edges of the region, between its places
  classes, killIndices, defIndices, regRefs, lastNewReg,
  original      \* history: the code at first

liveness == <<classes, killIndices, defIndices, regRefs>>
blockVars == <<code, layout, top, count, graph, liveness, lastNewReg, original>>

NoClass == "none"
Mixed   == "mixed"       \* the class pointer -1
Unset   == Length + 2    \* the index ~0u
NoReg   == 0             \* register 0

\* A register operand, and an instruction: stores to unknown places are barriers.
Operand ==
  [reg : Regs, def : BOOLEAN, dead : BOOLEAN, tied : BOOLEAN,
   class : DOMAIN AllocationOrder \cup {NoClass}]
Instruction ==
  {m \in [ops : Seq(Operand), latency : Nat, boundary : BOOLEAN,
          mem : {"none", "load", "store", "barrier"} \X (Objects \cup {Anywhere})] :
     m.mem[1] = "store" => m.mem[2] \in Objects}

ASSUME BlockAssumption ==
  /\ Length \in Nat
  /\ \A Instrs \in InstrSets : Instrs \subseteq Instruction
  /\ AllocationOrder \in [DOMAIN AllocationOrder -> Seq(Regs)]
  /\ {NoClass, Mixed} \cap DOMAIN AllocationOrder = {}
  /\ NoReg \notin Regs /\ Anywhere \notin Objects

SubRegs(r)   == {s \in Aliases(r) : Units[s] \subseteq Units[r]}
SuperRegs(r) == {s \in Aliases(r) : Units[r] \subseteq Units[s]}

Boundary(i) == code[i].boundary
BlockCode == [p \in 1..Length |-> code[layout[p]]]

\* The begin of the region that ends at t.
Begin(t) ==
  LET above == {p \in 1..(t - 1) : Boundary(layout[p])}
  IN  IF above = {} THEN 1 ELSE Max(above) + 1

Region(t) == [k \in 1..(t - Begin(t)) |-> BlockCode[Begin(t) + k - 1]]

RegionGraph(t) ==
  {[e EXCEPT !.from = @ + Begin(t) - 1, !.to = @ + Begin(t) - 1] :
     e \in BuildSchedGraph(Region(t))}

Run(t) ==
  /\ top' = t /\ count' = t - 1
  /\ graph' = RegionGraph(t)
  /\ lastNewReg' = [r \in Regs |-> NoReg]

\* StartBlock
StartBlock ==
  /\ \E Instrs \in InstrSets : code \in {c \in [1..Length -> Instrs] : DeadAreDead(c)}
  /\ original = code
  /\ layout = [p \in 1..Length |-> p]
  /\ top = Length + 1 /\ count = Length
  /\ graph = RegionGraph(top)
  /\ lastNewReg = [r \in Regs |-> NoReg]
  /\ LET live == UNION {Overlaps(r) : r \in LiveOut}
     IN  /\ classes = [r \in Regs |-> IF r \in live THEN Mixed ELSE NoClass]
         /\ killIndices = [r \in Regs |-> IF r \in live THEN Length + 1 ELSE Unset]
         /\ defIndices = [r \in Regs |-> IF r \in live THEN Unset ELSE Length + 1]
  /\ regRefs = [r \in Regs |-> {}]

(***************************************************************************)
(* Liveness: a record [classes, kill, def, refs].                          *)
(***************************************************************************)
Liveness == [classes |-> classes, kill |-> killIndices, def |-> defIndices, refs |-> regRefs]

\* The class after one more reference, by an operand of class new.
Merged(old, new) ==
  IF old = NoClass /\ new # NoClass THEN new
  ELSE IF new = NoClass \/ old # new THEN Mixed ELSE old

PrescanOperand(l, i, k) ==
  LET mo == code[i].ops[k]
      inUse == {a \in Aliases(mo.reg) : l.classes[a] # NoClass}
      new == [r \in Regs |->
                IF r \in inUse \/ (r = mo.reg /\ inUse # {}) THEN Mixed
                ELSE IF r = mo.reg THEN Merged(l.classes[r], mo.class) ELSE l.classes[r]]
  IN  [l EXCEPT !.classes = new,
                !.refs[mo.reg] = IF new[mo.reg] = Mixed THEN @ ELSE @ \cup {<<i, k>>}]

PrescanInstruction(l, i) ==
  FoldLeft(LAMBDA m, k : PrescanOperand(m, i, k), l, [k \in DOMAIN code[i].ops |-> k])

\* Above a def, the register and its subregisters are dead; registers that
\* contain it become unusable.
Defined(l, r, n) ==
  LET gone == {r} \cup SubRegs(r)
  IN  [classes |-> [s \in Regs |-> IF s \in gone THEN NoClass
                                   ELSE IF s \in SuperRegs(r) THEN Mixed ELSE l.classes[s]],
       kill |-> [s \in Regs |-> IF s \in gone THEN Unset ELSE l.kill[s]],
       def  |-> [s \in Regs |-> IF s \in gone THEN n ELSE l.def[s]],
       refs |-> [s \in Regs |-> IF s \in gone THEN {} ELSE l.refs[s]]]

\* Above a use, the register and its aliases are live.
Used(l, i, k, c, n) ==
  LET mo == c[i].ops[k]
      born == {s \in Overlaps(mo.reg) : l.kill[s] = Unset}
  IN  [classes |-> [l.classes EXCEPT ![mo.reg] = Merged(@, mo.class)],
       kill |-> [s \in Regs |-> IF s \in born THEN n ELSE l.kill[s]],
       def  |-> [s \in Regs |-> IF s \in born THEN Unset ELSE l.def[s]],
       refs |-> [l.refs EXCEPT ![mo.reg] = @ \cup {<<i, k>>}]]

ScanInstruction(l, i, c, n) ==
  LET ops == [k \in DOMAIN c[i].ops |-> k]
      defined == FoldLeft(LAMBDA m, k : IF c[i].ops[k].def /\ ~c[i].ops[k].tied
                                        THEN Defined(m, c[i].ops[k].reg, n) ELSE m, l, ops)
  IN  FoldLeft(LAMBDA m, k : IF c[i].ops[k].def THEN m ELSE Used(m, i, k, c, n), defined, ops)

SetLiveness(l) ==
  /\ classes' = l.classes /\ killIndices' = l.kill
  /\ defIndices' = l.def /\ regRefs' = l.refs

(***************************************************************************)
(* BreakAntiDependencies                                                   *)
(***************************************************************************)
\* The registers of the anti-dependencies of the instruction at p that look
\* worth breaking, should they be on the critical path.
AntiDepRegs(p) ==
  LET in == {e \in graph : e.to = p}
      only(e) == \A f \in in :
        IF f.from = e.from THEN f.kind = "Anti" /\ f.reg = e.reg
        ELSE ~(f.kind = "Data" /\ f.reg = e.reg)
  IN  {e.reg : e \in {e \in in : e.kind = "Anti" /\ e.reg \in Allocatable /\ only(e)}}

\* Those that turn out to be possible, after PrescanInstruction.
Breakable(l, p) ==
  {r \in AntiDepRegs(p) : r \notin Uses(code, layout[p]) /\ l.classes[r] # Mixed}

\* "If NewReg is dead and NewReg's most recent def is not before AntiDepReg's
\* kill, it's safe to replace AntiDepReg with NewReg."
Suitable(l, r) ==
  {n \in Regs \ {r, lastNewReg[r]} :
     l.kill[n] = Unset /\ l.classes[n] # Mixed /\ l.kill[r] <= l.def[n]}

\* The first in the allocation order, or none.
findSuitableFreeRegister(l, r) ==
  LET regs == AllocationOrder[l.classes[r]]
      free == {k \in DOMAIN regs : regs[k] \in Suitable(l, r)}
  IN  IF free = {} THEN NoReg ELSE regs[Min(free)]

Renamed(refs, new) ==
  [i \in DOMAIN code |->
    [code[i] EXCEPT !.ops = [k \in DOMAIN @ |->
       IF <<i, k>> \in refs THEN [@[k] EXCEPT !.reg = new] ELSE @[k]]]]

\* Fault: the old register gets no def index.
LivenessRenamedKeptDef(l, old, new) ==
  [classes |-> [l.classes EXCEPT ![new] = l.classes[old], ![old] = NoClass],
   kill    |-> [l.kill EXCEPT ![new] = l.kill[old], ![old] = Unset],
   def     |-> [l.def EXCEPT ![new] = l.def[old]],
   refs    |-> [l.refs EXCEPT ![old] = {}]]

LivenessRenamed(l, old, new) ==
  [classes |-> [l.classes EXCEPT ![new] = l.classes[old], ![old] = NoClass],
   kill    |-> [l.kill EXCEPT ![new] = l.kill[old], ![old] = Unset],
   def     |-> [l.def EXCEPT ![new] = l.def[old], ![old] = l.kill[old]],
   refs    |-> [l.refs EXCEPT ![old] = {}]]

\* The instruction at count: with one of its anti-dependencies broken, or as it is.
InRegion == count >= Begin(top)

Break ==
  /\ InRegion
  /\ LET l == PrescanInstruction(Liveness, layout[count])
     IN  \E old \in Breakable(l, count) :
           LET new == findSuitableFreeRegister(l, old)
           IN  /\ new # NoReg
               /\ code' = Renamed(l.refs[old], new)
               /\ lastNewReg' = [lastNewReg EXCEPT ![old] = new]
               /\ SetLiveness(ScanInstruction(LivenessRenamed(l, old, new),
                                              layout[count], code', count))
  /\ count' = count - 1
  /\ UNCHANGED <<layout, top, graph, original>>

Keep ==
  /\ InRegion
  /\ SetLiveness(ScanInstruction(PrescanInstruction(Liveness, layout[count]),
                                 layout[count], code, count))
  /\ count' = count - 1
  /\ UNCHANGED <<code, layout, top, graph, lastNewReg, original>>

(***************************************************************************)
(* The end of a region: it is scheduled, and the boundary above observed.  *)
(***************************************************************************)
\* The orders the new graph of the region allows.
Schedules ==
  LET low == Begin(top)  len == top - low
      edges == BuildSchedGraph(Region(top))
  IN  {[p \in 1..Length |-> IF p \in low..(top - 1) THEN layout[f[p - low + 1] + low - 1] ELSE layout[p]] :
         f \in {f \in [1..len -> 1..len] :
                  /\ \A x \in 1..len : \E j \in 1..len : f[j] = x
                  /\ \A j, k \in 1..len : j < k =>
                       \A e \in edges : ~(e.from = f[k] /\ e.to = f[j])}}

\* What was defined in the region may have moved to its end.
Clobbered == {r \in Regs : count <= defIndices[r] /\ defIndices[r] < top}

\* Fault: the boundary is only scanned.
Unmoved == Liveness

Moved ==
  [Liveness EXCEPT
     !.classes = [r \in Regs |-> IF r \in Clobbered THEN Mixed ELSE @[r]],
     !.def = [r \in Regs |-> IF r \in Clobbered THEN top ELSE @[r]]]

\* Schedule, then Observe of the boundary, then the region above it.
Schedule ==
  /\ ~InRegion /\ count > 0
  /\ layout' \in Schedules
  /\ LET i == layout[count]
     IN  SetLiveness(ScanInstruction(PrescanInstruction(Moved, i), i, code, count))
  /\ Run(count)
  /\ UNCHANGED <<code, original>>

\* The region at the top of the block.
ScheduleLast ==
  /\ count = 0 /\ top > 0
  /\ layout' \in Schedules
  /\ top' = 0
  /\ UNCHANGED <<code, count, graph, liveness, lastNewReg, original>>

BlockNext == Break \/ Keep \/ Schedule \/ ScheduleLast \/ (top = 0 /\ UNCHANGED blockVars)

BlockSpec == StartBlock /\ [][BlockNext]_blockVars

(***************************************************************************)
(* Properties.                                                             *)
(***************************************************************************)
\* Where the values come from that each operand of c, standing in order o,
\* reads, and that the block leaves in the registers live at its end.
Dataflow(c, o) ==
  LET placed == [p \in 1..Length |-> c[o[p]]]
      named(W) == {<<o[w[1]], w[2]>> : w \in W}
      at(i) == CHOOSE p \in 1..Length : o[p] = i
  IN  <<[i \in 1..Length |-> [k \in DOMAIN c[i].ops |->
           IF c[i].ops[k].def THEN {} ELSE named(Sources(placed, at(i), c[i].ops[k].reg))]],
        [r \in LiveOut |-> named(Sources(placed, Length + 1, r))]>>

MemoryConflict(i, j) ==
  LET m == code[i].mem  n == code[j].mem
  IN  /\ "none" \notin {m[1], n[1]}
      /\ {m[1], n[1]} # {"load"}
      /\ m[2] = n[2] \/ Anywhere \in {m[2], n[2]}

\* Renaming and reordering leave every value where it is used: no register is
\* taken that is live, that is written between, or that moved meanwhile. And
\* accesses to memory that may conflict stay in order, although the walk
\* forgets all but the last of them.
DataflowKept ==
  /\ Dataflow(code, layout) = Dataflow(original, [p \in 1..Length |-> p])
  /\ \A p, q \in 1..Length :
       p < q /\ MemoryConflict(layout[p], layout[q]) => layout[p] < layout[q]

\* "Kill and Def maps aren't consistent", "Clobbered register is live!": the
\* assertions never fire, across renamings, aliases and boundaries. And neither
\* does "Register should be live if it's causing an anti-dependence!": a class
\* that is consulted is one, although the graph is older than the renamings.
MapsConsistent ==
  /\ \A r \in Regs : (killIndices[r] = Unset) # (defIndices[r] = Unset)
  /\ ~InRegion => \A r \in Clobbered : killIndices[r] = Unset
  /\ InRegion => \A r \in AntiDepRegs(count) :
       PrescanInstruction(Liveness, layout[count]).classes[r] # NoClass
=============================================================================
