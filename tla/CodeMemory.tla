----------------------------- MODULE CodeMemory -----------------------------
(***************************************************************************)
(* DefaultJITMemoryManager (lib/ExecutionEngine/JIT/JITMemoryManager.cpp):   *)
(* the memory that machine code and exception tables are emitted into.       *)
(*                                                                         *)
(* A slab is tiled by blocks. A block starts with a header of one word; a    *)
(* free block has its links in the next two words, and its size in its last  *)
(* one. The model keeps that layout: mem is the memory, word by word, so     *)
(* that a header, a link, a marker or code written to the wrong place does   *)
(* to the other what it does there. Sizes are in words. Memory is poisoned,  *)
(* as in a build with assertions.                                           *)
(***************************************************************************)
EXTENDS Naturals, Sequences, SequencesExt, FiniteSets, FiniteSetsExt, Functions

CONSTANTS
  Function,
  Sizes,          \* the sizes startFunctionBody is asked for; 0 means unknown
  Used,           \* the words that emission may fill, if it does not fill all
  Tables,         \* functions have exception tables
  Spaces,         \* <<size, alignment>> that allocateSpace may be called with
  MaxSpaces,      \* bound on those calls
  SlabSize,       \* DefaultCodeSlabSize
  MaxWords,       \* bound on the memory the system has
  NoBody          \* nothing was emitted there

MinBlock == 4     \* getMinBlockSize

ASSUME CodeMemoryAssumption ==
  /\ Sizes \subseteq Nat /\ Used \subseteq Nat /\ Spaces \subseteq Nat \X (Nat \ {0})
  /\ SlabSize \in Nat /\ MaxWords \in Nat /\ SlabSize <= MaxWords
  /\ SlabSize >= 2 * MinBlock + 2

Kind == {"code", "table"}
Addr == 1..MaxWords

VARIABLES
  mem,
  FreeMemoryList,
  CurBlock,
  CodeSlabs,      \* a sequence of [base, size]
  Blocks,         \* FunctionBlocks and TableBlocks; 0: no entry
  filled,         \* the words of a block in Blocks that were emitted into
  emitting,       \* what the emitter is at: <<>>, or <<kind, function, started>>
  spaces          \* what allocateSpace returned: [block, at, size]

memoryVars == <<mem, FreeMemoryList, CurBlock, CodeSlabs, Blocks, filled, emitting, spaces>>

-----------------------------------------------------------------------------
(***************************************************************************)
(* Words, headers and the free list                                        *)
(***************************************************************************)
Word(n) == [ta |-> 0, pa |-> 0, n |-> n, by |-> NoBody]
Header(ta, pa, n) == [ta |-> ta, pa |-> pa, n |-> n, by |-> NoBody]
Emitted(k, f) == [ta |-> 1, pa |-> 1, n |-> 0, by |-> <<k, f>>]
Poison == Header(1, 0, 0)

BlockAfter(m, b) == b + m[b].n
PrevOf(m, b) == m[b + 1].n
NextOf(m, b) == m[b + 2].n

\* The words from a to z become w.
Fill(m, a, z, w) == [x \in DOMAIN m |-> IF a <= x /\ x <= z THEN w ELSE m[x]]

\* The marker of a free block. What is between its links and the marker is never
\* read again: the model forgets it.
SetEndOfBlockSizeMarker(m, b) ==
  [Fill(m, b + 3, BlockAfter(m, b) - 2, Poison) EXCEPT ![BlockAfter(m, b) - 1] = Word(m[b].n)]

RemoveFromFreeList(m, b) ==
  [m EXCEPT ![NextOf(m, b) + 1] = Word(PrevOf(m, b)), ![PrevOf(m, b) + 2] = Word(NextOf(m, b))]

AddToFreeList(m, b, list) ==
  [m EXCEPT ![b + 1] = Word(PrevOf(m, list)), ![b + 2] = Word(list),
            ![PrevOf(m, list) + 2] = Word(b), ![list + 1] = Word(b)]

\* The blocks met going round the list, from the one it begins with; there are no
\* more of them than fit.
FreeList(m, list) ==
  LET Met[n \in 0..(MaxWords \div MinBlock)] ==
        IF n = 0 THEN <<list>>
        ELSE LET l == Met[n - 1]
                 next == NextOf(m, Last(l))
             IN  IF next = list THEN l ELSE Append(l, next)
  IN  Met[MaxWords \div MinBlock]

(***************************************************************************)
(* Operations on blocks: the memory they leave, and the list they return   *)
(***************************************************************************)
AllocateBlock(m, b) ==
  [mem  |-> RemoveFromFreeList([m EXCEPT ![b].ta = 1, ![BlockAfter(m, b)].pa = 1], b),
   list |-> NextOf(m, b)]

\* Fault: the marker keeps the size it had.
GrowSilently(m, b, size) ==
  [m EXCEPT ![b].n = size, ![b + size].pa = 0]

GrowBlock(m, b, size) ==
  LET grown == SetEndOfBlockSizeMarker([m EXCEPT ![b].n = size], b)
  IN  [grown EXCEPT ![BlockAfter(grown, b)].pa = 0]

\* The block behind b, which is free, becomes part of b, which is still allocated.
MergedAfter(m, b) ==
  LET next  == BlockAfter(m, b)
      taken == [RemoveFromFreeList(m, next) EXCEPT ![b].n = @ + m[next].n]
  IN  [taken EXCEPT ![BlockAfter(taken, b)].pa = 1]

Merges(m, b) == m[BlockAfter(m, b)].ta = 0

\* FreeListToReturn, or the block if the list began with what is merged into it.
ListLeft(list, lost, b) == IF lost THEN b ELSE list

FreeBlock(m, list, b) ==
  LET next  == BlockAfter(m, b)
      lost  == Merges(m, b) /\ next = list   \* the list begins with the block behind
      m1    == IF Merges(m, b) THEN MergedAfter(m, b) ELSE m
      from  == IF lost THEN NextOf(m, next) ELSE list
      prev  == b - m1[b - 1].n
  IN  IF m1[b].pa = 0
      THEN [mem |-> GrowBlock(m1, prev, m1[prev].n + m1[b].n), list |-> ListLeft(list, lost, prev)]
      ELSE [mem |-> SetEndOfBlockSizeMarker(
                      AddToFreeList([m1 EXCEPT ![BlockAfter(m1, b)].pa = 0, ![b].ta = 0], b, from), b),
            list |-> ListLeft(list, lost, b)]

\* Fault: the header is not counted.
NewSizeShort(size) == Max({MinBlock, size - 1})

NewSize(size) == Max({MinBlock, size})

TrimAllocationToSize(m, list, b, size) ==
  LET new  == NewSize(size)
      rest == b + new
      cut  == SetEndOfBlockSizeMarker(
                [m EXCEPT ![b].n = new, ![rest] = Header(0, 1, m[b].n - new)], rest)
  IN  IF m[b].n <= new + MinBlock THEN [mem |-> m, list |-> list]
      ELSE [mem |-> AddToFreeList([cut EXCEPT ![BlockAfter(m, b)].pa = 0], rest, list), list |-> rest]

-----------------------------------------------------------------------------
(***************************************************************************)
(* The manager                                                             *)
(***************************************************************************)
\* The first slab: a large free block, then three that are never given back:
\* a separator, a tiny free block that keeps the list from being empty, the end.
Mem1 == SlabSize - MinBlock - 1
Mem2 == SlabSize - MinBlock
Mem3 == SlabSize

MemoryInit ==
  LET laid == [[x \in Addr |-> Poison] EXCEPT
                 ![Mem3] = Header(1, 0, 1),
                 ![Mem2] = Header(0, 1, MinBlock), ![Mem2 + 1] = Word(Mem2), ![Mem2 + 2] = Word(Mem2),
                 ![Mem1] = Header(1, 0, 1), ![1] = Header(0, 1, Mem1 - 1)]
  IN  /\ mem = AddToFreeList(SetEndOfBlockSizeMarker(SetEndOfBlockSizeMarker(laid, Mem2), 1), 1, Mem2)
      /\ FreeMemoryList = 1
      /\ CurBlock = 0
      /\ CodeSlabs = <<[base |-> 1, size |-> SlabSize]>>
      /\ Blocks = [p \in Kind \X Function |-> 0]
      /\ filled = [p \in Kind \X Function |-> 0]
      /\ emitting = <<>>
      /\ spaces = {}

\* Fault: the end of the slab is not counted.
NewSlabTight(size) ==
  [base |-> Last(CodeSlabs).base + Last(CodeSlabs).size, size |-> Max({SlabSize, size + 1})]

\* The system puts a slab right behind the last one.
NewSlab(size) ==
  [base |-> Last(CodeSlabs).base + Last(CodeSlabs).size, size |-> Max({SlabSize, size + 2})]

\* allocateNewCodeSlab.
WithSlab(m, list, s) ==
  LET end  == s.base + s.size - 1
      laid == [m EXCEPT ![end] = Header(1, 0, 1), ![s.base] = Header(0, 1, s.size - 1)]
  IN  AddToFreeList(SetEndOfBlockSizeMarker(laid, s.base), s.base, list)

\* The first of the largest blocks in the list.
Candidate ==
  LET blocks == FreeList(mem, FreeMemoryList)
      largest(i) == \A j \in DOMAIN blocks : mem[blocks[j]].n <= mem[blocks[i]].n
  IN  blocks[CHOOSE i \in DOMAIN blocks : largest(i) /\ \A j \in 1..(i - 1) : ~largest(j)]

TooSmall(b, ask) == mem[b].n - 1 < ask \/ mem[b].n - 1 <= MinBlock

\* startFunctionBody, which startExceptionTable calls with an unknown size.
StartBlock(k, f, ask) ==
  /\ LET b == Candidate  s == NewSlab(ask) IN
       IF TooSmall(b, ask)
       THEN /\ s.base + s.size - 1 <= MaxWords
            /\ CodeSlabs' = Append(CodeSlabs, s)
            /\ CurBlock' = s.base
            /\ LET a == AllocateBlock(WithSlab(mem, FreeMemoryList, s), s.base)
               IN  mem' = a.mem /\ FreeMemoryList' = a.list
       ELSE /\ CodeSlabs' = CodeSlabs
            /\ CurBlock' = b
            /\ LET a == AllocateBlock(mem, b) IN mem' = a.mem /\ FreeMemoryList' = a.list
  /\ emitting' = <<k, f, TRUE>>
  /\ UNCHANGED <<Blocks, filled, spaces>>

\* A function that is emitted again before it is freed loses its old block.
StartFunctionBody(f, ask) == emitting = <<>> /\ StartBlock("code", f, ask)

StartExceptionTable(f) == emitting = <<"table", f, FALSE>> /\ StartBlock("table", f, 0)

\* The words there are for what is emitted.
Room == IF CurBlock = 0 THEN 0 ELSE mem[CurBlock].n - 1

\* Emission fills n words; the rest of the block is given back. A body that
\* fills its block is tried again: it is freed and asked for twice the size.
End(k, f, n) ==
  /\ emitting = <<k, f, TRUE>>
  /\ n \in 1..Room
  /\ LET clean == Fill(mem, CurBlock + 1, CurBlock + Room, Poison)
         t == TrimAllocationToSize(Fill(clean, CurBlock + 1, CurBlock + n, Emitted(k, f)),
                                   FreeMemoryList, CurBlock, n + 1)
     IN  mem' = t.mem /\ FreeMemoryList' = t.list
  /\ Blocks' = [Blocks EXCEPT ![<<k, f>>] = CurBlock]
  /\ filled' = [filled EXCEPT ![<<k, f>>] = n]
  /\ emitting' = IF k = "code" /\ Tables /\ n < Room
                 THEN <<"table", f, FALSE>> ELSE <<>>
  /\ UNCHANGED <<CurBlock, CodeSlabs, spaces>>

EndFunctionBody(f, n) == End("code", f, n)
EndExceptionTable(f, n) == End("table", f, n)

\* The block at b goes, if there is one.
Freed(g, b) ==
  IF b = 0 THEN g
  ELSE FreeBlock(Fill(g.mem, b + 1, BlockAfter(g.mem, b) - 1, Poison), g.list, b)

FreedAll(f) ==
  Freed(Freed([mem |-> mem, list |-> FreeMemoryList], Blocks[<<"code", f>>]), Blocks[<<"table", f>>])

\* deallocateMemForFunction; it is not called while a function is emitted.
Deallocate(f) ==
  /\ emitting = <<>>
  /\ Blocks[<<"code", f>>] # 0
  /\ LET g == FreedAll(f) IN mem' = g.mem /\ FreeMemoryList' = g.list
  /\ Blocks' = [Blocks EXCEPT ![<<"code", f>>] = 0, ![<<"table", f>>] = 0]
  /\ filled' = [filled EXCEPT ![<<"code", f>>] = 0, ![<<"table", f>>] = 0]
  /\ UNCHANGED <<CurBlock, CodeSlabs, emitting, spaces>>

\* allocateSpace takes the block the list begins with, whatever its size: it is
\* called while that one has room and is not the tiny one.
AllocateSpace(size, alignment) ==
  LET b  == FreeMemoryList
      at == ((b + alignment) \div alignment) * alignment
      g  == AllocateBlock(mem, b)
      m  == Fill(g.mem, b + 1, BlockAfter(g.mem, b) - 1, Poison)
      t  == TrimAllocationToSize(m, g.list, b, at + size - b)
  IN  /\ emitting = <<>>
      /\ Cardinality(spaces) < MaxSpaces
      /\ b # Mem2 /\ at + size <= BlockAfter(mem, b)
      /\ CurBlock' = b
      /\ mem' = t.mem
      /\ FreeMemoryList' = t.list
      /\ spaces' = spaces \cup {[block |-> b, at |-> at, size |-> size]}
      /\ UNCHANGED <<CodeSlabs, Blocks, filled, emitting>>

MemoryNext ==
  \/ \E f \in Function, ask \in Sizes : StartFunctionBody(f, ask)
  \/ \E f \in Function : StartExceptionTable(f)
  \/ \E f \in Function, n \in Used \cup {Room} :
       EndFunctionBody(f, n) \/ EndExceptionTable(f, n)
  \/ \E f \in Function : Deallocate(f)
  \/ \E s \in Spaces : AllocateSpace(s[1], s[2])

MemorySpec == MemoryInit /\ [][MemoryNext]_memoryVars

-----------------------------------------------------------------------------
(***************************************************************************)
(* Properties                                                              *)
(***************************************************************************)
EndOf(s) == s.base + s.size
FreeSet == Range(FreeList(mem, FreeMemoryList))

\* The headers of a slab, going from block to block.
Headers(s) ==
  LET Met[n \in 0..s.size] ==
        IF n = 0 THEN <<s.base>>
        ELSE LET l == Met[n - 1]
                 next == BlockAfter(mem, Last(l))
             IN  IF next \in (Last(l) + 1)..(EndOf(s) - 1) THEN Append(l, next) ELSE l
  IN  Met[s.size]

\* What CheckInvariants looks at.
CheckInvariants == LET free == FreeSet IN
  /\ \A b \in free : /\ \E i \in DOMAIN CodeSlabs :
                              b \in CodeSlabs[i].base..(EndOf(CodeSlabs[i]) - 1)
                         /\ PrevOf(mem, NextOf(mem, b)) = b
  /\ \A i \in DOMAIN CodeSlabs :
       LET s == CodeSlabs[i]  nth == Headers(s) IN
       /\ mem[s.base].pa = 1
       /\ \A j \in DOMAIN nth :
            /\ mem[nth[j]].ta = 0 =>
                 /\ nth[j] \in free
                 /\ BlockAfter(mem, nth[j]) - 1 \in s.base..(EndOf(s) - 1)
                 /\ mem[BlockAfter(mem, nth[j]) - 1].n = mem[nth[j]].n
            /\ j > 1 => mem[nth[j]].pa = mem[nth[j - 1]].ta

AllHeaders == UNION {Range(Headers(CodeSlabs[i])) : i \in DOMAIN CodeSlabs}

\* "Missed coalescing?": two blocks side by side are never both free, so what was
\* split comes together again.
Coalesced ==
  \A i \in DOMAIN CodeSlabs : LET nth == Headers(CodeSlabs[i]) IN
    \A j \in DOMAIN nth \ {1} : mem[nth[j]].ta = 1 \/ mem[nth[j - 1]].ta = 1

\* "The last three blocks are never deallocated or touched": the tiny free block
\* stays free, so the list is never empty.
TombstoneFree ==
  /\ mem[Mem1].ta = 1 /\ mem[Mem1].n = 1
  /\ mem[Mem2].ta = 0 /\ mem[Mem2].n = MinBlock
  /\ mem[Mem3].ta = 1

\* Whatever is allocated, grown and freed in whatever order, the invariants the
\* manager's own test checks hold (links, markers, PrevAllocated), the list holds
\* nothing but free blocks, and what is free is in one piece.
Sound ==
  /\ CheckInvariants /\ Coalesced /\ TombstoneFree
  /\ FreeSet \subseteq {b \in AllHeaders : mem[b].ta = 0}

\* The code and the table of a function stay as they were emitted until the
\* function is freed: no header, link, marker, poison or other code goes there.
CodeKept ==
  \A p \in DOMAIN Blocks : Blocks[p] # 0 =>
    \A i \in 1..filled[p] : mem[Blocks[p] + i].by = p

\* "This method returns a block with at least that much space", also where
\* another slab has to be made for it.
EnoughSpace ==
  [][\A f \in Function, ask \in Sizes : StartFunctionBody(f, ask) => Room' >= ask]_memoryVars
=============================================================================
