------------------------------ MODULE SproutHeap ------------------------------
(***************************************************************************)
(* The VM's garbage-collected heap: two half-spaces of malloc'ed chunks,   *)
(* the array instructions, and the copying collector, over the registers   *)
(* and the stack of CallStack.  Memory is a function from word addresses   *)
(* to words; a header, an element or a forwarding address is whatever word *)
(* lies at its address, as in the code, so that two objects that share a   *)
(* word damage each other.                                                 *)
(*                                                                         *)
(* An access outside the memory malloc handed out is undefined behaviour   *)
(* (status "wild"); an exception, or the std::bad_alloc of a walk that     *)
(* never ends, leaves the VM (status "threw").                             *)
(*                                                                         *)
(* A program loads the integers an array instruction takes (length, type,  *)
(* index) right before it: they are parameters of the action, and reg      *)
(* holds the registers that may hold pointers.                             *)
(***************************************************************************)
EXTENDS CallStack, Bump

CONSTANTS
  Regions,           \* addresses malloc(CHUNK_SIZE) can return
  Malloc(_),         \* what it may return when the given regions are free
  max,               \* Heap::max, of both half-spaces
  Recycle,           \* does malloc hand out freed regions as they were left?
  Lengths, Types,    \* operands of arr
  Indices(_),        \* indices a program uses on an array of a given length
  PointerElements,   \* does the program store pointers in arrays?
  AnyOperand         \* does it take a register that holds no array for one?

ASSUME HeapAssumption ==
  /\ Regions \subseteq 1 .. MID * LO - 1
  /\ \A m \in Regions : m % ALIGN = 0
  /\ \A m, n \in Regions : m < n => m + CHUNK_SIZE =< n
  /\ \A F \in SUBSET Regions : Malloc(F) \subseteq F
  /\ max \in Nat
  /\ Recycle \in BOOLEAN /\ PointerElements \in BOOLEAN /\ AnyOperand \in BOOLEAN
  /\ Lengths \subseteq Nat /\ Types \subseteq Nat

VARIABLES
  mem,               \* word address -> word
  chunks,            \* half-space -> its chunks
  totalAllocated,    \* half-space -> bytes given out
  heapAUsed,
  gc                 \* where a collection stands

VARIABLE arrays      \* history: payload addresses of the arrays in both half-spaces

heapVars == <<mem, chunks, totalAllocated, heapAUsed, gc, arrays>>
allVars  == <<stackVars, heapVars>>

Spaces == {"A", "B"}
active == IF heapAUsed THEN "A" ELSE "B"
idle   == IF heapAUsed THEN "B" ELSE "A"

wordsOf(m)   == {m + 8 * k : k \in 0 .. CHUNK_SIZE \div 8 - 1}
Cells        == UNION {wordsOf(m) : m \in Regions}
heldBy(cs)   == {cs[i].mem : i \in DOMAIN cs}
Held         == heldBy(chunks["A"]) \cup heldBy(chunks["B"])
Mapped(M, S) == \A a \in S : a % 8 = 0 /\ \E m \in M : m =< a /\ a < m + CHUNK_SIZE

\* f with g's values where g has one.
overwrite(f, g) == [x \in DOMAIN f |-> IF x \in DOMAIN g THEN g[x] ELSE f[x]]

HeapWild  == status' = "wild"  /\ UNCHANGED <<reg, stack, sp, fp, ip, frames, heapVars>>
HeapThrew == status' = "threw" /\ UNCHANGED <<reg, stack, sp, fp, ip, frames, heapVars>>

NotCollecting == [phase |-> "idle", at |-> <<1, 0>>, objects |-> <<>>,
                  ptrHolder |-> {}, want |-> <<>>]

Mutating == Running /\ gc.phase = "idle"

(***************************************************************************)
(* heapAlloc.                                                              *)
(***************************************************************************)
\* The chunks of half-space s once its last one has room, for every answer of
\* malloc; none if malloc returns null.
withRoom(s, total) ==
  IF noRoom(chunks[s], total)
  THEN {Append(chunks[s], newChunk(m)) : m \in Malloc(Regions \ Held)}
  ELSE {chunks[s]}

headerMarked(h, total, type) ==
  [a \in {h, h + 8} |-> IF a = h THEN marked(header(total, type)) ELSE ZERO]

\* size, type, flags = 0 and forwarded = nullptr, at address h
headerAt(h, total, type) ==
  [a \in {h, h + 8} |-> IF a = h THEN header(total, type) ELSE ZERO]

\* Mutants of Take: the chunk's `used' is not advanced; headers are not counted.
TakeWithoutBump(s, cs, total) ==
  /\ chunks' = [chunks EXCEPT ![s] = cs]
  /\ totalAllocated' = [totalAllocated EXCEPT ![s] = @ + total]
TakePayload(s, cs, total) ==
  /\ chunks' = [chunks EXCEPT ![s] = bumped(cs, total)]
  /\ totalAllocated' = [totalAllocated EXCEPT ![s] = @ + (total - OBJ_HEADER)]

Take(s, cs, total) ==
  /\ chunks' = [chunks EXCEPT ![s] = bumped(cs, total)]
  /\ totalAllocated' = [totalAllocated EXCEPT ![s] = @ + total]

(***************************************************************************)
(* initArray.  The object is 8 bytes of data larger than its elements, but *)
(* the elements start a whole arrayObj (24 bytes) into it.                 *)
(***************************************************************************)
NewArray(dst, length, type) ==
  LET total == align(OBJ_HEADER + 8 * length + 8)
  IN \/ withRoom(active, total) = {} /\ HeapThrew
     \/ \E cs \in withRoom(active, total) :
          LET h     == nextAddr(cs)
              p     == h + OBJ_HEADER
              body  == {p + 16} \cup {p + ARRAY_OBJ + 8 * i : i \in 0 .. length - 1}
              array == [a \in body |-> IF a = p + 16 THEN arrayInfo(type, length)
                                       ELSE ZERO]
          IN \/ ~Mapped(Held \cup heldBy(cs), body) /\ HeapWild
             \/ /\ Mapped(Held \cup heldBy(cs), body)
                /\ mem' = overwrite(overwrite(mem, headerAt(h, total, OBJ_ARRAY)), array)
                /\ Take(active, cs, total)
                /\ reg' = [reg EXCEPT ![dst] = encodePointer(p)]
                /\ arrays' = arrays \cup {p}
                /\ gc' = NotCollecting
                /\ UNCHANGED <<stack, sp, fp, ip, status, frames, heapAUsed>>

\* totalAllocated > max * 0.7
NeedsGC == 10 * totalAllocated[active] > 7 * max

ArrInit(dst, length, type) ==
  /\ Mutating
  /\ ~NeedsGC
  /\ NewArray(dst, length, type)

(***************************************************************************)
(* The collector.  Nothing else runs until it is done; its steps are cut   *)
(* at each object.                                                         *)
(***************************************************************************)
StartGC(dst, length, type) ==
  /\ Mutating
  /\ NeedsGC
  /\ gc' = [NotCollecting EXCEPT !.phase = "walk", !.want = <<dst, length, type>>]
  /\ UNCHANGED <<stackVars, mem, chunks, totalAllocated, heapAUsed, arrays>>

\* Mutant of after: past a chunk's last object the cursor is back at its first.
afterSameChunk(size) ==
  LET off == gc.at[2] + size
  IN IF off >= chunks[active][gc.at[1]].used THEN <<gc.at[1], 0>>
     ELSE <<gc.at[1], off>>

\* The object the walk of a half-space stands at, and where its size leads.
objAt == chunks[active][gc.at[1]].mem + gc.at[2]
after(size) ==
  LET off == gc.at[2] + size
  IN IF off >= chunks[active][gc.at[1]].used THEN <<gc.at[1] + 1, 0>>
     ELSE <<gc.at[1], off>>
walked(at) == at[1] > Len(chunks[active])

\* One turn of getAllObjects.
WalkObject ==
  /\ Running
  /\ gc.phase = "walk"
  /\ \/ ~Mapped(Held, {objAt}) /\ HeapWild
     \/ Mapped(Held, {objAt}) /\ sizeOf(mem[objAt]) = 0 /\ HeapThrew
     \/ /\ Mapped(Held, {objAt})
        /\ sizeOf(mem[objAt]) # 0
        /\ LET next == after(sizeOf(mem[objAt]))
           IN gc' = [gc EXCEPT !.objects = Append(@, objAt), !.at = next,
                               !.phase = IF walked(next) THEN "mark" ELSE "walk"]
        /\ UNCHANGED <<stackVars, mem, chunks, totalAllocated, heapAUsed, arrays>>

\* Mutants of Roots: the stack is not a root; its top slot is not.
RootsInRegisters == {<<"reg", r>> : r \in {r \in Regs : isPointer(reg[r])}}
RootsBelowTop ==
  {<<"reg", r>> : r \in {r \in Regs : isPointer(reg[r])}} \cup
  {<<"stack", i>> : i \in {i \in Slots : i < sp - 1 /\ isPointer(stack[i])}}

\* Registers, and stack slots below sp, that hold a pointer.
Roots ==
  {<<"reg", r>> : r \in {r \in Regs : isPointer(reg[r])}} \cup
  {<<"stack", i>> : i \in {i \in Slots : i < sp /\ isPointer(stack[i])}}
rootValue(l) == IF l[1] = "reg" THEN reg[l[2]] ELSE stack[l[2]]

\* markObjects, the loops over vm.reg and vm.stack.
MarkRoots ==
  LET headers == {decodePointer(rootValue(l)) - OBJ_HEADER : l \in Roots}
      inside  == sp =< STACK_SIZE /\ Mapped(Held, headers)
  IN /\ Running
     /\ gc.phase = "mark"
     /\ \/ ~inside /\ HeapWild
        \/ /\ inside
           /\ mem' = overwrite(mem, [a \in headers |-> marked(mem[a])])
           /\ gc' = [gc EXCEPT !.phase = "scan", !.ptrHolder = Roots]
           /\ UNCHANGED <<stackVars, chunks, totalAllocated, heapAUsed, arrays>>

\* markObjects, one turn of the loop over all objects.  The arrayObj is taken
\* to begin at the object's header, so its type and length are read from the
\* first payload word.
ScanObject ==
  LET obj      == Head(gc.objects)
      isTraced == /\ typeOf(mem[obj]) = OBJ_ARRAY
                  /\ Mapped(Held, {obj + 16})
                  /\ elemType(mem[obj + 16]) = TAG_POINTER
      length   == IF isTraced THEN lengthOf(mem[obj + 16]) ELSE 0
      data     == {a \in Cells : obj + ARRAY_OBJ =< a /\ a < obj + ARRAY_OBJ + 8 * length}
      pointers == {a \in data : isPointer(mem[a])}
      headers  == {decodePointer(mem[a]) - OBJ_HEADER : a \in pointers}
      inside   == /\ Mapped(Held, {obj + 16} \cup data \cup headers)
                  /\ Cardinality(data) = length
  IN /\ Running
     /\ gc.phase = "scan"
     /\ \/ ~inside /\ HeapWild
        \/ /\ inside
           /\ mem' = overwrite(mem, [a \in headers |-> marked(mem[a])])
           /\ gc' = [gc EXCEPT !.objects = Tail(@),
                               !.ptrHolder = @ \cup {<<"mem", a>> : a \in pointers},
                               !.phase = IF Len(gc.objects) = 1 THEN "move" ELSE "scan",
                               !.at = <<1, 0>>]
           /\ UNCHANGED <<stackVars, chunks, totalAllocated, heapAUsed, arrays>>

\* Mutant of SkipObject: the cursor stays at the dead object.
SkipNothing ==
  /\ Running
  /\ gc.phase = "move"
  /\ flagsOf(mem[objAt]) # FLAG_MARKED
  /\ UNCHANGED allVars

\* moveObjects, the object under the cursor is not marked.  (The cursor takes
\* the way getAllObjects took: marking changes no size.)
SkipObject ==
  /\ Running
  /\ gc.phase = "move"
  /\ flagsOf(mem[objAt]) # FLAG_MARKED
  /\ LET next == after(sizeOf(mem[objAt]))
     IN gc' = [gc EXCEPT !.at = next,
                         !.phase = IF walked(next) THEN "patch" ELSE "move"]
  /\ UNCHANGED <<stackVars, mem, chunks, totalAllocated, heapAUsed, arrays>>

\* Mutant of memcpy: the last word is left behind.
memcpyShort(to, from, bytes) ==
  [a \in {to + 8 * k : k \in 0 .. bytes \div 8 - 2} |-> mem[from + (a - to)]]

\* What memcpy of that many bytes leaves at `to'.
memcpy(to, from, bytes) ==
  [a \in {to + 8 * k : k \in 0 .. bytes \div 8 - 1} |-> mem[from + (a - to)]]

\* moveObjects, the object under the cursor is marked: heapAlloc in the idle
\* half-space, memcpy of everything behind the header, forwarding address.
MoveObject ==
  LET size   == sizeOf(mem[objAt])
      next   == after(size)
      body   == {objAt + 8 * k : k \in 2 .. size \div 8 - 1}
      inside == size >= OBJ_HEADER /\ size % 8 = 0 /\ Mapped(Held, body)
  IN /\ Running
     /\ gc.phase = "move"
     /\ flagsOf(mem[objAt]) = FLAG_MARKED
     /\ \/ withRoom(idle, align(size)) = {} /\ HeapThrew
        \/ withRoom(idle, align(size)) # {} /\ ~inside /\ HeapWild
        \/ \E cs \in withRoom(idle, align(size)) :
             LET h    == nextAddr(cs)
                 copy == memcpy(h + OBJ_HEADER, objAt + OBJ_HEADER, size - OBJ_HEADER)
                 fwd  == [a \in {objAt + 8} |-> encodePointer(h + OBJ_HEADER)]
             IN /\ inside
                /\ mem' = overwrite(overwrite(overwrite(mem,
                            headerAt(h, align(size), typeOf(mem[objAt]))), copy), fwd)
                /\ Take(idle, cs, align(size))
                /\ arrays' = arrays \cup {h + OBJ_HEADER}
                /\ gc' = [gc EXCEPT !.at = next,
                                    !.phase = IF walked(next) THEN "patch" ELSE "move"]
                /\ UNCHANGED <<stackVars, heapAUsed>>

\* The memory f after the regions M were freed.
released(f, M) ==
  IF Recycle THEN f
  ELSE overwrite(f, [a \in UNION {wordsOf(m) : m \in M} |-> ZERO])

\* updatePtrHolder, freeHeap of the old half-space, and the flip.
UpdatePtrHolder ==
  LET forward(w) == mem[decodePointer(w) - 8]
      holds(l)   == l \in gc.ptrHolder
      interior   == {a \in Cells : holds(<<"mem", a>>)}
      old        == heldBy(chunks[active])
  IN /\ Running
     /\ gc.phase = "patch"
     /\ reg' = [r \in Regs |-> IF holds(<<"reg", r>>) THEN forward(reg[r]) ELSE reg[r]]
     /\ stack' = [i \in Slots |-> IF holds(<<"stack", i>>) THEN forward(stack[i])
                                  ELSE stack[i]]
     /\ mem' = released(overwrite(mem, [a \in interior |-> forward(mem[a])]), old)
     /\ chunks' = [chunks EXCEPT ![active] = <<>>]
     /\ totalAllocated' = [totalAllocated EXCEPT ![active] = 0]
     /\ arrays' = {p \in arrays : ~Mapped(old, {p - OBJ_HEADER})}
     /\ heapAUsed' = ~heapAUsed
     /\ gc' = [NotCollecting EXCEPT !.phase = "alloc", !.want = gc.want]
     /\ UNCHANGED <<sp, fp, ip, status, frames>>

\* gcCollectedHeapAlloc goes on with the allocation, collection or not.
FinishInit ==
  /\ Running
  /\ gc.phase = "alloc"
  /\ NewArray(gc.want[1], gc.want[2], gc.want[3])

(***************************************************************************)
(* moveArray.  The register is followed whatever it holds.  The bound is   *)
(* checked against the length, which itself is still an index, and nothing *)
(* below zero is.                                                          *)
(***************************************************************************)
\* Mutant of elementAt: elements are counted from one.
elementFromOne(p, i) == p + ARRAY_OBJ + 8 * (i + 1)

elementAt(p, i) == p + ARRAY_OBJ + 8 * i

AccessElement(array, i, A(_)) ==
  LET p == decodePointer(reg[array])
      e == elementAt(p, i)
  IN /\ Mutating
     /\ \/ ~Mapped(Held, {p + 16}) /\ HeapWild
        \/ /\ Mapped(Held, {p + 16})
           /\ i \in Indices(lengthOf(mem[p + 16]))
           /\ \/ lengthOf(mem[p + 16]) < i /\ HeapThrew
              \/ lengthOf(mem[p + 16]) >= i /\ ~Mapped(Held, {e}) /\ HeapWild
              \/ lengthOf(mem[p + 16]) >= i /\ Mapped(Held, {e}) /\ A(e)

ArrInsert(source, array, i) ==
  AccessElement(array, i, LAMBDA e :
    /\ mem' = [mem EXCEPT ![e] = reg[source]]
    /\ UNCHANGED <<stackVars, chunks, totalAllocated, heapAUsed, gc, arrays>>)

\* Mutant of ArrRead: the word behind the element is read.
ArrReadNext(target, array, i) ==
  AccessElement(array, i, LAMBDA e :
    /\ e + 8 \in Cells
    /\ reg' = [reg EXCEPT ![target] = mem[e + 8]]
    /\ UNCHANGED <<stack, sp, fp, ip, status, frames, heapVars>>)

ArrRead(target, array, i) ==
  AccessElement(array, i, LAMBDA e :
    /\ reg' = [reg EXCEPT ![target] = mem[e]]
    /\ UNCHANGED <<stack, sp, fp, ip, status, frames, heapVars>>)

\* What the VM leaves to the program: that the operand of an array instruction
\* is an array, and that no pointer becomes an element.
OnArray(array)    == isPointer(reg[array]) \/ AnyOperand
MayStore(source)  == ~isPointer(reg[source]) \/ PointerElements

\* end, with freeHeap of both half-spaces
End ==
  /\ Mutating
  /\ status' = "halted"
  /\ mem' = released(mem, Held)
  /\ chunks' = [s \in Spaces |-> <<>>]
  /\ totalAllocated' = [s \in Spaces |-> 0]
  /\ arrays' = {}
  /\ UNCHANGED <<reg, stack, sp, fp, ip, frames, heapAUsed, gc>>

\* An instruction of CallStack, in a program that stays in its stack and in
\* its own frame.
StackInstruction ==
  /\ Mutating
  /\ Next
  /\ OwnFrame
  /\ status' = status
  /\ UNCHANGED heapVars

HeapInit ==
  /\ Init
  /\ mem = [a \in Cells |-> ZERO]
  /\ chunks = [s \in Spaces |-> <<>>]
  /\ totalAllocated = [s \in Spaces |-> 0]
  /\ heapAUsed = TRUE
  /\ gc = NotCollecting
  /\ arrays = {}

Collect == WalkObject \/ MarkRoots \/ ScanObject \/ SkipObject \/ MoveObject
           \/ UpdatePtrHolder \/ FinishInit

HeapNext ==
  \/ StackInstruction
  \/ \E r \in Regs, n \in Lengths, t \in Types : ArrInit(r, n, t) \/ StartGC(r, n, t)
  \/ Collect
  \/ \E r, array \in Regs : \E i \in UNION {Indices(n) : n \in Lengths} :
       /\ OnArray(array)
       /\ (MayStore(r) /\ ArrInsert(r, array, i)) \/ ArrRead(r, array, i)
  \/ End

HeapSpec     == HeapInit /\ [][HeapNext]_allVars
\* The VM runs one thread: a collection that can go on does.
FairHeapSpec == HeapSpec /\ WF_allVars(Collect)
==============================================================================
