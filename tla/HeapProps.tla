------------------------------ MODULE HeapProps ------------------------------
(***************************************************************************)
(* Properties of the garbage-collected heap.                               *)
(***************************************************************************)
EXTENDS SproutHeap

HeapPhases == {"idle", "walk", "mark", "scan", "move", "patch", "alloc"}

\* Memory holds words, the half-spaces hold chunks, a collection is in one of
\* its phases.
TypeOK ==
  /\ reg \in [Regs -> Word] /\ stack \in [Slots -> Word]
  /\ mem \in [Cells -> Word]
  /\ \A s \in Spaces : chunks[s] \in Seq([mem : Regions, used : 1 .. CHUNK_SIZE])
  /\ totalAllocated \in [Spaces -> Nat]
  /\ heapAUsed \in BOOLEAN
  /\ gc.phase \in HeapPhases
  /\ status \in {"running", "wild", "threw", "halted"}
  /\ arrays \subseteq Cells

\* The arrays whose payload lies in half-space s.
Arrays(s) == {p \in arrays : Mapped(heldBy(chunks[s]), {p - OBJ_HEADER})}
RootPointers == {decodePointer(rootValue(l)) : l \in Roots}
Settled == Running /\ gc.phase \in {"idle", "alloc"}

\* No instruction of such a program, and no collection it causes, touches
\* memory the heap does not hold.
NeverWild == status # "wild"

\* Whenever the program runs, every pointer in a register or a live stack slot
\* is the address of an array in the active half-space: updatePtrHolder left
\* no root behind in the freed one.
RootsLive == Settled => RootPointers \subseteq Arrays(active)

\* What the walks of the collector rely on: in both half-spaces, from the
\* start of a chunk, the sizes in the headers lead through every array to the
\* end of the used bytes.  No element write may land in a header.
HeadersIntact ==
  Running => \A s \in Spaces : \A i \in DOMAIN chunks[s] :
    LET c      == chunks[s][i]
        inside == {p \in Arrays(s) : c.mem =< p /\ p < c.mem + c.used}
    IN /\ c.mem + OBJ_HEADER \in inside
       /\ \A p \in inside :
            /\ typeOf(mem[p - OBJ_HEADER]) = OBJ_ARRAY
            /\ p + sizeOf(mem[p - OBJ_HEADER]) \in
                 inside \cup {c.mem + c.used + OBJ_HEADER}

\* During the copy, a forwarding address leads to the same array's copy in the
\* idle half-space, word for word what the original holds, and two arrays are
\* never forwarded to one place.
ForwardingSound ==
  Running /\ gc.phase \in {"move", "patch"} =>
    LET fwd(p)    == mem[p - 8]
        moved     == {p \in Arrays(active) : fwd(p) # ZERO}
        size(p)   == sizeOf(mem[p - OBJ_HEADER])
    IN /\ \A p \in moved :
            LET q == decodePointer(fwd(p))
            IN /\ q \in Arrays(idle)
               /\ \A k \in 0 .. (size(p) - OBJ_HEADER) \div 8 - 1 :
                    mem[q + 8 * k] = mem[p + 8 * k]
       /\ \A p, q \in moved : fwd(p) = fwd(q) => p = q
       /\ gc.phase = "patch" => RootPointers \subseteq moved

\* A collection keeps what the roots reach and nothing else.
OnlyReachableSurvive ==
  Running /\ gc.phase = "alloc" => Arrays(active) = RootPointers

\* While the program runs the idle half-space is empty, so no region belongs
\* to both, and totalAllocated, which triggers the next collection, counts the
\* bytes in use in the active one.
SpaceDiscipline ==
  Settled =>
    /\ chunks[idle] = <<>> /\ totalAllocated[idle] = 0
    /\ totalAllocated[active] = bytesIn(chunks[active])

\* README.md: "For OBJ_ARRAY values holding pointer-typed elements, interior
\* pointers are also traced": whenever the program runs, a pointer held in an
\* array that a root leads to is itself the address of a live array.
InteriorTraced ==
  Settled => \A p \in RootPointers : \A i \in Indices(lengthOf(mem[p + 16])) :
    LET w == mem[p + ARRAY_OBJ + 8 * i]
    IN isPointer(w) => decodePointer(w) \in Arrays(active)

\* What a collection g over the chunks cs has before it: at most the bytes from
\* its cursor to the end of the half-space, twice when the walk that lists the
\* objects comes first, and the objects listed for marking.
ahead(cs, at) == CHUNK_SIZE * (Len(cs) + 1 - at[1]) - at[2]
leftOf(g, cs) ==
  LET toMove == ahead(cs, <<1, 0>>) + 2
  IN CASE g.phase = "walk"  -> 2 * ahead(cs, g.at) + Len(g.objects) + toMove + 3
       [] g.phase = "mark"  -> Len(g.objects) + toMove + 2
       [] g.phase = "scan"  -> Len(g.objects) + toMove + 1
       [] g.phase = "move"  -> ahead(cs, g.at) + 2
       [] g.phase = "patch" -> 2
       [] g.phase = "alloc" -> 1
       [] g.phase = "idle"  -> 0
GcLeft == leftOf(gc, chunks[active])

\* No step of a collection leaves as much to do as it found, whatever the steps
\* before it copied and overwrote: walks go forward through their chunks, and
\* the idle half-space, which grows meanwhile, is not the one they walk.
GcAdvances ==
  [][gc.phase # "idle" /\ status' = "running" => GcLeft' \in 0 .. GcLeft - 1]_allVars

\* Every collection comes to an end: the program goes on with its array, or
\* the VM stops for want of memory.
GcTerminates == (gc.phase # "idle") ~> (gc.phase = "idle" \/ status # "running")
==============================================================================
