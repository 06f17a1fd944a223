-------------------------------- MODULE Bump ---------------------------------
(***************************************************************************)
(* The bump allocation shared by the VM's half-spaces (Heap.cpp) and the   *)
(* compiler's AST memory (memManager.cpp): a list of malloc'ed chunks, each *)
(* with a count of the bytes given out, and room taken from the last one.  *)
(***************************************************************************)
EXTENDS Integers, Sequences, Sums

CONSTANT CHUNK_SIZE     \* 4 MB in the code

ASSUME BumpAssumption == CHUNK_SIZE \in Nat \ {0}

ALIGN    == 8
align(n) == ((n + (ALIGN - 1)) \div ALIGN) * ALIGN

\* Mutant of newChunk: the chunk starts past malloc's address.
newChunkShifted(m) == [mem |-> m + ALIGN, used |-> 0]

newChunk(m) == [mem |-> m, used |-> 0]
back(cs)    == cs[Len(cs)]

\* The bytes given out over all chunks.
bytesIn(cs) == sumOf([i \in DOMAIN cs |-> cs[i].used], Len(cs))

\* Mutants of noRoom: the request is not counted; a chunk is never filled to its
\* last byte; the bound is one step too wide.
noRoomIgnoresRequest(cs, total) == cs # <<>> => back(cs).used >= CHUNK_SIZE
noRoomForLastByte(cs, total)    == cs # <<>> => back(cs).used + total >= CHUNK_SIZE
noRoomOffByOne(cs, total)       == cs # <<>> => back(cs).used + total > CHUNK_SIZE + ALIGN

\* The test before every allocation: is a new chunk needed for `total' bytes?
noRoom(cs, total) == cs # <<>> => back(cs).used + total > CHUNK_SIZE

\* Mutant of bumped: `used' skips a word after the object.
bumpedWithGap(cs, total) ==
  [cs EXCEPT ![Len(cs)] = [mem |-> back(cs).mem, used |-> back(cs).used + total + ALIGN]]

\* Where the next object goes, and the chunks once it is there.
nextAddr(cs)      == back(cs).mem + back(cs).used
bumped(cs, total) ==
  [cs EXCEPT ![Len(cs)] = [mem |-> back(cs).mem, used |-> back(cs).used + total]]
==============================================================================
