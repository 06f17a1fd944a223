-------------------------------- MODULE MCHeap -------------------------------
(***************************************************************************)
(* HeapProps on three or four regions.  A chunk holds two arrays of three  *)
(* elements, or one of six, and 16 bytes more (the cfg's CHUNK_SIZE: the   *)
(* memset of an array runs 16 bytes past it); `max' is such that with two  *)
(* or three arrays in a half-space the next one starts a collection.       *)
(***************************************************************************)
EXTENDS HeapProps, TLC

MCRegions    == {4096 + k * CHUNK_SIZE : k \in 0 .. 3}
ThreeRegions == {4096 + k * CHUNK_SIZE : k \in 0 .. 2}
\* The lowest free region; none when all are taken.
MCMalloc(F) == {m \in F : \A n \in F : m =< n}

\* Registers are interchangeable.
RegSymmetry == Permutations(Regs)

OneLength    == {3}
FarLengths   == {3, 6}
IntTypes     == {TAG_INT48}
PointerTypes == {TAG_POINTER}
Ints         == {encodeInt(5)}
IntTwo       == {encodeInt(2)}
OneAddr      == {4}

\* Every element but the last two; every valid index.
InsideObject(n) == 0 .. n - 3
Valid(n)        == 0 .. n - 1

NoFunctions == [f \in {} |-> 0]
OneLocal    == 0 :> [entryIP |-> 4, frameSize |-> 1]
==============================================================================
