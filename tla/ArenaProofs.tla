----------------------------- MODULE ArenaProofs -----------------------------
(***************************************************************************)
(* Whatever the chunk size, the header, the requests (as long as each fits *)
(* a chunk) and malloc's answers: no two objects overlap, none leaves its  *)
(* chunk, and every two neighbouring chunks are more than half full.       *)
(***************************************************************************)
EXTENDS ArenaProps, BumpProofs

Chunk == ChunkOf(Regions)

\* A list of chunks malloc can have given, none filled beyond its region.
ChunksOK(cs) ==
  /\ cs \in Seq(Chunk)
  /\ \A i \in DOMAIN cs : cs[i].used =< CHUNK_SIZE
  /\ \A i, j \in DOMAIN cs : i # j => cs[i].mem # cs[j].mem

\* Every object lies in the filled part of one chunk of cs.
ObjectsIn(cs) ==
  \A k \in DOMAIN objects : \E i \in DOMAIN cs :
    /\ cs[i].mem =< objects[k].addr
    /\ objects[k].addr + objects[k].size =< cs[i].mem + cs[i].used

\* Each chunk of cs is tiled with objects; a last chunk just opened has none.
Starts == {objects[k].addr : k \in DOMAIN objects}
TiledIn(cs) ==
  \A i \in DOMAIN cs :
    /\ (i = Len(cs) /\ cs[i].used = 0) \/ cs[i].mem \in Starts
    /\ \A k \in DOMAIN objects :
         /\ cs[i].mem =< objects[k].addr
         /\ objects[k].addr < cs[i].mem + cs[i].used
         => \/ objects[k].addr + objects[k].size \in Starts
            \/ objects[k].addr + objects[k].size = cs[i].mem + cs[i].used

\* Disjoint is not inductive by itself: a new object is apart from the others
\* because they end where its chunk was filled to, or lie in other regions.
IInv ==
  /\ TypeOK
  /\ ChunksOK(chunks)
  /\ ObjectsIn(chunks)
  /\ Disjoint
  /\ HalfFull
  /\ Accounting

\* Tiled rests on where the objects and the regions are.
TInv ==
  /\ IInv
  /\ TiledIn(chunks)
  /\ \A i \in DOMAIN chunks : chunks[i].mem \in Starts

\* What heapAlloc reserves for a request is a number of bytes.
LEMMA TotalNat ==
  ASSUME NEW size \in Requests
  PROVE  Total(size) \in Nat
<1>1. HEADER + size \in Nat
  BY ArenaAssumption
<1> QED
  BY <1>1, AlignUp DEF Total

\* Bytes a .. a+s inside the used part of a region at m, and bytes v .. v+t of
\* another region at l, do not meet.
LEMMA ApartArith ==
  ASSUME NEW C \in Nat, NEW m \in Nat, NEW u \in Nat, NEW l \in Nat, NEW v \in Nat,
         NEW a \in Nat, NEW s \in Nat, NEW t \in Nat,
         m =< a, a + s =< m + u, u =< C, v + t =< C,
         m + C =< l \/ l + C =< m
  PROVE  a + s =< l + v \/ l + v + t =< a
OBVIOUS

\* What there is to know of a list of chunks, one fact per conjunct.
LEMMA ChunkFacts ==
  ASSUME NEW cs, ChunksOK(cs)
  PROVE  /\ cs \in Seq(Chunk)
         /\ Len(cs) \in Nat
         /\ DOMAIN cs = 1 .. Len(cs)
         /\ cs # <<>> => Len(cs) \in DOMAIN cs
         /\ \A i \in DOMAIN cs : cs[i].mem \in Regions /\ cs[i].used \in Nat
<1>1. cs \in Seq(Chunk)
  BY DEF ChunksOK
<1>2. /\ Len(cs) \in Nat
      /\ DOMAIN cs = 1 .. Len(cs)
      /\ cs # <<>> => Len(cs) \in DOMAIN cs
      /\ \A i \in DOMAIN cs : cs[i] \in Chunk
  BY <1>1
<1>3. \A i \in DOMAIN cs : cs[i].mem \in Regions /\ cs[i].used \in Nat
  BY <1>2 DEF Chunk, ChunkOf
<1> QED
  BY <1>1, <1>2, <1>3

\* Placing an object into the last chunk of cs, where there is room for it,
\* keeps the objects in their chunks and apart from each other.
LEMMA Placed ==
  ASSUME TypeOK, Disjoint,
         NEW cs, ChunksOK(cs), ObjectsIn(cs), cs # <<>>, totalAllocated = bytesIn(cs),
         NEW total \in Nat, back(cs).used + total =< CHUNK_SIZE,
         Place(cs, total)
  PROVE  TypeOK' /\ ChunksOK(chunks)' /\ ObjectsIn(chunks)' /\ Disjoint' /\ Accounting'
<1> DEFINE last == Len(cs)
           new  == [addr |-> nextAddr(cs), size |-> total]
           n    == Len(objects)
<1>1. /\ cs \in Seq(Chunk)
      /\ chunks' = bumped(cs, total)
      /\ objects' = Append(objects, new)
      /\ last \in DOMAIN cs
      /\ \A i \in DOMAIN cs : cs[i].mem \in Regions /\ cs[i].used \in Nat
  <2>1. chunks' = bumped(cs, total) /\ objects' = Append(objects, new)
    BY DEF Place
  <2> QED
    BY <2>1, ChunkFacts
<1>2. /\ chunks' \in Seq(Chunk)
      /\ DOMAIN chunks' = DOMAIN cs
      /\ \A i \in DOMAIN cs :
           /\ chunks'[i].mem = cs[i].mem
           /\ chunks'[i].used = IF i = last THEN cs[i].used + total ELSE cs[i].used
  BY <1>1, BumpedChunks DEF Chunk
<1>3. Regions \subseteq Nat /\ CHUNK_SIZE \in Nat
  BY ArenaAssumption, BumpAssumption
<1>4. /\ new.addr = cs[last].mem + cs[last].used
      /\ new.addr \in Nat
      /\ new.size = total
      /\ new \in [addr : Nat, size : Nat]
  <2>1. new.addr = cs[last].mem + cs[last].used /\ new.size = total
    BY DEF nextAddr, back
  <2>2. cs[last].mem \in Nat /\ cs[last].used \in Nat
    BY <1>1, <1>3
  <2>3. nextAddr(cs) \in Nat
    BY <2>2 DEF nextAddr, back
  <2> QED
    BY <2>1, <2>3
<1>5. /\ objects \in Seq([addr : Nat, size : Nat])
      /\ n \in Nat
      /\ DOMAIN objects = 1 .. n
      /\ DOMAIN objects' = 1 .. n + 1
      /\ objects' \in Seq([addr : Nat, size : Nat])
      /\ \A k \in 1 .. n : objects'[k] = objects[k]
      /\ objects'[n + 1] = new
      /\ \A k \in 1 .. n : objects[k].addr \in Nat /\ objects[k].size \in Nat
  <2>1. objects \in Seq([addr : Nat, size : Nat])
    BY DEF TypeOK
  <2>2. objects' = Append(objects, new) /\ new \in [addr : Nat, size : Nat]
    BY <1>1, <1>4
  <2> HIDE DEF new
  <2> DEFINE Extent == [addr : Nat, size : Nat]
  <2>3. /\ n \in Nat
        /\ DOMAIN objects = 1 .. n
        /\ DOMAIN objects' = 1 .. n + 1
        /\ objects' \in Seq([addr : Nat, size : Nat])
        /\ \A k \in 1 .. n : objects'[k] = objects[k]
        /\ \A k \in 1 .. n : objects[k] \in [addr : Nat, size : Nat]
        /\ objects'[n + 1] = new
    <3> HIDE DEF Extent
    <3> SUFFICES ASSUME objects \in Seq(Extent), new \in Extent,
                        objects' = Append(objects, new)
                 PROVE  /\ n \in Nat
                        /\ DOMAIN objects = 1 .. n
                        /\ DOMAIN objects' = 1 .. n + 1
                        /\ objects' \in Seq(Extent)
                        /\ \A k \in 1 .. n : objects'[k] = objects[k]
                        /\ \A k \in 1 .. n : objects[k] \in Extent
                        /\ objects'[n + 1] = new
      BY <2>1, <2>2 DEF Extent
    <3> QED
      BY Appended
  <2>4. \A k \in 1 .. n : objects[k].addr \in Nat /\ objects[k].size \in Nat
    BY <2>3
  <2> QED
    BY <2>1, <2>3, <2>4
<1>6. TypeOK'
  <2>1. totalAllocated' \in Nat /\ status' \in {"running", "threw"}
    BY DEF TypeOK, Place
  <2> QED
    BY <1>2, <1>5, <2>1 DEF TypeOK, Chunk, ChunkOf
<1>7. ChunksOK(chunks)'
  <2>1. ASSUME NEW i \in DOMAIN cs
        PROVE  chunks'[i].used =< CHUNK_SIZE
    <3>1. CASE i = last
      BY <1>1, <1>2, <1>3, <3>1 DEF back
    <3>2. CASE i # last
      BY <1>1, <1>2, <1>3, <3>2 DEF ChunksOK
    <3> QED
      BY <3>1, <3>2
  <2> QED
    BY <1>2, <2>1 DEF ChunksOK
<1>8. ObjectsIn(chunks)'
  <2> SUFFICES ASSUME NEW k \in 1 .. n + 1
               PROVE  \E i \in DOMAIN cs :
                        /\ chunks'[i].mem =< objects'[k].addr
                        /\ objects'[k].addr + objects'[k].size
                             =< chunks'[i].mem + chunks'[i].used
    BY <1>2, <1>5 DEF ObjectsIn
  <2>1. CASE k = n + 1
    <3>1. objects'[k].addr = cs[last].mem + cs[last].used /\ objects'[k].size = total
      BY <1>4, <1>5, <2>1
    <3>2. /\ chunks'[last].mem = cs[last].mem
          /\ chunks'[last].used = cs[last].used + total
      BY <1>1, <1>2
    <3>3. cs[last].mem \in Nat /\ cs[last].used \in Nat
      BY <1>1, <1>3
    <3>4. /\ chunks'[last].mem =< objects'[k].addr
          /\ objects'[k].addr + objects'[k].size =< chunks'[last].mem + chunks'[last].used
      BY <3>1, <3>2, <3>3
    <3> QED
      BY <1>1, <3>4
  <2>2. CASE k \in 1 .. n
    <3>1. PICK i \in DOMAIN cs :
            /\ cs[i].mem =< objects[k].addr
            /\ objects[k].addr + objects[k].size =< cs[i].mem + cs[i].used
      BY <1>5, <2>2 DEF ObjectsIn
    <3>2. objects'[k] = objects[k] /\ objects[k].addr \in Nat /\ objects[k].size \in Nat
      BY <1>5, <2>2
    <3>3. cs[i].mem \in Nat /\ cs[i].used \in Nat
      BY <1>1, <1>3
    <3>4. chunks'[i].mem = cs[i].mem /\ chunks'[i].used \in Nat /\ chunks'[i].used >= cs[i].used
      BY <1>2, <3>3
    <3> QED
      BY <3>1, <3>2, <3>3, <3>4
  <2> QED
    BY <1>5, <2>1, <2>2
<1>9. Disjoint'
  <2>1. ASSUME NEW k \in 1 .. n
        PROVE  \/ objects[k].addr + objects[k].size =< new.addr
               \/ new.addr + total =< objects[k].addr
    <3>1. PICK i \in DOMAIN cs :
            /\ cs[i].mem =< objects[k].addr
            /\ objects[k].addr + objects[k].size =< cs[i].mem + cs[i].used
      BY <1>5 DEF ObjectsIn
    <3>2. CASE i = last
      <4>1. objects[k].addr + objects[k].size =< new.addr
        BY <1>4, <3>1, <3>2
      <4> QED
        BY <4>1
    <3>3. CASE i # last
      <4>1. cs[i].mem # cs[last].mem /\ cs[i].used =< CHUNK_SIZE
        BY <1>1, <3>3 DEF ChunksOK
      <4>2. cs[i].mem \in Regions /\ cs[last].mem \in Regions
        BY <1>1
      <4>3. \/ cs[i].mem + CHUNK_SIZE =< cs[last].mem
            \/ cs[last].mem + CHUNK_SIZE =< cs[i].mem
        <5>1. /\ cs[i].mem \in Nat /\ cs[last].mem \in Nat
              /\ cs[i].mem # cs[last].mem
          BY <1>3, <4>1, <4>2
        <5>2. cs[i].mem < cs[last].mem \/ cs[last].mem < cs[i].mem
          BY <5>1
        <5> QED
          BY <4>2, <5>2, ArenaAssumption
      <4>4. cs[last].used + total =< CHUNK_SIZE
        BY DEF back
      <4>5. /\ cs[i].mem \in Nat /\ cs[i].used \in Nat
            /\ cs[last].mem \in Nat /\ cs[last].used \in Nat
            /\ objects[k].addr \in Nat /\ objects[k].size \in Nat
            /\ new.addr = cs[last].mem + cs[last].used
        BY <1>1, <1>3, <1>4, <1>5
      <4>6. \/ objects[k].addr + objects[k].size =< cs[last].mem + cs[last].used
            \/ cs[last].mem + cs[last].used + total =< objects[k].addr
        BY <1>3, <3>1, <4>1, <4>3, <4>4, <4>5, ApartArith
      <4> HIDE DEF new
      <4> QED
        BY <4>5, <4>6
    <3> QED
      BY <3>2, <3>3
  <2>2. ASSUME NEW k \in 1 .. n + 1, NEW l \in 1 .. n + 1, k < l
        PROVE  \/ objects'[k].addr + objects'[k].size =< objects'[l].addr
               \/ objects'[l].addr + objects'[l].size =< objects'[k].addr
    <3>1. CASE l = n + 1
      <4>1. k \in 1 .. n
        BY <1>5, <2>2, <3>1
      <4> QED
        <5>1. objects'[l] = new /\ objects'[k] = objects[k] /\ new.size = total
          BY <1>4, <1>5, <3>1, <4>1
        <5> HIDE DEF new
        <5> QED
          BY <2>1, <4>1, <5>1
    <3>2. CASE l # n + 1
      <4>1. k \in 1 .. n /\ l \in 1 .. n
        <5>1. n \in Nat
          BY <1>5
        <5> QED
          BY <2>2, <3>2, <5>1
      <4>2. objects'[k] = objects[k] /\ objects'[l] = objects[l]
        BY <1>5, <4>1
      <4> QED
        BY <1>5, <2>2, <4>1, <4>2 DEF Disjoint
    <3> QED
      BY <3>1, <3>2
  <2> QED
    BY <1>5, <2>2 DEF Disjoint
<1>10. Accounting'
  <2>1. bytesIn(chunks') = bytesIn(cs) + total
    BY <1>1, BytesBumped DEF Chunk
  <2> QED
    BY <2>1 DEF Accounting, Place
<1> QED
  BY <1>6, <1>7, <1>8, <1>9, <1>10

\* An object placed into the last chunk of cs closes the row of objects there,
\* and disturbs no other: only an object of no bytes can lie at the boundary of
\* two regions, and it ends where it begins.
LEMMA PlacedTiles ==
  ASSUME TypeOK,
         NEW cs, ChunksOK(cs), ObjectsIn(cs), TiledIn(cs), cs # <<>>,
         NEW total \in Nat, back(cs).used + total =< CHUNK_SIZE,
         Place(cs, total)
  PROVE  TiledIn(chunks)' /\ \A i \in DOMAIN chunks' : chunks'[i].mem \in Starts'
<1> DEFINE last == Len(cs)
           at   == nextAddr(cs)
           n    == Len(objects)
<1>1. /\ DOMAIN cs = 1 .. last /\ last \in DOMAIN cs /\ last \in Nat
      /\ \A i \in DOMAIN cs : /\ cs[i].mem \in Regions /\ cs[i].mem \in Nat
                              /\ cs[i].used \in Nat /\ cs[i].used =< CHUNK_SIZE
      /\ CHUNK_SIZE \in Nat
      /\ at = cs[last].mem + cs[last].used
      /\ cs[last].used + total =< CHUNK_SIZE
  <2>1. at = cs[last].mem + cs[last].used /\ cs[last].used + total =< CHUNK_SIZE
    BY DEF nextAddr, back
  <2> QED
    BY <2>1, ChunkFacts, ArenaAssumption, BumpAssumption DEF ChunksOK
<1>2. /\ DOMAIN chunks' = 1 .. last /\ Len(chunks') = last
      /\ \A i \in DOMAIN cs :
           /\ chunks'[i].mem = cs[i].mem
           /\ chunks'[i].used = IF i = last THEN cs[i].used + total ELSE cs[i].used
  <2>1. chunks' = bumped(cs, total) /\ cs \in Seq(Chunk)
    BY ChunkFacts DEF Place
  <2>2. /\ chunks' \in Seq(Chunk) /\ DOMAIN chunks' = DOMAIN cs
        /\ \A i \in DOMAIN cs :
             /\ chunks'[i].mem = cs[i].mem
             /\ chunks'[i].used = IF i = last THEN cs[i].used + total ELSE cs[i].used
    BY <2>1, BumpedChunks DEF Chunk
  <2>3. Len(chunks') = last
    BY <1>1, <2>2
  <2> QED
    BY <1>1, <2>2, <2>3
<1>3. /\ n \in Nat
      /\ DOMAIN objects = 1 .. n /\ DOMAIN objects' = 1 .. n + 1
      /\ \A k \in 1 .. n : /\ objects'[k] = objects[k]
                           /\ objects[k].addr \in Nat /\ objects[k].size \in Nat
      /\ objects'[n + 1].addr = at /\ objects'[n + 1].size = total
  <2> DEFINE new    == [addr |-> at, size |-> total]
             Extent == [addr : Nat, size : Nat]
  <2>1. /\ objects \in Seq(Extent) /\ new \in Extent /\ objects' = Append(objects, new)
        /\ new.addr = at /\ new.size = total
    <3>1. objects \in Seq(Extent)
      BY DEF TypeOK
    <3>2. objects' = Append(objects, new)
      BY DEF Place
    <3>3. at \in Nat
      BY <1>1
    <3>4. new.addr = at /\ new.size = total
      OBVIOUS
    <3> HIDE DEF at
    <3>5. new \in Extent
      BY <3>3
    <3> QED
      BY <3>1, <3>2, <3>4, <3>5
  <2>2. /\ DOMAIN objects = 1 .. n /\ DOMAIN objects' = 1 .. n + 1 /\ n \in Nat
        /\ \A k \in 1 .. n : objects'[k] = objects[k] /\ objects[k] \in Extent
        /\ objects'[n + 1] = new
    <3>1. objects \in Seq(Extent) /\ new \in Extent
      BY <2>1
    <3>2. objects' = Append(objects, new)
      BY <2>1
    <3> HIDE DEF new, Extent
    <3>3. n \in Nat /\ DOMAIN objects = 1 .. n /\ DOMAIN Append(objects, new) = 1 .. n + 1
      BY <3>1, Appended
    <3>4. /\ \A k \in 1 .. n : Append(objects, new)[k] = objects[k] /\ objects[k] \in Extent
          /\ Append(objects, new)[n + 1] = new
      BY <3>1, Appended
    <3> QED
      BY <3>2, <3>3, <3>4
  <2> QED
    BY <2>1, <2>2
<1> HIDE DEF at, last, n
<1>4. at \in Starts' /\ \A a \in Starts : a \in Starts'
  BY <1>3 DEF Starts
<1>5. ASSUME NEW i \in DOMAIN cs
      PROVE  \/ i = last
             \/ cs[i].mem + CHUNK_SIZE =< cs[last].mem
             \/ cs[last].mem + CHUNK_SIZE =< cs[i].mem
  <2>1. i # last => cs[i].mem # cs[last].mem
    BY <1>1 DEF ChunksOK
  <2>2. cs[i].mem # cs[last].mem =>
          cs[i].mem < cs[last].mem \/ cs[last].mem < cs[i].mem
    BY <1>1
  <2> QED
    BY <1>1, <2>1, <2>2, ArenaAssumption
\* Every chunk begins with an object, the one just filled for the first time too.
<1>6. ASSUME NEW i \in DOMAIN cs PROVE cs[i].mem \in Starts'
  <2>1. CASE i = last /\ cs[i].used = 0
    <3>1. cs[i].mem = at
      BY <1>1, <2>1
    <3> QED
      BY <1>4, <3>1
  <2>2. CASE cs[i].mem \in Starts
    BY <1>4, <2>2
  <2> QED
    BY <2>1, <2>2 DEF TiledIn, last
\* An object that was there before.
<1>7. ASSUME NEW i \in DOMAIN cs, NEW k \in 1 .. n,
             chunks'[i].mem =< objects[k].addr,
             objects[k].addr < chunks'[i].mem + chunks'[i].used
      PROVE  \/ objects[k].addr + objects[k].size \in Starts'
             \/ objects[k].addr + objects[k].size = chunks'[i].mem + chunks'[i].used
  <2>1. objects[k].addr \in Nat /\ objects[k].size \in Nat /\ k \in DOMAIN objects
    BY <1>3
  <2>2. CASE objects[k].addr < cs[i].mem + cs[i].used
    <3>1. \/ objects[k].addr + objects[k].size \in Starts
          \/ objects[k].addr + objects[k].size = cs[i].mem + cs[i].used
      BY <1>2, <1>7, <2>1, <2>2 DEF TiledIn
    <3>2. CASE i = last
      BY <1>1, <1>4, <3>1, <3>2
    <3>3. CASE i # last
      BY <1>2, <1>4, <3>1, <3>3
    <3> QED
      BY <3>2, <3>3
  <2>3. CASE ~(objects[k].addr < cs[i].mem + cs[i].used)
    <3> DEFINE a == objects[k].addr
               z == objects[k].size
               m == cs[last].mem
               u == cs[last].used
               w == chunks'[i].used
    <3>1. /\ a \in Nat /\ z \in Nat /\ m \in Nat /\ u \in Nat /\ total \in Nat
          /\ at = m + u /\ u + total =< CHUNK_SIZE /\ CHUNK_SIZE \in Nat
      BY <1>1, <2>1
    <3>2. i = last /\ m =< a /\ m + u =< a /\ a < m + CHUNK_SIZE
      <4>1. i = last
        BY <1>2, <1>7, <2>3
      <4>2. cs[i].mem = m /\ cs[i].used = u /\ chunks'[i].mem = m /\ w = u + total
        BY <1>2, <4>1
      <4>3. m =< a /\ a < m + w /\ ~(a < m + u)
        BY <1>7, <2>3, <4>2
      <4> HIDE DEF a, m, u, w
      <4> QED
        BY <3>1, <4>1, <4>2, <4>3
    <3>3. PICK j \in DOMAIN cs : cs[j].mem =< a /\ a + z =< cs[j].mem + cs[j].used
      BY <2>1 DEF ObjectsIn
    <3> DEFINE n2 == cs[j].mem
               v  == cs[j].used
    <3>4. n2 \in Nat /\ v \in Nat /\ v =< CHUNK_SIZE /\ n2 =< a /\ a + z =< n2 + v
      BY <1>1, <3>3
    <3>5. (n2 = m /\ v = u) \/ n2 + CHUNK_SIZE =< m \/ m + CHUNK_SIZE =< n2
      BY <1>5
    <3>6. a = at /\ z = 0
      <4> HIDE DEF a, z, m, u, n2, v
      <4> QED
        BY <3>1, <3>2, <3>4, <3>5
    <3> QED
      BY <1>1, <1>4, <3>6
  <2> QED
    BY <2>2, <2>3
\* The new object.
<1>8. ASSUME NEW i \in DOMAIN cs,
             chunks'[i].mem =< at, at < chunks'[i].mem + chunks'[i].used
      PROVE  at + total \in Starts' \/ at + total = chunks'[i].mem + chunks'[i].used
  <2>1. CASE i = last
    BY <1>1, <1>2, <2>1
  <2>2. CASE i # last
    <3> DEFINE m  == cs[last].mem
               u  == cs[last].used
               n2 == cs[i].mem
               v  == cs[i].used
    <3>1. /\ n2 \in Nat /\ v \in Nat /\ v =< CHUNK_SIZE /\ m \in Nat /\ u \in Nat
          /\ at = m + u /\ u + total =< CHUNK_SIZE /\ CHUNK_SIZE \in Nat
      BY <1>1
    <3>2. n2 =< at /\ at < n2 + v
      BY <1>2, <1>8, <2>2
    <3>3. total = 0
      <4>1. n2 + CHUNK_SIZE =< m \/ m + CHUNK_SIZE =< n2
        BY <1>5, <2>2
      <4> HIDE DEF m, u, n2, v
      <4> QED
        BY <3>1, <3>2, <4>1
    <3> QED
      BY <1>1, <1>4, <3>3
  <2> QED
    BY <2>1, <2>2
<1>9. TiledIn(chunks)'
  <2> SUFFICES ASSUME NEW i \in DOMAIN chunks', NEW k \in DOMAIN objects'
               PROVE  /\ chunks'[i].mem \in Starts'
                      /\ /\ chunks'[i].mem =< objects'[k].addr
                         /\ objects'[k].addr < chunks'[i].mem + chunks'[i].used
                         => \/ objects'[k].addr + objects'[k].size \in Starts'
                            \/ objects'[k].addr + objects'[k].size
                                 = chunks'[i].mem + chunks'[i].used
    BY <1>6, <1>2, <1>1 DEF TiledIn
  <2>1. i \in DOMAIN cs /\ chunks'[i].mem \in Starts'
    BY <1>1, <1>2, <1>6
  <2>2. k \in 1 .. n \/ k = n + 1
    BY <1>3
  <2>3. CASE k \in 1 .. n
    BY <1>3, <1>7, <2>1, <2>3
  <2>4. CASE k = n + 1
    BY <1>3, <1>8, <2>1, <2>4
  <2> QED
    BY <2>2, <2>3, <2>4
<1> QED
  BY <1>1, <1>2, <1>6, <1>9

\* An arena nothing was allocated from satisfies the invariant.
LEMMA IInvInit == Init => IInv
<1> SUFFICES ASSUME Init PROVE IInv
  OBVIOUS
<1>1. chunks = <<>> /\ objects = <<>> /\ totalAllocated = 0 /\ status = "running"
  BY DEF Init
<1> QED
  BY <1>1, BytesOfNone DEF IInv, TypeOK, ChunksOK, ObjectsIn, Disjoint, HalfFull, Accounting

\* Every call, whether it finds room, opens a chunk, fails or frees the arena,
\* keeps the invariant.
LEMMA IInvStep ==
  ASSUME Fitting, IInv, [Next]_vars
  PROVE  IInv'
<1> USE DEF IInv
<1>1. ASSUME NEW size \in Requests, AllocInChunk(size)
      PROVE  IInv'
  <2> DEFINE total == Total(size)
  <2>1. /\ total \in Nat
        /\ chunks # <<>>
        /\ ~(back(chunks).used + total > CHUNK_SIZE)
        /\ Place(chunks, total)
    BY <1>1, TotalNat DEF AllocInChunk, noRoom
  <2>2. /\ chunks \in Seq(Chunk)
        /\ Len(chunks) \in Nat
        /\ DOMAIN chunks = 1 .. Len(chunks)
        /\ Len(chunks) \in DOMAIN chunks
        /\ \A i \in DOMAIN chunks : chunks[i].used \in Nat
    BY <2>1, ChunkFacts
  <2>3. back(chunks).used + total =< CHUNK_SIZE
    BY <2>1, <2>2, BumpAssumption DEF back
  <2>4. TypeOK' /\ ChunksOK(chunks)' /\ ObjectsIn(chunks)' /\ Disjoint' /\ Accounting'
    BY <2>1, <2>3, Placed DEF Accounting
  <2>5. HalfFull'
    <3>1. chunks' = bumped(chunks, total)
      BY <2>1 DEF Place
    <3>2. /\ chunks' \in Seq(Chunk)
          /\ DOMAIN chunks' = DOMAIN chunks
          /\ \A i \in DOMAIN chunks :
               chunks'[i].used = IF i = Len(chunks) THEN chunks[i].used + total
                                 ELSE chunks[i].used
      BY <2>1, <2>2, <3>1, BumpedChunks DEF Chunk
    <3>3. Len(chunks') = Len(chunks)
      BY <2>2, <3>2
    <3>4. ASSUME NEW i \in 1 .. Len(chunks) - 1
          PROVE  chunks'[i].used + chunks'[i + 1].used > CHUNK_SIZE
      <4>1. i \in DOMAIN chunks /\ i + 1 \in DOMAIN chunks
        BY <2>2, <3>4
      <4>2. /\ chunks[i].used \in Nat /\ chunks[i + 1].used \in Nat
            /\ chunks[i].used + chunks[i + 1].used > CHUNK_SIZE
        BY <2>2, <3>4, <4>1 DEF HalfFull
      <4>3. /\ chunks'[i].used \in Nat /\ chunks'[i].used >= chunks[i].used
            /\ chunks'[i + 1].used \in Nat /\ chunks'[i + 1].used >= chunks[i + 1].used
        BY <2>1, <3>2, <4>1, <4>2
      <4> QED
        BY <4>2, <4>3, BumpAssumption
    <3> QED
      BY <3>3, <3>4 DEF HalfFull
  <2> QED
    BY <2>4, <2>5
<1>2. ASSUME NEW size \in Requests, AllocNewChunk(size)
      PROVE  IInv'
  <2> DEFINE total == Total(size)
  <2>1. PICK m \in Regions \ Held : Place(Append(chunks, newChunk(m)), total)
    BY <1>2 DEF AllocNewChunk
  <2> DEFINE cs == Append(chunks, newChunk(m))
             n  == Len(chunks)
  <2>2. total \in Nat /\ total =< CHUNK_SIZE /\ CHUNK_SIZE \in Nat
    BY TotalNat, BumpAssumption DEF Fitting
  <2>3. /\ chunks \in Seq(Chunk)
        /\ n \in Nat
        /\ DOMAIN chunks = 1 .. n
        /\ \A i \in 1 .. n : chunks[i].mem \in Regions /\ chunks[i].used \in Nat
    BY ChunkFacts
  <2>4. newChunk(m) \in Chunk /\ newChunk(m).mem = m /\ newChunk(m).used = 0
    BY DEF newChunk, Chunk, ChunkOf
  <2>5. /\ cs \in Seq(Chunk)
        /\ cs # <<>>
        /\ Len(cs) = n + 1
        /\ DOMAIN cs = 1 .. n + 1
        /\ cs[n + 1] = newChunk(m)
        /\ \A i \in 1 .. n : cs[i] = chunks[i]
    BY <2>3, <2>4, Appended
  <2>6. ChunksOK(cs)
    <3>1. \A i \in 1 .. n : chunks[i].mem # m
      BY <2>3 DEF Held
    <3>2. \A i \in 1 .. n + 1 : cs[i].used =< CHUNK_SIZE
      BY <2>2, <2>3, <2>4, <2>5 DEF ChunksOK
    <3>3. \A i, j \in 1 .. n + 1 : i # j => cs[i].mem # cs[j].mem
      BY <2>3, <2>4, <2>5, <3>1 DEF ChunksOK
    <3> QED
      BY <2>5, <3>2, <3>3 DEF ChunksOK
  <2>7. ObjectsIn(cs)
    BY <2>3, <2>5 DEF ObjectsIn
  <2>8. back(cs).used + total =< CHUNK_SIZE
    BY <2>2, <2>4, <2>5 DEF back
  <2>9. TypeOK' /\ ChunksOK(chunks)' /\ ObjectsIn(chunks)' /\ Disjoint' /\ Accounting'
    <3>2. totalAllocated = bytesIn(cs)
      BY <2>3, BytesOfNewChunk DEF Chunk, Accounting
    <3> HIDE DEF cs, total
    <3>1. cs # <<>> /\ total \in Nat /\ Place(cs, total)
      BY <2>1, <2>2, <2>5 DEF cs, total
    <3> QED
      BY <2>6, <2>7, <2>8, <3>1, <3>2, Placed
  <2>10. HalfFull'
    <3>1. chunks' = bumped(cs, total)
      BY <2>1 DEF Place
    <3>2. /\ chunks' \in Seq(Chunk)
          /\ DOMAIN chunks' = 1 .. n + 1
          /\ \A i \in 1 .. n + 1 :
               chunks'[i].used = IF i = n + 1 THEN cs[i].used + total ELSE cs[i].used
      <4> HIDE DEF cs, total
      <4>1. /\ bumped(cs, total) \in Seq(Chunk)
            /\ DOMAIN bumped(cs, total) = DOMAIN cs
            /\ \A i \in DOMAIN cs :
                 bumped(cs, total)[i].used =
                   IF i = Len(cs) THEN cs[i].used + total ELSE cs[i].used
        BY <2>2, <2>5, BumpedChunks DEF Chunk
      <4>2. DOMAIN chunks' = 1 .. n + 1
        BY <2>5, <3>1, <4>1
      <4>3. \A i \in 1 .. n + 1 :
              chunks'[i].used = IF i = n + 1 THEN cs[i].used + total ELSE cs[i].used
        BY <2>5, <3>1, <4>1
      <4> QED
        BY <3>1, <4>1, <4>2, <4>3
    <3>3. Len(chunks') = n + 1
      BY <2>3, <3>2
    <3>4. ASSUME NEW i \in 1 .. n
          PROVE  chunks'[i].used + chunks'[i + 1].used > CHUNK_SIZE
      <4>1. CASE i = n
        <5>1. chunks # <<>> => chunks[n].used + total > CHUNK_SIZE
          BY <1>2 DEF AllocNewChunk, noRoom, back
        <5>2. chunks # <<>>
          BY <2>3, <3>4
        <5>3. /\ chunks'[n].used = chunks[n].used
              /\ chunks'[n + 1].used = total
          BY <2>2, <2>3, <2>4, <2>5, <3>2, <4>1
        <5> QED
          BY <4>1, <5>1, <5>2, <5>3
      <4>2. CASE i # n
        <5>1. n \in Nat
          BY <2>3
        <5>2. i \in 1 .. n - 1 /\ i + 1 \in 1 .. n /\ i # n + 1 /\ i + 1 # n + 1
          BY <3>4, <4>2, <5>1
        <5>3. cs[i] = chunks[i] /\ cs[i + 1] = chunks[i + 1]
          BY <2>5, <5>2
        <5>4. /\ i \in 1 .. n + 1 /\ i + 1 \in 1 .. n + 1
          BY <5>1, <5>2
        <5>5. /\ chunks'[i].used = chunks[i].used
              /\ chunks'[i + 1].used = chunks[i + 1].used
          <6> HIDE DEF cs
          <6> QED
            BY <3>2, <5>2, <5>3, <5>4
        <5> QED
          BY <5>2, <5>5 DEF HalfFull
      <4> QED
        BY <4>1, <4>2
    <3> QED
      BY <2>3, <3>3, <3>4 DEF HalfFull
  <2> QED
    BY <2>9, <2>10
<1>3. ASSUME NEW size \in Requests, AllocFails(size)
      PROVE  IInv'
  BY <1>3 DEF AllocFails, TypeOK, ChunksOK, ObjectsIn, Disjoint, HalfFull, Accounting
<1>4. CASE Free
  <2>1. chunks' = <<>> /\ objects' = <<>> /\ totalAllocated' = 0 /\ status' = status
    BY <1>4 DEF Free
  <2> QED
    BY <2>1, BytesOfNone DEF TypeOK, ChunksOK, ObjectsIn, Disjoint, HalfFull, Accounting
<1>5. CASE UNCHANGED vars
  BY <1>5 DEF vars, TypeOK, ChunksOK, ObjectsIn, Disjoint, HalfFull, Accounting
<1> QED
  BY <1>1, <1>2, <1>3, <1>4, <1>5 DEF Next

\* Every call leaves the chunks tiled.
LEMMA TInvStep ==
  ASSUME Fitting, TInv, [Next]_vars
  PROVE  TInv'
<1>1. IInv'
  BY IInvStep DEF TInv
<1> USE DEF TInv, IInv
<1>2. ASSUME NEW size \in Requests, AllocInChunk(size)
      PROVE  TInv'
  <2> DEFINE total == Total(size)
  <2>1. /\ total \in Nat
        /\ chunks # <<>>
        /\ ~(back(chunks).used + total > CHUNK_SIZE)
        /\ Place(chunks, total)
    BY <1>2, TotalNat DEF AllocInChunk, noRoom
  <2>2. back(chunks).used + total =< CHUNK_SIZE
    BY <2>1, ChunkFacts, BumpAssumption DEF back
  <2> HIDE DEF total
  <2> QED
    BY <1>1, <2>1, <2>2, PlacedTiles
<1>3. ASSUME NEW size \in Requests, AllocNewChunk(size)
      PROVE  TInv'
  <2> DEFINE total == Total(size)
             n     == Len(chunks)
  <2>1. PICK m \in Regions \ Held : Place(Append(chunks, newChunk(m)), total)
    BY <1>3 DEF AllocNewChunk
  <2> DEFINE cs == Append(chunks, newChunk(m))
  <2>2. total \in Nat /\ total =< CHUNK_SIZE /\ CHUNK_SIZE \in Nat
    BY TotalNat, BumpAssumption DEF Fitting
  <2>3. /\ chunks \in Seq(Chunk)
        /\ n \in Nat
        /\ DOMAIN chunks = 1 .. n
        /\ \A i \in 1 .. n : chunks[i].mem \in Regions /\ chunks[i].used \in Nat
    BY ChunkFacts
  <2>4. newChunk(m) \in Chunk /\ newChunk(m).mem = m /\ newChunk(m).used = 0
    BY DEF newChunk, Chunk, ChunkOf
  <2>5. /\ cs \in Seq(Chunk)
        /\ cs # <<>>
        /\ Len(cs) = n + 1
        /\ DOMAIN cs = 1 .. n + 1
        /\ cs[n + 1] = newChunk(m)
        /\ \A i \in 1 .. n : cs[i] = chunks[i]
    BY <2>3, <2>4, Appended
  <2>6. ChunksOK(cs)
    <3>1. \A i \in 1 .. n : chunks[i].mem # m
      BY <2>3 DEF Held
    <3>2. \A i \in 1 .. n + 1 : cs[i].used =< CHUNK_SIZE
      BY <2>2, <2>3, <2>4, <2>5 DEF ChunksOK
    <3>3. \A i, j \in 1 .. n + 1 : i # j => cs[i].mem # cs[j].mem
      BY <2>3, <2>4, <2>5, <3>1 DEF ChunksOK
    <3> QED
      BY <2>5, <3>2, <3>3 DEF ChunksOK
  <2>7. ObjectsIn(cs)
    BY <2>3, <2>5 DEF ObjectsIn
  <2>8. back(cs).used + total =< CHUNK_SIZE
    BY <2>2, <2>4, <2>5 DEF back
  <2>9. TiledIn(cs)
    <3> SUFFICES ASSUME NEW i \in 1 .. n + 1
                 PROVE  /\ (i = Len(cs) /\ cs[i].used = 0) \/ cs[i].mem \in Starts
                        /\ \A k \in DOMAIN objects :
                             /\ cs[i].mem =< objects[k].addr
                             /\ objects[k].addr < cs[i].mem + cs[i].used
                             => \/ objects[k].addr + objects[k].size \in Starts
                                \/ objects[k].addr + objects[k].size = cs[i].mem + cs[i].used
      BY <2>5 DEF TiledIn
    <3>1. CASE i \in 1 .. n
      BY <2>3, <2>5, <3>1 DEF TiledIn
    <3>2. CASE i = n + 1
      <4>1. cs[i].mem = m /\ cs[i].used = 0 /\ m \in Nat /\ i = Len(cs)
        BY <2>4, <2>5, <3>2, ArenaAssumption
      <4>2. \A k \in DOMAIN objects : objects[k].addr \in Nat
        <5>1. objects \in Seq([addr : Nat, size : Nat])
          BY DEF TypeOK
        <5>2. \A k \in DOMAIN objects : objects[k] \in [addr : Nat, size : Nat]
          BY <5>1, Elements
        <5> QED
          BY <5>2
      <4> HIDE DEF cs
      <4> QED
        BY <4>1, <4>2
    <3> QED
      BY <2>3, <3>1, <3>2
  <2> HIDE DEF cs, total
  <2>10. cs # <<>> /\ Place(cs, total)
    BY <2>1, <2>5 DEF cs, total
  <2> QED
    BY <1>1, <2>2, <2>6, <2>7, <2>8, <2>9, <2>10, PlacedTiles
<1>4. ASSUME NEW size \in Requests, AllocFails(size)
      PROVE  TInv'
  BY <1>1, <1>4 DEF AllocFails, TiledIn, Starts
<1>5. CASE Free
  <2>1. chunks' = <<>>
    BY <1>5 DEF Free
  <2> QED
    BY <1>1, <2>1 DEF TiledIn
<1>6. CASE UNCHANGED vars
  BY <1>1, <1>6 DEF vars, TiledIn, Starts
<1> QED
  BY <1>2, <1>3, <1>4, <1>5, <1>6 DEF Next

\* Every reachable state of an arena satisfies the invariant.
THEOREM Invariance == ASSUME Fitting PROVE Spec => []IInv
<1>1. IInv /\ [Next]_vars => IInv'
  BY IInvStep
<1> QED
  BY <1>1, IInvInit, PTL DEF Spec

\* heapAlloc and allocateMemory never give out the same byte twice.
THEOREM ObjectsDisjoint == ASSUME Fitting PROVE Spec => []Disjoint
<1>1. IInv => Disjoint
  BY DEF IInv
<1> QED
  BY <1>1, Invariance, PTL

\* No object leaves the memory malloc gave for its chunk.
THEOREM ObjectsWithinChunk == ASSUME Fitting PROVE Spec => []WithinChunk
<1>1. IInv => WithinChunk
  BY DEF IInv, ChunksOK, ObjectsIn, WithinChunk
<1> QED
  BY <1>1, Invariance, PTL

\* An arena wastes at most half of what it holds, but for its last chunk.
THEOREM ChunksHalfFull == ASSUME Fitting PROVE Spec => []HalfFull
<1>1. IInv => HalfFull
  BY DEF IInv
<1> QED
  BY <1>1, Invariance, PTL

\* The arena's state keeps its type.
THEOREM ArenaTypeOK == ASSUME Fitting PROVE Spec => []TypeOK
<1>1. IInv => TypeOK
  BY DEF IInv
<1> QED
  BY <1>1, Invariance, PTL

\* totalAllocated, on which the collector's start depends, never drifts from
\* the bytes the chunks hold.
THEOREM ArenaAccounting == ASSUME Fitting PROVE Spec => []Accounting
<1>1. IInv => Accounting
  BY DEF IInv
<1> QED
  BY <1>1, Invariance, PTL

\* The walk from a chunk's start, one object's size after another, meets every
\* object and ends at `used', objects of no bytes and adjacent regions included.
THEOREM ArenaTiled == ASSUME Fitting PROVE Spec => []Tiled
<1>1. Init => TInv
  <2> SUFFICES ASSUME Init PROVE TInv
    OBVIOUS
  <2>1. chunks = <<>>
    BY DEF Init
  <2> QED
    BY <2>1, IInvInit DEF TInv, TiledIn
<1>2. TInv /\ [Next]_vars => TInv'
  BY TInvStep
<1>3. TInv => Tiled
  BY DEF TInv, TiledIn, Starts, Tiled
<1> QED
  BY <1>1, <1>2, <1>3, PTL DEF Spec
==============================================================================
