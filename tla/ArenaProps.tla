------------------------------ MODULE ArenaProps -----------------------------
(***************************************************************************)
(* Properties of an arena whose requests fit a chunk.                      *)
(***************************************************************************)
EXTENDS Arena

Fitting == \A size \in Requests : Total(size) =< CHUNK_SIZE

\* The chunks are malloc'ed regions filled up to `used', the history is a
\* list of extents.
TypeOK ==
  /\ chunks \in Seq([mem : Regions, used : Nat])
  /\ totalAllocated \in Nat
  /\ status \in {"running", "threw"}
  /\ objects \in Seq([addr : Nat, size : Nat])

\* No two objects given out share a byte, in whatever chunks and whatever
\* order they were placed: heapAlloc opens a chunk whenever the last one has
\* no room, and malloc's regions are apart.
Disjoint ==
  \A i, j \in DOMAIN objects :
    i < j => \/ objects[i].addr + objects[i].size =< objects[j].addr
             \/ objects[j].addr + objects[j].size =< objects[i].addr

\* No chunk is filled beyond the memory malloc gave for it, and every object
\* lies in the filled part of one chunk.
WithinChunk ==
  /\ \A i \in DOMAIN chunks : chunks[i].used =< CHUNK_SIZE
  /\ \A k \in DOMAIN objects : \E i \in DOMAIN chunks :
       /\ chunks[i].mem =< objects[k].addr
       /\ objects[k].addr + objects[k].size =< chunks[i].mem + chunks[i].used

\* What getAllObjects and moveObjects rely on: from the start of a chunk, one
\* object's size after another leads through every object to `used' exactly.
Tiled ==
  \A i \in DOMAIN chunks :
    LET c       == chunks[i]
        starts  == {objects[k].addr : k \in DOMAIN objects}
        inside  == {k \in DOMAIN objects :
                      c.mem =< objects[k].addr /\ objects[k].addr < c.mem + c.used}
    IN /\ c.mem \in starts
       /\ \A k \in inside :
            objects[k].addr + objects[k].size \in starts \cup {c.mem + c.used}

\* totalAllocated, which decides when the collector runs, is the number of
\* bytes in use over all chunks.
Accounting == totalAllocated = bytesIn(chunks)

\* A chunk is retired only when the next object does not fit: two neighbours
\* together hold more than one chunk's worth, so an arena never holds more
\* than twice the memory it has given out, plus one chunk.
HalfFull ==
  \A i \in 1 .. Len(chunks) - 1 :
    chunks[i].used + chunks[i + 1].used > CHUNK_SIZE
==============================================================================
