----------------------------- MODULE BumpProofs ------------------------------
(***************************************************************************)
(* What bump allocation does to a list of chunks and to the bytes it holds. *)
(***************************************************************************)
EXTENDS Bump, SumsProofs

\* A chunk whose region begins at an address of R.
ChunkOf(R) == [mem : R, used : Nat]

\* align rounds up.
LEMMA AlignUp ==
  ASSUME NEW n \in Nat
  PROVE  align(n) \in Nat /\ n =< align(n)
BY DEF align, ALIGN

\* The elements of a sequence.
LEMMA Elements ==
  ASSUME NEW S, NEW s \in Seq(S)
  PROVE  /\ Len(s) \in Nat
         /\ DOMAIN s = 1 .. Len(s)
         /\ \A i \in DOMAIN s : s[i] \in S
OBVIOUS

\* What Append does to a sequence of any kind of element.
LEMMA Appended ==
  ASSUME NEW S, NEW s \in Seq(S), NEW e \in S
  PROVE  /\ Append(s, e) \in Seq(S)
         /\ Append(s, e) # <<>>
         /\ Len(s) \in Nat
         /\ Len(Append(s, e)) = Len(s) + 1
         /\ DOMAIN s = 1 .. Len(s)
         /\ DOMAIN Append(s, e) = 1 .. Len(s) + 1
         /\ \A i \in 1 .. Len(s) : Append(s, e)[i] = s[i] /\ s[i] \in S
         /\ Append(s, e)[Len(s) + 1] = e
OBVIOUS

\* What bumped changes: only the last chunk's used.
LEMMA BumpedChunks ==
  ASSUME NEW R, NEW cs \in Seq(ChunkOf(R)), cs # <<>>, NEW total \in Nat
  PROVE  /\ bumped(cs, total) \in Seq(ChunkOf(R))
         /\ DOMAIN bumped(cs, total) = DOMAIN cs
         /\ Len(cs) \in DOMAIN cs
         /\ \A i \in DOMAIN cs :
              /\ bumped(cs, total)[i].mem = cs[i].mem
              /\ bumped(cs, total)[i].used =
                   IF i = Len(cs) THEN cs[i].used + total ELSE cs[i].used
<1>1. /\ Len(cs) \in DOMAIN cs
      /\ Len(cs) \in Nat \ {0}
      /\ DOMAIN cs = 1 .. Len(cs)
      /\ \A i \in DOMAIN cs : cs[i] \in ChunkOf(R)
  OBVIOUS
<1>2. [mem |-> back(cs).mem, used |-> back(cs).used + total] \in ChunkOf(R)
  BY <1>1 DEF ChunkOf, back
<1>3. bumped(cs, total) \in Seq(ChunkOf(R))
  BY <1>1, <1>2 DEF bumped
<1>4. DOMAIN bumped(cs, total) = DOMAIN cs
  BY DEF bumped
<1>5. ASSUME NEW i \in DOMAIN cs
      PROVE  /\ bumped(cs, total)[i].mem = cs[i].mem
             /\ bumped(cs, total)[i].used =
                  IF i = Len(cs) THEN cs[i].used + total ELSE cs[i].used
  BY <1>1, <1>5 DEF bumped, back
<1> QED
  BY <1>1, <1>3, <1>4, <1>5


\* bytesIn is a number, and counts the bytes of the last chunk apart.
LEMMA BytesSplit ==
  ASSUME NEW R, NEW cs \in Seq(ChunkOf(R)), cs # <<>>
  PROVE  /\ Len(cs) - 1 \in Nat
         /\ sumOf([i \in DOMAIN cs |-> cs[i].used], Len(cs) - 1) \in Int
         /\ bytesIn(cs) = sumOf([i \in DOMAIN cs |-> cs[i].used], Len(cs) - 1) + back(cs).used
<1> DEFINE u == [i \in DOMAIN cs |-> cs[i].used]
           n == Len(cs) - 1
<1>1. /\ n \in Nat /\ Len(cs) = n + 1 /\ DOMAIN cs = 1 .. n + 1
      /\ \A i \in 1 .. n + 1 : cs[i] \in ChunkOf(R)
  OBVIOUS
<1>2. \A i \in 1 .. n + 1 : u[i] = cs[i].used /\ u[i] \in Int
  <2> HIDE DEF n
  <2> QED
    BY <1>1 DEF ChunkOf
<1>3. sumOf(u, n + 1) = sumOf(u, n) + u[n + 1] /\ sumOf(u, n) \in Int
  <2> HIDE DEF u, n
  <2> QED
    BY <1>1, <1>2, SumNext
<1>4. u[n + 1] = back(cs).used
  BY <1>1, <1>2 DEF back
<1> QED
  BY <1>1, <1>3, <1>4 DEF bytesIn

\* An empty list holds nothing.
LEMMA BytesOfNone == bytesIn(<<>>) = 0
BY SumZero DEF bytesIn

\* A new chunk holds nothing yet.
LEMMA BytesOfNewChunk ==
  ASSUME NEW R, NEW cs \in Seq(ChunkOf(R)), NEW m \in R
  PROVE  bytesIn(Append(cs, newChunk(m))) = bytesIn(cs)
<1> DEFINE ds == Append(cs, newChunk(m))
           n  == Len(cs)
           u  == [i \in DOMAIN cs |-> cs[i].used]
           v  == [i \in DOMAIN ds |-> ds[i].used]
<1>1. newChunk(m) \in ChunkOf(R) /\ newChunk(m).used = 0
  BY DEF newChunk, ChunkOf
<1>2. /\ ds \in Seq(ChunkOf(R)) /\ ds # <<>> /\ n \in Nat /\ Len(ds) = n + 1
      /\ DOMAIN cs = 1 .. n /\ DOMAIN ds = 1 .. n + 1
      /\ \A i \in 1 .. n : ds[i] = cs[i] /\ cs[i] \in ChunkOf(R)
      /\ ds[n + 1] = newChunk(m)
  BY <1>1, Appended
<1>3. bytesIn(ds) = sumOf(v, n) + back(ds).used /\ sumOf(v, n) \in Int
  <2> HIDE DEF ds
  <2> QED
    BY <1>2, BytesSplit
<1>4. back(ds).used = 0
  BY <1>1, <1>2 DEF back
<1>5. \A i \in 1 .. n : u[i] \in Int /\ u[i] = v[i]
  <2> HIDE DEF ds
  <2> QED
    BY <1>2 DEF ChunkOf
<1>6. sumOf(u, n) = sumOf(v, n)
  <2> HIDE DEF u, v
  <2> QED
    BY <1>2, <1>5, SumSame
<1>7. bytesIn(cs) = sumOf(u, n)
  BY DEF bytesIn
<1>8. bytesIn(ds) = bytesIn(cs)
  <2> HIDE DEF ds, u, v
  <2> QED
    BY <1>3, <1>4, <1>6, <1>7
<1> QED
  BY <1>8

\* Room for an object is taken once.
LEMMA BytesBumped ==
  ASSUME NEW R, NEW cs \in Seq(ChunkOf(R)), cs # <<>>, NEW total \in Nat
  PROVE  bytesIn(bumped(cs, total)) = bytesIn(cs) + total
<1> DEFINE ds == bumped(cs, total)
           n  == Len(cs) - 1
           u  == [i \in DOMAIN cs |-> cs[i].used]
           v  == [i \in DOMAIN ds |-> ds[i].used]
<1>1. /\ ds \in Seq(ChunkOf(R))
      /\ DOMAIN ds = DOMAIN cs
      /\ \A i \in DOMAIN cs :
           ds[i].used = IF i = Len(cs) THEN cs[i].used + total ELSE cs[i].used
  BY BumpedChunks
<1> HIDE DEF ds
<1>2. /\ n \in Nat /\ Len(cs) = n + 1 /\ DOMAIN cs = 1 .. n + 1 /\ Len(ds) = n + 1
      /\ ds # <<>>
      /\ \A i \in 1 .. n + 1 : cs[i].used \in Nat
  <2>1. /\ n \in Nat /\ Len(cs) = n + 1 /\ DOMAIN cs = 1 .. n + 1
        /\ \A i \in 1 .. n + 1 : cs[i] \in ChunkOf(R)
    OBVIOUS
  <2>2. Len(ds) = n + 1 /\ ds # <<>>
    BY <1>1, <2>1
  <2>3. \A i \in 1 .. n + 1 : cs[i].used \in Nat
    <3> HIDE DEF n
    <3> QED
      BY <2>1 DEF ChunkOf
  <2> QED
    BY <2>1, <2>2, <2>3
<1>3. /\ bytesIn(cs) = sumOf(u, n) + back(cs).used
      /\ bytesIn(ds) = sumOf(v, n) + back(ds).used
      /\ sumOf(u, n) \in Int
  BY <1>1, <1>2, BytesSplit
<1>4. ASSUME NEW i \in 1 .. n
      PROVE  u[i] \in Int /\ u[i] = v[i]
  <2>1. i \in 1 .. n + 1 /\ i # n + 1
    <3> HIDE DEF n
    <3> QED
      BY <1>2
  <2>2. i \in DOMAIN cs /\ i \in DOMAIN ds /\ i # Len(cs)
    BY <1>1, <1>2, <2>1
  <2>3. u[i] = cs[i].used /\ v[i] = ds[i].used
    BY <2>2
  <2>4. cs[i].used \in Nat
    BY <1>2, <2>1
  <2>5. ds[i].used = cs[i].used
    BY <1>1, <2>2
  <2> QED
    BY <2>3, <2>4, <2>5
<1>5. sumOf(u, n) = sumOf(v, n)
  <2> HIDE DEF u, v, n
  <2> QED
    BY <1>2, <1>4, SumSame
<1>6. back(ds).used = back(cs).used + total /\ back(cs).used \in Nat
  BY <1>1, <1>2 DEF back
<1>7. bytesIn(ds) = bytesIn(cs) + total
  <2> HIDE DEF u, v
  <2> QED
    BY <1>3, <1>5, <1>6
<1> QED
  BY <1>7 DEF ds
==============================================================================
