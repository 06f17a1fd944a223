------------------------------ MODULE HeapProofs -----------------------------
(***************************************************************************)
(* The collector, whatever the chunk size, the regions malloc returns, the *)
(* registers, the stack and the programs' arrays, for the programs and     *)
(* heaps of Tame: while such a program runs every pointer it holds leads   *)
(* to an array of the active half-space, the objects tile their chunks, a  *)
(* collection copies what the roots reach, word for word, and nothing      *)
(* else, and the byte counts are those of the chunks.                      *)
(***************************************************************************)
EXTENDS HeapTrace, BumpProofs, FiniteSetTheorems, Functions

(***************************************************************************)
(* The programs and the heaps the theorems are about.                      *)
(***************************************************************************)
totalOf(n) == OBJ_HEADER + 8 * n + 8

\* A program that keeps no pointers in arrays, uses array instructions on
\* arrays and the elements that lie inside the object, reserves no locals and
\* reads no slot above sp; arrays that hold their own length and fit a chunk;
\* 48-bit addresses and freed memory that malloc returns cleared.
Tame ==
  /\ ~PointerElements /\ ~AnyOperand /\ ~Recycle
  /\ Points = {}
  /\ \A w \in Data : ~isPointer(w)
  /\ \A f \in DOMAIN functionTable : functionTable[f].frameSize = 0
  /\ \A n \in Nat : Indices(n) \subseteq 0 .. n - 3
  /\ \A n \in Lengths : n >= 2 /\ totalOf(n) =< CHUNK_SIZE
  /\ CHUNK_SIZE % ALIGN = 0
  /\ \A m \in Regions : m + CHUNK_SIZE =< MID * LO

\* How full a chunk can be: nothing, and one more array where it fits.
Fills(F) ==
  /\ F \subseteq 0 .. CHUNK_SIZE
  /\ 0 \in F
  /\ \A u \in F : u % 8 = 0
  /\ \A u \in F, n \in Lengths : u + totalOf(n) =< CHUNK_SIZE => u + totalOf(n) \in F

\* initArray clears 16 bytes behind the object.  They are not another region's:
\* no chunk is filled to its last 16 bytes, or no two regions touch.
Spare(F) == F \subseteq 0 .. CHUNK_SIZE - OBJ_HEADER
Apart    == \A m, n \in Regions : m < n => m + CHUNK_SIZE + OBJ_HEADER =< n

(***************************************************************************)
(* The invariant.                                                          *)
(***************************************************************************)
HeapChunk == [mem : Regions, used : 1 .. CHUNK_SIZE]

Sized(m, p)      == sizeOf(m[p - OBJ_HEADER])
covers(m, p, a)  == p - OBJ_HEADER =< a /\ a < p - OBJ_HEADER + Sized(m, p)
InChunk(m, p, c) == /\ c.mem + OBJ_HEADER =< p
                    /\ p - OBJ_HEADER + Sized(m, p) =< c.mem + c.used

\* The arrays A tile the chunks ch of both half-spaces.
Layout(F, ch, A, m) ==
  /\ ch \in [Spaces -> Seq(HeapChunk)]
  /\ \A s \in Spaces : \A i \in DOMAIN ch[s] :
       /\ ch[s][i].used \in F
       /\ ch[s][i].mem + OBJ_HEADER \in A
       /\ \A p \in A : InChunk(m, p, ch[s][i]) =>
            \/ p + Sized(m, p) \in A
            \/ p + Sized(m, p) = ch[s][i].mem + ch[s][i].used + OBJ_HEADER
  /\ \A s, t \in Spaces : \A i \in DOMAIN ch[s], j \in DOMAIN ch[t] :
       s # t \/ i # j => ch[s][i].mem # ch[t][j].mem
  /\ \A p \in A : \E s \in Spaces : \E i \in DOMAIN ch[s] : InChunk(m, p, ch[s][i])
  /\ \A p, q \in A : p # q => p + Sized(m, p) =< q \/ q + Sized(m, q) =< p

\* An array object of its length, with no pointer in it.
ArrayOK(m, p) ==
  /\ p \in Nat /\ p >= OBJ_HEADER /\ p % 8 = 0
  /\ typeOf(m[p - OBJ_HEADER]) = OBJ_ARRAY
  /\ lengthOf(m[p + 16]) \in Lengths
  /\ Sized(m, p) = totalOf(lengthOf(m[p + 16]))
  /\ m[p] = ZERO
  /\ \A k \in 0 .. lengthOf(m[p + 16]) - 3 : ~isPointer(m[p + ARRAY_OBJ + 8 * k])

\* Memory in no array is clear.
Clear(A, m) == \A a \in Cells : (\A p \in A : ~covers(m, p, a)) => m[a] = ZERO

\* The heap as every phase leaves it.
HeapOK(F, ch, A, m) ==
  /\ m \in [Cells -> Word]
  /\ Layout(F, ch, A, m)
  /\ \A p \in A : ArrayOK(m, p)
  /\ Clear(A, m)

\* Neither marked nor forwarded.
Unmarked(m, p)    == flagsOf(m[p - OBJ_HEADER]) = 0
Unforwarded(m, p) == m[p - 8] = ZERO

\* The cursor of a walk stands at an array, or past the last chunk.
CursorOK(cs, A, at) ==
  /\ at \in (Nat \ {0}) \X Nat
  /\ \/ at[1] = Len(cs) + 1
     \/ /\ at[1] \in DOMAIN cs
        /\ at[2] < cs[at[1]].used
        /\ cs[at[1]].mem + at[2] + OBJ_HEADER \in A

LEMMA CursorType ==
  ASSUME NEW cs, NEW A, NEW at, CursorOK(cs, A, at)
  PROVE  at \in (Nat \ {0}) \X Nat
BY DEF CursorOK

\* The walk has left the array at p behind.
Passed(m, cs, at, p) ==
  \E j \in DOMAIN cs :
    /\ InChunk(m, p, cs[j])
    /\ j < at[1] \/ (j = at[1] /\ p - OBJ_HEADER < cs[j].mem + at[2])

fwd(m, p) == decodePointer(m[p - 8])

\* While objects move from A to B: those of the set P, marked in advance, that
\* the cursor has passed have an equal array each in B, and B has no other.
Forwarded(m, A, B, P, cs, at) ==
  LET Moved == {p \in A : p \in P /\ Passed(m, cs, at, p)}
  IN /\ \A p \in A \ Moved : Unforwarded(m, p)
     /\ \A p \in Moved : /\ m[p - 8] # ZERO
                         /\ isPointer(m[p - 8])
                         /\ fwd(m, p) \in B
                         /\ Sized(m, fwd(m, p)) = Sized(m, p)
                         /\ \A k \in 0 .. (Sized(m, p) - OBJ_HEADER) \div 8 - 1 :
                              m[fwd(m, p) + 8 * k] = m[p + 8 * k]
     /\ \A p, q \in Moved : fwd(m, p) = fwd(m, q) => p = q
     /\ \A q \in B : \E p \in Moved : fwd(m, p) = q

gcFields == {"phase", "at", "objects", "ptrHolder", "want"}

\* In every phase.
Always(F) ==
  /\ sp \in 0 .. STACK_SIZE /\ fp \in Nat /\ fp =< sp /\ ip \in Nat
  /\ HeapOK(F, chunks, arrays, mem)
  /\ RootPointers \subseteq Arrays(active)
  /\ \A s \in Spaces : totalAllocated[s] = bytesIn(chunks[s])
  /\ DOMAIN gc = gcFields

\* Until objects move the idle half-space is empty and nothing is forwarded.
BeforeMove ==
  gc.phase \in {"idle", "alloc", "walk", "mark", "scan"} =>
    /\ chunks[idle] = <<>>
    /\ \A p \in arrays : Unforwarded(mem, p)

BeforeMark ==
  /\ gc.phase \in {"idle", "alloc", "walk", "mark"} =>
       \A p \in arrays : Unmarked(mem, p)
  /\ gc.phase = "idle" => gc = NotCollecting
  /\ gc.phase = "alloc" => Arrays(active) = RootPointers
  /\ gc.phase # "idle" => gc.want \in Regs \X Lengths \X Types

InWalk ==
  /\ gc.phase = "walk" => CursorOK(chunks[active], arrays, gc.at) /\ gc.at[1] \in DOMAIN chunks[active]
  /\ gc.phase \in {"walk", "mark", "scan"} =>
       /\ gc.objects \in Seq(Cells)
       /\ \A k \in 1 .. Len(gc.objects) : gc.objects[k] + OBJ_HEADER \in arrays
  /\ gc.phase \in {"mark", "scan"} => gc.objects # <<>>
  /\ gc.phase \in {"mark", "scan"} => chunks[active] # <<>>

AfterMark ==
  gc.phase \in {"scan", "move", "patch"} =>
    /\ \A p \in Arrays(active) :
         flagsOf(mem[p - OBJ_HEADER]) = IF p \in RootPointers THEN FLAG_MARKED ELSE 0
    /\ gc.ptrHolder = Roots

InMove ==
  gc.phase \in {"move", "patch"} =>
    /\ CursorOK(chunks[active], arrays, gc.at)
    /\ (gc.phase = "patch") <=> (gc.at[1] \notin DOMAIN chunks[active])
    /\ \A q \in Arrays(idle) : Unmarked(mem, q) /\ Unforwarded(mem, q)
    /\ Forwarded(mem, Arrays(active), Arrays(idle), RootPointers, chunks[active], gc.at)

IInv(F) ==
  /\ TypeOK
  /\ Running => /\ Always(F) /\ BeforeMove /\ BeforeMark
                /\ InWalk /\ AfterMark /\ InMove

(***************************************************************************)
(* Numbers and words.                                                      *)
(***************************************************************************)
\* Plain numbers, visible in every proof below.
USE DEF OBJ_HEADER, ARRAY_OBJ, ALIGN

\* What heapAlloc reserves for an array needs no rounding, nor does its copy.
LEMMA Totals8 ==
  ASSUME NEW n \in Nat
  PROVE  /\ totalOf(n) \in Nat
         /\ totalOf(n) = 24 + 8 * n
         /\ totalOf(n) % 8 = 0
         /\ align(OBJ_HEADER + 8 * n + 8) = totalOf(n)
         /\ align(totalOf(n)) = totalOf(n)
<1>1. totalOf(n) = 24 + 8 * n
  BY DEF totalOf
<1>2. ((24 + 8 * n) + 7) \div 8 = 3 + n
  OBVIOUS
<1>3. align(24 + 8 * n) = 24 + 8 * n
  BY <1>2 DEF align
<1> QED
  BY <1>1, <1>3

\* A pointer is a pointer, and leads to its address.
LEMMA PointerWord ==
  ASSUME NEW a \in Nat, a < MID * LO
  PROVE  /\ encodePointer(a) \in Word
         /\ isPointer(encodePointer(a))
         /\ encodePointer(a) # ZERO
         /\ decodePointer(encodePointer(a)) = a
<1>1. LO \in Nat /\ LO > 0 /\ MID \in Nat /\ MID > 0
  BY WordsAssumption
<1> DEFINE d == a \div LO
           m == d % MID
           l == a % LO
<1>2. d \in Nat /\ l \in Nat /\ a = d * LO + l
  BY <1>1, Z3
<1>3. d < MID
  <2>1. SUFFICES ASSUME d >= MID PROVE FALSE
    BY <1>1, <1>2
  <2>2. d * LO >= MID * LO
    BY <1>1, <1>2, <2>1, Z3
  <2> QED
    BY <1>1, <1>2, <2>2, Z3
<1>4. m = d
  <2> HIDE DEF d
  <2> QED
    BY <1>1, <1>2, <1>3
<1>5. encodePointer(a) = [hi |-> 32754, mid |-> m, lo |-> l]
  BY DEF encodePointer, encode, W, NAN_BASE, TAG_POINTER
<1> HIDE DEF m, l, d
<1>6. encodePointer(a) \in Word /\ decodePointer(encodePointer(a)) = m * LO + l
  BY <1>2, <1>4, <1>5 DEF Word, decodePointer
<1>7. isPointer(encodePointer(a))
  <2>1. (32754 \div 16) % 2048 = 2047 /\ 32754 % 16 = 2
    OBVIOUS
  <2> QED
    BY <1>5, <2>1 DEF isPointer, isDouble, getTag, TAG_POINTER
<1>8. encodePointer(a) # ZERO
  BY <1>5 DEF ZERO, W
<1> QED
  BY <1>2, <1>4, <1>6, <1>7, <1>8

\* A word of the upper 16 bits 0 is a double.
LEMMA NoPointer ==
  ASSUME NEW w, w.hi = 0
  PROVE  ~isPointer(w)
<1>1. (0 \div 16) % 2048 # 2047
  OBVIOUS
<1> QED
  BY <1>1 DEF isPointer, isDouble

LEMMA ZeroWord == ZERO \in Word /\ ~isPointer(ZERO) /\ ZERO.hi = 0
<1>1. ZERO \in Word /\ ZERO.hi = 0
  BY DEF ZERO, W, Word
<1> QED
  BY <1>1, NoPointer

\* The links call saves are numbers, not pointers.
LEMMA RawWord ==
  ASSUME NEW n \in Nat
  PROVE  raw64(n) \in Word /\ ~isPointer(raw64(n))
<1>1. LO \in Nat /\ LO > 0
  BY WordsAssumption
<1>2. n \div LO \in Nat /\ n % LO \in Nat
  BY <1>1
<1>3. raw64(n) \in Word /\ raw64(n).hi = 0
  BY <1>2 DEF raw64, W, Word
<1> QED
  BY <1>3, NoPointer

\* The header of a new object, and what marking changes of it.
LEMMA HeaderWord ==
  ASSUME NEW size \in Nat, NEW type \in Nat
  PROVE  /\ header(size, type) \in Word
         /\ sizeOf(header(size, type)) = size
         /\ typeOf(header(size, type)) = type
         /\ flagsOf(header(size, type)) = 0
BY DEF header, W, Word, sizeOf, typeOf, flagsOf

LEMMA MarkedWord ==
  ASSUME NEW w \in Word
  PROVE  /\ marked(w) \in Word
         /\ sizeOf(marked(w)) = sizeOf(w)
         /\ typeOf(marked(w)) = typeOf(w)
         /\ flagsOf(w) = 0 => flagsOf(marked(w)) = FLAG_MARKED
<1>1. w = [hi |-> w.hi, mid |-> w.mid, lo |-> w.lo] /\ w.hi \in Nat
  BY DEF Word
<1>2. marked(w) = [hi |-> IF w.hi % 2 = 0 THEN w.hi + 1 ELSE w.hi,
                   mid |-> w.mid, lo |-> w.lo]
  BY <1>1 DEF marked
<1>3. 0 % 2 = 0
  OBVIOUS
<1> QED
  BY <1>1, <1>2, <1>3 DEF Word, sizeOf, typeOf, flagsOf, FLAG_MARKED

\* An array's type and length are read back as they were written.
LEMMA InfoWord ==
  ASSUME NEW type \in Nat, NEW length \in Nat
  PROVE  /\ arrayInfo(type, length) \in Word
         /\ lengthOf(arrayInfo(type, length)) = length
<1>1. MID \in Nat /\ MID > 0
  BY WordsAssumption
<1>2. length \div MID \in Nat /\ length % MID \in Nat
  BY <1>1
<1>3. length = (length \div MID) * MID + (length % MID)
  BY <1>1, Z3
<1> QED
  BY <1>2, <1>3 DEF arrayInfo, W, Word, lengthOf

(***************************************************************************)
(* Regions, chunks and the arrays in them.                                 *)
(***************************************************************************)
\* Two regions do not overlap; their addresses fit a pointer.
LEMMA RegionFacts ==
  ASSUME Tame
  PROVE  /\ CHUNK_SIZE \in Nat /\ CHUNK_SIZE > 0 /\ CHUNK_SIZE % 8 = 0
         /\ MID * LO \in Nat
         /\ \A m \in Regions : m \in Nat /\ m % 8 = 0 /\ m > 0 /\ m + CHUNK_SIZE =< MID * LO
         /\ \A m, n \in Regions : m # n => m + CHUNK_SIZE =< n \/ n + CHUNK_SIZE =< m
<1>1. CHUNK_SIZE \in Nat /\ CHUNK_SIZE > 0 /\ CHUNK_SIZE % 8 = 0
  BY BumpAssumption DEF Tame
<1>2. LO \in Nat /\ MID \in Nat
  BY WordsAssumption
<1>3. MID * LO \in Nat
  BY <1>2, Z3
<1>4. \A m \in Regions : m \in Nat /\ m % 8 = 0 /\ m > 0 /\ m + CHUNK_SIZE =< MID * LO
  BY <1>3, HeapAssumption DEF Tame
<1>5. \A m, n \in Regions : m < n => m + CHUNK_SIZE =< n
  BY HeapAssumption
<1>6. ASSUME NEW m \in Regions, NEW n \in Regions, m # n
      PROVE  m + CHUNK_SIZE =< n \/ n + CHUNK_SIZE =< m
  <2>1. m < n \/ n < m
    BY <1>4, <1>6
  <2> QED
    BY <1>5, <2>1
<1> QED
  BY <1>1, <1>3, <1>4, <1>6

\* The cells are the words of the regions.
LEMMA CellFacts ==
  ASSUME Tame
  PROVE  /\ \A a \in Cells : /\ a \in Nat /\ a % 8 = 0
                             /\ \E m \in Regions : m =< a /\ a < m + CHUNK_SIZE
         /\ \A a \in Nat, m \in Regions :
              a % 8 = 0 /\ m =< a /\ a < m + CHUNK_SIZE => a \in Cells
<1>1. /\ CHUNK_SIZE \in Nat /\ CHUNK_SIZE % 8 = 0
      /\ \A m \in Regions : m \in Nat /\ m % 8 = 0
  BY RegionFacts
<1>2. ASSUME NEW a \in Cells
      PROVE  a \in Nat /\ a % 8 = 0 /\ \E m \in Regions : m =< a /\ a < m + CHUNK_SIZE
  <2>1. PICK m \in Regions, k \in 0 .. CHUNK_SIZE \div 8 - 1 : a = m + 8 * k
    BY <1>2 DEF Cells, wordsOf
  <2>2. CHUNK_SIZE = 8 * (CHUNK_SIZE \div 8)
    BY <1>1
  <2>3. m \in Nat /\ m % 8 = 0 /\ k \in Nat /\ k =< CHUNK_SIZE \div 8 - 1
    BY <1>1, <2>1
  <2>4. a \in Nat /\ a % 8 = 0 /\ m =< a /\ a < m + CHUNK_SIZE
    BY <1>1, <2>1, <2>2, <2>3
  <2> QED
    BY <2>4
<1>3. ASSUME NEW a \in Nat, NEW m \in Regions,
             a % 8 = 0, m =< a, a < m + CHUNK_SIZE
      PROVE  a \in Cells
  <2> DEFINE k == (a - m) \div 8
  <2>1. m \in Nat /\ m % 8 = 0
    BY <1>1
  <2>2. a = m + 8 * k /\ k \in 0 .. CHUNK_SIZE \div 8 - 1
    BY <1>1, <1>3, <2>1
  <2>3. a \in wordsOf(m)
    BY <2>2 DEF wordsOf
  <2> QED
    BY <2>3 DEF Cells
<1> QED
  BY <1>2, <1>3

\* The numbers of an array.
LEMMA ArrayFacts ==
  ASSUME Tame, NEW m, NEW p, ArrayOK(m, p)
  PROVE  /\ p \in Nat /\ p % 8 = 0 /\ p >= 16
         /\ lengthOf(m[p + 16]) \in Nat /\ lengthOf(m[p + 16]) >= 2
         /\ Sized(m, p) = 24 + 8 * lengthOf(m[p + 16])
         /\ Sized(m, p) \in Nat /\ Sized(m, p) % 8 = 0
         /\ Sized(m, p) >= 40 /\ Sized(m, p) =< CHUNK_SIZE
<1> DEFINE n == lengthOf(m[p + 16])
<1>1. n \in Lengths /\ Sized(m, p) = totalOf(n) /\ p \in Nat /\ p % 8 = 0 /\ p >= 16
  BY DEF ArrayOK
<1>2. n \in Nat /\ n >= 2 /\ totalOf(n) =< CHUNK_SIZE
  BY <1>1, HeapAssumption DEF Tame
<1> HIDE DEF n
<1>3. Sized(m, p) = 24 + 8 * n /\ Sized(m, p) \in Nat /\ Sized(m, p) % 8 = 0
  BY <1>1, <1>2, Totals8
<1> QED
  BY <1>1, <1>2, <1>3 DEF n

\* The numbers of a chunk.
LEMMA ChunkNumbers ==
  ASSUME Tame, NEW F, NEW ch, NEW A, NEW m, Layout(F, ch, A, m)
  PROVE  \A s \in Spaces : /\ ch[s] \in Seq(HeapChunk)
                           /\ Len(ch[s]) \in Nat /\ DOMAIN ch[s] = 1 .. Len(ch[s])
                           /\ \A i \in DOMAIN ch[s] :
                                /\ ch[s][i] \in HeapChunk
                                /\ ch[s][i].mem \in Regions /\ ch[s][i].mem \in Nat
                                /\ ch[s][i].used \in Nat /\ ch[s][i].used > 0
                                /\ ch[s][i].used =< CHUNK_SIZE
<1> SUFFICES ASSUME NEW s \in Spaces
             PROVE  /\ ch[s] \in Seq(HeapChunk)
                    /\ Len(ch[s]) \in Nat /\ DOMAIN ch[s] = 1 .. Len(ch[s])
                    /\ \A i \in DOMAIN ch[s] :
                         /\ ch[s][i] \in HeapChunk
                         /\ ch[s][i].mem \in Regions /\ ch[s][i].mem \in Nat
                         /\ ch[s][i].used \in Nat /\ ch[s][i].used > 0
                         /\ ch[s][i].used =< CHUNK_SIZE
  OBVIOUS
<1>1. ch[s] \in Seq(HeapChunk)
  BY DEF Layout
<1>2. /\ Len(ch[s]) \in Nat /\ DOMAIN ch[s] = 1 .. Len(ch[s])
      /\ \A i \in DOMAIN ch[s] : ch[s][i] \in HeapChunk
  BY <1>1, Elements
<1>3. CHUNK_SIZE \in Nat /\ \A r \in Regions : r \in Nat
  BY RegionFacts
<1> QED
  BY <1>1, <1>2, <1>3 DEF HeapChunk

\* An array that begins in a chunk's region lies in that chunk.
LEMMA ChunkOfArray ==
  ASSUME Tame, NEW F, NEW ch, NEW A, NEW m, Layout(F, ch, A, m),
         \A p \in A : ArrayOK(m, p),
         NEW s \in Spaces, NEW i \in DOMAIN ch[s], NEW p \in A,
         ch[s][i].mem =< p - OBJ_HEADER, p - OBJ_HEADER < ch[s][i].mem + CHUNK_SIZE
  PROVE  InChunk(m, p, ch[s][i])
<1>0. PICK t \in Spaces : \E j \in DOMAIN ch[t] : InChunk(m, p, ch[t][j])
  BY DEF Layout
<1>1. PICK j \in DOMAIN ch[t] : InChunk(m, p, ch[t][j])
  BY <1>0
<1>2. p \in Nat /\ Sized(m, p) \in Nat /\ Sized(m, p) >= 40
  BY ArrayFacts
<1>3. /\ ch[s][i].mem \in Regions /\ ch[s][i].mem \in Nat
      /\ ch[t][j].mem \in Regions /\ ch[t][j].mem \in Nat
      /\ ch[t][j].used \in Nat /\ ch[t][j].used =< CHUNK_SIZE
      /\ CHUNK_SIZE \in Nat
  BY ChunkNumbers, RegionFacts
<1>4. ch[s][i].mem = ch[t][j].mem
  <2>1. SUFFICES ASSUME ch[s][i].mem # ch[t][j].mem PROVE FALSE
    OBVIOUS
  <2>2. \/ ch[s][i].mem + CHUNK_SIZE =< ch[t][j].mem
        \/ ch[t][j].mem + CHUNK_SIZE =< ch[s][i].mem
    BY <1>3, <2>1, RegionFacts
  <2>3. ch[t][j].mem + 16 =< p /\ p - 16 + Sized(m, p) =< ch[t][j].mem + ch[t][j].used
    BY <1>1 DEF InChunk
  <2> QED
    BY <1>2, <1>3, <2>2, <2>3
<1>5. s = t /\ i = j
  BY <1>4 DEF Layout
<1> QED
  BY <1>1, <1>5

\* The arrays of a half-space are those in its chunks.
ArraysOf(ch, A, s) == {p \in A : Mapped(heldBy(ch[s]), {p - OBJ_HEADER})}

LEMMA ArraysIn ==
  ASSUME Tame, NEW F, NEW ch, NEW A, NEW m, Layout(F, ch, A, m),
         \A p \in A : ArrayOK(m, p),
         NEW s \in Spaces, NEW p
  PROVE  p \in ArraysOf(ch, A, s) <=>
           p \in A /\ \E i \in DOMAIN ch[s] : InChunk(m, p, ch[s][i])
<1>1. p \in ArraysOf(ch, A, s) <=>
        /\ p \in A
        /\ (p - 16) % 8 = 0
        /\ \E i \in DOMAIN ch[s] :
             ch[s][i].mem =< p - 16 /\ p - 16 < ch[s][i].mem + CHUNK_SIZE
  BY DEF ArraysOf, Mapped, heldBy
<1>2. ASSUME p \in A, NEW i \in DOMAIN ch[s]
      PROVE  /\ (p - 16) % 8 = 0
             /\ InChunk(m, p, ch[s][i]) <=>
                  ch[s][i].mem =< p - 16 /\ p - 16 < ch[s][i].mem + CHUNK_SIZE
  <2>1. p \in Nat /\ p % 8 = 0 /\ Sized(m, p) \in Nat /\ Sized(m, p) >= 40
    BY <1>2, ArrayFacts
  <2>2. /\ ch[s][i].mem \in Nat
        /\ ch[s][i].used \in Nat /\ ch[s][i].used =< CHUNK_SIZE
        /\ CHUNK_SIZE \in Nat
    BY ChunkNumbers, RegionFacts
  <2>3. InChunk(m, p, ch[s][i]) =>
          ch[s][i].mem =< p - 16 /\ p - 16 < ch[s][i].mem + CHUNK_SIZE
    BY <2>1, <2>2 DEF InChunk
  <2>4. (p - 16) % 8 = 0
    BY <2>1
  <2> QED
    BY <1>2, <2>3, <2>4, ChunkOfArray
<1> QED
  BY <1>1, <1>2

\* Every array is in one half-space.
LEMMA ArraysSplit ==
  ASSUME Tame, NEW F, NEW ch, NEW A, NEW m, Layout(F, ch, A, m),
         \A p \in A : ArrayOK(m, p), NEW p \in A
  PROVE  /\ \E s \in Spaces : p \in ArraysOf(ch, A, s)
         /\ \A s, t \in Spaces : p \in ArraysOf(ch, A, s) /\ p \in ArraysOf(ch, A, t) => s = t
         /\ \A s \in Spaces : ch[s] = <<>> => p \notin ArraysOf(ch, A, s)
<1>1. \E s \in Spaces : p \in ArraysOf(ch, A, s)
  BY ArraysIn DEF Layout
<1>2. ASSUME NEW s \in Spaces, NEW t \in Spaces,
             p \in ArraysOf(ch, A, s), p \in ArraysOf(ch, A, t), s # t
      PROVE  FALSE
  <2>1. PICK i \in DOMAIN ch[s] : InChunk(m, p, ch[s][i])
    BY <1>2, ArraysIn
  <2>2. PICK j \in DOMAIN ch[t] : InChunk(m, p, ch[t][j])
    BY <1>2, ArraysIn
  <2>3. p \in Nat /\ Sized(m, p) \in Nat /\ Sized(m, p) >= 40
    BY ArrayFacts
  <2>4. /\ ch[s][i].mem \in Regions /\ ch[s][i].mem \in Nat
        /\ ch[t][j].mem \in Regions /\ ch[t][j].mem \in Nat
        /\ ch[s][i].used \in Nat /\ ch[s][i].used =< CHUNK_SIZE
        /\ ch[t][j].used \in Nat /\ ch[t][j].used =< CHUNK_SIZE
        /\ CHUNK_SIZE \in Nat
    BY ChunkNumbers, RegionFacts
  <2>5. ch[s][i].mem # ch[t][j].mem
    BY <1>2 DEF Layout
  <2>6. \/ ch[s][i].mem + CHUNK_SIZE =< ch[t][j].mem
        \/ ch[t][j].mem + CHUNK_SIZE =< ch[s][i].mem
    BY <2>4, <2>5, RegionFacts
  <2> QED
    BY <2>1, <2>2, <2>3, <2>4, <2>6 DEF InChunk
<1>3. ASSUME NEW s \in Spaces, ch[s] = <<>>
      PROVE  p \notin ArraysOf(ch, A, s)
  BY <1>3, ArraysIn
<1> QED
  BY <1>1, <1>2, <1>3

(***************************************************************************)
(* Room for one more object.                                               *)
(***************************************************************************)
\* cs is half-space s of ch once there is room for total bytes.
Roomy(ch, s, cs, total) ==
  \/ cs = ch[s] /\ ch[s] # <<>> /\ back(ch[s]).used + total =< CHUNK_SIZE
  \/ \E r \in Regions : /\ \A t \in Spaces : \A j \in DOMAIN ch[t] : ch[t][j].mem # r
                        /\ cs = Append(ch[s], newChunk(r))

\* ch2 is ch with total bytes more, at h, in the chunk `last' of half-space s.
Grown(ch, ch2, s, last, h, total) ==
  /\ ch2 \in [Spaces -> Seq(HeapChunk)]
  /\ last \in DOMAIN ch2[s]
  /\ ch2[s][last].mem =< h /\ h + total = ch2[s][last].mem + ch2[s][last].used
  /\ \A t \in Spaces : \A j \in DOMAIN ch2[t] :
       t # s \/ j # last => j \in DOMAIN ch[t] /\ ch2[t][j] = ch[t][j]
  /\ \A t \in Spaces : \A j \in DOMAIN ch[t] :
       j \in DOMAIN ch2[t] /\ ch2[t][j].mem = ch[t][j].mem
  /\ \/ last \in DOMAIN ch[s] /\ h = ch[s][last].mem + ch[s][last].used
     \/ /\ last \notin DOMAIN ch[s]
        /\ h = ch2[s][last].mem
        /\ \A t \in Spaces : \A j \in DOMAIN ch[t] : ch[t][j].mem # h

\* heapAlloc finds room in the last chunk or opens one in a region not in use.
LEMMA RoomFound ==
  ASSUME Tame, NEW F, Layout(F, chunks, arrays, mem),
         NEW s \in Spaces, NEW total \in Nat, NEW cs \in withRoom(s, total)
  PROVE  Roomy(chunks, s, cs, total)
<1>1. CASE noRoom(chunks[s], total)
  <2>1. PICK r \in Malloc(Regions \ Held) : cs = Append(chunks[s], newChunk(r))
    BY <1>1 DEF withRoom
  <2>2. r \in Regions \ Held
    <3>1. (Regions \ Held) \in SUBSET Regions
      OBVIOUS
    <3> QED
      BY <2>1, <3>1, HeapAssumption
  <2>3. \A t \in Spaces : \A j \in DOMAIN chunks[t] : chunks[t][j].mem # r
    BY <2>2 DEF Held, heldBy, Spaces
  <2> QED
    BY <2>1, <2>2, <2>3 DEF Roomy
<1>2. CASE ~noRoom(chunks[s], total)
  <2>1. cs = chunks[s] /\ chunks[s] # <<>> /\ ~(back(chunks[s]).used + total > CHUNK_SIZE)
    BY <1>2 DEF withRoom, noRoom
  <2>2. back(chunks[s]).used \in Nat /\ CHUNK_SIZE \in Nat
    <3>1. Len(chunks[s]) \in DOMAIN chunks[s]
      <4>1. chunks[s] \in Seq(HeapChunk)
        BY ChunkNumbers
      <4> QED
        BY <2>1, <4>1
    <3> QED
      BY <3>1, ChunkNumbers, BumpAssumption DEF back
  <2> QED
    BY <2>1, <2>2 DEF Roomy
<1> QED
  BY <1>1, <1>2

\* The chunks of a half-space with room, before the room is taken.
LEMMA RoomyChunks ==
  ASSUME Tame, NEW F, NEW ch, NEW A, NEW m, Layout(F, ch, A, m),
         NEW s \in Spaces, NEW total \in Nat, total =< CHUNK_SIZE,
         NEW cs, Roomy(ch, s, cs, total)
  PROVE  /\ cs \in Seq(ChunkOf(Regions)) /\ cs # <<>>
         /\ Len(cs) \in Nat /\ Len(cs) >= 1 /\ DOMAIN cs = 1 .. Len(cs)
         /\ \A i \in DOMAIN cs : cs[i] \in ChunkOf(Regions)
         /\ \A i \in DOMAIN cs : i # Len(cs) => i \in DOMAIN ch[s] /\ cs[i] = ch[s][i]
         /\ \A i \in DOMAIN ch[s] : i \in DOMAIN cs /\ cs[i] = ch[s][i]
         /\ cs[Len(cs)].used + total =< CHUNK_SIZE
         /\ \/ Len(cs) \in DOMAIN ch[s]
            \/ /\ Len(cs) \notin DOMAIN ch[s] /\ cs[Len(cs)].used = 0
               /\ \A t \in Spaces : \A j \in DOMAIN ch[t] : ch[t][j].mem # cs[Len(cs)].mem
         /\ bytesIn(cs) = bytesIn(ch[s])
<1> DEFINE old == Len(ch[s])
<1>1. /\ ch[s] \in Seq(HeapChunk)
      /\ old \in Nat /\ DOMAIN ch[s] = 1 .. old
      /\ \A i \in DOMAIN ch[s] : ch[s][i] \in HeapChunk
      /\ CHUNK_SIZE \in Nat
  BY ChunkNumbers, BumpAssumption
<1>2. ch[s] \in Seq(ChunkOf(Regions))
  <2>1. HeapChunk \subseteq ChunkOf(Regions)
    BY <1>1 DEF HeapChunk, ChunkOf
  <2> QED
    BY <1>1, <2>1
<1>3. CASE cs = ch[s] /\ ch[s] # <<>> /\ back(ch[s]).used + total =< CHUNK_SIZE
  <2>1. /\ cs \in Seq(ChunkOf(Regions)) /\ cs # <<>> /\ cs = ch[s]
        /\ \A i \in DOMAIN cs : cs[i] \in ChunkOf(Regions)
    BY <1>2, <1>3, Elements
  <2>2. Len(cs) \in Nat /\ Len(cs) >= 1 /\ DOMAIN cs = 1 .. Len(cs)
    BY <2>1
  <2>3. cs[Len(cs)].used + total =< CHUNK_SIZE
    BY <1>3 DEF back
  <2> QED
    BY <2>1, <2>2, <2>3
<1>4. CASE \E r \in Regions :
             /\ \A t \in Spaces : \A j \in DOMAIN ch[t] : ch[t][j].mem # r
             /\ cs = Append(ch[s], newChunk(r))
  <2>1. PICK r \in Regions :
          /\ \A t \in Spaces : \A j \in DOMAIN ch[t] : ch[t][j].mem # r
          /\ cs = Append(ch[s], newChunk(r))
    BY <1>4
  <2>2. newChunk(r) \in ChunkOf(Regions) /\ newChunk(r).mem = r /\ newChunk(r).used = 0
    BY DEF newChunk, ChunkOf
  <2>3. /\ cs \in Seq(ChunkOf(Regions)) /\ cs # <<>>
        /\ Len(cs) = old + 1 /\ DOMAIN cs = 1 .. old + 1
        /\ \A i \in 1 .. old : cs[i] = ch[s][i]
        /\ cs[old + 1] = newChunk(r)
    BY <1>2, <2>1, <2>2, Appended
  <2>4. \A i \in DOMAIN cs : cs[i] \in ChunkOf(Regions)
    BY <2>3, Elements
  <2>5. bytesIn(cs) = bytesIn(ch[s])
    BY <1>2, <2>1, BytesOfNewChunk
  <2> QED
    BY <1>1, <2>1, <2>2, <2>3, <2>4, <2>5
<1> QED
  BY <1>3, <1>4 DEF Roomy

\* Taking the room changes one chunk.
LEMMA RoomTaken ==
  ASSUME Tame, NEW F, NEW ch, NEW A, NEW m, Layout(F, ch, A, m),
         NEW s \in Spaces, NEW total \in Nat, total > 0, total =< CHUNK_SIZE,
         NEW cs, Roomy(ch, s, cs, total)
  PROVE  /\ Grown(ch, [ch EXCEPT ![s] = bumped(cs, total)], s, Len(cs), nextAddr(cs), total)
         /\ bytesIn(bumped(cs, total)) = bytesIn(ch[s]) + total
<1> DEFINE b    == bumped(cs, total)
           ch2  == [ch EXCEPT ![s] = b]
           last == Len(cs)
<1>1. /\ ch \in [Spaces -> Seq(HeapChunk)]
      /\ DOMAIN ch[s] = 1 .. Len(ch[s])
      /\ \A i \in DOMAIN ch[s] : ch[s][i] \in HeapChunk
      /\ CHUNK_SIZE \in Nat /\ \A r \in Regions : r \in Nat
  BY ChunkNumbers, RegionFacts DEF Layout
<1>2. /\ cs \in Seq(ChunkOf(Regions)) /\ cs # <<>>
      /\ last \in Nat /\ last >= 1 /\ DOMAIN cs = 1 .. last
      /\ \A i \in DOMAIN cs : cs[i] \in ChunkOf(Regions)
      /\ \A i \in DOMAIN cs : i # last => i \in DOMAIN ch[s] /\ cs[i] = ch[s][i]
      /\ \A i \in DOMAIN ch[s] : i \in DOMAIN cs /\ cs[i] = ch[s][i]
      /\ cs[last].used + total =< CHUNK_SIZE
      /\ \/ last \in DOMAIN ch[s]
         \/ /\ last \notin DOMAIN ch[s] /\ cs[last].used = 0
            /\ \A t \in Spaces : \A j \in DOMAIN ch[t] : ch[t][j].mem # cs[last].mem
      /\ bytesIn(cs) = bytesIn(ch[s])
  BY RoomyChunks
<1>3. /\ b \in Seq(ChunkOf(Regions)) /\ DOMAIN b = 1 .. last /\ Len(b) = last
      /\ \A i \in 1 .. last : /\ b[i] \in ChunkOf(Regions)
                              /\ b[i].mem = cs[i].mem
                              /\ b[i].used = IF i = last THEN cs[i].used + total ELSE cs[i].used
      /\ \A i \in 1 .. last : i # last => b[i] = cs[i]
      /\ bytesIn(b) = bytesIn(ch[s]) + total
  <2>1. /\ b \in Seq(ChunkOf(Regions)) /\ DOMAIN b = 1 .. last
        /\ \A i \in 1 .. last : /\ b[i].mem = cs[i].mem
                                /\ b[i].used = IF i = last THEN cs[i].used + total
                                               ELSE cs[i].used
    <3>1. /\ b \in Seq(ChunkOf(Regions)) /\ DOMAIN b = DOMAIN cs
          /\ \A i \in DOMAIN cs : /\ b[i].mem = cs[i].mem
                                   /\ b[i].used = IF i = last THEN cs[i].used + total
                                                  ELSE cs[i].used
      <4>1. cs \in Seq(ChunkOf(Regions)) /\ cs # <<>>
        BY <1>2
      <4> QED
        BY <4>1, BumpedChunks
    <3> HIDE DEF b, last
    <3> QED
      BY <1>2, <3>1
  <2>2. \A i \in 1 .. last : i # last => b[i] = cs[i]
    BY <1>2 DEF bumped
  <2>3. bytesIn(b) = bytesIn(ch[s]) + total
    BY <1>2, BytesBumped
  <2> HIDE DEF b, last
  <2>4. Len(b) = last /\ \A i \in 1 .. last : b[i] \in ChunkOf(Regions)
    BY <1>2, <2>1, Elements
  <2> QED
    BY <2>1, <2>2, <2>3, <2>4
<1>4. b \in Seq(HeapChunk)
  <2>1. ASSUME NEW i \in 1 .. last PROVE b[i] \in HeapChunk
    <3>1. CASE i = last
      <4>1. /\ b[i] \in ChunkOf(Regions) /\ b[i].used = cs[i].used + total
            /\ cs[i].used \in Nat /\ cs[i].used + total =< CHUNK_SIZE
        BY <1>2, <1>3, <3>1 DEF ChunkOf
      <4>2. b[i].used \in 1 .. CHUNK_SIZE
        BY <1>1, <4>1
      <4> QED
        BY <4>1, <4>2 DEF ChunkOf, HeapChunk
    <3>2. CASE i # last
      BY <1>1, <1>2, <1>3, <3>2
    <3> QED
      BY <3>1, <3>2
  <2> HIDE DEF b, last
  <2> QED
    BY <1>2, <1>3, <2>1
<1>5. /\ ch2 \in [Spaces -> Seq(HeapChunk)] /\ ch2[s] = b
      /\ \A t \in Spaces : t # s => ch2[t] = ch[t]
  <2> HIDE DEF b
  <2> QED
    BY <1>1, <1>4
<1>6. nextAddr(cs) = cs[last].mem + cs[last].used
  BY DEF nextAddr, back
<1> HIDE DEF b, ch2, last
<1>7. /\ cs[last].mem \in Nat /\ cs[last].used \in Nat /\ last \in 1 .. last
  <2>1. last \in 1 .. last /\ last \in DOMAIN cs
    BY <1>2
  <2>2. cs[last] \in ChunkOf(Regions)
    BY <1>2, <2>1
  <2> QED
    BY <1>1, <2>1, <2>2 DEF ChunkOf
<1>8. Grown(ch, ch2, s, last, nextAddr(cs), total)
  <2>1. last \in DOMAIN ch2[s]
    BY <1>3, <1>5, <1>7
  <2>2. /\ ch2[s][last].mem =< nextAddr(cs)
        /\ nextAddr(cs) + total = ch2[s][last].mem + ch2[s][last].used
    BY <1>3, <1>5, <1>6, <1>7
  <2>3. ASSUME NEW t \in Spaces, NEW j \in DOMAIN ch2[t], t # s \/ j # last
        PROVE  j \in DOMAIN ch[t] /\ ch2[t][j] = ch[t][j]
    <3>1. CASE t # s
      BY <1>5, <2>3, <3>1
    <3>2. CASE t = s
      <4>1. j \in 1 .. last /\ j # last
        BY <1>3, <1>5, <2>3, <3>2
      <4>2. j \in DOMAIN ch[s] /\ b[j] = ch[s][j]
        BY <1>2, <1>3, <4>1
      <4> QED
        BY <1>5, <3>2, <4>2
    <3> QED
      BY <3>1, <3>2
  <2>4. ASSUME NEW t \in Spaces, NEW j \in DOMAIN ch[t]
        PROVE  j \in DOMAIN ch2[t] /\ ch2[t][j].mem = ch[t][j].mem
    <3>1. CASE t # s
      BY <1>5, <3>1
    <3>2. CASE t = s
      <4>1. j \in 1 .. last /\ cs[j] = ch[s][j]
        BY <1>2, <2>4, <3>2
      <4>2. j \in DOMAIN b /\ b[j].mem = cs[j].mem
        BY <1>3, <4>1
      <4> QED
        BY <1>5, <3>2, <4>1, <4>2
    <3> QED
      BY <3>1, <3>2
  <2>5. \/ last \in DOMAIN ch[s] /\ nextAddr(cs) = ch[s][last].mem + ch[s][last].used
        \/ /\ last \notin DOMAIN ch[s]
           /\ nextAddr(cs) = ch2[s][last].mem
           /\ \A t \in Spaces : \A j \in DOMAIN ch[t] : ch[t][j].mem # nextAddr(cs)
    <3>1. CASE last \in DOMAIN ch[s]
      BY <1>2, <1>6, <3>1
    <3>2. CASE last \notin DOMAIN ch[s]
      <4>1. nextAddr(cs) = cs[last].mem
        BY <1>2, <1>6, <1>7, <3>2
      <4> QED
        BY <1>2, <1>3, <1>5, <1>7, <3>2, <4>1
    <3> QED
      BY <3>1, <3>2
  <2> QED
    BY <1>5, <2>1, <2>2, <2>3, <2>4, <2>5 DEF Grown
<1> QED
  BY <1>3, <1>8 DEF b, ch2, last

\* Where the new object lies: in one region, apart from every other chunk.
LEMMA GrownFacts ==
  ASSUME Tame, NEW F, Fills(F), NEW ch, NEW A, NEW m, Layout(F, ch, A, m),
         NEW s \in Spaces, NEW ch2, NEW last, NEW h, NEW n \in Lengths,
         Grown(ch, ch2, s, last, h, totalOf(n))
  PROVE  /\ ch2[s][last].mem \in Regions /\ ch2[s][last].mem \in Nat
         /\ ch2[s][last].used \in Nat /\ ch2[s][last].used \in F
         /\ ch2[s][last].used =< CHUNK_SIZE
         /\ h \in Nat /\ h % 8 = 0 /\ h >= ch2[s][last].mem /\ h > 0
         /\ h + totalOf(n) = ch2[s][last].mem + ch2[s][last].used
         /\ totalOf(n) \in Nat /\ totalOf(n) >= 40
         /\ \A t \in Spaces : \A j \in DOMAIN ch[t] :
              t # s \/ j # last =>
                \/ ch[t][j].mem + CHUNK_SIZE =< ch2[s][last].mem
                \/ ch2[s][last].mem + CHUNK_SIZE =< ch[t][j].mem
<1> DEFINE c == ch2[s][last]
           T == totalOf(n)
<1>1. /\ ch2 \in [Spaces -> Seq(HeapChunk)] /\ last \in DOMAIN ch2[s]
      /\ c.mem =< h /\ h + T = c.mem + c.used
  BY DEF Grown
<1>2. c \in HeapChunk
  <2>1. ch2[s] \in Seq(HeapChunk)
    BY <1>1
  <2> QED
    BY <1>1, <2>1, Elements
<1>3. /\ CHUNK_SIZE \in Nat /\ c.mem \in Regions /\ c.mem \in Nat /\ c.mem % 8 = 0 /\ c.mem > 0
      /\ c.used \in Nat /\ c.used =< CHUNK_SIZE
  BY <1>2, RegionFacts DEF HeapChunk
<1>4. n \in Nat /\ n >= 2 /\ T \in Nat /\ T >= 40 /\ T = 24 + 8 * n
  BY HeapAssumption, Totals8 DEF Tame
<1>5. \/ /\ last \in DOMAIN ch[s] /\ h = c.mem + ch[s][last].used
         /\ c.mem = ch[s][last].mem
      \/ /\ last \notin DOMAIN ch[s] /\ h = c.mem
         /\ \A t \in Spaces : \A j \in DOMAIN ch[t] : ch[t][j].mem # c.mem
  BY DEF Grown
<1> HIDE DEF c, T
<1>6. PICK u \in F : h = c.mem + u
  <2>1. CASE last \in DOMAIN ch[s] /\ h = c.mem + ch[s][last].used
    BY <2>1 DEF Layout
  <2>2. CASE h = c.mem
    <3>1. 0 \in F /\ h = c.mem + 0
      BY <1>3, <2>2 DEF Fills
    <3> QED
      BY <3>1
  <2> QED
    BY <1>5, <2>1, <2>2
<1>7. u \in Nat /\ u % 8 = 0
  BY <1>3, <1>6 DEF Fills
<1>8. c.used = u + T
  <2>1. c.mem + u + T = c.mem + c.used
    BY <1>1, <1>6
  <2>2. c.mem \in Nat /\ c.used \in Nat /\ u \in Nat /\ T \in Nat
    BY <1>3, <1>4, <1>7
  <2> QED
    BY <2>1, <2>2
<1>9. c.used \in F
  BY <1>3, <1>8 DEF Fills, T
<1>10. ASSUME NEW t \in Spaces, NEW j \in DOMAIN ch[t], t # s \/ j # last
       PROVE  ch[t][j].mem + CHUNK_SIZE =< c.mem \/ c.mem + CHUNK_SIZE =< ch[t][j].mem
  <2>1. ch[t][j].mem # c.mem
    BY <1>5, <1>10 DEF Layout
  <2>2. ch[t][j].mem \in Regions
    BY ChunkNumbers
  <2> QED
    BY <1>3, <2>1, <2>2, RegionFacts
<1>11. h \in Nat /\ h % 8 = 0 /\ h >= c.mem /\ h > 0
  BY <1>3, <1>6, <1>7
<1> QED
  BY <1>1, <1>3, <1>4, <1>9, <1>10, <1>11 DEF c, T

\* The new object is apart from every array there is.
LEMMA NewApart ==
  ASSUME Tame, NEW F, Fills(F), NEW ch, NEW A, NEW m, Layout(F, ch, A, m),
         \A p \in A : ArrayOK(m, p),
         NEW s \in Spaces, NEW ch2, NEW last, NEW h, NEW n \in Lengths,
         Grown(ch, ch2, s, last, h, totalOf(n)),
         NEW p \in A
  PROVE  /\ \/ p - OBJ_HEADER + Sized(m, p) =< h
            \/ ch2[s][last].mem + CHUNK_SIZE =< p - OBJ_HEADER
         /\ p # h + OBJ_HEADER
         /\ \/ p + Sized(m, p) =< h + OBJ_HEADER
            \/ h + OBJ_HEADER + totalOf(n) =< p
<1> DEFINE c == ch2[s][last]
           T == totalOf(n)
<1>0. /\ c.mem \in Nat /\ c.used \in Nat /\ c.used =< CHUNK_SIZE /\ CHUNK_SIZE \in Nat
      /\ h \in Nat /\ h >= c.mem /\ h + T = c.mem + c.used /\ T \in Nat /\ T >= 40
      /\ \A t \in Spaces : \A j \in DOMAIN ch[t] :
           t # s \/ j # last => \/ ch[t][j].mem + CHUNK_SIZE =< c.mem
                                \/ c.mem + CHUNK_SIZE =< ch[t][j].mem
  BY GrownFacts, RegionFacts
<1>1. p \in Nat /\ Sized(m, p) \in Nat /\ Sized(m, p) >= 40 /\ p >= 16
  BY ArrayFacts
<1>2. PICK t \in Spaces : \E j \in DOMAIN ch[t] : InChunk(m, p, ch[t][j])
  BY DEF Layout
<1>3. PICK j \in DOMAIN ch[t] : InChunk(m, p, ch[t][j])
  BY <1>2
<1>4. /\ ch[t][j].mem \in Nat /\ ch[t][j].used \in Nat /\ ch[t][j].used =< CHUNK_SIZE
  BY ChunkNumbers
<1>5. ch[t][j].mem + 16 =< p /\ p - 16 + Sized(m, p) =< ch[t][j].mem + ch[t][j].used
  BY <1>3 DEF InChunk
<1>6. CASE t = s /\ j = last
  <2>1. h = ch[s][last].mem + ch[s][last].used
    BY <1>6 DEF Grown
  <2> HIDE DEF c, T
  <2> QED
    BY <1>0, <1>1, <1>4, <1>5, <1>6, <2>1 DEF T, c
<1>7. CASE t # s \/ j # last
  <2>1. ch[t][j].mem + CHUNK_SIZE =< c.mem \/ c.mem + CHUNK_SIZE =< ch[t][j].mem
    BY <1>0, <1>7
  <2> HIDE DEF c, T
  <2>2. p - 16 + Sized(m, p) =< h \/ c.mem + CHUNK_SIZE =< p - 16
    BY <1>0, <1>1, <1>4, <1>5, <2>1
  <2>3. p # h + 16 /\ (p + Sized(m, p) =< h + 16 \/ h + 16 + T =< p)
    BY <1>0, <1>1, <2>2
  <2> QED
    BY <2>2, <2>3 DEF T, c
<1> QED
  BY <1>6, <1>7

\* Placing a new array keeps the chunks tiled and the arrays apart.
LEMMA LayoutGrown ==
  ASSUME Tame, NEW F, Fills(F), NEW ch, NEW A, NEW m, Layout(F, ch, A, m),
         \A p \in A : ArrayOK(m, p),
         NEW s \in Spaces, NEW ch2, NEW last, NEW h, NEW n \in Lengths,
         Grown(ch, ch2, s, last, h, totalOf(n)),
         NEW m2, \A p \in A : Sized(m2, p) = Sized(m, p),
         Sized(m2, h + OBJ_HEADER) = totalOf(n)
  PROVE  Layout(F, ch2, A \cup {h + OBJ_HEADER}, m2)
<1> DEFINE c   == ch2[s][last]
           T   == totalOf(n)
           new == h + OBJ_HEADER
           A2  == A \cup {new}
<1>0. /\ c.mem \in Nat /\ c.used \in Nat /\ c.used =< CHUNK_SIZE /\ CHUNK_SIZE \in Nat
      /\ c.used \in F
      /\ h \in Nat /\ h >= c.mem /\ h + T = c.mem + c.used /\ T \in Nat /\ T >= 40
      /\ \A t \in Spaces : \A j \in DOMAIN ch[t] :
           t # s \/ j # last => \/ ch[t][j].mem + CHUNK_SIZE =< c.mem
                                \/ c.mem + CHUNK_SIZE =< ch[t][j].mem
  BY GrownFacts, RegionFacts
<1>1. /\ ch2 \in [Spaces -> Seq(HeapChunk)] /\ last \in DOMAIN ch2[s]
      /\ \A t \in Spaces : \A j \in DOMAIN ch2[t] :
           t # s \/ j # last => j \in DOMAIN ch[t] /\ ch2[t][j] = ch[t][j]
      /\ \A t \in Spaces : \A j \in DOMAIN ch[t] :
           j \in DOMAIN ch2[t] /\ ch2[t][j].mem = ch[t][j].mem
      /\ \/ last \in DOMAIN ch[s] /\ h = ch[s][last].mem + ch[s][last].used
         \/ last \notin DOMAIN ch[s] /\ h = c.mem
  BY DEF Grown
<1>2. \A p \in A : /\ p \in Nat /\ Sized(m, p) \in Nat /\ Sized(m, p) >= 40
                   /\ Sized(m2, p) = Sized(m, p)
  BY ArrayFacts
<1>3. /\ Sized(m2, new) = T /\ new = h + 16 /\ new \notin A
      /\ \A p \in A : p + Sized(m, p) =< new \/ new + T =< p
  BY NewApart
<1>4. \A t \in Spaces : \A j \in DOMAIN ch[t] :
        /\ ch[t][j].mem \in Nat /\ ch[t][j].used \in Nat /\ ch[t][j].used =< CHUNK_SIZE
  BY ChunkNumbers
<1>5. InChunk(m2, new, c)
  BY <1>0, <1>3 DEF InChunk
<1> HIDE DEF new, c, T
\* The old arrays lie where they lay.
<1>6. ASSUME NEW p \in A, NEW t \in Spaces, NEW j \in DOMAIN ch[t], InChunk(m, p, ch[t][j])
      PROVE  j \in DOMAIN ch2[t] /\ InChunk(m2, p, ch2[t][j])
  <2>1. j \in DOMAIN ch2[t]
    BY <1>1
  <2>2. CASE t # s \/ j # last
    BY <1>1, <1>2, <1>6, <2>1, <2>2 DEF InChunk
  <2>3. CASE t = s /\ j = last
    <3>1. ch2[t][j].mem = ch[t][j].mem /\ h = ch[t][j].mem + ch[t][j].used /\ ch2[t][j] = c
      BY <1>1, <2>3 DEF c
    <3> QED
      BY <1>0, <1>2, <1>4, <1>6, <2>1, <3>1 DEF InChunk
  <2> QED
    BY <2>2, <2>3
<1>7. ASSUME NEW p \in A, NEW t \in Spaces, NEW j \in DOMAIN ch2[t], InChunk(m2, p, ch2[t][j])
      PROVE  j \in DOMAIN ch[t] /\ InChunk(m, p, ch[t][j])
  <2>1. CASE t # s \/ j # last
    BY <1>1, <1>2, <1>7, <2>1 DEF InChunk
  <2>2. CASE t = s /\ j = last
    <3>1. c.mem =< p - 16 /\ p - 16 < c.mem + CHUNK_SIZE
      BY <1>0, <1>2, <1>7, <2>2 DEF InChunk, c
    <3>2. PICK v \in Spaces : \E k \in DOMAIN ch[v] : InChunk(m, p, ch[v][k])
      BY DEF Layout
    <3>3. PICK k \in DOMAIN ch[v] : InChunk(m, p, ch[v][k])
      BY <3>2
    <3>4. ch[v][k].mem + 16 =< p /\ p - 16 + Sized(m, p) =< ch[v][k].mem + ch[v][k].used
      BY <3>3 DEF InChunk
    <3>5. v = s /\ k = last
      <4>1. SUFFICES ASSUME v # s \/ k # last PROVE FALSE
        OBVIOUS
      <4>2. ch[v][k].mem + CHUNK_SIZE =< c.mem \/ c.mem + CHUNK_SIZE =< ch[v][k].mem
        BY <1>0, <4>1
      <4>3. /\ ch[v][k].mem \in Nat /\ ch[v][k].used \in Nat /\ ch[v][k].used =< CHUNK_SIZE
        BY <1>4
      <4> QED
        BY <1>0, <1>2, <3>1, <3>4, <4>2, <4>3
    <3> QED
      BY <2>2, <3>3, <3>5
  <2> QED
    BY <2>1, <2>2
\* The new one lies in no other chunk.
<1>8. ASSUME NEW t \in Spaces, NEW j \in DOMAIN ch2[t], InChunk(m2, new, ch2[t][j])
      PROVE  t = s /\ j = last
  <2>1. SUFFICES ASSUME t # s \/ j # last PROVE FALSE
    OBVIOUS
  <2>2. j \in DOMAIN ch[t] /\ ch2[t][j] = ch[t][j]
    BY <1>1, <2>1
  <2>3. /\ ch[t][j].mem \in Nat /\ ch[t][j].used \in Nat /\ ch[t][j].used =< CHUNK_SIZE
        /\ ch[t][j].mem + CHUNK_SIZE =< c.mem \/ c.mem + CHUNK_SIZE =< ch[t][j].mem
    BY <1>0, <1>4, <2>1, <2>2
  <2>4. ch[t][j].mem + 16 =< h + 16 /\ h + T =< ch[t][j].mem + ch[t][j].used
    BY <1>0, <1>3, <1>8, <2>2 DEF InChunk
  <2> QED
    BY <1>0, <2>3, <2>4
<1>9. ASSUME NEW t \in Spaces, NEW j \in DOMAIN ch2[t]
      PROVE  /\ ch2[t][j].used \in F
             /\ ch2[t][j].mem + OBJ_HEADER \in A2
             /\ \A p \in A2 : InChunk(m2, p, ch2[t][j]) =>
                  \/ p + Sized(m2, p) \in A2
                  \/ p + Sized(m2, p) = ch2[t][j].mem + ch2[t][j].used + OBJ_HEADER
  <2>1. CASE t # s \/ j # last
    <3>1. j \in DOMAIN ch[t] /\ ch2[t][j] = ch[t][j]
      BY <1>1, <2>1
    <3>2. ch[t][j].used \in F /\ ch[t][j].mem + OBJ_HEADER \in A
      BY <3>1 DEF Layout
    <3>3. ASSUME NEW p \in A2, InChunk(m2, p, ch2[t][j])
          PROVE  \/ p + Sized(m2, p) \in A2
                 \/ p + Sized(m2, p) = ch2[t][j].mem + ch2[t][j].used + OBJ_HEADER
      <4>1. p \in A
        BY <1>8, <2>1, <3>3
      <4>2. InChunk(m, p, ch[t][j]) /\ Sized(m2, p) = Sized(m, p)
        BY <1>2, <1>7, <3>3, <4>1
      <4>3. \/ p + Sized(m, p) \in A
            \/ p + Sized(m, p) = ch[t][j].mem + ch[t][j].used + OBJ_HEADER
        BY <3>1, <4>1, <4>2 DEF Layout
      <4> QED
        BY <3>1, <4>2, <4>3
    <3> QED
      BY <3>1, <3>2, <3>3
  <2>2. CASE t = s /\ j = last
    <3>1. ch2[t][j] = c
      BY <2>2 DEF c
    <3>2. c.mem + OBJ_HEADER \in A2
      <4>1. CASE last \in DOMAIN ch[s]
        <5>1. ch[s][last].mem + OBJ_HEADER \in A /\ ch[s][last].mem = c.mem
          BY <1>1, <4>1 DEF Layout, c
        <5> QED
          BY <5>1
      <4>2. CASE h = c.mem
        BY <1>3, <4>2
      <4> QED
        BY <1>1, <4>1, <4>2
    <3>3. ASSUME NEW p \in A2, InChunk(m2, p, c)
          PROVE  \/ p + Sized(m2, p) \in A2
                 \/ p + Sized(m2, p) = c.mem + c.used + OBJ_HEADER
      <4>1. CASE p = new
        BY <1>0, <1>3, <4>1
      <4>2. CASE p \in A
        <5>1. last \in DOMAIN ch[s] /\ InChunk(m, p, ch[s][last])
          BY <1>7, <2>2, <3>1, <3>3, <4>2
        <5>2. h = ch[s][last].mem + ch[s][last].used
          BY <1>1, <5>1, <1>0 DEF Grown
        <5>3. \/ p + Sized(m, p) \in A
              \/ p + Sized(m, p) = ch[s][last].mem + ch[s][last].used + OBJ_HEADER
          BY <4>2, <5>1 DEF Layout
        <5>4. p + Sized(m, p) \in A \/ p + Sized(m, p) = new
          BY <1>3, <5>2, <5>3
        <5> QED
          BY <1>2, <4>2, <5>4
      <4> QED
        BY <4>1, <4>2
    <3> QED
      BY <1>0, <3>1, <3>2, <3>3
  <2> QED
    BY <2>1, <2>2
<1>10. ASSUME NEW t \in Spaces, NEW v \in Spaces, NEW i \in DOMAIN ch2[t], NEW j \in DOMAIN ch2[v],
              t # v \/ i # j
       PROVE  ch2[t][i].mem # ch2[v][j].mem
  <2>1. CASE t = s /\ i = last
    <3>1. j \in DOMAIN ch[v] /\ ch2[v][j] = ch[v][j] /\ ch2[t][i] = c
      BY <1>1, <1>10, <2>1 DEF c
    <3>2. ch[v][j].mem \in Nat /\ (ch[v][j].mem + CHUNK_SIZE =< c.mem \/ c.mem + CHUNK_SIZE =< ch[v][j].mem)
      BY <1>0, <1>4, <1>10, <2>1, <3>1
    <3>3. CHUNK_SIZE > 0
      BY RegionFacts
    <3> QED
      BY <1>0, <3>1, <3>2, <3>3
  <2>2. CASE v = s /\ j = last
    <3>1. i \in DOMAIN ch[t] /\ ch2[t][i] = ch[t][i] /\ ch2[v][j] = c
      BY <1>1, <1>10, <2>2 DEF c
    <3>2. ch[t][i].mem \in Nat /\ (ch[t][i].mem + CHUNK_SIZE =< c.mem \/ c.mem + CHUNK_SIZE =< ch[t][i].mem)
      BY <1>0, <1>4, <1>10, <2>2, <3>1
    <3>3. CHUNK_SIZE > 0
      BY RegionFacts
    <3> QED
      BY <1>0, <3>1, <3>2, <3>3
  <2>3. CASE ~(t = s /\ i = last) /\ ~(v = s /\ j = last)
    <3>1. i \in DOMAIN ch[t] /\ ch2[t][i] = ch[t][i] /\ j \in DOMAIN ch[v] /\ ch2[v][j] = ch[v][j]
      BY <1>1, <2>3
    <3> QED
      BY <1>10, <3>1 DEF Layout
  <2> QED
    BY <2>1, <2>2, <2>3
<1>11. ASSUME NEW p \in A2
       PROVE  \E t \in Spaces : \E i \in DOMAIN ch2[t] : InChunk(m2, p, ch2[t][i])
  <2>1. CASE p = new
    BY <1>1, <1>5, <2>1 DEF c
  <2>2. CASE p \in A
    <3>1. PICK t \in Spaces : \E i \in DOMAIN ch[t] : InChunk(m, p, ch[t][i])
      BY <2>2 DEF Layout
    <3> QED
      BY <1>6, <2>2, <3>1
  <2> QED
    BY <2>1, <2>2
<1>12. ASSUME NEW p \in A2, NEW q \in A2, p # q
       PROVE  p + Sized(m2, p) =< q \/ q + Sized(m2, q) =< p
  <2>1. CASE p \in A /\ q \in A
    BY <1>2, <1>12, <2>1 DEF Layout
  <2>2. CASE p = new /\ q \in A
    BY <1>2, <1>3, <2>2
  <2>3. CASE q = new /\ p \in A
    BY <1>2, <1>3, <2>3
  <2> QED
    BY <1>12, <2>1, <2>2, <2>3
<1> HIDE DEF A2
<1>13. Layout(F, ch2, A2, m2)
  BY <1>1, <1>9, <1>10, <1>11, <1>12 DEF Layout
<1> QED
  BY <1>13 DEF A2, new

(***************************************************************************)
(* Memory.                                                                 *)
(***************************************************************************)
\* An array whose header keeps its size and type and whose payload is not
\* written stays one.
LEMMA ArrayKept ==
  ASSUME Tame, NEW m, NEW m2, NEW p, ArrayOK(m, p),
         Sized(m2, p) = Sized(m, p),
         typeOf(m2[p - OBJ_HEADER]) = typeOf(m[p - OBJ_HEADER]),
         \A a \in Nat : a % 8 = 0 /\ p =< a /\ a < p - OBJ_HEADER + Sized(m, p) => m2[a] = m[a]
  PROVE  ArrayOK(m2, p)
<1> DEFINE n == lengthOf(m[p + 16])
<1>1. /\ p \in Nat /\ p % 8 = 0 /\ p >= 16 /\ n \in Nat /\ n >= 2
      /\ Sized(m, p) = 24 + 8 * n
  BY ArrayFacts
<1>2. m2[p] = m[p] /\ m2[p + 16] = m[p + 16]
  <2>1. /\ p + 16 \in Nat /\ (p + 16) % 8 = 0 /\ p =< p + 16 /\ p + 16 < p - 16 + Sized(m, p)
        /\ p < p - 16 + Sized(m, p)
    BY <1>1
  <2> QED
    BY <1>1, <2>1
<1>3. ASSUME NEW k \in 0 .. n - 3
      PROVE  ~isPointer(m2[p + ARRAY_OBJ + 8 * k])
  <2>1. /\ p + 24 + 8 * k \in Nat /\ (p + 24 + 8 * k) % 8 = 0 /\ p =< p + 24 + 8 * k
        /\ p + 24 + 8 * k < p - 16 + Sized(m, p)
    BY <1>1
  <2>2. m2[p + 24 + 8 * k] = m[p + 24 + 8 * k]
    BY <2>1
  <2> QED
    BY <2>2 DEF ArrayOK
<1> QED
  BY <1>2, <1>3 DEF ArrayOK

\* Every word of an array is a cell of the chunk's region.
LEMMA ArrayCells ==
  ASSUME Tame, NEW F, NEW ch, NEW A, NEW m, Layout(F, ch, A, m),
         \A p \in A : ArrayOK(m, p), NEW p \in A
  PROVE  \A a \in Nat : a % 8 = 0 /\ covers(m, p, a) => a \in Cells
<1>1. PICK t \in Spaces : \E j \in DOMAIN ch[t] : InChunk(m, p, ch[t][j])
  BY DEF Layout
<1>2. PICK j \in DOMAIN ch[t] : InChunk(m, p, ch[t][j])
  BY <1>1
<1>3. /\ ch[t][j].mem \in Regions /\ ch[t][j].mem \in Nat
      /\ ch[t][j].used \in Nat /\ ch[t][j].used =< CHUNK_SIZE /\ CHUNK_SIZE \in Nat
  BY ChunkNumbers, RegionFacts
<1>4. p \in Nat /\ p >= 16 /\ Sized(m, p) \in Nat
  BY ArrayFacts
<1>5. ASSUME NEW a \in Nat, a % 8 = 0, covers(m, p, a)
      PROVE  a \in Cells
  <2>1. ch[t][j].mem =< a /\ a < ch[t][j].mem + CHUNK_SIZE
    BY <1>2, <1>3, <1>4, <1>5 DEF InChunk, covers
  <2> QED
    BY <1>3, <1>5, <2>1, CellFacts
<1> QED
  BY <1>5

\* The 16 bytes initArray clears behind a new object are no other array's.
LEMMA TailApart ==
  ASSUME Tame, NEW F, Fills(F), Spare(F) \/ Apart,
         NEW ch, NEW A, NEW m, Layout(F, ch, A, m), \A p \in A : ArrayOK(m, p),
         NEW s \in Spaces, NEW ch2, NEW last, NEW h, NEW n \in Lengths,
         Grown(ch, ch2, s, last, h, totalOf(n)),
         NEW p \in A
  PROVE  \/ p - OBJ_HEADER + Sized(m, p) =< h
         \/ h + totalOf(n) + OBJ_HEADER =< p - OBJ_HEADER
<1> DEFINE c == ch2[s][last]
           T == totalOf(n)
<1>1. /\ c.mem \in Regions /\ c.mem \in Nat /\ c.used \in Nat /\ c.used =< CHUNK_SIZE
      /\ c.used \in F /\ CHUNK_SIZE \in Nat
      /\ h \in Nat /\ h >= c.mem /\ h + T = c.mem + c.used /\ T \in Nat
      /\ \A t \in Spaces : \A j \in DOMAIN ch[t] :
           t # s \/ j # last => \/ ch[t][j].mem + CHUNK_SIZE =< c.mem
                                \/ c.mem + CHUNK_SIZE =< ch[t][j].mem
  BY GrownFacts, RegionFacts
<1>2. p \in Nat /\ Sized(m, p) \in Nat /\ p >= 16 /\ Sized(m, p) >= 40
  BY ArrayFacts
<1>3. SUFFICES ASSUME ~(p - 16 + Sized(m, p) =< h) PROVE h + T + 16 =< p - 16
  OBVIOUS
<1>4. PICK t \in Spaces : \E j \in DOMAIN ch[t] : InChunk(m, p, ch[t][j])
  BY DEF Layout
<1>5. PICK j \in DOMAIN ch[t] : InChunk(m, p, ch[t][j])
  BY <1>4
<1> DEFINE r == ch[t][j].mem
<1>6. /\ r \in Regions /\ r \in Nat /\ ch[t][j].used \in Nat /\ ch[t][j].used =< CHUNK_SIZE
      /\ r + 16 =< p /\ p - 16 + Sized(m, p) =< r + ch[t][j].used
  BY <1>5, ChunkNumbers DEF InChunk
<1>7. t # s \/ j # last
  <2>1. SUFFICES ASSUME t = s, j = last PROVE FALSE
    OBVIOUS
  <2>2. h = ch[t][j].mem + ch[t][j].used
    BY <2>1 DEF Grown
  <2> QED
    BY <1>2, <1>3, <1>6, <2>2
<1> HIDE DEF c, T, r
<1>8. c.mem + CHUNK_SIZE =< r
  <2>1. r + CHUNK_SIZE =< c.mem \/ c.mem + CHUNK_SIZE =< r
    BY <1>1, <1>7 DEF r
  <2>2. ~(r + CHUNK_SIZE =< c.mem)
    BY <1>1, <1>2, <1>3, <1>6
  <2> QED
    BY <2>1, <2>2
<1>9. CASE Spare(F)
  <2>1. c.used + 16 =< CHUNK_SIZE
    BY <1>1, <1>9 DEF Spare
  <2> QED
    BY <1>1, <1>2, <1>6, <1>8, <2>1
<1>10. CASE Apart
  <2>1. c.mem < r
    BY <1>1, <1>6, <1>8, RegionFacts
  <2>2. c.mem + CHUNK_SIZE + 16 =< r
    BY <1>1, <1>6, <1>10, <2>1 DEF Apart
  <2> QED
    BY <1>1, <1>2, <1>6, <2>2
<1> QED
  BY <1>9, <1>10

\* What initArray writes: the payload of a new array at p.
bodyOf(p, n) == {p + 16} \cup {p + ARRAY_OBJ + 8 * i : i \in 0 .. n - 1}
blank(p, n, type) ==
  [a \in bodyOf(p, n) |-> IF a = p + 16 THEN arrayInfo(type, n) ELSE ZERO]

\* An object's words are cells.
LEMMA NewCells ==
  ASSUME Tame, NEW r \in Regions, NEW h \in Nat, h % 8 = 0, r =< h,
         NEW T \in Nat, h + T =< r + CHUNK_SIZE
  PROVE  \A a \in Nat : a % 8 = 0 /\ h =< a /\ a < h + T => a \in Cells
<1>1. r \in Nat /\ CHUNK_SIZE \in Nat
  BY RegionFacts
<1> SUFFICES ASSUME NEW a \in Nat, a % 8 = 0, h =< a, a < h + T PROVE a \in Cells
  OBVIOUS
<1>2. r =< a /\ a < r + CHUNK_SIZE
  BY <1>1
<1> QED
  BY <1>2, CellFacts

\* The memory once initArray is done.
LEMMA NewArrayMemory ==
  ASSUME Tame, NEW m \in [Cells -> Word],
         NEW r \in Regions, NEW h \in Nat, h % 8 = 0, r =< h, NEW n \in Lengths,
         h + totalOf(n) =< r + CHUNK_SIZE, NEW type \in Types, NEW m2,
         m2 = overwrite(overwrite(m, headerAt(h, totalOf(n), OBJ_ARRAY)), blank(h + 16, n, type))
  PROVE  /\ m2 \in [Cells -> Word]
         /\ m2[h] = header(totalOf(n), OBJ_ARRAY) /\ m2[h + 8] = ZERO
         /\ m2[h + 16] = m[h + 16] /\ m2[h + 32] = arrayInfo(type, n)
         /\ \A k \in 0 .. n - 3 : m2[h + 40 + 8 * k] = ZERO
         /\ \A a \in Cells : a < h \/ h + totalOf(n) =< a =>
              \/ m2[a] = m[a]
              \/ m2[a] = ZERO /\ h + totalOf(n) =< a /\ a < h + totalOf(n) + 16
<1> DEFINE T == totalOf(n)
           p == h + 16
<1>1. n \in Nat /\ n >= 2 /\ T \in Nat /\ T = 24 + 8 * n
  BY HeapAssumption, Totals8 DEF Tame
<1>2. \A a \in Nat : a % 8 = 0 /\ h =< a /\ a < h + T => a \in Cells
  BY <1>1, NewCells
<1>3. \A a \in Cells : a \in Nat /\ a % 8 = 0
  BY CellFacts
<1>4. \A a \in Cells :
        m2[a] = IF a = p + 16 THEN arrayInfo(type, n)
                ELSE IF a \in bodyOf(p, n) THEN ZERO
                ELSE IF a = h THEN header(T, OBJ_ARRAY)
                ELSE IF a = h + 8 THEN ZERO
                ELSE m[a]
  <2>1. DOMAIN m = Cells
    OBVIOUS
  <2>2. \A a \in Cells : p + 16 \in bodyOf(p, n)
    BY DEF bodyOf
  <2> HIDE DEF p, T
  <2> QED
    BY <2>1, <2>2 DEF overwrite, headerAt, blank, p, T
<1>5. DOMAIN m2 = Cells
  BY DEF overwrite
<1>6. /\ header(T, OBJ_ARRAY) \in Word /\ ZERO \in Word /\ arrayInfo(type, n) \in Word
  BY <1>1, HeaderWord, ZeroWord, InfoWord, HeapAssumption DEF OBJ_ARRAY
<1>7. m2 \in [Cells -> Word]
  <2>1. \A a \in Cells : m2[a] \in Word
    <3> HIDE DEF p, T
    <3> QED
      BY <1>4, <1>6
  <2>2. m2 = [a \in Cells |-> m2[a]]
    BY DEF overwrite
  <2> QED
    BY <2>1, <2>2
<1>8. \A a \in Nat : a \in bodyOf(p, n) <=>
        a = h + 32 \/ \E i \in 0 .. n - 1 : a = h + 40 + 8 * i
  BY DEF bodyOf
<1>9. h \in Cells /\ h + 8 \in Cells /\ h + 16 \in Cells /\ h + 32 \in Cells
  BY <1>1, <1>2
<1>10. h \notin bodyOf(p, n) /\ h + 8 \notin bodyOf(p, n) /\ h + 16 \notin bodyOf(p, n)
  BY <1>8
<1>11. /\ m2[h] = header(T, OBJ_ARRAY) /\ m2[h + 8] = ZERO
       /\ m2[h + 16] = m[h + 16] /\ m2[h + 32] = arrayInfo(type, n)
  <2>1. p + 16 = h + 32 /\ h # h + 32 /\ h + 8 # h + 32 /\ h + 16 # h + 32
        /\ h + 8 # h /\ h + 16 # h /\ h + 16 # h + 8
    OBVIOUS
  <2> HIDE DEF p, T
  <2> QED
    BY <1>4, <1>9, <1>10, <2>1
<1>12. ASSUME NEW k \in 0 .. n - 3 PROVE m2[h + 40 + 8 * k] = ZERO
  <2>1. /\ h + 40 + 8 * k \in Nat /\ (h + 40 + 8 * k) % 8 = 0
        /\ h + 40 + 8 * k < h + T /\ k \in 0 .. n - 1 /\ h + 40 + 8 * k # p + 16
    BY <1>1
  <2>2. h + 40 + 8 * k \in Cells /\ h + 40 + 8 * k \in bodyOf(p, n)
    BY <1>2, <1>8, <2>1
  <2> HIDE DEF p, T
  <2> QED
    BY <1>4, <2>1, <2>2
<1>13. ASSUME NEW a \in Cells, a < h \/ h + T =< a
       PROVE  \/ m2[a] = m[a]
              \/ m2[a] = ZERO /\ h + T =< a /\ a < h + T + 16
  <2>1. a \in Nat /\ a # p + 16 /\ a # h /\ a # h + 8
    BY <1>1, <1>3, <1>13
  <2>2. a \in bodyOf(p, n) => h + T =< a /\ a < h + T + 16
    BY <1>1, <1>8, <1>13, <2>1
  <2> HIDE DEF p, T
  <2> QED
    BY <1>4, <2>1, <2>2
<1> QED
  BY <1>7, <1>11, <1>12, <1>13

\* The words of an array are its own.
LEMMA OwnWords ==
  ASSUME Tame, NEW F, NEW ch, NEW A, NEW m, HeapOK(F, ch, A, m), NEW p \in A
  PROVE  /\ p \in Nat /\ p % 8 = 0 /\ p >= 16
         /\ Sized(m, p) \in Nat /\ Sized(m, p) % 8 = 0 /\ Sized(m, p) >= 40
         /\ \A a \in Nat : a % 8 = 0 /\ covers(m, p, a) => a \in Cells
         /\ \A q \in A, a \in Nat : covers(m, p, a) /\ covers(m, q, a) => p = q
         /\ covers(m, p, p - 16) /\ p - 16 \in Cells
         /\ covers(m, p, p - 8) /\ p - 8 \in Cells
         /\ covers(m, p, p) /\ p \in Cells
         /\ covers(m, p, p + 16) /\ p + 16 \in Cells
         /\ p < MID * LO
<1>1. /\ p \in Nat /\ p % 8 = 0 /\ p >= 16
      /\ Sized(m, p) \in Nat /\ Sized(m, p) % 8 = 0 /\ Sized(m, p) >= 40
  BY ArrayFacts DEF HeapOK
<1>2. \A a \in Nat : a % 8 = 0 /\ covers(m, p, a) => a \in Cells
  BY ArrayCells DEF HeapOK
<1>3. ASSUME NEW q \in A, NEW a \in Nat, covers(m, p, a), covers(m, q, a), p # q
      PROVE  FALSE
  <2>1. p + Sized(m, p) =< q \/ q + Sized(m, q) =< p
    BY <1>3 DEF HeapOK, Layout
  <2>2. q \in Nat /\ q >= 16 /\ Sized(m, q) \in Nat
    BY ArrayFacts DEF HeapOK
  <2> QED
    BY <1>1, <1>3, <2>1, <2>2 DEF covers
<1>4. /\ covers(m, p, p - 16) /\ covers(m, p, p - 8) /\ covers(m, p, p) /\ covers(m, p, p + 16)
      /\ p - 16 \in Nat /\ (p - 16) % 8 = 0
      /\ p - 8 \in Nat /\ (p - 8) % 8 = 0
      /\ p + 16 \in Nat /\ (p + 16) % 8 = 0
  BY <1>1 DEF covers
<1>5. p \in Cells
  BY <1>1, <1>2, <1>4
<1>6. PICK r \in Regions : p < r + CHUNK_SIZE
  BY <1>5, CellFacts
<1>7. p < MID * LO
  <2>1. r \in Nat /\ r + CHUNK_SIZE =< MID * LO /\ MID * LO \in Nat /\ CHUNK_SIZE \in Nat
    BY RegionFacts
  <2> QED
    BY <1>1, <1>6, <2>1
<1> QED
  BY <1>1, <1>2, <1>3, <1>4, <1>7

\* Only the sizes of the arrays matter for where they lie.
LEMMA LayoutSame ==
  ASSUME NEW F, NEW ch, NEW A, NEW m, Layout(F, ch, A, m),
         NEW m2, \A p \in A : Sized(m2, p) = Sized(m, p)
  PROVE  Layout(F, ch, A, m2)
<1>1. \A p \in A : \A c : InChunk(m2, p, c) <=> InChunk(m, p, c)
  BY DEF InChunk
<1> QED
  BY <1>1 DEF Layout

\* initArray puts an array of n elements at h + 16.
Laid(ch, m, s, n, type, ch2, last, h, m2) ==
  /\ Grown(ch, ch2, s, last, h, totalOf(n))
  /\ m2 = overwrite(overwrite(m, headerAt(h, totalOf(n), OBJ_ARRAY)), blank(h + 16, n, type))

\* No word of an array in A differs between m and m2.
Untouched(A, m, m2) == \A p \in A : \A a \in Cells : covers(m, p, a) => m2[a] = m[a]

\* What a new array does to the heap.
LEMMA NewArrayHeap ==
  ASSUME Tame, NEW F, Fills(F), Spare(F) \/ Apart,
         NEW ch, NEW A, NEW m, HeapOK(F, ch, A, m),
         NEW s \in Spaces, NEW ch2, NEW last, NEW h, NEW n \in Lengths, NEW type \in Types,
         NEW m2, Laid(ch, m, s, n, type, ch2, last, h, m2)
  PROVE  /\ HeapOK(F, ch2, A \cup {h + 16}, m2)
         /\ h + 16 \notin A
         /\ Unmarked(m2, h + 16) /\ Unforwarded(m2, h + 16)
         /\ Untouched(A, m, m2)
<1>0. /\ Grown(ch, ch2, s, last, h, totalOf(n))
      /\ m2 = overwrite(overwrite(m, headerAt(h, totalOf(n), OBJ_ARRAY)), blank(h + 16, n, type))
  BY DEF Laid
<1> USE <1>0
<1> DEFINE T   == totalOf(n)
           c   == ch2[s][last]
           new == h + 16
<1>1. /\ c.mem \in Regions /\ c.mem \in Nat /\ c.used \in Nat /\ c.used =< CHUNK_SIZE
      /\ CHUNK_SIZE \in Nat
      /\ h \in Nat /\ h % 8 = 0 /\ h >= c.mem /\ h > 0
      /\ h + T = c.mem + c.used /\ T \in Nat /\ T >= 40
  BY GrownFacts, RegionFacts DEF HeapOK
<1>2. /\ m2 \in [Cells -> Word]
      /\ m2[h] = header(T, OBJ_ARRAY) /\ m2[h + 8] = ZERO
      /\ m2[h + 16] = m[h + 16] /\ m2[h + 32] = arrayInfo(type, n)
      /\ \A k \in 0 .. n - 3 : m2[h + 40 + 8 * k] = ZERO
      /\ \A a \in Cells : a < h \/ h + T =< a =>
           \/ m2[a] = m[a]
           \/ m2[a] = ZERO /\ h + T =< a /\ a < h + T + 16
  <2>1. h + T =< c.mem + CHUNK_SIZE
    BY <1>1
  <2>2. m \in [Cells -> Word]
    BY DEF HeapOK
  <2> HIDE DEF c
  <2> QED
    BY <1>1, <2>1, <2>2, NewArrayMemory
<1>3. \A a \in Nat : a % 8 = 0 /\ h =< a /\ a < h + T => a \in Cells
  <2>1. h + T =< c.mem + CHUNK_SIZE
    BY <1>1
  <2> HIDE DEF c, T
  <2> QED
    BY <1>1, <2>1, NewCells
\* No word of an array is written.
<1>4. ASSUME NEW p \in A, NEW a \in Cells, covers(m, p, a)
      PROVE  m2[a] = m[a]
  <2>1. p \in Nat /\ p >= 16 /\ Sized(m, p) \in Nat /\ a \in Nat
    BY OwnWords, CellFacts
  <2>2. p - 16 + Sized(m, p) =< h \/ h + T + 16 =< p - 16
    BY TailApart DEF HeapOK
  <2>3. a < h \/ h + T + 16 =< a
    BY <1>1, <1>4, <2>1, <2>2 DEF covers
  <2> HIDE DEF T
  <2> QED
    BY <1>1, <1>2, <2>1, <2>3
<1>5. \A p \in A : Sized(m2, p) = Sized(m, p)
  BY <1>4, OwnWords DEF Sized
<1>6. /\ Sized(m2, new) = T /\ typeOf(m2[h]) = OBJ_ARRAY /\ Unmarked(m2, new)
      /\ Unforwarded(m2, new) /\ new - 16 = h /\ new - 8 = h + 8
  <2>1. OBJ_ARRAY \in Nat /\ new - 16 = h /\ new - 8 = h + 8
    BY <1>1 DEF OBJ_ARRAY
  <2> HIDE DEF T, new
  <2> QED
    BY <1>1, <1>2, <2>1, HeaderWord DEF Sized, Unmarked, Unforwarded
<1>7. Layout(F, ch2, A \cup {new}, m2) /\ new \notin A
  <2>1. Layout(F, ch, A, m) /\ \A p \in A : ArrayOK(m, p)
    BY DEF HeapOK
  <2>2. \A p \in A : p # new
    BY <2>1, NewApart
  <2> HIDE DEF T
  <2> QED
    BY <1>5, <1>6, <2>1, <2>2, LayoutGrown DEF T
<1>8. ASSUME NEW p \in A PROVE ArrayOK(m2, p)
  <2>1. ArrayOK(m, p)
    BY DEF HeapOK
  <2>2. m2[p - 16] = m[p - 16]
    BY <1>4, OwnWords
  <2>3. ASSUME NEW a \in Nat, a % 8 = 0, p =< a, a < p - OBJ_HEADER + Sized(m, p)
        PROVE  m2[a] = m[a]
    <3>1. p \in Nat /\ covers(m, p, a)
      BY <2>3, OwnWords DEF covers
    <3>2. a \in Cells
      BY <2>3, <3>1, OwnWords
    <3> QED
      BY <1>4, <3>1, <3>2
  <2> QED
    BY <1>5, <2>1, <2>2, <2>3, ArrayKept
<1>9. ArrayOK(m2, new)
  <2>1. n \in Nat /\ type \in Nat /\ T = 24 + 8 * n /\ n >= 2
    BY HeapAssumption, Totals8 DEF Tame
  <2>2. lengthOf(m2[new + 16]) = n
    <3>1. new + 16 = h + 32
      BY <1>1
    <3> QED
      BY <1>2, <2>1, <3>1, InfoWord
  <2>3. m2[new] = ZERO
    <3>1. h + 16 \in Cells
      BY <1>1, <1>3
    <3>2. ASSUME NEW p \in A, covers(m, p, h + 16) PROVE FALSE
      <4>1. p \in Nat /\ p >= 16 /\ Sized(m, p) \in Nat
        BY OwnWords
      <4>2. p - 16 + Sized(m, p) =< h \/ h + T + 16 =< p - 16
        BY TailApart DEF HeapOK
      <4> QED
        BY <1>1, <3>2, <4>1, <4>2 DEF covers
    <3>3. m[h + 16] = ZERO
      BY <3>1, <3>2 DEF HeapOK, Clear
    <3> QED
      BY <1>2, <3>3
  <2>4. \A k \in 0 .. n - 3 : ~isPointer(m2[new + 24 + 8 * k])
    <3> SUFFICES ASSUME NEW k \in 0 .. n - 3 PROVE ~isPointer(m2[new + 24 + 8 * k])
      OBVIOUS
    <3>1. new + 24 + 8 * k = h + 40 + 8 * k
      BY <1>1, <2>1
    <3> QED
      BY <1>2, <3>1, ZeroWord
  <2>5. new \in Nat /\ new >= 16 /\ new % 8 = 0
    BY <1>1
  <2> HIDE DEF new
  <2> QED
    BY <1>6, <2>2, <2>3, <2>4, <2>5 DEF ArrayOK
<1>10. Clear(A \cup {new}, m2)
  <2> SUFFICES ASSUME NEW a \in Cells, \A p \in A \cup {new} : ~covers(m2, p, a)
               PROVE  m2[a] = ZERO
    BY DEF Clear
  <2>1. a \in Nat
    BY CellFacts
  <2>2. m[a] = ZERO
    <3>1. \A p \in A : ~covers(m, p, a)
      BY <1>5 DEF covers
    <3> QED
      BY <3>1 DEF HeapOK, Clear
  <2>3. ~covers(m2, new, a)
    OBVIOUS
  <2>4. a < h \/ h + T =< a
    BY <1>1, <1>6, <2>1, <2>3 DEF covers
  <2> HIDE DEF T, new
  <2> QED
    BY <1>2, <2>2, <2>4
<1> QED
  BY <1>2, <1>4, <1>6, <1>7, <1>8, <1>9, <1>10 DEF HeapOK, Untouched

(***************************************************************************)
(* Roots.                                                                  *)
(***************************************************************************)
\* Where the pointers of registers rg and of the stack st below top lead.
rootsOf(rg, st, top) ==
  {decodePointer(rg[r]) : r \in {r \in Regs : isPointer(rg[r])}} \cup
  {decodePointer(st[i]) : i \in {i \in Slots : i < top /\ isPointer(st[i])}}

\* The same, by way of the places that hold them.
rootLocs(rg, st, top) ==
  {<<"reg", r>> : r \in {r \in Regs : isPointer(rg[r])}} \cup
  {<<"stack", i>> : i \in {i \in Slots : i < top /\ isPointer(st[i])}}
locValue(rg, st, l) == IF l[1] = "reg" THEN rg[l[2]] ELSE st[l[2]]

LEMMA RootsByPlace ==
  ASSUME NEW rg, NEW st, NEW top
  PROVE  {decodePointer(locValue(rg, st, l)) : l \in rootLocs(rg, st, top)} = rootsOf(rg, st, top)
<1>1. ASSUME NEW l \in rootLocs(rg, st, top)
      PROVE  decodePointer(locValue(rg, st, l)) \in rootsOf(rg, st, top)
  <2>1. CASE \E r \in Regs : isPointer(rg[r]) /\ l = <<"reg", r>>
    <3>1. PICK r \in Regs : isPointer(rg[r]) /\ l = <<"reg", r>>
      BY <2>1
    <3>2. locValue(rg, st, l) = rg[r]
      BY <3>1 DEF locValue
    <3> QED
      BY <3>1, <3>2 DEF rootsOf
  <2>2. CASE \E i \in Slots : i < top /\ isPointer(st[i]) /\ l = <<"stack", i>>
    <3>1. PICK i \in Slots : i < top /\ isPointer(st[i]) /\ l = <<"stack", i>>
      BY <2>2
    <3>2. locValue(rg, st, l) = st[i]
      BY <3>1 DEF locValue
    <3> QED
      BY <3>1, <3>2 DEF rootsOf
  <2> QED
    BY <1>1, <2>1, <2>2 DEF rootLocs
<1>2. ASSUME NEW q \in rootsOf(rg, st, top)
      PROVE  \E l \in rootLocs(rg, st, top) : q = decodePointer(locValue(rg, st, l))
  <2>1. CASE \E r \in Regs : isPointer(rg[r]) /\ q = decodePointer(rg[r])
    <3>1. PICK r \in Regs : isPointer(rg[r]) /\ q = decodePointer(rg[r])
      BY <2>1
    <3>2. <<"reg", r>> \in rootLocs(rg, st, top) /\ locValue(rg, st, <<"reg", r>>) = rg[r]
      BY <3>1 DEF locValue, rootLocs
    <3> QED
      BY <3>1, <3>2
  <2>2. CASE \E i \in Slots : i < top /\ isPointer(st[i]) /\ q = decodePointer(st[i])
    <3>1. PICK i \in Slots : i < top /\ isPointer(st[i]) /\ q = decodePointer(st[i])
      BY <2>2
    <3>2. <<"stack", i>> \in rootLocs(rg, st, top) /\ locValue(rg, st, <<"stack", i>>) = st[i]
      BY <3>1 DEF locValue, rootLocs
    <3> QED
      BY <3>1, <3>2
  <2> QED
    BY <1>2, <2>1, <2>2 DEF rootsOf
<1> QED
  BY <1>1, <1>2

LEMMA RootsNow ==
  /\ Roots = rootLocs(reg, stack, sp) /\ Roots' = rootLocs(reg', stack', sp')
  /\ RootPointers = rootsOf(reg, stack, sp)
  /\ RootPointers' = rootsOf(reg', stack', sp')
<1>1. Roots = rootLocs(reg, stack, sp) /\ Roots' = rootLocs(reg', stack', sp')
  BY DEF Roots, rootLocs
<1>2. RootPointers = {decodePointer(locValue(reg, stack, l)) : l \in rootLocs(reg, stack, sp)}
  BY <1>1 DEF RootPointers, rootValue, locValue
<1>3. RootPointers' = {decodePointer(locValue(reg', stack', l)) : l \in rootLocs(reg', stack', sp')}
  BY <1>1 DEF RootPointers, rootValue, locValue
<1> QED
  BY <1>1, <1>2, <1>3, RootsByPlace

\* A root is a register or a live slot, and the other way around.
LEMMA RootIs ==
  ASSUME NEW rg, NEW st, NEW top, NEW q
  PROVE  q \in rootsOf(rg, st, top) <=>
           \/ \E r \in Regs : isPointer(rg[r]) /\ q = decodePointer(rg[r])
           \/ \E i \in Slots : i < top /\ isPointer(st[i]) /\ q = decodePointer(st[i])
BY DEF rootsOf

LEMMA RootsAre ==
  /\ \A q : q \in RootPointers <=>
       \/ \E r \in Regs : isPointer(reg[r]) /\ q = decodePointer(reg[r])
       \/ \E i \in Slots : i < sp /\ isPointer(stack[i]) /\ q = decodePointer(stack[i])
  /\ \A q : q \in RootPointers' <=>
       \/ \E r \in Regs : isPointer(reg'[r]) /\ q = decodePointer(reg'[r])
       \/ \E i \in Slots : i < sp' /\ isPointer(stack'[i]) /\ q = decodePointer(stack'[i])
BY RootsNow, RootIs

\* An instruction of the stack machine makes up no pointer.
LEMMA StackStep ==
  ASSUME Tame, TypeOK, sp \in 0 .. STACK_SIZE, fp \in Nat, fp =< sp, ip \in Nat,
         StackInstruction
  PROVE  /\ reg' \in [Regs -> Word] /\ stack' \in [Slots -> Word]
         /\ sp' \in 0 .. STACK_SIZE /\ fp' \in Nat /\ fp' =< sp' /\ ip' \in Nat
         /\ RootPointers' \subseteq RootPointers
         /\ status' = "running"
<1> DEFINE R    == rootsOf(reg, stack, sp)
           Goal == /\ reg' \in [Regs -> Word] /\ stack' \in [Slots -> Word]
                   /\ sp' \in 0 .. STACK_SIZE /\ fp' \in Nat /\ ip' \in Nat
                   /\ \A r \in Regs : isPointer(reg'[r]) => decodePointer(reg'[r]) \in R
                   /\ \A i \in Slots : i < sp' /\ isPointer(stack'[i]) =>
                        decodePointer(stack'[i]) \in R
<1>1. /\ reg \in [Regs -> Word] /\ stack \in [Slots -> Word]
      /\ STACK_SIZE \in Nat /\ Slots = 0 .. STACK_SIZE - 1
      /\ status' = "running" /\ Next /\ sp' >= fp' /\ sp \in Nat
  BY CallStackAssumption DEF TypeOK, StackInstruction, Mutating, Running, OwnFrame, Slots
<1>2. status' # "wild"
  BY <1>1
<1>3. /\ \A r \in Regs : isPointer(reg[r]) => decodePointer(reg[r]) \in R
      /\ \A i \in Slots : i < sp /\ isPointer(stack[i]) => decodePointer(stack[i]) \in R
  BY RootIs
<1> HIDE DEF R
<1>4. CodeAddrs \subseteq Nat
  <2>1. LO \in Nat /\ MID \in Nat
    BY WordsAssumption
  <2> QED
    BY <2>1, CallStackAssumption
<1>5. ASSUME NEW r \in Regs, Push(r) PROVE Goal
  <2>1. /\ sp \in Slots /\ stack' = [stack EXCEPT ![sp] = reg[r]] /\ sp' = sp + 1
        /\ reg' = reg /\ fp' = fp /\ ip' = ip
    BY <1>2, <1>5 DEF Push, Accessing, Wild
  <2>2. /\ stack' \in [Slots -> Word] /\ sp' \in 0 .. STACK_SIZE
        /\ \A i \in Slots : i < sp' => i < sp \/ i = sp
        /\ \A i \in Slots : stack'[i] = IF i = sp THEN reg[r] ELSE stack[i]
    BY <1>1, <2>1
  <2> QED
    BY <1>1, <1>3, <2>1, <2>2
<1>6. ASSUME NEW r \in Regs, Pop(r) PROVE Goal
  <2>1. /\ sp - 1 \in Slots /\ reg' = [reg EXCEPT ![r] = stack[sp - 1]] /\ sp' = sp - 1
        /\ stack' = stack /\ fp' = fp /\ ip' = ip
    BY <1>2, <1>6 DEF Pop, Accessing, Wild
  <2>2. /\ reg' \in [Regs -> Word] /\ sp' \in 0 .. STACK_SIZE /\ sp - 1 < sp
        /\ \A i \in Slots : i < sp' => i < sp
        /\ \A q \in Regs : reg'[q] = IF q = r THEN stack[sp - 1] ELSE reg[q]
    BY <1>1, <2>1
  <2> QED
    BY <1>1, <1>3, <2>1, <2>2
<1>7. ASSUME NEW f \in DOMAIN functionTable, Call(f) PROVE Goal
  <2>1. /\ {sp, sp + 1} \subseteq Slots
        /\ stack' = [stack EXCEPT ![sp] = raw64(fp), ![sp + 1] = raw64(ip)]
        /\ fp' = sp + 2 /\ sp' = sp + 2 + functionTable[f].frameSize /\ reg' = reg
        /\ ip' = functionTable[f].entryIP
    BY <1>2, <1>7 DEF Call, Accessing, Wild
  <2>2. sp' = sp + 2
    BY <1>1, <2>1 DEF Tame
  <2>3. ip' \in Nat
    BY <1>4, <2>1, CallStackAssumption
  <2>4. /\ sp' \in 0 .. STACK_SIZE
        /\ \A i \in Slots : i < sp' => i < sp \/ i = sp \/ i = sp + 1
    BY <1>1, <2>1, <2>2
  <2>5. raw64(fp) \in Word /\ ~isPointer(raw64(fp)) /\ raw64(ip) \in Word /\ ~isPointer(raw64(ip))
    BY RawWord
  <2>6. /\ stack' \in [Slots -> Word]
        /\ \A i \in Slots : stack'[i] = IF i = sp + 1 THEN raw64(ip)
                                        ELSE IF i = sp THEN raw64(fp) ELSE stack[i]
    BY <1>1, <2>1, <2>5
  <2>7. ASSUME NEW i \in Slots, i < sp', isPointer(stack'[i])
        PROVE  decodePointer(stack'[i]) \in R
    <3>1. i < sp \/ i = sp \/ i = sp + 1
      BY <2>4, <2>7
    <3>2. sp \in Nat /\ i # sp /\ i # sp + 1
      BY <1>1, <2>5, <2>6, <2>7
    <3>3. i < sp /\ stack'[i] = stack[i]
      BY <2>6, <3>1, <3>2
    <3> QED
      BY <1>3, <2>7, <3>3
  <2>8. \A r \in Regs : isPointer(reg'[r]) => decodePointer(reg'[r]) \in R
    BY <1>3, <2>1
  <2>9. reg' \in [Regs -> Word] /\ fp' \in Nat
    BY <1>1, <2>1
  <2> QED
    BY <2>3, <2>4, <2>6, <2>7, <2>8, <2>9
<1>8. ASSUME Ret PROVE Goal
  <2>1. /\ fp - 1 \in Slots /\ fp - 2 \in Slots
        /\ sp' = fp - 2 /\ ip' = asU64(stack[fp - 1]) /\ fp' = asU64(stack[fp - 2])
        /\ reg' = reg /\ stack' = stack
    BY <1>2, <1>8 DEF Ret, Accessing, Wild
  <2>2. \A w \in Word : asU64(w) \in Nat
    <3> SUFFICES ASSUME NEW w \in Word PROVE asU64(w) \in Nat
      OBVIOUS
    <3>1. w.mid \in Nat /\ w.lo \in Nat /\ LO \in Nat /\ MID \in Nat
      BY WordsAssumption DEF Word
    <3>2. w.mid * LO \in Nat /\ MID * LO \in Nat
      BY <3>1, Z3
    <3> QED
      BY <3>1, <3>2 DEF asU64, BEYOND
  <2>3. sp' \in 0 .. STACK_SIZE /\ \A i \in Slots : i < sp' => i < sp
    BY <1>1, <2>1
  <2> QED
    BY <1>1, <1>3, <2>1, <2>2, <2>3
<1>9. ASSUME NEW r \in Regs, NEW w \in Data, Load(r, w) PROVE Goal
  <2>1. w \in Word /\ ~isPointer(w)
    BY CallStackAssumption DEF Tame
  <2>2. /\ reg' = [reg EXCEPT ![r] = w]
        /\ stack' = stack /\ sp' = sp /\ fp' = fp /\ ip' = ip
    BY <1>9 DEF Load
  <2> QED
    BY <1>1, <1>3, <2>1, <2>2
<1>10. ASSUME NEW r \in Regs, NEW s \in Regs, Mov(r, s) PROVE Goal
  <2>1. /\ reg' = [reg EXCEPT ![r] = reg[s]]
        /\ stack' = stack /\ sp' = sp /\ fp' = fp /\ ip' = ip
    BY <1>10 DEF Mov
  <2> QED
    BY <1>1, <1>3, <2>1
<1>11. ASSUME NEW a \in CodeAddrs, Goto(a) PROVE Goal
  <2>1. reg' = reg /\ stack' = stack /\ sp' = sp /\ fp' = fp /\ ip' = a
    BY <1>11 DEF Goto
  <2> QED
    BY <1>1, <1>3, <1>4, <2>1
<1>12. Goal
  <2>1. Points = {}
    BY DEF Tame
  <2> HIDE DEF Goal
  <2> QED
    BY <1>1, <1>5, <1>6, <1>7, <1>8, <1>9, <1>10, <1>11, <2>1 DEF Next
<1> QED
  <2>1. fp' =< sp'
    BY <1>1, <1>12
  <2> QED
    BY <1>1, <1>12, <2>1, RootsNow, RootIs DEF R

(***************************************************************************)
(* The cursor.                                                             *)
(***************************************************************************)
\* Where the cursor goes from an object of that size.
nextAt(cs, at, size) ==
  IF at[2] + size >= cs[at[1]].used THEN <<at[1] + 1, 0>> ELSE <<at[1], at[2] + size>>

\* The array under the cursor, and the cursor's next place: it has passed this
\* array more than before and no other.
LEMMA CursorStep ==
  ASSUME Tame, NEW F, NEW ch, NEW A, NEW m, HeapOK(F, ch, A, m),
         NEW s \in Spaces, NEW at, CursorOK(ch[s], A, at), at[1] \in DOMAIN ch[s],
         NEW p, p = ch[s][at[1]].mem + at[2] + OBJ_HEADER,
         NEW next, next = nextAt(ch[s], at, Sized(m, p))
  PROVE  /\ p \in A /\ p \in ArraysOf(ch, A, s)
         /\ CursorOK(ch[s], A, next)
         /\ ~Passed(m, ch[s], at, p)
         /\ \A q \in ArraysOf(ch, A, s) :
              Passed(m, ch[s], next, q) <=> Passed(m, ch[s], at, q) \/ q = p
<1> DEFINE cs == ch[s]
           i  == at[1]
           o  == at[2]
           c  == cs[i]
           sz == Sized(m, p)
<1>1. /\ Layout(F, ch, A, m) /\ \A q \in A : ArrayOK(m, q)
      /\ Len(cs) \in Nat /\ DOMAIN cs = 1 .. Len(cs)
      /\ \A j \in DOMAIN cs : /\ cs[j].mem \in Nat /\ cs[j].mem \in Regions
                              /\ cs[j].used \in Nat /\ cs[j].used > 0
                              /\ cs[j].used =< CHUNK_SIZE
      /\ CHUNK_SIZE \in Nat
  BY ChunkNumbers, RegionFacts DEF HeapOK
<1>2. /\ at \in (Nat \ {0}) \X Nat /\ at = <<i, o>> /\ i \in Nat /\ i >= 1 /\ o \in Nat
      /\ o < c.used /\ p \in A /\ p = c.mem + o + 16
  <2>1. at \in (Nat \ {0}) \X Nat
    BY DEF CursorOK
  <2>2. at = <<i, o>> /\ i \in Nat /\ i >= 1 /\ o \in Nat
    BY <2>1
  <2>3. i # Len(cs) + 1
    BY <1>1, <2>2
  <2> QED
    BY <2>1, <2>2, <2>3 DEF CursorOK
<1>3. /\ \A q \in A : /\ q \in Nat /\ q >= 16 /\ Sized(m, q) \in Nat /\ Sized(m, q) >= 40
      /\ \A q \in A : q # p => q + Sized(m, q) =< p \/ p + sz =< q
  <2>1. \A q \in A : q # p => q + Sized(m, q) =< p \/ p + sz =< q
    BY <1>2 DEF HeapOK, Layout
  <2> QED
    BY <1>1, <2>1, ArrayFacts
<1>4. InChunk(m, p, c)
  <2>1. c.mem =< p - 16 /\ p - 16 < c.mem + CHUNK_SIZE
    BY <1>1, <1>2
  <2> QED
    BY <1>1, <1>2, <2>1, ChunkOfArray
<1>5. p + sz \in A \/ p + sz = c.mem + c.used + 16
  BY <1>1, <1>2, <1>4 DEF Layout
<1>6. o + sz =< c.used
  <2>1. p - 16 + sz =< c.mem + c.used
    BY <1>4 DEF InChunk
  <2>2. c.mem \in Nat /\ c.used \in Nat /\ sz \in Nat
    BY <1>1, <1>2, <1>3
  <2> HIDE DEF c, o, sz
  <2> QED
    BY <1>2, <2>1, <2>2
<1>7. p \in ArraysOf(ch, A, s)
  BY <1>1, <1>2, <1>4, ArraysIn
<1>8. \A j, k \in DOMAIN cs, q \in A : InChunk(m, q, cs[j]) /\ InChunk(m, q, cs[k]) => j = k
  <2> SUFFICES ASSUME NEW j \in DOMAIN cs, NEW k \in DOMAIN cs, NEW q \in A,
                      InChunk(m, q, cs[j]), InChunk(m, q, cs[k]), j # k
               PROVE  FALSE
    OBVIOUS
  <2>1. cs[j].mem # cs[k].mem
    BY <1>1 DEF Layout
  <2>2. cs[j].mem + CHUNK_SIZE =< cs[k].mem \/ cs[k].mem + CHUNK_SIZE =< cs[j].mem
    BY <1>1, <2>1, RegionFacts
  <2>3. /\ cs[j].mem \in Nat /\ cs[j].used \in Nat /\ cs[j].used =< CHUNK_SIZE
        /\ cs[k].mem \in Nat /\ cs[k].used \in Nat /\ cs[k].used =< CHUNK_SIZE
    BY <1>1
  <2>4. /\ cs[j].mem + 16 =< q /\ q - 16 + Sized(m, q) =< cs[j].mem + cs[j].used
        /\ cs[k].mem + 16 =< q /\ q - 16 + Sized(m, q) =< cs[k].mem + cs[k].used
    BY DEF InChunk
  <2>5. q \in Nat /\ Sized(m, q) \in Nat /\ Sized(m, q) >= 40 /\ CHUNK_SIZE \in Nat
    BY <1>1, <1>3
  <2> HIDE DEF cs
  <2> QED
    BY <2>2, <2>3, <2>4, <2>5
<1> HIDE DEF i, o, c, sz, cs
<1>9. Passed(m, cs, at, p) => FALSE
  <2> SUFFICES ASSUME NEW j \in DOMAIN cs, InChunk(m, p, cs[j]),
                      j < at[1] \/ (j = at[1] /\ p - OBJ_HEADER < cs[j].mem + at[2])
               PROVE  FALSE
    BY DEF Passed
  <2>1. j = i
    BY <1>2, <1>4, <1>8 DEF i, c, cs
  <2> QED
    BY <1>1, <1>2, <2>1 DEF i, o, c
\* The place behind p, or the next chunk's first array, or the end.
<1>10. CASE o + sz >= c.used
  <2>0. o \in Nat /\ sz \in Nat /\ c.used \in Nat
    BY <1>1, <1>2, <1>3 DEF i, c, sz, cs
  <2>1. next = <<i + 1, 0>> /\ o + sz = c.used
    <3>1. o + sz = c.used
      BY <1>6, <1>10, <2>0
    <3> QED
      BY <1>10, <3>1 DEF nextAt, i, o, c, sz, cs
  <2>2. next[1] = i + 1 /\ next[2] = 0 /\ next \in (Nat \ {0}) \X Nat
    BY <1>2, <2>1
  <2>3. i \in 1 .. Len(cs)
    BY <1>1 DEF i, cs
  <2>4. CursorOK(cs, A, next)
    <3>1. CASE i = Len(cs)
      BY <2>2, <3>1 DEF CursorOK
    <3>2. CASE i # Len(cs)
      <4>1. i + 1 \in DOMAIN cs
        BY <1>1, <2>3, <3>2
      <4>2. cs[i + 1].mem + 16 \in A /\ cs[i + 1].used > 0 /\ cs[i + 1].mem + 0 = cs[i + 1].mem
        BY <1>1, <4>1 DEF Layout, cs
      <4> QED
        BY <2>2, <4>1, <4>2 DEF CursorOK
    <3> QED
      BY <3>1, <3>2
  <2>5. ASSUME NEW q \in ArraysOf(ch, A, s)
        PROVE  Passed(m, cs, next, q) <=> Passed(m, cs, at, q) \/ q = p
    <3>1. PICK j \in DOMAIN cs : q \in A /\ InChunk(m, q, cs[j])
      BY <1>1, ArraysIn DEF cs
    <3>2. /\ Passed(m, cs, next, q) <=> j < i + 1 \/ (j = i + 1 /\ q - 16 < cs[j].mem + 0)
          /\ Passed(m, cs, at, q) <=> j < i \/ (j = i /\ q - 16 < cs[j].mem + o)
      BY <1>8, <2>2, <3>1 DEF Passed, i, o
    <3>3. /\ j \in Nat /\ cs[j].mem \in Nat /\ cs[j].mem =< q - 16 /\ q \in Nat
          /\ q - 16 + Sized(m, q) =< cs[j].mem + cs[j].used /\ cs[j].used \in Nat
      BY <1>1, <1>3, <3>1 DEF InChunk
    <3>4. Passed(m, cs, next, q) <=> j < i \/ j = i
      BY <1>2, <3>2, <3>3
    <3>5. q = p => j = i
      BY <1>2, <1>4, <1>8, <3>1 DEF i, c, cs
    <3>6. ASSUME j = i, q # p PROVE q - 16 < cs[j].mem + o
      <4>1. q + Sized(m, q) =< p \/ p + sz =< q
        BY <1>3, <3>1, <3>6
      <4>2. cs[j] = c /\ c.mem \in Nat /\ c.used \in Nat
        BY <1>1, <3>6 DEF c, i
      <4>3. Sized(m, q) \in Nat /\ Sized(m, q) >= 40 /\ sz \in Nat
        BY <1>2, <1>3, <3>1 DEF sz
      <4> QED
        BY <1>2, <2>1, <3>3, <4>1, <4>2, <4>3
    <3> QED
      BY <3>2, <3>4, <3>5, <3>6
  <2> QED
    BY <1>2, <1>7, <1>9, <2>4, <2>5 DEF cs
<1>11. CASE ~(o + sz >= c.used)
  <2>1. next = <<i, o + sz>> /\ o + sz < c.used /\ sz \in Nat /\ sz >= 40
    BY <1>1, <1>2, <1>3, <1>11 DEF nextAt, i, o, c, sz, cs
  <2>2. next[1] = i /\ next[2] = o + sz /\ next \in (Nat \ {0}) \X Nat
    BY <1>2, <2>1
  <2>3. CursorOK(cs, A, next)
    <3>1. c.mem \in Nat /\ c.used \in Nat
      BY <1>1 DEF c, i, cs
    <3>2. p + sz \in A /\ c.mem + (o + sz) + 16 = p + sz
      BY <1>2, <1>5, <2>1, <3>1
    <3> QED
      BY <2>1, <2>2, <3>2 DEF CursorOK, c, i, cs
  <2>4. ASSUME NEW q \in ArraysOf(ch, A, s)
        PROVE  Passed(m, cs, next, q) <=> Passed(m, cs, at, q) \/ q = p
    <3>1. PICK j \in DOMAIN cs : q \in A /\ InChunk(m, q, cs[j])
      BY <1>1, ArraysIn DEF cs
    <3>2. /\ Passed(m, cs, next, q) <=> j < i \/ (j = i /\ q - 16 < cs[j].mem + (o + sz))
          /\ Passed(m, cs, at, q) <=> j < i \/ (j = i /\ q - 16 < cs[j].mem + o)
      BY <1>8, <2>2, <3>1 DEF Passed, i, o
    <3>3. q = p => j = i
      BY <1>2, <1>4, <1>8, <3>1 DEF i, c, cs
    <3>4. ASSUME j = i
          PROVE  q - 16 < cs[j].mem + (o + sz) <=> q - 16 < cs[j].mem + o \/ q = p
      <4>1. cs[j] = c /\ c.mem \in Nat /\ c.used \in Nat
        BY <1>1, <3>1, <3>4 DEF c, i
      <4>2. q \in Nat /\ Sized(m, q) \in Nat /\ Sized(m, q) >= 40
        BY <1>3, <3>1
      <4>3. q # p => q + Sized(m, q) =< p \/ p + sz =< q
        BY <1>3, <3>1
      <4> QED
        BY <1>2, <2>1, <4>1, <4>2, <4>3
    <3> QED
      BY <3>2, <3>3, <3>4
  <2> QED
    BY <1>2, <1>7, <1>9, <2>3, <2>4 DEF cs
<1> QED
  BY <1>10, <1>11

(***************************************************************************)
(* The steps.                                                              *)
(***************************************************************************)
\* What the heap's invariant says of the variables' types.
LEMMA HeapTypes ==
  ASSUME Tame, NEW F, NEW ch, NEW A, NEW m, HeapOK(F, ch, A, m)
  PROVE  /\ ch \in [Spaces -> Seq(HeapChunk)]
         /\ \A s \in Spaces : ch[s] \in Seq([mem : Regions, used : 1 .. CHUNK_SIZE])
         /\ A \subseteq Cells
         /\ m \in [Cells -> Word]
         /\ Layout(F, ch, A, m)
         /\ \A p \in A : ArrayOK(m, p)
<1>1. ch \in [Spaces -> Seq(HeapChunk)]
  BY DEF HeapOK, Layout
<1>2. \A s \in Spaces : ch[s] \in Seq([mem : Regions, used : 1 .. CHUNK_SIZE])
  BY <1>1 DEF HeapChunk
<1>3. A \subseteq Cells
  BY OwnWords
<1> QED
  BY <1>1, <1>2, <1>3 DEF HeapOK

LEMMA TypesNext ==
  ASSUME Tame, NEW F, HeapOK(F, chunks', arrays', mem'),
         reg' \in [Regs -> Word], stack' \in [Slots -> Word],
         totalAllocated' \in [Spaces -> Nat], heapAUsed' \in BOOLEAN,
         gc'.phase \in HeapPhases, status' \in {"running", "wild", "threw", "halted"}
  PROVE  TypeOK'
BY HeapTypes DEF TypeOK

\* The two half-spaces.
LEMMA TwoSpaces ==
  /\ active \in Spaces /\ idle \in Spaces /\ active # idle
  /\ \A s \in Spaces : s = active \/ s = idle
  /\ heapAUsed' = heapAUsed => active' = active /\ idle' = idle
  /\ heapAUsed \in BOOLEAN /\ heapAUsed' = ~heapAUsed => active' = idle /\ idle' = active
<1>1. active \in Spaces /\ idle \in Spaces /\ active # idle
  BY DEF active, idle, Spaces
<1>2. \A s \in Spaces : s = active \/ s = idle
  BY DEF active, idle, Spaces
<1>3. heapAUsed' = heapAUsed => active' = active /\ idle' = idle
  BY DEF active, idle
<1>4. heapAUsed = TRUE /\ heapAUsed' = FALSE => active' = idle /\ idle' = active
  BY DEF active, idle
<1>5. heapAUsed = FALSE /\ heapAUsed' = TRUE => active' = idle /\ idle' = active
  BY DEF active, idle
<1>6. heapAUsed \in BOOLEAN => heapAUsed = TRUE \/ heapAUsed = FALSE
  OBVIOUS
<1>7. heapAUsed \in BOOLEAN /\ heapAUsed' = ~heapAUsed =>
        \/ heapAUsed = TRUE /\ heapAUsed' = FALSE
        \/ heapAUsed = FALSE /\ heapAUsed' = TRUE
  BY <1>6, Zenon
<1> QED
  BY <1>1, <1>2, <1>3, <1>4, <1>5, <1>7, Zenon

LEMMA ArraysNow ==
  /\ \A s : Arrays(s) = ArraysOf(chunks, arrays, s)
  /\ \A s : Arrays(s)' = ArraysOf(chunks', arrays', s)
BY DEF Arrays, ArraysOf

\* Once the VM has stopped nothing but the types is claimed.
LEMMA Stopped ==
  ASSUME NEW F, TypeOK, HeapWild \/ HeapThrew
  PROVE  IInv(F)'
<1>1. TypeOK'
  BY DEF TypeOK, HeapWild, HeapThrew, heapVars, Slots, Spaces, Cells, HeapPhases
<1>2. ~Running'
  BY DEF HeapWild, HeapThrew, Running
<1> QED
  BY <1>1, <1>2 DEF IInv

\* A new array joins those of its half-space.
LEMMA GrownArrays ==
  ASSUME Tame, NEW F, Fills(F), NEW ch, NEW A, NEW m, HeapOK(F, ch, A, m),
         NEW s \in Spaces, NEW ch2, NEW last, NEW h, NEW n \in Lengths,
         Grown(ch, ch2, s, last, h, totalOf(n)),
         NEW m2, HeapOK(F, ch2, A \cup {h + 16}, m2)
  PROVE  /\ ArraysOf(ch2, A \cup {h + 16}, s) = ArraysOf(ch, A, s) \cup {h + 16}
         /\ \A t \in Spaces : t # s => ArraysOf(ch2, A \cup {h + 16}, t) = ArraysOf(ch, A, t)
<1> DEFINE A2 == A \cup {h + 16}
<1>0. /\ Layout(F, ch, A, m) /\ \A p \in A : ArrayOK(m, p)
      /\ Layout(F, ch2, A2, m2) /\ \A p \in A2 : ArrayOK(m2, p)
  BY DEF HeapOK
<1>1. ASSUME NEW t \in Spaces, NEW p \in ArraysOf(ch, A, t)
      PROVE  p \in ArraysOf(ch2, A2, t)
  <2>1. heldBy(ch[t]) \subseteq heldBy(ch2[t])
    BY DEF Grown, heldBy
  <2> QED
    BY <2>1 DEF ArraysOf, Mapped
<1>2. h + 16 \in ArraysOf(ch2, A2, s)
  <2> DEFINE r == ch2[s][last].mem
  <2>1. /\ h \in Nat /\ h % 8 = 0 /\ h >= r /\ r \in Nat /\ totalOf(n) >= 40
        /\ h + totalOf(n) = r + ch2[s][last].used /\ ch2[s][last].used =< CHUNK_SIZE
        /\ totalOf(n) \in Nat /\ ch2[s][last].used \in Nat /\ CHUNK_SIZE \in Nat
    BY <1>0, GrownFacts, RegionFacts
  <2>2. r \in heldBy(ch2[s])
    BY DEF Grown, heldBy
  <2> HIDE DEF r
  <2>3. (h + 16) - 16 = h /\ h < r + CHUNK_SIZE
    BY <2>1
  <2> QED
    BY <2>1, <2>2, <2>3 DEF ArraysOf, Mapped
<1>3. \A p \in A2 : \A t, u \in Spaces :
        p \in ArraysOf(ch2, A2, t) /\ p \in ArraysOf(ch2, A2, u) => t = u
  BY <1>0, ArraysSplit
<1>4. \A p \in A : \E t \in Spaces : p \in ArraysOf(ch, A, t)
  BY <1>0, ArraysSplit
<1>5. ASSUME NEW t \in Spaces, NEW p \in ArraysOf(ch2, A2, t), p \in A
      PROVE  p \in ArraysOf(ch, A, t)
  BY <1>1, <1>3, <1>4, <1>5
<1>6. \A t : ArraysOf(ch2, A2, t) \subseteq A2
  BY DEF ArraysOf
<1> HIDE DEF A2
<1>7. A2 = A \cup {h + 16}
  BY DEF A2
<1>8. \A t \in Spaces : ArraysOf(ch, A, t) \subseteq ArraysOf(ch2, A2, t)
  BY <1>1
<1>9. ArraysOf(ch2, A2, s) \subseteq ArraysOf(ch, A, s) \cup {h + 16}
  BY <1>5, <1>6, <1>7
<1>10. ASSUME NEW t \in Spaces, t # s
       PROVE  ArraysOf(ch2, A2, t) \subseteq ArraysOf(ch, A, t)
  <2> SUFFICES ASSUME NEW p \in ArraysOf(ch2, A2, t) PROVE p \in A
    BY <1>5
  <2>1. p \in A2
    BY <1>6
  <2> QED
    BY <1>2, <1>3, <1>7, <1>10, <2>1
<1> QED
  BY <1>2, <1>7, <1>8, <1>9, <1>10

\* initArray turns the chunks, arrays and memory <<ch, A, m>> into
\* <<ch2, A2, m2>> with a new array at p.
Placed(ch, A, m, s, n, type, ch2, p, A2, m2) ==
  /\ s \in Spaces /\ n \in Lengths /\ type \in Types
  /\ \E h, last : p = h + 16 /\ Laid(ch, m, s, n, type, ch2, last, h, m2)
  /\ A2 = A \cup {p}

LEMMA PlacedHeap ==
  ASSUME Tame, NEW F, Fills(F), Spare(F) \/ Apart,
         NEW ch, NEW A, NEW m, HeapOK(F, ch, A, m),
         NEW s, NEW n, NEW type, NEW ch2, NEW p, NEW A2, NEW m2,
         Placed(ch, A, m, s, n, type, ch2, p, A2, m2)
  PROVE  /\ HeapOK(F, ch2, A2, m2)
         /\ p \notin A /\ p \in Nat /\ p < MID * LO
         /\ Unmarked(m2, p) /\ Unforwarded(m2, p)
         /\ Untouched(A, m, m2)
         /\ ArraysOf(ch2, A2, s) = ArraysOf(ch, A, s) \cup {p}
<1>1. /\ s \in Spaces /\ n \in Lengths /\ type \in Types /\ A2 = A \cup {p}
      /\ \E h, last : p = h + 16 /\ Laid(ch, m, s, n, type, ch2, last, h, m2)
  BY DEF Placed
<1>2. PICK h, last : p = h + 16 /\ Laid(ch, m, s, n, type, ch2, last, h, m2)
  BY <1>1
<1>3. /\ HeapOK(F, ch2, A \cup {h + 16}, m2)
      /\ h + 16 \notin A
      /\ Unmarked(m2, h + 16) /\ Unforwarded(m2, h + 16)
      /\ Untouched(A, m, m2)
  BY <1>1, <1>2, NewArrayHeap
<1>4. ArraysOf(ch2, A \cup {h + 16}, s) = ArraysOf(ch, A, s) \cup {h + 16}
  BY <1>1, <1>2, <1>3, GrownArrays DEF Laid
<1>5. p \in Nat /\ p < MID * LO
  BY <1>1, <1>2, <1>3, OwnWords
<1> QED
  BY <1>1, <1>2, <1>3, <1>4, <1>5

\* What holds of a running VM, for the steps below to use.
LEMMA StateFacts ==
  ASSUME Tame, NEW F, TypeOK, Always(F)
  PROVE  /\ HeapOK(F, chunks, arrays, mem) /\ Layout(F, chunks, arrays, mem)
         /\ \A p \in arrays : ArrayOK(mem, p)
         /\ chunks \in [Spaces -> Seq(HeapChunk)]
         /\ totalAllocated \in [Spaces -> Nat]
         /\ \A s \in Spaces : totalAllocated[s] = bytesIn(chunks[s])
         /\ reg \in [Regs -> Word] /\ stack \in [Slots -> Word] /\ mem \in [Cells -> Word]
         /\ heapAUsed \in BOOLEAN
         /\ \A s : Arrays(s) = ArraysOf(chunks, arrays, s)
         /\ RootPointers \subseteq ArraysOf(chunks, arrays, active)
         /\ arrays \subseteq Cells
         /\ sp \in 0 .. STACK_SIZE /\ fp \in Nat /\ fp =< sp /\ ip \in Nat
         /\ DOMAIN gc = gcFields
BY HeapTypes, ArraysNow DEF Always, TypeOK

\* Outside a collection, or right after one, the rest of the invariant.
LEMMA Fresh ==
  ASSUME NEW F, gc' = NotCollecting, TypeOK', Always(F)', chunks'[idle'] = <<>>,
         \A p \in arrays' : Unmarked(mem', p) /\ Unforwarded(mem', p)
  PROVE  IInv(F)'
<1>1. /\ gc'.phase = "idle" /\ gc'.at = <<1, 0>> /\ gc'.objects = <<>>
  BY DEF NotCollecting
<1>2. BeforeMove'
  BY <1>1 DEF BeforeMove
<1>3. BeforeMark'
  BY <1>1 DEF BeforeMark, NotCollecting
<1>4. InWalk' /\ AfterMark' /\ InMove'
  BY <1>1 DEF InWalk, AfterMark, InMove
<1> QED
  BY <1>2, <1>3, <1>4 DEF IInv

\* initArray.
LEMMA NewArrayStep ==
  ASSUME Tame, NEW F, Fills(F), Spare(F) \/ Apart, TypeOK, Running, Always(F),
         chunks[idle] = <<>>,
         \A p \in arrays : Unmarked(mem, p) /\ Unforwarded(mem, p),
         NEW dst \in Regs, NEW length \in Lengths, NEW type \in Types,
         NewArray(dst, length, type)
  PROVE  IInv(F)'
<1> DEFINE T == totalOf(length)
<1>0. /\ length \in Nat /\ type \in Nat /\ T \in Nat /\ T = 24 + 8 * length
      /\ align(OBJ_HEADER + 8 * length + 8) = T
      /\ T > 0 /\ T =< CHUNK_SIZE
  <2>1. length \in Nat /\ type \in Nat /\ T =< CHUNK_SIZE
    BY HeapAssumption DEF Tame
  <2>2. T \in Nat /\ T = 24 + 8 * length /\ align(OBJ_HEADER + 8 * length + 8) = T
    BY <2>1, Totals8
  <2> QED
    BY <2>1, <2>2
<1>1. \/ HeapThrew \/ HeapWild
      \/ \E cs \in withRoom(active, T) :
           /\ mem' = overwrite(overwrite(mem, headerAt(nextAddr(cs), T, OBJ_ARRAY)),
                               blank(nextAddr(cs) + 16, length, type))
           /\ Take(active, cs, T)
           /\ reg' = [reg EXCEPT ![dst] = encodePointer(nextAddr(cs) + 16)]
           /\ arrays' = arrays \cup {nextAddr(cs) + 16}
           /\ gc' = NotCollecting
           /\ UNCHANGED <<stack, sp, fp, ip, status, frames, heapAUsed>>
  <2> HIDE DEF T
  <2> QED
    BY <1>0 DEF NewArray, blank, bodyOf
<1>2. CASE HeapThrew \/ HeapWild
  BY <1>2, Stopped
<1>3. ASSUME NEW cs \in withRoom(active, T),
             mem' = overwrite(overwrite(mem, headerAt(nextAddr(cs), T, OBJ_ARRAY)),
                               blank(nextAddr(cs) + 16, length, type)),
             Take(active, cs, T),
             reg' = [reg EXCEPT ![dst] = encodePointer(nextAddr(cs) + 16)],
             arrays' = arrays \cup {nextAddr(cs) + 16},
             gc' = NotCollecting,
             UNCHANGED <<stack, sp, fp, ip, status, frames, heapAUsed>>
      PROVE  IInv(F)'
  <2> DEFINE h   == nextAddr(cs)
             new == h + 16
  <2>1. /\ HeapOK(F, chunks, arrays, mem) /\ Layout(F, chunks, arrays, mem)
        /\ chunks \in [Spaces -> Seq(HeapChunk)] /\ totalAllocated \in [Spaces -> Nat]
        /\ reg \in [Regs -> Word] /\ stack \in [Slots -> Word]
        /\ active \in Spaces /\ idle \in Spaces /\ active # idle
        /\ active' = active /\ idle' = idle
    BY <1>3, StateFacts, TwoSpaces
  <2>2. /\ chunks' = [chunks EXCEPT ![active] = bumped(cs, T)]
        /\ totalAllocated' = [totalAllocated EXCEPT ![active] = @ + T]
    BY <1>3 DEF Take
  <2>3. Roomy(chunks, active, cs, T)
    BY <1>0, <1>3, <2>1, RoomFound
  <2>4. /\ Grown(chunks, chunks', active, Len(cs), h, T)
        /\ bytesIn(bumped(cs, T)) = bytesIn(chunks[active]) + T
    BY <1>0, <2>1, <2>2, <2>3, RoomTaken
  <2>5. Placed(chunks, arrays, mem, active, length, type, chunks', new, arrays', mem')
    BY <1>3, <2>1, <2>4 DEF Placed, Laid
  <2>6. /\ HeapOK(F, chunks', arrays', mem')
        /\ new \notin arrays /\ new \in Nat /\ new < MID * LO
        /\ Unmarked(mem', new) /\ Unforwarded(mem', new)
        /\ Untouched(arrays, mem, mem')
        /\ ArraysOf(chunks', arrays', active) = ArraysOf(chunks, arrays, active) \cup {new}
    <3> HIDE DEF h, new
    <3> QED
      BY <2>1, <2>5, PlacedHeap
  <2>7. new \in Nat /\ new < MID * LO
    BY <2>6
  <2>8. encodePointer(new) \in Word /\ decodePointer(encodePointer(new)) = new
    BY <2>7, PointerWord
  <2>9. reg' \in [Regs -> Word] /\ stack' \in [Slots -> Word]
    BY <1>3, <2>1, <2>8
  <2>10. RootPointers' \subseteq RootPointers \cup {new}
    <3>1. \A r \in Regs : reg'[r] = IF r = dst THEN encodePointer(new) ELSE reg[r]
      BY <1>3, <2>1
    <3> SUFFICES ASSUME NEW q \in RootPointers' PROVE q \in RootPointers \cup {new}
      OBVIOUS
    <3>2. \/ \E r \in Regs : isPointer(reg'[r]) /\ q = decodePointer(reg'[r])
          \/ \E i \in Slots : i < sp' /\ isPointer(stack'[i]) /\ q = decodePointer(stack'[i])
      BY RootsNow, RootIs
    <3>3. \/ q = new
          \/ \E r \in Regs : isPointer(reg[r]) /\ q = decodePointer(reg[r])
          \/ \E i \in Slots : i < sp /\ isPointer(stack[i]) /\ q = decodePointer(stack[i])
      BY <1>3, <2>8, <3>1, <3>2
    <3> QED
      BY <3>3, RootsNow, RootIs
  <2>11. RootPointers' \subseteq Arrays(active)'
    BY <2>1, <2>6, <2>10, StateFacts, ArraysNow
  <2>12. totalAllocated' \in [Spaces -> Nat]
         /\ \A s \in Spaces : totalAllocated'[s] = bytesIn(chunks'[s])
    BY <1>0, <2>1, <2>2, <2>4, StateFacts
  <2>13. Always(F)'
    <3>1. sp' \in 0 .. STACK_SIZE /\ fp' \in Nat /\ fp' =< sp' /\ ip' \in Nat
      BY <1>3, StateFacts
    <3>2. DOMAIN gc' = gcFields
      BY <1>3 DEF NotCollecting, gcFields
    <3> QED
      BY <2>6, <2>11, <2>12, <3>1, <3>2 DEF Always
  <2>14. TypeOK'
    <3>1. heapAUsed' \in BOOLEAN /\ gc'.phase \in HeapPhases
      BY <1>3, StateFacts DEF NotCollecting, HeapPhases
    <3>2. status' \in {"running", "wild", "threw", "halted"}
      BY <1>3 DEF Running
    <3> QED
      BY <2>6, <2>9, <2>12, <3>1, <3>2, TypesNext
  <2>15. \A p \in arrays' : Unmarked(mem', p) /\ Unforwarded(mem', p)
    <3> SUFFICES ASSUME NEW p \in arrays PROVE Unmarked(mem', p) /\ Unforwarded(mem', p)
      BY <1>3, <2>6
    <3>1. mem'[p - 16] = mem[p - 16] /\ mem'[p - 8] = mem[p - 8]
      BY <2>1, <2>6, OwnWords DEF Untouched
    <3> QED
      BY <3>1 DEF Unmarked, Unforwarded
  <2>16. chunks'[idle'] = <<>>
    BY <2>1, <2>2
  <2> QED
    BY <1>3, <2>13, <2>14, <2>15, <2>16, Fresh
<1> QED
  BY <1>1, <1>2, <1>3

\* Between instructions.
LEMMA IdleFacts ==
  ASSUME NEW F, IInv(F), Running, gc.phase = "idle"
  PROVE  /\ TypeOK /\ Always(F) /\ gc = NotCollecting
         /\ chunks[idle] = <<>>
         /\ \A p \in arrays : Unmarked(mem, p) /\ Unforwarded(mem, p)
BY DEF IInv, BeforeMove, BeforeMark

\* heapAlloc, when no collection is due.
LEMMA ArrInitStep ==
  ASSUME Tame, NEW F, Fills(F), Spare(F) \/ Apart, IInv(F),
         NEW dst \in Regs, NEW length \in Lengths, NEW type \in Types,
         ArrInit(dst, length, type)
  PROVE  IInv(F)'
<1>1. Running /\ gc.phase = "idle" /\ NewArray(dst, length, type)
  BY DEF ArrInit, Mutating
<1> QED
  BY <1>1, IdleFacts, NewArrayStep

\* heapAlloc, after the collection.
LEMMA FinishInitStep ==
  ASSUME Tame, NEW F, Fills(F), Spare(F) \/ Apart, IInv(F), FinishInit
  PROVE  IInv(F)'
<1>1. Running /\ gc.phase = "alloc" /\ NewArray(gc.want[1], gc.want[2], gc.want[3])
  BY DEF FinishInit
<1>2. /\ TypeOK /\ Always(F) /\ chunks[idle] = <<>>
      /\ \A p \in arrays : Unmarked(mem, p) /\ Unforwarded(mem, p)
      /\ gc.want \in Regs \X Lengths \X Types
  BY <1>1 DEF IInv, BeforeMove, BeforeMark
<1>3. gc.want[1] \in Regs /\ gc.want[2] \in Lengths /\ gc.want[3] \in Types
  BY <1>2
<1> QED
  BY <1>1, <1>2, <1>3, NewArrayStep

\* The heap a program's other instructions leave alone.
LEMMA StackInstructionStep ==
  ASSUME Tame, NEW F, IInv(F), StackInstruction
  PROVE  IInv(F)'
<1>1. /\ Running /\ gc.phase = "idle" /\ status' = status /\ UNCHANGED heapVars
  BY DEF StackInstruction, Mutating
<1>2. /\ mem' = mem /\ chunks' = chunks /\ totalAllocated' = totalAllocated
      /\ heapAUsed' = heapAUsed /\ gc' = gc /\ arrays' = arrays
  BY <1>1 DEF heapVars
<1>3. /\ TypeOK /\ Always(F) /\ gc = NotCollecting
      /\ chunks[idle] = <<>>
      /\ \A p \in arrays : Unmarked(mem, p) /\ Unforwarded(mem, p)
  BY <1>1, IdleFacts
<1>4. /\ reg' \in [Regs -> Word] /\ stack' \in [Slots -> Word]
      /\ sp' \in 0 .. STACK_SIZE /\ fp' \in Nat /\ fp' =< sp' /\ ip' \in Nat
      /\ RootPointers' \subseteq RootPointers
      /\ status' = "running"
  BY <1>3, StackStep DEF Always
<1>5. active' = active /\ idle' = idle
  BY <1>2, TwoSpaces
<1>6. HeapOK(F, chunks', arrays', mem')
  BY <1>2, <1>3 DEF Always
<1>7. RootPointers' \subseteq Arrays(active)'
  BY <1>2, <1>3, <1>4, <1>5, StateFacts, ArraysNow
<1>8. \A s \in Spaces : totalAllocated'[s] = bytesIn(chunks'[s])
  BY <1>2, <1>3, StateFacts
<1>9. Always(F)'
  BY <1>2, <1>3, <1>4, <1>6, <1>7, <1>8, StateFacts DEF Always
<1>10. TypeOK'
  <2>1. /\ totalAllocated' \in [Spaces -> Nat] /\ heapAUsed' \in BOOLEAN
        /\ gc'.phase \in HeapPhases
    BY <1>2, <1>3 DEF TypeOK
  <2> QED
    BY <1>4, <1>6, <2>1, TypesNext
<1>11. /\ chunks'[idle'] = <<>>
       /\ \A p \in arrays' : Unmarked(mem', p) /\ Unforwarded(mem', p)
       /\ gc' = NotCollecting
  BY <1>2, <1>3, <1>5
<1> QED
  BY <1>9, <1>10, <1>11, Fresh

\* The elements a program may use lie in the array, behind its header.
LEMMA ElementFacts ==
  ASSUME Tame, NEW F, NEW ch, NEW A, NEW m, HeapOK(F, ch, A, m), NEW p \in A,
         NEW i \in Indices(lengthOf(m[p + 16])), NEW e, e = p + ARRAY_OBJ + 8 * i
  PROVE  /\ e \in Cells /\ e \in Nat /\ e >= p + 24
         /\ covers(m, p, e) /\ ~isPointer(m[e])
<1> DEFINE n == lengthOf(m[p + 16])
<1>1. ArrayOK(m, p) /\ Layout(F, ch, A, m) /\ \A q \in A : ArrayOK(m, q)
  BY DEF HeapOK
<1>2. /\ p \in Nat /\ p % 8 = 0 /\ p >= 16 /\ n \in Nat /\ n >= 2
      /\ Sized(m, p) = 24 + 8 * n
  BY <1>1, ArrayFacts
<1>3. i \in 0 .. n - 3
  BY <1>2 DEF Tame
<1>4. ~isPointer(m[e])
  BY <1>1, <1>3 DEF ArrayOK
<1> HIDE DEF n
<1>5. i \in Nat /\ i =< n - 3
  BY <1>2, <1>3
<1>6. e \in Nat /\ e >= p + 24 /\ e =< p + 8 * n /\ e % 8 = 0
  BY <1>2, <1>5
<1>7. covers(m, p, e)
  BY <1>2, <1>6 DEF covers
<1>8. e \in Cells
  BY <1>1, <1>6, <1>7, ArrayCells
<1> QED
  BY <1>4, <1>6, <1>7, <1>8

\* A register that gets a word that is no pointer.
LEMMA RegisterSet ==
  ASSUME reg \in [Regs -> Word], NEW r \in Regs, NEW w \in Word, ~isPointer(w),
         reg' = [reg EXCEPT ![r] = w], stack' = stack, sp' = sp
  PROVE  reg' \in [Regs -> Word] /\ RootPointers' \subseteq RootPointers
<1>1. reg' \in [Regs -> Word] /\ \A q \in Regs : reg'[q] = IF q = r THEN w ELSE reg[q]
  OBVIOUS
<1> SUFFICES ASSUME NEW q \in RootPointers' PROVE q \in RootPointers
  BY <1>1
<1>2. \/ \E x \in Regs : isPointer(reg'[x]) /\ q = decodePointer(reg'[x])
      \/ \E i \in Slots : i < sp' /\ isPointer(stack'[i]) /\ q = decodePointer(stack'[i])
  BY RootsAre
<1>3. \/ \E x \in Regs : isPointer(reg[x]) /\ q = decodePointer(reg[x])
      \/ \E i \in Slots : i < sp /\ isPointer(stack[i]) /\ q = decodePointer(stack[i])
  BY <1>1, <1>2
<1> QED
  BY <1>3, RootsNow, RootIs

\* moveArray reads an element.
LEMMA ArrReadStep ==
  ASSUME Tame, NEW F, IInv(F), NEW target \in Regs, NEW array \in Regs,
         isPointer(reg[array]), NEW i, ArrRead(target, array, i)
  PROVE  IInv(F)'
<1> DEFINE p == decodePointer(reg[array])
           e == p + ARRAY_OBJ + 8 * i
<1>1. /\ Running /\ gc.phase = "idle"
      /\ \/ HeapWild \/ HeapThrew
         \/ /\ i \in Indices(lengthOf(mem[p + 16]))
            /\ reg' = [reg EXCEPT ![target] = mem[e]]
            /\ UNCHANGED <<stack, sp, fp, ip, status, frames, heapVars>>
  BY DEF ArrRead, AccessElement, elementAt, Mutating
<1>2. CASE HeapWild \/ HeapThrew
  BY <1>2, Stopped DEF IInv
<1>3. CASE /\ i \in Indices(lengthOf(mem[p + 16]))
           /\ reg' = [reg EXCEPT ![target] = mem[e]]
           /\ UNCHANGED <<stack, sp, fp, ip, status, frames, heapVars>>
  <2>1. /\ TypeOK /\ Always(F) /\ gc = NotCollecting
        /\ chunks[idle] = <<>>
        /\ \A q \in arrays : Unmarked(mem, q) /\ Unforwarded(mem, q)
    BY <1>1, IdleFacts
  <2>2. /\ mem' = mem /\ chunks' = chunks /\ totalAllocated' = totalAllocated
        /\ heapAUsed' = heapAUsed /\ gc' = gc /\ arrays' = arrays
        /\ stack' = stack /\ sp' = sp /\ fp' = fp /\ ip' = ip /\ status' = status
    BY <1>3 DEF heapVars
  <2>3. p \in arrays
    <3>1. p \in RootPointers
      BY <1>1, RootsNow, RootIs
    <3> QED
      BY <2>1, <3>1, StateFacts DEF ArraysOf
  <2>4. e \in Cells /\ ~isPointer(mem[e]) /\ mem[e] \in Word
    <3>1. HeapOK(F, chunks, arrays, mem) /\ mem \in [Cells -> Word]
      BY <2>1, StateFacts
    <3> QED
      BY <1>3, <2>3, <3>1, ElementFacts
  <2>5. reg' \in [Regs -> Word] /\ RootPointers' \subseteq RootPointers
    <3> HIDE DEF e
    <3> QED
      BY <1>3, <2>1, <2>2, <2>4, StateFacts, RegisterSet
  <2>6. active' = active /\ idle' = idle
    BY <2>2, TwoSpaces
  <2>7. Always(F)'
    <3>1. RootPointers' \subseteq Arrays(active)'
      BY <2>1, <2>2, <2>5, <2>6, StateFacts, ArraysNow
    <3> QED
      BY <2>1, <2>2, <3>1 DEF Always
  <2>8. TypeOK'
    <3>1. HeapOK(F, chunks', arrays', mem')
      BY <2>1, <2>2, StateFacts
    <3>2. /\ totalAllocated' \in [Spaces -> Nat] /\ heapAUsed' \in BOOLEAN
          /\ gc'.phase \in HeapPhases /\ stack' \in [Slots -> Word]
          /\ status' \in {"running", "wild", "threw", "halted"}
      BY <2>1, <2>2 DEF TypeOK
    <3> QED
      BY <2>5, <3>1, <3>2, TypesNext
  <2>9. /\ chunks'[idle'] = <<>>
        /\ \A q \in arrays' : Unmarked(mem', q) /\ Unforwarded(mem', q)
        /\ gc' = NotCollecting
    BY <2>1, <2>2, <2>6
  <2> QED
    BY <2>7, <2>8, <2>9, Fresh
<1> QED
  BY <1>1, <1>2, <1>3

\* The heap after an element was written.
LEMMA ElementWritten ==
  ASSUME Tame, NEW F, NEW ch, NEW A, NEW m, HeapOK(F, ch, A, m), NEW p \in A,
         NEW i \in Indices(lengthOf(m[p + 16])), NEW e, e = p + ARRAY_OBJ + 8 * i,
         NEW w \in Word, ~isPointer(w), NEW m2 \in [Cells -> Word],
         \A a \in Cells : m2[a] = IF a = e THEN w ELSE m[a]
  PROVE  /\ HeapOK(F, ch, A, m2)
         /\ \A q \in A : m2[q - 16] = m[q - 16] /\ m2[q - 8] = m[q - 8]
<1>1. /\ e \in Cells /\ e \in Nat /\ e >= p + 24 /\ covers(m, p, e)
  BY ElementFacts
<1>2. Layout(F, ch, A, m) /\ \A q \in A : ArrayOK(m, q)
  BY DEF HeapOK
<1>3. \A q \in A : /\ q \in Nat /\ q >= 16
                   /\ q - 16 \in Cells /\ q - 8 \in Cells /\ q \in Cells /\ q + 16 \in Cells
                   /\ covers(m, q, q - 16) /\ covers(m, q, q - 8) /\ covers(m, q, q)
                   /\ covers(m, q, q + 16)
  BY OwnWords
<1>4. \A q \in A, a \in Nat : covers(m, p, a) /\ covers(m, q, a) => p = q
  BY OwnWords
<1>5. ASSUME NEW q \in A
      PROVE  q - 16 # e /\ q - 8 # e /\ q # e /\ q + 16 # e
  <2>1. CASE q = p
    BY <1>1, <1>3, <2>1
  <2>2. CASE q # p
    BY <1>1, <1>3, <1>4, <2>2
  <2> QED
    BY <2>1, <2>2
<1>6. \A q \in A : /\ m2[q - 16] = m[q - 16] /\ m2[q - 8] = m[q - 8]
                   /\ m2[q] = m[q] /\ m2[q + 16] = m[q + 16]
                   /\ Sized(m2, q) = Sized(m, q)
  BY <1>3, <1>5 DEF Sized
<1>7. Layout(F, ch, A, m2)
  BY <1>2, <1>6, LayoutSame
<1>8. ASSUME NEW q \in A PROVE ArrayOK(m2, q)
  <2>0. ArrayOK(m, q)
    BY <1>2
  <2>1. CASE q # p
    <3>1. ASSUME NEW a \in Nat, a % 8 = 0, q =< a, a < q - OBJ_HEADER + Sized(m, q)
          PROVE  m2[a] = m[a]
      <4>1. covers(m, q, a)
        BY <1>3, <3>1 DEF covers
      <4>2. a \in Cells
        BY <1>2, <3>1, <4>1, ArrayCells
      <4>3. a # e
        BY <1>1, <1>4, <2>1, <4>1
      <4> QED
        BY <4>2, <4>3
    <3>2. typeOf(m2[q - OBJ_HEADER]) = typeOf(m[q - OBJ_HEADER])
      BY <1>6
    <3> QED
      BY <1>6, <2>0, <3>1, <3>2, ArrayKept
  <2>2. CASE q = p
    <3> DEFINE n == lengthOf(m[p + 16])
    <3>1. lengthOf(m2[p + 16]) = n
      BY <1>6
    <3>2. n \in Nat /\ n >= 2 /\ Sized(m, p) = 24 + 8 * n /\ p % 8 = 0
      BY <1>2, ArrayFacts
    <3>3. ASSUME NEW k \in 0 .. n - 3
          PROVE  ~isPointer(m2[p + ARRAY_OBJ + 8 * k])
      <4> DEFINE d == p + ARRAY_OBJ + 8 * k
      <4>1. ~isPointer(m[d])
        BY <2>0, <2>2 DEF ArrayOK
      <4>2. d \in Nat /\ d % 8 = 0 /\ d >= p /\ d < p - 16 + Sized(m, p)
        <5> HIDE DEF n
        <5> QED
          BY <1>3, <3>2
      <4>3. d \in Cells
        <5>1. covers(m, p, d)
          BY <1>3, <4>2 DEF covers
        <5> QED
          BY <1>2, <4>2, <5>1, ArrayCells
      <4> HIDE DEF d
      <4>4. ~isPointer(m2[d])
        BY <4>1, <4>3
      <4> QED
        BY <4>4 DEF d
    <3> QED
      BY <1>6, <2>0, <2>2, <3>1, <3>3 DEF ArrayOK
  <2> QED
    BY <2>1, <2>2
<1>9. Clear(A, m2)
  <2> SUFFICES ASSUME NEW a \in Cells, \A q \in A : ~covers(m2, q, a)
               PROVE  m2[a] = ZERO
    BY DEF Clear
  <2>1. \A q \in A : ~covers(m, q, a)
    BY <1>6 DEF covers
  <2>2. m[a] = ZERO /\ a # e
    BY <1>1, <2>1 DEF HeapOK, Clear
  <2> QED
    BY <2>2
<1> QED
  BY <1>6, <1>7, <1>8, <1>9 DEF HeapOK

\* moveArray writes an element.
LEMMA ArrInsertStep ==
  ASSUME Tame, NEW F, IInv(F), NEW source \in Regs, NEW array \in Regs,
         isPointer(reg[array]), ~isPointer(reg[source]), NEW i, ArrInsert(source, array, i)
  PROVE  IInv(F)'
<1> DEFINE p == decodePointer(reg[array])
           e == p + ARRAY_OBJ + 8 * i
<1>1. /\ Running /\ gc.phase = "idle"
      /\ \/ HeapWild \/ HeapThrew
         \/ /\ i \in Indices(lengthOf(mem[p + 16]))
            /\ mem' = [mem EXCEPT ![e] = reg[source]]
            /\ UNCHANGED <<stackVars, chunks, totalAllocated, heapAUsed, gc, arrays>>
  BY DEF ArrInsert, AccessElement, elementAt, Mutating
<1>2. CASE HeapWild \/ HeapThrew
  BY <1>2, Stopped DEF IInv
<1>3. CASE /\ i \in Indices(lengthOf(mem[p + 16]))
           /\ mem' = [mem EXCEPT ![e] = reg[source]]
           /\ UNCHANGED <<stackVars, chunks, totalAllocated, heapAUsed, gc, arrays>>
  <2>1. /\ TypeOK /\ Always(F) /\ gc = NotCollecting
        /\ chunks[idle] = <<>>
        /\ \A q \in arrays : Unmarked(mem, q) /\ Unforwarded(mem, q)
        /\ HeapOK(F, chunks, arrays, mem)
    BY <1>1, IdleFacts, StateFacts
  <2>2. /\ chunks' = chunks /\ totalAllocated' = totalAllocated
        /\ heapAUsed' = heapAUsed /\ gc' = gc /\ arrays' = arrays
        /\ reg' = reg /\ stack' = stack /\ sp' = sp /\ fp' = fp /\ ip' = ip /\ status' = status
    BY <1>3 DEF stackVars
  <2>3. p \in arrays
    <3>1. p \in RootPointers
      BY <1>1, RootsAre
    <3> QED
      BY <2>1, <3>1, StateFacts DEF ArraysOf
  <2>4. ~isPointer(reg[source]) /\ reg[source] \in Word
    BY <2>1, StateFacts
  <2>5. mem' \in [Cells -> Word] /\ \A a \in Cells : mem'[a] = IF a = e THEN reg[source] ELSE mem[a]
    <3> HIDE DEF e
    <3> QED
      BY <1>3, <2>1, <2>4, StateFacts
  <2>6. /\ HeapOK(F, chunks, arrays, mem')
        /\ \A q \in arrays : mem'[q - 16] = mem[q - 16] /\ mem'[q - 8] = mem[q - 8]
    <3>1. i \in Indices(lengthOf(mem[p + 16]))
      BY <1>3
    <3>2. e = p + ARRAY_OBJ + 8 * i
      OBVIOUS
    <3> HIDE DEF p, e
    <3> QED
      BY <2>1, <2>3, <2>4, <2>5, <3>1, <3>2, ElementWritten
  <2>7. active' = active /\ idle' = idle
    BY <2>2, TwoSpaces
  <2>8. Always(F)'
    <3>1. RootPointers' = RootPointers
      BY <2>2, RootsNow
    <3>2. RootPointers' \subseteq Arrays(active)'
      BY <2>1, <2>2, <2>7, <3>1, StateFacts, ArraysNow
    <3> QED
      BY <2>1, <2>2, <2>6, <3>2 DEF Always
  <2>9. TypeOK'
    BY <2>1, <2>2, <2>5 DEF TypeOK, Slots, Cells, HeapPhases
  <2>10. /\ chunks'[idle'] = <<>>
         /\ \A q \in arrays' : Unmarked(mem', q) /\ Unforwarded(mem', q)
         /\ gc' = NotCollecting
    BY <2>1, <2>2, <2>6, <2>7 DEF Unmarked, Unforwarded
  <2> QED
    BY <2>8, <2>9, <2>10, Fresh
<1> QED
  BY <1>1, <1>2, <1>3

\* end.
LEMMA EndStep ==
  ASSUME Tame, NEW F, IInv(F), End
  PROVE  IInv(F)'
<1>1. /\ status' = "halted" /\ mem' = released(mem, Held)
      /\ chunks' = [s \in Spaces |-> <<>>] /\ totalAllocated' = [s \in Spaces |-> 0]
      /\ arrays' = {}
      /\ reg' = reg /\ stack' = stack /\ heapAUsed' = heapAUsed /\ gc' = gc
  BY DEF End
<1>2. TypeOK
  BY DEF IInv
<1>3. mem' \in [Cells -> Word]
  BY <1>1, <1>2, ZeroWord DEF TypeOK, released, overwrite
<1>4. \A s \in Spaces : chunks'[s] \in Seq([mem : Regions, used : 1 .. CHUNK_SIZE])
  BY <1>1
<1>5. TypeOK'
  BY <1>1, <1>2, <1>3, <1>4 DEF TypeOK, HeapPhases
<1>6. ~Running'
  BY <1>1 DEF Running
<1> QED
  BY <1>5, <1>6 DEF IInv

\* A step of the collector that only moves its own state.
LEMMA QuietStep ==
  ASSUME Tame, NEW F, TypeOK, Running, Always(F),
         stackVars' = stackVars, mem' = mem, chunks' = chunks,
         totalAllocated' = totalAllocated, heapAUsed' = heapAUsed, arrays' = arrays,
         DOMAIN gc' = gcFields, gc'.phase \in HeapPhases
  PROVE  /\ TypeOK' /\ Always(F)' /\ active' = active /\ idle' = idle
         /\ RootPointers' = RootPointers /\ Roots' = Roots
         /\ \A s : Arrays(s)' = Arrays(s)
<1>1. /\ reg' = reg /\ stack' = stack /\ sp' = sp /\ fp' = fp /\ ip' = ip /\ status' = status
  BY DEF stackVars
<1>2. TypeOK'
  BY <1>1 DEF TypeOK, Slots, Cells
<1>3. active' = active /\ idle' = idle
  BY TwoSpaces
<1>4. RootPointers' = RootPointers /\ Roots' = Roots
  BY <1>1, RootsNow
<1>5. \A s : Arrays(s)' = Arrays(s)
  BY ArraysNow
<1>6. Always(F)'
  BY <1>1, <1>3, <1>4, <1>5 DEF Always
<1> QED
  BY <1>2, <1>3, <1>4, <1>5, <1>6

\* A collection starts at the first object of the active half-space.
LEMMA FirstCursor ==
  ASSUME Tame, NEW F, NEW ch, NEW A, NEW m, Layout(F, ch, A, m), NEW s \in Spaces,
         ch[s] # <<>>
  PROVE  1 \in DOMAIN ch[s] /\ CursorOK(ch[s], A, <<1, 0>>)
<1>1. ch[s] \in Seq(HeapChunk) /\ DOMAIN ch[s] = 1 .. Len(ch[s]) /\ Len(ch[s]) \in Nat
  BY ChunkNumbers
<1>2. 1 \in DOMAIN ch[s]
  BY <1>1
<1>3. ch[s][1].mem \in Nat /\ ch[s][1].used \in Nat /\ ch[s][1].used > 0
  BY <1>2, ChunkNumbers
<1>4. ch[s][1].mem + 16 \in A
  BY <1>2 DEF Layout
<1>5. ch[s][1].mem + 0 + 16 \in A /\ 0 < ch[s][1].used
  BY <1>3, <1>4
<1> QED
  BY <1>2, <1>5 DEF CursorOK

LEMMA StartGCStep ==
  ASSUME Tame, NEW F, IInv(F), NEW dst \in Regs, NEW length \in Lengths, NEW type \in Types,
         StartGC(dst, length, type)
  PROVE  IInv(F)'
<1>1. /\ Running /\ gc.phase = "idle" /\ NeedsGC
      /\ gc' = [NotCollecting EXCEPT !.phase = "walk", !.want = <<dst, length, type>>]
      /\ stackVars' = stackVars /\ mem' = mem /\ chunks' = chunks
      /\ totalAllocated' = totalAllocated /\ heapAUsed' = heapAUsed /\ arrays' = arrays
  BY DEF StartGC, Mutating
<1>2. /\ TypeOK /\ Always(F) /\ chunks[idle] = <<>>
      /\ \A p \in arrays : Unmarked(mem, p) /\ Unforwarded(mem, p)
  BY <1>1, IdleFacts
<1>3. /\ gc'.phase = "walk" /\ gc'.at = <<1, 0>> /\ gc'.objects = <<>>
      /\ gc'.want = <<dst, length, type>> /\ DOMAIN gc' = gcFields
  BY <1>1 DEF NotCollecting, gcFields
<1>4. /\ TypeOK' /\ Always(F)' /\ active' = active /\ idle' = idle
  BY <1>1, <1>2, <1>3, QuietStep DEF HeapPhases
<1>5. chunks[active] # <<>>
  <2>1. SUFFICES ASSUME chunks[active] = <<>> PROVE FALSE
    OBVIOUS
  <2>2. totalAllocated[active] = 0
    BY <1>2, <2>1, StateFacts, TwoSpaces, BytesOfNone
  <2>3. max \in Nat
    BY HeapAssumption
  <2> QED
    BY <1>1, <2>2, <2>3 DEF NeedsGC
<1>6. 1 \in DOMAIN chunks[active] /\ CursorOK(chunks[active], arrays, <<1, 0>>)
  BY <1>2, <1>5, StateFacts, TwoSpaces, FirstCursor
<1>7. BeforeMove'
  BY <1>1, <1>2, <1>4 DEF BeforeMove
<1>8. BeforeMark'
  BY <1>1, <1>2, <1>3 DEF BeforeMark
<1>9. InWalk'
  <2>1. gc'.objects \in Seq(Cells) /\ \A k \in 1 .. Len(gc'.objects) : FALSE
    BY <1>3
  <2>2. <<1, 0>>[1] = 1
    OBVIOUS
  <2> QED
    BY <1>1, <1>3, <1>4, <1>6, <2>1, <2>2 DEF InWalk
<1>10. AfterMark' /\ InMove'
  BY <1>3 DEF AfterMark, InMove
<1> QED
  BY <1>4, <1>7, <1>8, <1>9, <1>10 DEF IInv

\* The object under the cursor.
LEMMA UnderCursor ==
  ASSUME Tame, NEW F, TypeOK, Always(F),
         CursorOK(chunks[active], arrays, gc.at), gc.at[1] \in DOMAIN chunks[active],
         NEW p, p = objAt + 16, NEW next, next = after(sizeOf(mem[objAt]))
  PROVE  /\ objAt \in Nat /\ objAt \in Cells /\ p - 16 = objAt
         /\ p \in arrays /\ p \in ArraysOf(chunks, arrays, active)
         /\ Sized(mem, p) = sizeOf(mem[objAt])
         /\ Mapped(Held, {objAt}) /\ sizeOf(mem[objAt]) # 0
         /\ CursorOK(chunks[active], arrays, next)
         /\ walked(next) <=> next[1] \notin DOMAIN chunks[active]
         /\ ~Passed(mem, chunks[active], gc.at, p)
         /\ \A q \in ArraysOf(chunks, arrays, active) :
              Passed(mem, chunks[active], next, q) <=>
                Passed(mem, chunks[active], gc.at, q) \/ q = p
<1>1. /\ HeapOK(F, chunks, arrays, mem) /\ Layout(F, chunks, arrays, mem)
      /\ \A q \in arrays : ArrayOK(mem, q)
      /\ active \in Spaces
      /\ DOMAIN chunks[active] = 1 .. Len(chunks[active]) /\ Len(chunks[active]) \in Nat
      /\ chunks[active][gc.at[1]].mem \in Nat
  BY StateFacts, ChunkNumbers, TwoSpaces
<1>2. gc.at \in (Nat \ {0}) \X Nat
  BY CursorType
<1>3. objAt \in Nat
  <2>1. chunks[active][gc.at[1]].mem \in Nat
    BY <1>1
  <2>2. gc.at[2] \in Nat
    BY <1>2
  <2> QED
    BY <2>1, <2>2 DEF objAt
<1>4. p - 16 = objAt
  BY <1>3
<1>5. Sized(mem, p) = sizeOf(mem[objAt])
  BY <1>4 DEF Sized
<1>6. next = nextAt(chunks[active], gc.at, Sized(mem, p))
  BY <1>5 DEF after, nextAt
<1>7. p = chunks[active][gc.at[1]].mem + gc.at[2] + 16
  BY DEF objAt
<1> DEFINE cs == chunks[active]
<1>8. /\ p \in arrays /\ p \in ArraysOf(chunks, arrays, active)
      /\ CursorOK(cs, arrays, next)
      /\ ~Passed(mem, cs, gc.at, p)
      /\ \A q \in ArraysOf(chunks, arrays, active) :
           Passed(mem, cs, next, q) <=> Passed(mem, cs, gc.at, q) \/ q = p
  BY <1>1, <1>6, <1>7, CursorStep
<1>9. objAt \in Cells
  BY <1>1, <1>4, <1>8, OwnWords
<1>10. Mapped(Held, {objAt})
  <2>1. Mapped(heldBy(chunks[active]), {objAt})
    BY <1>4, <1>8 DEF ArraysOf
  <2>2. heldBy(chunks[active]) \subseteq Held
    BY DEF Held, active
  <2> QED
    BY <2>1, <2>2 DEF Mapped
<1>11. sizeOf(mem[objAt]) # 0
  BY <1>1, <1>5, <1>8, ArrayFacts
<1>12. walked(next) <=> next[1] \notin DOMAIN chunks[active]
  <2>1. next[1] \in Nat \ {0}
    BY <1>8 DEF CursorOK
  <2> QED
    BY <1>1, <2>1 DEF walked
<1> QED
  BY <1>3, <1>4, <1>5, <1>8, <1>9, <1>10, <1>11, <1>12

\* getAllObjects, one object.
LEMMA WalkObjectStep ==
  ASSUME Tame, NEW F, IInv(F), WalkObject
  PROVE  IInv(F)'
<1> DEFINE next == after(sizeOf(mem[objAt]))
           p    == objAt + 16
<1>1. /\ Running /\ gc.phase = "walk"
      /\ \/ HeapWild \/ HeapThrew
         \/ /\ gc' = [gc EXCEPT !.objects = Append(@, objAt), !.at = next,
                                !.phase = IF walked(next) THEN "mark" ELSE "walk"]
            /\ UNCHANGED <<stackVars, mem, chunks, totalAllocated, heapAUsed, arrays>>
  BY DEF WalkObject
<1>2. CASE HeapWild \/ HeapThrew
  BY <1>2, Stopped DEF IInv
<1>3. CASE /\ gc' = [gc EXCEPT !.objects = Append(@, objAt), !.at = next,
                                !.phase = IF walked(next) THEN "mark" ELSE "walk"]
           /\ UNCHANGED <<stackVars, mem, chunks, totalAllocated, heapAUsed, arrays>>
  <2>1. /\ TypeOK /\ Always(F) /\ chunks[idle] = <<>>
        /\ \A q \in arrays : Unmarked(mem, q) /\ Unforwarded(mem, q)
        /\ gc.want \in Regs \X Lengths \X Types
        /\ CursorOK(chunks[active], arrays, gc.at) /\ gc.at[1] \in DOMAIN chunks[active]
        /\ gc.objects \in Seq(Cells)
        /\ \A k \in 1 .. Len(gc.objects) : gc.objects[k] + 16 \in arrays
    BY <1>1 DEF IInv, BeforeMove, BeforeMark, InWalk
  <2>2. DOMAIN gc = gcFields
    BY <2>1 DEF Always
  <2>3. /\ DOMAIN gc' = gcFields
        /\ gc'.phase = IF walked(next) THEN "mark" ELSE "walk"
        /\ gc'.at = next /\ gc'.objects = Append(gc.objects, objAt) /\ gc'.want = gc.want
    <3> HIDE DEF next
    <3> QED
      BY <1>3, <2>2 DEF gcFields
  <2>4. TypeOK' /\ Always(F)' /\ active' = active /\ idle' = idle
    <3>1. gc'.phase \in HeapPhases
      BY <2>3 DEF HeapPhases
    <3> QED
      BY <1>1, <1>3, <2>1, <2>3, <3>1, QuietStep
  <2>5. /\ objAt \in Cells /\ p \in arrays
        /\ CursorOK(chunks[active], arrays, next)
        /\ walked(next) <=> next[1] \notin DOMAIN chunks[active]
    BY <2>1, UnderCursor
  <2>6. BeforeMove' /\ BeforeMark'
    BY <1>3, <2>1, <2>3, <2>4 DEF BeforeMove, BeforeMark
  <2>7. /\ gc'.objects \in Seq(Cells) /\ gc'.objects # <<>>
        /\ \A k \in 1 .. Len(gc'.objects) : gc'.objects[k] + 16 \in arrays
    BY <2>1, <2>3, <2>5, Appended
  <2>8. chunks[active] # <<>>
    BY <2>1
  <2>9. InWalk'
    <3> HIDE DEF next
    <3> QED
      BY <1>3, <2>3, <2>4, <2>5, <2>7, <2>8 DEF InWalk
  <2>10. AfterMark' /\ InMove'
    BY <2>3 DEF AfterMark, InMove
  <2> QED
    BY <2>4, <2>6, <2>9, <2>10 DEF IInv
<1> QED
  BY <1>1, <1>2, <1>3

\* The heap after the headers H of some arrays were marked.
LEMMA MarkedHeap ==
  ASSUME Tame, NEW F, NEW ch, NEW A, NEW m, HeapOK(F, ch, A, m),
         NEW H, \A a \in H : a \in Nat /\ a + 16 \in A,
         NEW m2, m2 = overwrite(m, [a \in H |-> marked(m[a])])
  PROVE  /\ HeapOK(F, ch, A, m2)
         /\ \A p \in A : /\ m2[p - 8] = m[p - 8]
                         /\ m2[p - 16] = IF p - 16 \in H THEN marked(m[p - 16]) ELSE m[p - 16]
<1>1. /\ Layout(F, ch, A, m) /\ \A p \in A : ArrayOK(m, p)
      /\ m \in [Cells -> Word]
  BY DEF HeapOK
<1>2. \A a \in Cells : m2[a] = IF a \in H THEN marked(m[a]) ELSE m[a]
  BY <1>1 DEF overwrite
<1>3. \A a \in Cells : marked(m[a]) \in Word
  BY <1>1, MarkedWord
<1>4. m2 \in [Cells -> Word]
  BY <1>1, <1>3 DEF overwrite
<1>5. \A p \in A : /\ p \in Nat /\ p >= 16
                   /\ p - 16 \in Cells /\ p - 8 \in Cells
                   /\ covers(m, p, p - 16) /\ covers(m, p, p - 8)
  BY OwnWords
<1>6. \A p, q \in A, a \in Nat : covers(m, p, a) /\ covers(m, q, a) => p = q
  BY OwnWords
\* In an array only the first word can be one of H.
<1>7. ASSUME NEW p \in A, NEW a \in Nat, covers(m, p, a), a \in H
      PROVE  a = p - 16
  <2>1. a + 16 \in A /\ (a + 16) - 16 = a
    BY <1>7
  <2>2. covers(m, a + 16, a)
    BY <1>5, <2>1
  <2>3. p = a + 16
    BY <1>6, <1>7, <2>1, <2>2
  <2> QED
    BY <2>1, <2>3
<1>8. ASSUME NEW p \in A
      PROVE  /\ m2[p - 8] = m[p - 8]
             /\ m2[p - 16] = IF p - 16 \in H THEN marked(m[p - 16]) ELSE m[p - 16]
             /\ Sized(m2, p) = Sized(m, p)
             /\ typeOf(m2[p - 16]) = typeOf(m[p - 16])
  <2>1. p \in Nat /\ p >= 16 /\ p - 8 \in Nat /\ p - 8 # p - 16
    BY <1>5
  <2>2. p - 8 \notin H
    BY <1>5, <1>7, <2>1
  <2>3. m[p - 16] \in Word
    BY <1>1, <1>5
  <2>4. sizeOf(m2[p - 16]) = sizeOf(m[p - 16]) /\ typeOf(m2[p - 16]) = typeOf(m[p - 16])
    BY <1>2, <1>5, <2>3, MarkedWord
  <2> QED
    BY <1>2, <1>5, <2>2, <2>4 DEF Sized
<1>9. Layout(F, ch, A, m2)
  BY <1>1, <1>8, LayoutSame
<1>10. ASSUME NEW p \in A PROVE ArrayOK(m2, p)
  <2>1. ArrayOK(m, p)
    BY <1>1
  <2>2. ASSUME NEW a \in Nat, a % 8 = 0, p =< a, a < p - OBJ_HEADER + Sized(m, p)
        PROVE  m2[a] = m[a]
    <3>1. covers(m, p, a)
      BY <1>5, <2>2 DEF covers
    <3>2. a \in Cells
      BY <1>1, <2>2, <3>1, ArrayCells
    <3>3. a # p - 16
      BY <1>5, <2>2
    <3> QED
      BY <1>2, <1>7, <3>1, <3>2, <3>3
  <2>3. /\ Sized(m2, p) = Sized(m, p)
        /\ typeOf(m2[p - OBJ_HEADER]) = typeOf(m[p - OBJ_HEADER])
    BY <1>8
  <2> QED
    BY <2>1, <2>2, <2>3, ArrayKept
<1>11. Clear(A, m2)
  <2> SUFFICES ASSUME NEW a \in Cells, \A p \in A : ~covers(m2, p, a)
               PROVE  m2[a] = ZERO
    BY DEF Clear
  <2>1. \A p \in A : ~covers(m, p, a)
    BY <1>8 DEF covers
  <2>2. m[a] = ZERO
    BY <2>1 DEF HeapOK, Clear
  <2>3. a \notin H
    <3>1. SUFFICES ASSUME a \in H PROVE FALSE
      OBVIOUS
    <3>2. a + 16 \in A /\ (a + 16) - 16 = a
      BY <3>1
    <3>3. covers(m, a + 16, a)
      BY <1>5, <3>2
    <3> QED
      BY <2>1, <3>2, <3>3
  <2> QED
    BY <1>2, <2>2, <2>3
<1> QED
  BY <1>4, <1>8, <1>9, <1>10, <1>11 DEF HeapOK

\* markObjects, the roots.
LEMMA MarkRootsStep ==
  ASSUME Tame, NEW F, IInv(F), MarkRoots
  PROVE  IInv(F)'
<1> DEFINE H == {decodePointer(rootValue(l)) - OBJ_HEADER : l \in Roots}
<1>1. /\ Running /\ gc.phase = "mark"
      /\ \/ HeapWild
         \/ /\ mem' = overwrite(mem, [a \in H |-> marked(mem[a])])
            /\ gc' = [gc EXCEPT !.phase = "scan", !.ptrHolder = Roots]
            /\ UNCHANGED <<stackVars, chunks, totalAllocated, heapAUsed, arrays>>
  BY DEF MarkRoots
<1>2. CASE HeapWild
  BY <1>2, Stopped DEF IInv
<1>3. CASE /\ mem' = overwrite(mem, [a \in H |-> marked(mem[a])])
           /\ gc' = [gc EXCEPT !.phase = "scan", !.ptrHolder = Roots]
           /\ UNCHANGED <<stackVars, chunks, totalAllocated, heapAUsed, arrays>>
  <2>1. /\ TypeOK /\ Always(F) /\ chunks[idle] = <<>>
        /\ \A q \in arrays : Unmarked(mem, q) /\ Unforwarded(mem, q)
        /\ gc.want \in Regs \X Lengths \X Types
        /\ gc.objects \in Seq(Cells) /\ gc.objects # <<>>
        /\ \A k \in 1 .. Len(gc.objects) : gc.objects[k] + 16 \in arrays
        /\ chunks[active] # <<>>
    BY <1>1 DEF IInv, BeforeMove, BeforeMark, InWalk
  <2>2. /\ reg' = reg /\ stack' = stack /\ sp' = sp /\ fp' = fp /\ ip' = ip /\ status' = status
        /\ chunks' = chunks /\ totalAllocated' = totalAllocated
        /\ heapAUsed' = heapAUsed /\ arrays' = arrays
    BY <1>3 DEF stackVars
  <2>3. /\ DOMAIN gc' = gcFields /\ gc'.phase = "scan" /\ gc'.ptrHolder = Roots
        /\ gc'.objects = gc.objects /\ gc'.want = gc.want
    <3>1. DOMAIN gc = gcFields
      BY <2>1 DEF Always
    <3> QED
      BY <1>3, <3>1 DEF gcFields
  <2>4. H = {q - 16 : q \in RootPointers}
    BY DEF RootPointers
  <2> HIDE DEF H
  <2>5. \A q \in RootPointers : q \in arrays
    BY <2>1, StateFacts DEF ArraysOf
  <2>6. \A q \in arrays : q \in Nat /\ q >= 16
    BY <2>1, StateFacts, OwnWords
  <2>7. \A a \in H : a \in Nat /\ a + 16 \in arrays
    BY <2>4, <2>5, <2>6
  <2>8. /\ HeapOK(F, chunks, arrays, mem')
        /\ \A q \in arrays :
             /\ mem'[q - 8] = mem[q - 8]
             /\ mem'[q - 16] = IF q - 16 \in H THEN marked(mem[q - 16]) ELSE mem[q - 16]
    <3>1. HeapOK(F, chunks, arrays, mem)
      BY <2>1, StateFacts
    <3>2. mem' = overwrite(mem, [a \in H |-> marked(mem[a])])
      BY <1>3
    <3> QED
      BY <2>7, <3>1, <3>2, MarkedHeap
  <2>9. /\ active' = active /\ idle' = idle /\ RootPointers' = RootPointers /\ Roots' = Roots
        /\ \A s : Arrays(s)' = Arrays(s)
    BY <2>2, TwoSpaces, RootsNow, ArraysNow
  <2>10. Always(F)'
    BY <2>1, <2>2, <2>3, <2>8, <2>9 DEF Always
  <2>11. TypeOK'
    <3>1. HeapOK(F, chunks', arrays', mem')
      BY <2>2, <2>8
    <3>2. /\ reg' \in [Regs -> Word] /\ stack' \in [Slots -> Word]
          /\ totalAllocated' \in [Spaces -> Nat] /\ heapAUsed' \in BOOLEAN
          /\ gc'.phase \in HeapPhases
          /\ status' \in {"running", "wild", "threw", "halted"}
      BY <2>1, <2>2, <2>3 DEF TypeOK, HeapPhases
    <3> QED
      BY <3>1, <3>2, TypesNext
  <2>12. BeforeMove' /\ BeforeMark' /\ InWalk'
    BY <2>1, <2>2, <2>3, <2>8, <2>9 DEF BeforeMove, BeforeMark, InWalk, Unforwarded
  <2>13. AfterMark'
    <3>1. ASSUME NEW q \in Arrays(active)
          PROVE  flagsOf(mem'[q - 16]) = IF q \in RootPointers THEN FLAG_MARKED ELSE 0
      <4>1. q \in arrays
        BY <3>1 DEF Arrays
      <4>2. flagsOf(mem[q - 16]) = 0
        BY <2>1, <4>1 DEF Unmarked
      <4>3. q - 16 \in H <=> q \in RootPointers
        <5>1. ASSUME q - 16 \in H PROVE q \in RootPointers
          <6>1. PICK x \in RootPointers : q - 16 = x - 16
            BY <2>4, <5>1
          <6>2. q = x
            BY <2>5, <2>6, <4>1, <6>1
          <6> QED
            BY <6>2
        <5>2. q \in RootPointers => q - 16 \in H
          BY <2>4
        <5> QED
          BY <5>1, <5>2
      <4>4. mem[q - 16] \in Word
        <5>1. HeapOK(F, chunks, arrays, mem) /\ mem \in [Cells -> Word]
          BY <2>1, StateFacts
        <5> QED
          BY <4>1, <5>1, OwnWords
      <4>5. flagsOf(marked(mem[q - 16])) = FLAG_MARKED
        BY <4>2, <4>4, MarkedWord
      <4> QED
        BY <2>8, <4>1, <4>2, <4>3, <4>5
    <3> QED
      BY <2>3, <2>9, <3>1 DEF AfterMark
  <2>14. InMove'
    BY <2>3 DEF InMove
  <2> QED
    BY <2>10, <2>11, <2>12, <2>13, <2>14 DEF IInv
<1> QED
  BY <1>1, <1>2, <1>3

\* What is left of a list of several.
LEMMA TailOf ==
  ASSUME NEW S, NEW s \in Seq(S), s # <<>>, Len(s) # 1
  PROVE  /\ Tail(s) \in Seq(S) /\ Tail(s) # <<>>
         /\ \A k \in 1 .. Len(Tail(s)) : k + 1 \in 1 .. Len(s) /\ Tail(s)[k] = s[k + 1]
<1>1. Len(s) \in Nat /\ Len(s) # 0
  OBVIOUS
<1>2. Len(s) >= 2
  <2>1. \A n \in Nat : n # 0 /\ n # 1 => n >= 2
    OBVIOUS
  <2> QED
    BY <1>1, <2>1
<1>3. /\ Tail(s) \in Seq(S) /\ Len(Tail(s)) = Len(s) - 1
      /\ \A k \in 1 .. Len(s) - 1 : Tail(s)[k] = s[k + 1]
  OBVIOUS
<1>4. Tail(s) # <<>>
  <2>1. Len(Tail(s)) # 0
    BY <1>1, <1>2, <1>3
  <2>2. \A t \in Seq(S) : Len(t) # 0 => t # <<>>
    OBVIOUS
  <2> QED
    BY <1>3, <2>1, <2>2
<1>5. \A k \in 1 .. Len(s) - 1 : k + 1 \in 1 .. Len(s)
  BY <1>1
<1> QED
  BY <1>3, <1>4, <1>5

\* Nothing is behind a walk that has not begun.
LEMMA NothingPassed ==
  ASSUME Tame, NEW F, NEW ch, NEW A, NEW m, HeapOK(F, ch, A, m), NEW s \in Spaces, NEW p \in A
  PROVE  ~Passed(m, ch[s], <<1, 0>>, p)
<1> SUFFICES ASSUME NEW j \in DOMAIN ch[s], InChunk(m, p, ch[s][j]),
                    j < 1 \/ (j = 1 /\ p - 16 < ch[s][j].mem + 0)
             PROVE  FALSE
  BY DEF Passed
<1>1. Layout(F, ch, A, m)
  BY DEF HeapOK
<1>2. j \in Nat /\ j >= 1 /\ ch[s][j].mem \in Nat
  BY <1>1, ChunkNumbers
<1>3. ch[s][j].mem + 16 =< p /\ p \in Nat
  BY OwnWords DEF InChunk
<1> QED
  BY <1>2, <1>3

\* The arrays of an empty half-space.
LEMMA NoneThere ==
  ASSUME Tame, NEW F, NEW ch, NEW A, NEW m, HeapOK(F, ch, A, m), NEW s \in Spaces,
         ch[s] = <<>>
  PROVE  ArraysOf(ch, A, s) = {}
<1>1. \A p \in A : p \notin ArraysOf(ch, A, s)
  BY ArraysSplit DEF HeapOK
<1> QED
  BY <1>1 DEF ArraysOf

\* An object's first payload word is clear: the scan of an array looks for its
\* type there, finds none and traces nothing.
LEMMA ScanIdle ==
  ASSUME Tame, NEW F, IInv(F), Running, gc.phase = "scan", ScanObject
  PROVE  /\ Head(gc.objects) + 16 \in arrays
         /\ \/ HeapWild
            \/ /\ mem' = mem
               /\ gc' = [gc EXCEPT !.objects = Tail(@), !.ptrHolder = @ \cup {},
                                   !.phase = IF Len(gc.objects) = 1 THEN "move" ELSE "scan",
                                   !.at = <<1, 0>>]
               /\ UNCHANGED <<stackVars, chunks, totalAllocated, heapAUsed, arrays>>
<1> DEFINE obj      == Head(gc.objects)
           isTraced == /\ typeOf(mem[obj]) = OBJ_ARRAY
                       /\ Mapped(Held, {obj + 16})
                       /\ elemType(mem[obj + 16]) = TAG_POINTER
           length   == IF isTraced THEN lengthOf(mem[obj + 16]) ELSE 0
           data     == {a \in Cells : obj + ARRAY_OBJ =< a /\ a < obj + ARRAY_OBJ + 8 * length}
           pointers == {a \in data : isPointer(mem[a])}
           headers  == {decodePointer(mem[a]) - OBJ_HEADER : a \in pointers}
<1>1. /\ TypeOK /\ Always(F)
      /\ gc.objects \in Seq(Cells) /\ gc.objects # <<>>
      /\ \A k \in 1 .. Len(gc.objects) : gc.objects[k] + 16 \in arrays
  BY DEF IInv, InWalk
<1>2. obj \in Cells /\ obj + 16 \in arrays
  BY <1>1
<1>3. obj \in Nat /\ \A a \in Cells : a \in Nat
  BY <1>2, CellFacts
<1>4. mem[obj + 16] = ZERO
  BY <1>1, <1>2, StateFacts DEF ArrayOK
<1> HIDE DEF obj
<1>5. ~isTraced
  BY <1>4 DEF elemType, ZERO, W, TAG_POINTER
<1> HIDE DEF isTraced
<1>6. length = 0
  BY <1>5
<1> HIDE DEF length
<1>7. data = {}
  BY <1>3, <1>6
<1> HIDE DEF data
<1>8. pointers = {}
  BY <1>7
<1>9. headers = {} /\ {<<"mem", a>> : a \in pointers} = {}
  BY <1>8
<1> HIDE DEF pointers, headers
<1>10. overwrite(mem, [a \in headers |-> marked(mem[a])]) = mem
  <2>1. mem \in [Cells -> Word]
    BY <1>1 DEF TypeOK
  <2> QED
    BY <1>9, <2>1 DEF overwrite
<1>11. \/ HeapWild
       \/ /\ mem' = overwrite(mem, [a \in headers |-> marked(mem[a])])
          /\ gc' = [gc EXCEPT !.objects = Tail(@),
                              !.ptrHolder = @ \cup {<<"mem", a>> : a \in pointers},
                              !.phase = IF Len(gc.objects) = 1 THEN "move" ELSE "scan",
                              !.at = <<1, 0>>]
          /\ UNCHANGED <<stackVars, chunks, totalAllocated, heapAUsed, arrays>>
  BY DEF ScanObject, headers, pointers, data, length, isTraced, obj
<1> QED
  BY <1>2, <1>9, <1>10, <1>11 DEF obj

\* markObjects, one turn of the loop over the objects.
LEMMA ScanObjectStep ==
  ASSUME Tame, NEW F, IInv(F), ScanObject
  PROVE  IInv(F)'
<1>1. Running /\ gc.phase = "scan"
  BY DEF ScanObject
<1>2. CASE HeapWild
  BY <1>2, Stopped DEF IInv
<1>3. CASE /\ mem' = mem
           /\ gc' = [gc EXCEPT !.objects = Tail(@), !.ptrHolder = @ \cup {},
                               !.phase = IF Len(gc.objects) = 1 THEN "move" ELSE "scan",
                               !.at = <<1, 0>>]
           /\ UNCHANGED <<stackVars, chunks, totalAllocated, heapAUsed, arrays>>
  <2>1. /\ TypeOK /\ Always(F) /\ chunks[idle] = <<>>
        /\ \A q \in arrays : Unforwarded(mem, q)
        /\ gc.want \in Regs \X Lengths \X Types
        /\ gc.objects \in Seq(Cells) /\ gc.objects # <<>>
        /\ \A k \in 1 .. Len(gc.objects) : gc.objects[k] + 16 \in arrays
        /\ chunks[active] # <<>>
        /\ \A p \in Arrays(active) :
             flagsOf(mem[p - OBJ_HEADER]) = IF p \in RootPointers THEN FLAG_MARKED ELSE 0
        /\ gc.ptrHolder = Roots
    BY <1>1 DEF IInv, BeforeMove, BeforeMark, InWalk, AfterMark
  <2>2. /\ DOMAIN gc' = gcFields
        /\ gc'.phase = IF Len(gc.objects) = 1 THEN "move" ELSE "scan"
        /\ gc'.objects = Tail(gc.objects) /\ gc'.at = <<1, 0>>
        /\ gc'.ptrHolder = Roots /\ gc'.want = gc.want
    <3>1. DOMAIN gc = gcFields
      BY <2>1 DEF Always
    <3>2. gc.ptrHolder \cup {} = Roots
      BY <2>1
    <3> QED
      BY <1>3, <3>1, <3>2 DEF gcFields
  <2>3. /\ TypeOK' /\ Always(F)' /\ active' = active /\ idle' = idle
        /\ RootPointers' = RootPointers /\ Roots' = Roots
        /\ \A s : Arrays(s)' = Arrays(s)
    <3>1. gc'.phase \in HeapPhases
      BY <2>2 DEF HeapPhases
    <3> QED
      BY <1>1, <1>3, <2>1, <2>2, <3>1, QuietStep
  <2>4. BeforeMove' /\ BeforeMark'
    BY <1>3, <2>1, <2>2, <2>3 DEF BeforeMove, BeforeMark
  <2>5. AfterMark'
    BY <1>3, <2>1, <2>2, <2>3 DEF AfterMark
  <2>6. InWalk'
    <3>1. CASE Len(gc.objects) = 1
      BY <2>2, <3>1 DEF InWalk
    <3>2. CASE Len(gc.objects) # 1
      <4>2. /\ gc'.objects \in Seq(Cells) /\ gc'.objects # <<>>
            /\ \A k \in 1 .. Len(gc'.objects) : gc'.objects[k] + 16 \in arrays
        BY <2>1, <2>2, <3>2, TailOf
      <4> QED
        BY <1>3, <2>1, <2>2, <2>3, <3>2, <4>2 DEF InWalk
    <3> QED
      BY <3>1, <3>2
  <2>7. InMove'
    <3>1. CASE Len(gc.objects) # 1
      BY <2>2, <3>1 DEF InMove
    <3>2. CASE Len(gc.objects) = 1
      <4>1. /\ HeapOK(F, chunks, arrays, mem) /\ Layout(F, chunks, arrays, mem)
            /\ active \in Spaces /\ idle \in Spaces
        BY <2>1, StateFacts, TwoSpaces
      <4>2. 1 \in DOMAIN chunks[active] /\ CursorOK(chunks[active], arrays, <<1, 0>>)
        BY <2>1, <4>1, FirstCursor
      <4>3. Arrays(idle) = {}
        BY <2>1, <4>1, NoneThere, ArraysNow
      <4>4. \A p \in Arrays(active) : p \in arrays /\ ~Passed(mem, chunks[active], <<1, 0>>, p)
        <5>1. \A p \in arrays : ~Passed(mem, chunks[active], <<1, 0>>, p)
          BY <4>1, NothingPassed
        <5> QED
          BY <5>1 DEF Arrays
      <4>5. Forwarded(mem, Arrays(active), {}, RootPointers, chunks[active], <<1, 0>>)
        BY <2>1, <4>4 DEF Forwarded
      <4>6. <<1, 0>>[1] = 1
        OBVIOUS
      <4> QED
        BY <1>3, <2>2, <2>3, <3>2, <4>2, <4>3, <4>5, <4>6 DEF InMove
    <3> QED
      BY <3>1, <3>2
  <2> QED
    BY <2>3, <2>4, <2>5, <2>6, <2>7 DEF IInv
<1> QED
  BY <1>1, <1>2, <1>3, ScanIdle

\* What is forwarded depends on the cursor by the marked arrays it has passed.
LEMMA ForwardedSame ==
  ASSUME NEW m, NEW A, NEW B, NEW P, NEW cs, NEW at, Forwarded(m, A, B, P, cs, at), NEW next,
         \A q \in A : q \in P => (Passed(m, cs, next, q) <=> Passed(m, cs, at, q))
  PROVE  Forwarded(m, A, B, P, cs, next)
<1>1. {p \in A : p \in P /\ Passed(m, cs, next, p)} = {p \in A : p \in P /\ Passed(m, cs, at, p)}
  OBVIOUS
<1> QED
  BY <1>1 DEF Forwarded

\* moveObjects leaves an object that is not marked behind.
LEMMA SkipObjectStep ==
  ASSUME Tame, NEW F, IInv(F), SkipObject
  PROVE  IInv(F)'
<1> DEFINE next == after(sizeOf(mem[objAt]))
           p    == objAt + 16
<1>1. /\ Running /\ gc.phase = "move" /\ flagsOf(mem[objAt]) # FLAG_MARKED
      /\ gc' = [gc EXCEPT !.at = next, !.phase = IF walked(next) THEN "patch" ELSE "move"]
      /\ stackVars' = stackVars /\ mem' = mem /\ chunks' = chunks
      /\ totalAllocated' = totalAllocated /\ heapAUsed' = heapAUsed /\ arrays' = arrays
  BY DEF SkipObject
<1>2. /\ TypeOK /\ Always(F)
      /\ gc.want \in Regs \X Lengths \X Types
      /\ \A q \in Arrays(active) :
           flagsOf(mem[q - OBJ_HEADER]) = IF q \in RootPointers THEN FLAG_MARKED ELSE 0
      /\ gc.ptrHolder = Roots
      /\ CursorOK(chunks[active], arrays, gc.at)
      /\ gc.at[1] \in DOMAIN chunks[active]
      /\ \A q \in Arrays(idle) : Unmarked(mem, q) /\ Unforwarded(mem, q)
      /\ Forwarded(mem, Arrays(active), Arrays(idle), RootPointers, chunks[active], gc.at)
  BY <1>1 DEF IInv, BeforeMark, AfterMark, InMove
<1>3. /\ DOMAIN gc' = gcFields
      /\ gc'.phase = IF walked(next) THEN "patch" ELSE "move"
      /\ gc'.at = next /\ gc'.ptrHolder = gc.ptrHolder /\ gc'.want = gc.want
  <2>1. DOMAIN gc = gcFields
    BY <1>2 DEF Always
  <2> HIDE DEF next
  <2> QED
    BY <1>1, <2>1 DEF gcFields
<1>4. /\ TypeOK' /\ Always(F)' /\ active' = active /\ idle' = idle
      /\ RootPointers' = RootPointers /\ Roots' = Roots
      /\ \A s : Arrays(s)' = Arrays(s)
  <2>1. gc'.phase \in HeapPhases
    BY <1>3 DEF HeapPhases
  <2> QED
    BY <1>1, <1>2, <1>3, <2>1, QuietStep
<1>5. /\ p - 16 = objAt /\ p \in Arrays(active)
      /\ CursorOK(chunks[active], arrays, next)
      /\ walked(next) <=> next[1] \notin DOMAIN chunks[active]
      /\ \A q \in Arrays(active) :
           Passed(mem, chunks[active], next, q) <=> Passed(mem, chunks[active], gc.at, q) \/ q = p
  BY <1>2, UnderCursor, ArraysNow
<1>6. p \notin RootPointers
  BY <1>1, <1>2, <1>5 DEF FLAG_MARKED
<1> HIDE DEF next, p
<1>7. Forwarded(mem, Arrays(active), Arrays(idle), RootPointers, chunks[active], next)
  <2>1. \A q \in Arrays(active) : q \in RootPointers =>
          (Passed(mem, chunks[active], next, q) <=> Passed(mem, chunks[active], gc.at, q))
    BY <1>5, <1>6
  <2> QED
    BY <1>2, <2>1, ForwardedSame
<1>8. BeforeMove' /\ BeforeMark' /\ InWalk'
  BY <1>1, <1>2, <1>3, <1>4 DEF BeforeMove, BeforeMark, InWalk
<1>9. AfterMark'
  BY <1>1, <1>2, <1>3, <1>4 DEF AfterMark
<1>10. InMove'
  BY <1>1, <1>2, <1>3, <1>4, <1>5, <1>7 DEF InMove
<1> QED
  BY <1>4, <1>8, <1>9, <1>10 DEF IInv

(***************************************************************************)
(* Moving an array.                                                        *)
(***************************************************************************)
\* What memcpy puts at `to', in memory m.
copyOf(m, to, from, bytes) ==
  [a \in {to + 8 * k : k \in 0 .. bytes \div 8 - 1} |-> m[from + (a - to)]]

\* moveObjects puts a copy of the object at o, an array of n elements, at h, and
\* the address of the copy's payload behind o's header.
CopyLaid(ch, m, s, n, ch2, last, h, o, m2) ==
  /\ Grown(ch, ch2, s, last, h, totalOf(n))
  /\ m2 = overwrite(overwrite(overwrite(m, headerAt(h, totalOf(n), OBJ_ARRAY)),
                              copyOf(m, h + 16, o + 16, totalOf(n) - 16)),
                    [a \in {o + 8} |-> encodePointer(h + 16)])

\* m2 is m with a copy at q of the array at p, of those in A, and its address
\* left behind in p's header.
Copied(A, m, p, q, m2) ==
  /\ \A x \in A : \A a \in Cells : covers(m, x, a) /\ a # p - 8 => m2[a] = m[a]
  /\ m2[p - 8] = encodePointer(q)
  /\ m2[q - 16] = header(Sized(m, p), OBJ_ARRAY)
  /\ m2[q - 8] = ZERO
  /\ \A k \in 0 .. (Sized(m, p) - 16) \div 8 - 1 : m2[q + 8 * k] = m[p + 8 * k]

\* Nothing else was written than the T bytes at h, and the word before p.
Elsewhere(m, h, T, p, m2) ==
  \A a \in Cells : (a < h \/ h + T =< a) /\ a # p - 8 => m2[a] = m[a]

\* An array's payload has one word more than elements.
LEMMA PayloadWords ==
  ASSUME NEW n \in Nat
  PROVE  (totalOf(n) - 16) \div 8 - 1 = n
<1>1. totalOf(n) = 24 + 8 * n
  BY Totals8
<1>2. ((24 + 8 * n) - 16) \div 8 = n + 1
  OBVIOUS
<1> QED
  BY <1>1, <1>2

LEMMA CopiedMemory ==
  ASSUME Tame, NEW F, Fills(F), NEW ch, NEW A, NEW m, HeapOK(F, ch, A, m),
         NEW s \in Spaces, NEW ch2, NEW last, NEW h, NEW n \in Lengths,
         NEW p \in A, Sized(m, p) = totalOf(n), NEW o, o = p - 16,
         NEW m2, CopyLaid(ch, m, s, n, ch2, last, h, o, m2)
  PROVE  /\ m2 \in [Cells -> Word]
         /\ Copied(A, m, p, h + 16, m2)
         /\ Elsewhere(m, h, totalOf(n), p, m2)
<1> DEFINE T   == totalOf(n)
           D   == {(h + 16) + 8 * k : k \in 0 .. (T - 16) \div 8 - 1}
           enc == encodePointer(h + 16)
<1>1. /\ Grown(ch, ch2, s, last, h, T)
      /\ m2 = overwrite(overwrite(overwrite(m, headerAt(h, T, OBJ_ARRAY)),
                              copyOf(m, h + 16, o + 16, T - 16)),
                    [a \in {o + 8} |-> enc])
  BY DEF CopyLaid
<1>2. /\ Layout(F, ch, A, m) /\ \A q \in A : ArrayOK(m, q) /\ m \in [Cells -> Word]
  BY DEF HeapOK
<1> DEFINE r == ch2[s][last].mem
<1>3. /\ r \in Regions /\ r \in Nat /\ h \in Nat /\ h % 8 = 0 /\ h >= r
      /\ T \in Nat /\ T >= 40
      /\ h + T = r + ch2[s][last].used /\ ch2[s][last].used =< CHUNK_SIZE
      /\ ch2[s][last].used \in Nat
  BY <1>1, <1>2, GrownFacts
<1>4. CHUNK_SIZE \in Nat /\ r + CHUNK_SIZE =< MID * LO /\ MID * LO \in Nat
  BY <1>3, RegionFacts
<1>5. h + T =< r + CHUNK_SIZE
  BY <1>3, <1>4
<1>6. \A a \in Nat : a % 8 = 0 /\ h =< a /\ a < h + T => a \in Cells
  BY <1>3, <1>5, NewCells
<1>7. n \in Nat /\ T = 24 + 8 * n /\ (T - 16) \div 8 - 1 = n
  BY HeapAssumption, Totals8, PayloadWords
<1>8. /\ p \in Nat /\ p % 8 = 0 /\ p >= 16 /\ p - 8 \in Cells
      /\ \A a \in Nat : a % 8 = 0 /\ covers(m, p, a) => a \in Cells
  BY OwnWords
<1>9. ASSUME NEW x \in A, NEW a \in Nat, covers(m, x, a)
      PROVE  a < h \/ h + T =< a
  <2>1. x - 16 + Sized(m, x) =< h \/ r + CHUNK_SIZE =< x - 16
    BY <1>1, <1>2, NewApart
  <2>2. x \in Nat /\ x >= 16 /\ Sized(m, x) \in Nat
    BY OwnWords
  <2>3. x - 16 =< a /\ a < x - 16 + Sized(m, x)
    BY <1>9 DEF covers
  <2> HIDE DEF r, T
  <2> QED
    BY <1>3, <1>4, <1>5, <2>1, <2>2, <2>3
<1>10. enc \in Word
  <2>1. h + 16 \in Nat /\ h + 16 < MID * LO
    <3> HIDE DEF r, T
    <3> QED
      BY <1>3, <1>4, <1>5
  <2> QED
    BY <2>1, PointerWord
\* The payload's words, and where they are copied from.
<1>11. ASSUME NEW k \in 0 .. n
       PROVE  /\ (h + 16) + 8 * k \in Cells /\ (h + 16) + 8 * k \in D
              /\ (o + 16) + (((h + 16) + 8 * k) - (h + 16)) = p + 8 * k
              /\ p + 8 * k \in Cells
              /\ (h + 16) + 8 * k # p - 8
  <2>1. (h + 16) + 8 * k \in Nat /\ ((h + 16) + 8 * k) % 8 = 0
    BY <1>3
  <2>2. h =< (h + 16) + 8 * k /\ (h + 16) + 8 * k < h + T
    BY <1>3, <1>7
  <2>3. (h + 16) + 8 * k \in D
    BY <1>7
  <2>4. p + 8 * k \in Nat /\ (p + 8 * k) % 8 = 0
    BY <1>8
  <2>5. covers(m, p, p + 8 * k)
    BY <1>7, <1>8 DEF covers
  <2>6. (o + 16) + (((h + 16) + 8 * k) - (h + 16)) = p + 8 * k
    BY <1>3, <1>8
  <2>7. (h + 16) + 8 * k # p - 8
    <3>1. covers(m, p, p - 8) /\ p - 8 \in Nat
      BY <1>8, OwnWords
    <3>2. p - 8 < h \/ h + T =< p - 8
      BY <1>9, <3>1
    <3> HIDE DEF T
    <3> QED
      BY <1>3, <2>1, <2>2, <3>1, <3>2
  <2> QED
    BY <1>6, <1>8, <2>1, <2>2, <2>3, <2>4, <2>5, <2>6, <2>7
<1>12. \A a \in D : /\ a \in Cells /\ (o + 16) + (a - (h + 16)) \in Cells
                    /\ h + 16 =< a /\ a < h + T
  <2> SUFFICES ASSUME NEW k \in 0 .. n
               PROVE  LET a == (h + 16) + 8 * k
                      IN /\ a \in Cells /\ (o + 16) + (a - (h + 16)) \in Cells
                         /\ h + 16 =< a /\ a < h + T
    BY <1>7
  <2>1. h + 16 =< (h + 16) + 8 * k /\ (h + 16) + 8 * k < h + T
    BY <1>3, <1>7
  <2> QED
    BY <1>11, <2>1
\* Each word of the new memory.
<1>13. ASSUME NEW a \in Cells
       PROVE  m2[a] = IF a = o + 8 THEN enc
                      ELSE IF a \in D THEN m[(o + 16) + (a - (h + 16))]
                      ELSE IF a = h THEN header(T, OBJ_ARRAY)
                      ELSE IF a = h + 8 THEN ZERO
                      ELSE m[a]
  <2> DEFINE m1 == overwrite(m, headerAt(h, T, OBJ_ARRAY))
             mc == overwrite(m1, copyOf(m, h + 16, o + 16, T - 16))
  <2>1. DOMAIN m = Cells
    BY <1>2
  <2>2. m1[a] = IF a = h THEN header(T, OBJ_ARRAY) ELSE IF a = h + 8 THEN ZERO ELSE m[a]
    BY <2>1 DEF overwrite, headerAt
  <2>3. DOMAIN m1 = Cells
    BY <2>1 DEF overwrite
  <2> HIDE DEF m1
  <2>4. mc[a] = IF a \in D THEN m[(o + 16) + (a - (h + 16))] ELSE m1[a]
    BY <2>3 DEF overwrite, copyOf
  <2>5. DOMAIN mc = Cells
    BY <2>3 DEF overwrite
  <2>6. m2 = overwrite(mc, [x \in {o + 8} |-> enc])
    BY <1>1 DEF m1
  <2> HIDE DEF mc, enc
  <2>7. m2[a] = IF a = o + 8 THEN enc ELSE mc[a]
    BY <2>5, <2>6 DEF overwrite
  <2> QED
    BY <2>2, <2>4, <2>7
<1>14. DOMAIN m2 = Cells
  BY <1>1, <1>2 DEF overwrite
<1>15. header(T, OBJ_ARRAY) \in Word
  BY <1>3, HeaderWord DEF OBJ_ARRAY
<1>16. m2 \in [Cells -> Word]
  <2>1. m2 = [a \in Cells |-> m2[a]]
    BY <1>1, <1>14 DEF overwrite
  <2>2. \A a \in Cells : m2[a] \in Word
    <3> HIDE DEF enc, D, T
    <3> QED
      BY <1>2, <1>10, <1>12, <1>13, <1>15, ZeroWord
  <2> QED
    BY <2>1, <2>2
<1>17. o + 8 = p - 8
  BY <1>8
<1>18. ASSUME NEW a \in Cells, a < h \/ h + T =< a, a # p - 8
       PROVE  m2[a] = m[a]
  <2>1. a \in Nat
    BY CellFacts
  <2>2. a # h /\ a # h + 8 /\ a \notin D
    <3> HIDE DEF D, T
    <3> QED
      BY <1>3, <1>12, <1>18, <2>1
  <2> QED
    BY <1>13, <1>17, <1>18, <2>2
<1>19. ASSUME NEW x \in A, NEW a \in Cells, covers(m, x, a), a # p - 8
       PROVE  m2[a] = m[a]
  <2>1. a \in Nat
    BY CellFacts
  <2> QED
    BY <1>9, <1>18, <1>19, <2>1
<1>20. m2[p - 8] = enc
  BY <1>8, <1>13, <1>17
<1>21. h # p - 8 /\ h + 8 # p - 8 /\ h \in Cells /\ h + 8 \in Cells /\ h \notin D /\ h + 8 \notin D
  <2>1. covers(m, p, p - 8) /\ p - 8 \in Nat
    BY <1>8, OwnWords
  <2>2. p - 8 < h \/ h + T =< p - 8
    BY <1>9, <2>1
  <2> HIDE DEF T, D
  <2>3. h \in Cells /\ h + 8 \in Cells
    BY <1>3, <1>6
  <2> QED
    BY <1>3, <1>12, <2>1, <2>2, <2>3
<1>22. m2[(h + 16) - 16] = header(T, OBJ_ARRAY) /\ m2[(h + 16) - 8] = ZERO
  <2>1. (h + 16) - 16 = h /\ (h + 16) - 8 = h + 8 /\ h + 8 # h
    BY <1>3
  <2> QED
    BY <1>13, <1>17, <1>21, <2>1
<1>23. ASSUME NEW k \in 0 .. n
       PROVE  m2[(h + 16) + 8 * k] = m[p + 8 * k]
  BY <1>11, <1>13, <1>17
<1> QED
  BY <1>7, <1>16, <1>18, <1>19, <1>20, <1>22, <1>23 DEF Copied, Elsewhere

\* What a copy leaves of the arrays there were, and the copy itself.
LEMMA CopiedArrays ==
  ASSUME Tame, NEW F, NEW ch, NEW A, NEW m, HeapOK(F, ch, A, m),
         NEW p \in A, NEW q \in Nat, q >= 16, q < MID * LO, NEW m2, Copied(A, m, p, q, m2)
  PROVE  /\ \A x \in A : /\ m2[x - 16] = m[x - 16]
                         /\ x # p => m2[x - 8] = m[x - 8]
                         /\ Sized(m2, x) = Sized(m, x)
                         /\ ArrayOK(m2, x)
                         /\ \A k \in 0 .. (Sized(m, x) - 16) \div 8 - 1 :
                              m2[x + 8 * k] = m[x + 8 * k]
         /\ q % 8 = 0 => ArrayOK(m2, q)
         /\ Sized(m2, q) = Sized(m, p)
         /\ Unmarked(m2, q) /\ Unforwarded(m2, q)
         /\ m2[p - 8] # ZERO /\ isPointer(m2[p - 8]) /\ fwd(m2, p) = q
         /\ \A k \in 0 .. (Sized(m, p) - 16) \div 8 - 1 : m2[q + 8 * k] = m[p + 8 * k]
<1>1. /\ Layout(F, ch, A, m) /\ \A x \in A : ArrayOK(m, x)
  BY DEF HeapOK
<1>2. \A x \in A : /\ x \in Nat /\ x >= 16 /\ x % 8 = 0
                   /\ x - 16 \in Cells /\ x - 8 \in Cells
                   /\ covers(m, x, x - 16) /\ covers(m, x, x - 8)
                   /\ Sized(m, x) \in Nat /\ Sized(m, x) >= 40
  BY OwnWords
<1>3. \A x, y \in A, a \in Nat : covers(m, x, a) /\ covers(m, y, a) => x = y
  BY OwnWords
<1>4. ASSUME NEW x \in A, NEW a \in Nat, covers(m, x, a), a # x - 8
      PROVE  a # p - 8
  <2>1. p - 8 \in Nat /\ covers(m, p, p - 8)
    BY <1>2
  <2> QED
    BY <1>3, <1>4, <2>1
<1>5. \A x \in A : \A a \in Cells : covers(m, x, a) /\ a # p - 8 => m2[a] = m[a]
  BY DEF Copied
<1>6. ASSUME NEW x \in A, NEW a \in Cells, covers(m, x, a), a # x - 8
      PROVE  m2[a] = m[a]
  <2>1. a \in Nat
    BY CellFacts
  <2> QED
    BY <1>4, <1>5, <1>6, <2>1
<1>7. ASSUME NEW x \in A
      PROVE  /\ m2[x - 16] = m[x - 16] /\ Sized(m2, x) = Sized(m, x)
             /\ x # p => m2[x - 8] = m[x - 8]
  <2>1. x - 16 # x - 8
    BY <1>2
  <2>2. x # p => x - 8 # p - 8
    BY <1>2
  <2> QED
    BY <1>2, <1>5, <1>6, <2>1, <2>2 DEF Sized
<1>8. ASSUME NEW x \in A, NEW a \in Nat, a % 8 = 0, x =< a, a < x - 16 + Sized(m, x)
      PROVE  m2[a] = m[a]
  <2>1. covers(m, x, a) /\ a # x - 8
    BY <1>2, <1>8 DEF covers
  <2>2. a \in Cells
    BY <1>1, <1>8, <2>1, ArrayCells
  <2> QED
    BY <1>6, <2>1, <2>2
<1>9. ASSUME NEW x \in A PROVE ArrayOK(m2, x)
  <2>1. ArrayOK(m, x)
    BY <1>1
  <2>2. typeOf(m2[x - OBJ_HEADER]) = typeOf(m[x - OBJ_HEADER]) /\ Sized(m2, x) = Sized(m, x)
    BY <1>7
  <2> QED
    BY <1>8, <2>1, <2>2, ArrayKept
<1>10. ASSUME NEW x \in A, NEW k \in 0 .. (Sized(m, x) - 16) \div 8 - 1
       PROVE  m2[x + 8 * k] = m[x + 8 * k]
  <2> DEFINE n == lengthOf(m[x + 16])
  <2>1. n \in Nat /\ Sized(m, x) = 24 + 8 * n
    BY <1>1, ArrayFacts
  <2>2. Sized(m, x) = totalOf(n) /\ (totalOf(n) - 16) \div 8 - 1 = n
    BY <2>1, Totals8, PayloadWords
  <2>3. k \in Nat /\ k =< n
    BY <2>1, <2>2
  <2> HIDE DEF n
  <2>4. x + 8 * k \in Nat /\ (x + 8 * k) % 8 = 0 /\ x =< x + 8 * k /\ x + 8 * k < x - 16 + Sized(m, x)
    BY <1>2, <2>1, <2>3
  <2> QED
    BY <1>8, <2>4
<1>11. \A k \in 0 .. (Sized(m, p) - 16) \div 8 - 1 : m2[q + 8 * k] = m[p + 8 * k]
  BY DEF Copied
<1>12. m2[q - 16] = header(Sized(m, p), OBJ_ARRAY) /\ m2[q - 8] = ZERO /\ m2[p - 8] = encodePointer(q)
  BY DEF Copied
<1>13. /\ Sized(m2, q) = Sized(m, p) /\ typeOf(m2[q - 16]) = OBJ_ARRAY
       /\ Unmarked(m2, q) /\ Unforwarded(m2, q)
  <2>1. OBJ_ARRAY \in Nat /\ Sized(m, p) \in Nat
    BY <1>2 DEF OBJ_ARRAY
  <2>2. /\ sizeOf(header(Sized(m, p), OBJ_ARRAY)) = Sized(m, p)
        /\ typeOf(header(Sized(m, p), OBJ_ARRAY)) = OBJ_ARRAY
        /\ flagsOf(header(Sized(m, p), OBJ_ARRAY)) = 0
    BY <2>1, HeaderWord
  <2>3. sizeOf(m2[q - OBJ_HEADER]) = Sized(m, p)
    BY <1>12, <2>2
  <2> QED
    BY <1>12, <2>2, <2>3 DEF Sized, Unmarked, Unforwarded
<1>14. m2[p - 8] # ZERO /\ isPointer(m2[p - 8]) /\ fwd(m2, p) = q
  BY <1>12, PointerWord DEF fwd
<1>15. ASSUME q % 8 = 0 PROVE ArrayOK(m2, q)
  <2> DEFINE n == lengthOf(m[p + 16])
  <2>1. /\ n \in Lengths /\ Sized(m, p) = totalOf(n) /\ m[p] = ZERO
        /\ \A k \in 0 .. n - 3 : ~isPointer(m[p + ARRAY_OBJ + 8 * k])
    BY <1>1 DEF ArrayOK
  <2>2. n \in Nat /\ n >= 2 /\ (totalOf(n) - 16) \div 8 - 1 = n
    BY <1>1, ArrayFacts, PayloadWords
  <2> HIDE DEF n
  <2>3. \A k \in 0 .. n : m2[q + 8 * k] = m[p + 8 * k]
    BY <1>11, <2>1, <2>2
  <2>4. m2[q] = ZERO
    <3>1. 0 \in 0 .. n /\ q + 8 * 0 = q /\ p + 8 * 0 = p
      BY <1>2, <2>2
    <3> QED
      BY <2>1, <2>3, <3>1
  <2>5. lengthOf(m2[q + 16]) = n
    <3>1. 2 \in 0 .. n /\ q + 8 * 2 = q + 16 /\ p + 8 * 2 = p + 16
      BY <1>2, <2>2
    <3> QED
      BY <2>3, <3>1 DEF n
  <2>6. ASSUME NEW k \in 0 .. n - 3 PROVE ~isPointer(m2[q + ARRAY_OBJ + 8 * k])
    <3>1. k + 3 \in 0 .. n /\ q + 8 * (k + 3) = q + 24 + 8 * k /\ p + 8 * (k + 3) = p + 24 + 8 * k
      BY <1>2, <2>2
    <3>2. m2[q + 24 + 8 * k] = m[p + 24 + 8 * k]
      BY <2>3, <3>1
    <3> QED
      BY <2>1, <3>2
  <2> QED
    BY <1>13, <1>15, <2>1, <2>4, <2>5, <2>6 DEF ArrayOK
<1> QED
  BY <1>7, <1>9, <1>10, <1>11, <1>13, <1>14, <1>15

\* The heap after a copy.
LEMMA CopiedHeap ==
  ASSUME Tame, NEW F, Fills(F), NEW ch, NEW A, NEW m, HeapOK(F, ch, A, m),
         NEW s \in Spaces, NEW ch2, NEW last, NEW h, NEW n \in Lengths,
         NEW p \in A, Sized(m, p) = totalOf(n), NEW o, o = p - 16,
         NEW m2, CopyLaid(ch, m, s, n, ch2, last, h, o, m2)
  PROVE  /\ HeapOK(F, ch2, A \cup {h + 16}, m2)
         /\ Copied(A, m, p, h + 16, m2)
         /\ h + 16 \notin A /\ h + 16 \in Nat /\ h + 16 >= 16 /\ h + 16 < MID * LO
<1> DEFINE T == totalOf(n)
           q == h + 16
<1>1. /\ Grown(ch, ch2, s, last, h, T)
      /\ Layout(F, ch, A, m) /\ \A x \in A : ArrayOK(m, x)
  BY DEF CopyLaid, HeapOK
<1>2. /\ m2 \in [Cells -> Word]
      /\ Copied(A, m, p, q, m2)
      /\ \A a \in Cells : (a < h \/ h + T =< a) /\ a # p - 8 => m2[a] = m[a]
  <2>1. /\ m2 \in [Cells -> Word]
        /\ Copied(A, m, p, q, m2)
        /\ Elsewhere(m, h, totalOf(n), p, m2)
    BY CopiedMemory
  <2> QED
    BY <2>1 DEF Elsewhere
<1>3. /\ q \notin A /\ q \in Nat /\ q >= 16 /\ q < MID * LO /\ q % 8 = 0
      /\ h \in Nat /\ T \in Nat /\ T >= 40 /\ q - 16 = h
  <2> DEFINE r == ch2[s][last].mem
  <2>1. /\ r \in Regions /\ r \in Nat /\ h \in Nat /\ h % 8 = 0 /\ h >= r
        /\ T \in Nat /\ T >= 40
        /\ h + T = r + ch2[s][last].used /\ ch2[s][last].used =< CHUNK_SIZE
        /\ ch2[s][last].used \in Nat
    BY <1>1, GrownFacts
  <2>2. CHUNK_SIZE \in Nat /\ r + CHUNK_SIZE =< MID * LO /\ MID * LO \in Nat
    BY <2>1, RegionFacts
  <2>3. q \notin A
    BY <1>1, NewApart
  <2>4. q \in Nat /\ q >= 16 /\ q < MID * LO /\ q % 8 = 0 /\ q - 16 = h
    <3> HIDE DEF T, r
    <3> QED
      BY <2>1, <2>2
  <2> QED
    BY <2>1, <2>3, <2>4
<1>4. /\ \A x \in A : Sized(m2, x) = Sized(m, x) /\ ArrayOK(m2, x)
      /\ ArrayOK(m2, q) /\ Sized(m2, q) = T
  <2> HIDE DEF q, T
  <2> QED
    BY <1>2, <1>3, CopiedArrays DEF T
<1>5. Layout(F, ch2, A \cup {h + 16}, m2)
  <2>1. Sized(m2, h + OBJ_HEADER) = totalOf(n)
    BY <1>4
  <2> QED
    BY <1>1, <1>4, <2>1, LayoutGrown
<1>6. Clear(A \cup {q}, m2)
  <2> SUFFICES ASSUME NEW a \in Cells, \A x \in A \cup {q} : ~covers(m2, x, a)
               PROVE  m2[a] = ZERO
    BY DEF Clear
  <2>1. a \in Nat
    BY CellFacts
  <2>2. \A x \in A : ~covers(m, x, a)
    BY <1>4 DEF covers
  <2>3. m[a] = ZERO
    BY <2>2 DEF HeapOK, Clear
  <2>4. ~covers(m2, q, a)
    OBVIOUS
  <2>5. a < h \/ h + T =< a
    <3> HIDE DEF T
    <3> QED
      BY <1>3, <1>4, <2>1, <2>4 DEF covers
  <2>6. a # p - 8
    BY <2>2, OwnWords
  <2> QED
    BY <1>2, <2>3, <2>5, <2>6
<1> QED
  BY <1>2, <1>3, <1>4, <1>5, <1>6 DEF HeapOK

\* The array under the cursor is forwarded.
LEMMA ForwardedMore ==
  ASSUME Tame, NEW F, NEW ch, NEW A, NEW m, HeapOK(F, ch, A, m),
         NEW B, NEW C, B \subseteq A, C \subseteq A, B \cap C = {}, NEW P, NEW cs, NEW at,
         Forwarded(m, B, C, P, cs, at),
         NEW p \in B, p \in P, ~Passed(m, cs, at, p), NEW next,
         \A x \in B : Passed(m, cs, next, x) <=> Passed(m, cs, at, x) \/ x = p,
         NEW q \in Nat, q >= 16, q < MID * LO, q \notin A, NEW m2, Copied(A, m, p, q, m2)
  PROVE  Forwarded(m2, B, C \cup {q}, P, cs, next)
<1> DEFINE Moved == {x \in B : x \in P /\ Passed(m, cs, at, x)}
<1>1. /\ \A x \in B \ Moved : Unforwarded(m, x)
      /\ \A x \in Moved : /\ m[x - 8] # ZERO
                          /\ isPointer(m[x - 8])
                          /\ fwd(m, x) \in C
                          /\ Sized(m, fwd(m, x)) = Sized(m, x)
                          /\ \A k \in 0 .. (Sized(m, x) - 16) \div 8 - 1 :
                               m[fwd(m, x) + 8 * k] = m[x + 8 * k]
      /\ \A x, y \in Moved : fwd(m, x) = fwd(m, y) => x = y
      /\ \A y \in C : \E x \in Moved : fwd(m, x) = y
  BY DEF Forwarded
<1>2. /\ \A x \in A : /\ m2[x - 16] = m[x - 16]
                      /\ x # p => m2[x - 8] = m[x - 8]
                      /\ Sized(m2, x) = Sized(m, x)
                      /\ \A k \in 0 .. (Sized(m, x) - 16) \div 8 - 1 :
                           m2[x + 8 * k] = m[x + 8 * k]
      /\ Sized(m2, q) = Sized(m, p)
      /\ m2[p - 8] # ZERO /\ isPointer(m2[p - 8]) /\ fwd(m2, p) = q
      /\ \A k \in 0 .. (Sized(m, p) - 16) \div 8 - 1 : m2[q + 8 * k] = m[p + 8 * k]
  BY CopiedArrays
<1>3. {x \in B : x \in P /\ Passed(m2, cs, next, x)} = Moved \cup {p}
  <2>1. \A x \in B : Passed(m2, cs, next, x) <=> Passed(m, cs, next, x)
    BY <1>2 DEF Passed, InChunk
  <2> QED
    BY <2>1
<1>4. p \notin Moved /\ Moved \subseteq B
  OBVIOUS
<1> HIDE DEF Moved
<1>5. \A x \in B \ (Moved \cup {p}) : Unforwarded(m2, x)
  BY <1>1, <1>2 DEF Unforwarded
<1>6. \A x \in Moved : m2[x - 8] = m[x - 8] /\ fwd(m2, x) = fwd(m, x)
  BY <1>2, <1>4 DEF fwd
<1>7. ASSUME NEW x \in Moved \cup {p}
      PROVE  /\ m2[x - 8] # ZERO
             /\ isPointer(m2[x - 8])
             /\ fwd(m2, x) \in C \cup {q}
             /\ Sized(m2, fwd(m2, x)) = Sized(m2, x)
             /\ \A k \in 0 .. (Sized(m2, x) - 16) \div 8 - 1 :
                  m2[fwd(m2, x) + 8 * k] = m2[x + 8 * k]
  <2>1. CASE x = p
    BY <1>2, <2>1
  <2>2. CASE x \in Moved
    <3>1. x \in A /\ fwd(m2, x) = fwd(m, x) /\ fwd(m, x) \in C /\ fwd(m, x) \in A
      BY <1>1, <1>4, <1>6, <2>2
    <3>2. /\ Sized(m2, fwd(m, x)) = Sized(m, fwd(m, x)) /\ Sized(m2, x) = Sized(m, x)
          /\ Sized(m, fwd(m, x)) = Sized(m, x)
      BY <1>1, <1>2, <2>2, <3>1
    <3>3. ASSUME NEW k \in 0 .. (Sized(m2, x) - 16) \div 8 - 1
          PROVE  m2[fwd(m2, x) + 8 * k] = m2[x + 8 * k]
      <4>1. m2[x + 8 * k] = m[x + 8 * k]
        BY <1>2, <3>1, <3>2
      <4>2. m2[fwd(m, x) + 8 * k] = m[fwd(m, x) + 8 * k]
        BY <1>2, <3>1, <3>2
      <4>3. m[fwd(m, x) + 8 * k] = m[x + 8 * k]
        BY <1>1, <2>2, <3>2
      <4> QED
        BY <3>1, <4>1, <4>2, <4>3
    <3> QED
      BY <1>1, <1>6, <2>2, <3>1, <3>2, <3>3
  <2> QED
    BY <2>1, <2>2
<1>8. ASSUME NEW x \in Moved \cup {p}, NEW y \in Moved \cup {p}, fwd(m2, x) = fwd(m2, y)
      PROVE  x = y
  <2>1. \A z \in Moved : fwd(m2, z) # q
    BY <1>1, <1>6
  <2> QED
    BY <1>1, <1>2, <1>6, <1>8, <2>1
<1>9. ASSUME NEW y \in C \cup {q}
      PROVE  \E x \in Moved \cup {p} : fwd(m2, x) = y
  <2>1. CASE y = q
    BY <1>2, <2>1
  <2>2. CASE y \in C
    <3>1. PICK x \in Moved : fwd(m, x) = y
      BY <1>1, <2>2
    <3> QED
      BY <1>6, <3>1
  <2> QED
    BY <2>1, <2>2
<1> QED
  BY <1>3, <1>5, <1>7, <1>8, <1>9 DEF Forwarded

\* moveObjects turns the chunks, arrays and memory <<ch, A, m>> into
\* <<ch2, A2, m2>>, with a copy at q, in half-space s, of the array at p.
Carried(ch, A, m, s, p, ch2, q, A2, m2) ==
  /\ s \in Spaces /\ p \in A
  /\ \E h, last, n : /\ n \in Lengths /\ Sized(m, p) = totalOf(n) /\ q = h + 16
                     /\ CopyLaid(ch, m, s, n, ch2, last, h, p - 16, m2)
  /\ A2 = A \cup {q}

LEMMA CarriedHeap ==
  ASSUME Tame, NEW F, Fills(F), NEW ch, NEW A, NEW m, HeapOK(F, ch, A, m),
         NEW s, NEW p, NEW ch2, NEW q, NEW A2, NEW m2,
         Carried(ch, A, m, s, p, ch2, q, A2, m2)
  PROVE  /\ HeapOK(F, ch2, A2, m2)
         /\ Copied(A, m, p, q, m2)
         /\ q \notin A /\ q \in Nat /\ q >= 16 /\ q < MID * LO
         /\ ArraysOf(ch2, A2, s) = ArraysOf(ch, A, s) \cup {q}
         /\ \A t \in Spaces : t # s => ArraysOf(ch2, A2, t) = ArraysOf(ch, A, t)
<1>1. /\ s \in Spaces /\ p \in A /\ A2 = A \cup {q}
      /\ \E h, last, n : /\ n \in Lengths /\ Sized(m, p) = totalOf(n) /\ q = h + 16
                         /\ CopyLaid(ch, m, s, n, ch2, last, h, p - 16, m2)
  BY DEF Carried
<1>2. PICK h, last, n : /\ n \in Lengths /\ Sized(m, p) = totalOf(n) /\ q = h + 16
                        /\ CopyLaid(ch, m, s, n, ch2, last, h, p - 16, m2)
  BY <1>1
<1>3. /\ HeapOK(F, ch2, A \cup {h + 16}, m2)
      /\ Copied(A, m, p, h + 16, m2)
      /\ h + 16 \notin A /\ h + 16 \in Nat /\ h + 16 >= 16 /\ h + 16 < MID * LO
  <2> DEFINE o == p - 16
  <2>1. n \in Lengths /\ Sized(m, p) = totalOf(n) /\ CopyLaid(ch, m, s, n, ch2, last, h, o, m2)
    BY <1>2
  <2>2. s \in Spaces /\ p \in A /\ o = p - 16
    BY <1>1
  <2> HIDE DEF o
  <2> QED
    BY <2>1, <2>2, CopiedHeap
<1>4. Grown(ch, ch2, s, last, h, totalOf(n))
  BY <1>2 DEF CopyLaid
<1>5. /\ ArraysOf(ch2, A \cup {h + 16}, s) = ArraysOf(ch, A, s) \cup {h + 16}
      /\ \A t \in Spaces : t # s => ArraysOf(ch2, A \cup {h + 16}, t) = ArraysOf(ch, A, t)
  BY <1>1, <1>2, <1>3, <1>4, GrownArrays
<1> QED
  BY <1>1, <1>2, <1>3, <1>5

\* moveObjects, an object that is marked.
LEMMA MoveObjectStep ==
  ASSUME Tame, NEW F, Fills(F), IInv(F), MoveObject
  PROVE  IInv(F)'
<1> DEFINE size == sizeOf(mem[objAt])
           next == after(size)
           p    == objAt + 16
<1>1. /\ Running /\ gc.phase = "move" /\ flagsOf(mem[objAt]) = FLAG_MARKED
  BY DEF MoveObject
<1>2. /\ TypeOK /\ Always(F)
      /\ gc.want \in Regs \X Lengths \X Types
      /\ \A x \in Arrays(active) :
           flagsOf(mem[x - OBJ_HEADER]) = IF x \in RootPointers THEN FLAG_MARKED ELSE 0
      /\ gc.ptrHolder = Roots
      /\ CursorOK(chunks[active], arrays, gc.at)
      /\ gc.at[1] \in DOMAIN chunks[active]
      /\ \A x \in Arrays(idle) : Unmarked(mem, x) /\ Unforwarded(mem, x)
      /\ Forwarded(mem, Arrays(active), Arrays(idle), RootPointers, chunks[active], gc.at)
  BY <1>1 DEF IInv, BeforeMark, AfterMark, InMove
<1>3. /\ HeapOK(F, chunks, arrays, mem) /\ Layout(F, chunks, arrays, mem)
      /\ \A x \in arrays : ArrayOK(mem, x)
      /\ chunks \in [Spaces -> Seq(HeapChunk)] /\ totalAllocated \in [Spaces -> Nat]
      /\ active \in Spaces /\ idle \in Spaces /\ active # idle
      /\ \A s \in Spaces : s = active \/ s = idle
  BY <1>2, StateFacts, TwoSpaces
<1>4. /\ objAt \in Nat /\ p - 16 = objAt /\ p \in arrays /\ p \in Arrays(active)
      /\ Sized(mem, p) = size
      /\ CursorOK(chunks[active], arrays, next)
      /\ walked(next) <=> next[1] \notin DOMAIN chunks[active]
      /\ ~Passed(mem, chunks[active], gc.at, p)
      /\ \A x \in Arrays(active) :
           Passed(mem, chunks[active], next, x) <=> Passed(mem, chunks[active], gc.at, x) \/ x = p
  BY <1>2, UnderCursor, ArraysNow
<1>5. p \in RootPointers
  <2>1. FLAG_MARKED # 0
    BY DEF FLAG_MARKED
  <2> QED
    BY <1>1, <1>2, <1>4, <2>1
<1> DEFINE n == lengthOf(mem[p + 16])
           T == totalOf(n)
<1>6. /\ n \in Lengths /\ n \in Nat /\ size = T /\ align(size) = T /\ T \in Nat
      /\ T > 0 /\ T =< CHUNK_SIZE /\ typeOf(mem[objAt]) = OBJ_ARRAY
  <2>1. ArrayOK(mem, p)
    BY <1>3, <1>4
  <2>2. n \in Lengths /\ Sized(mem, p) = totalOf(n) /\ typeOf(mem[objAt]) = OBJ_ARRAY
    BY <1>4, <2>1 DEF ArrayOK
  <2>3. n \in Nat /\ totalOf(n) =< CHUNK_SIZE
    BY <2>2, HeapAssumption DEF Tame
  <2>4. totalOf(n) \in Nat /\ totalOf(n) = 24 + 8 * n /\ align(totalOf(n)) = totalOf(n)
    BY <2>3, Totals8
  <2>5. totalOf(n) > 0
    BY <2>3, <2>4
  <2> QED
    BY <1>4, <2>2, <2>3, <2>4, <2>5
<1> HIDE DEF n
<1>7. \/ HeapThrew \/ HeapWild
      \/ \E cs \in withRoom(idle, T) :
           /\ mem' = overwrite(overwrite(overwrite(mem, headerAt(nextAddr(cs), T, OBJ_ARRAY)),
                                         copyOf(mem, nextAddr(cs) + 16, objAt + 16, T - 16)),
                               [a \in {objAt + 8} |-> encodePointer(nextAddr(cs) + 16)])
           /\ Take(idle, cs, T)
           /\ arrays' = arrays \cup {nextAddr(cs) + 16}
           /\ gc' = [gc EXCEPT !.at = next, !.phase = IF walked(next) THEN "patch" ELSE "move"]
           /\ UNCHANGED <<stackVars, heapAUsed>>
  <2>1. \/ HeapThrew \/ HeapWild
        \/ \E cs \in withRoom(idle, align(size)) :
             /\ mem' = overwrite(overwrite(overwrite(mem,
                                  headerAt(nextAddr(cs), align(size), typeOf(mem[objAt]))),
                                  memcpy(nextAddr(cs) + 16, objAt + 16, size - 16)),
                                 [a \in {objAt + 8} |-> encodePointer(nextAddr(cs) + 16)])
             /\ Take(idle, cs, align(size))
             /\ arrays' = arrays \cup {nextAddr(cs) + 16}
             /\ gc' = [gc EXCEPT !.at = next, !.phase = IF walked(next) THEN "patch" ELSE "move"]
             /\ UNCHANGED <<stackVars, heapAUsed>>
    BY DEF MoveObject
  <2>2. \A to, from, bytes : memcpy(to, from, bytes) = copyOf(mem, to, from, bytes)
    BY DEF memcpy, copyOf
  <2> HIDE DEF size, next, T
  <2> QED
    BY <1>6, <2>1, <2>2
<1>8. CASE HeapThrew \/ HeapWild
  BY <1>8, Stopped DEF IInv
<1>9. ASSUME NEW cs \in withRoom(idle, T),
             mem' = overwrite(overwrite(overwrite(mem, headerAt(nextAddr(cs), T, OBJ_ARRAY)),
                                        copyOf(mem, nextAddr(cs) + 16, objAt + 16, T - 16)),
                              [a \in {objAt + 8} |-> encodePointer(nextAddr(cs) + 16)]),
             Take(idle, cs, T),
             arrays' = arrays \cup {nextAddr(cs) + 16},
             gc' = [gc EXCEPT !.at = next, !.phase = IF walked(next) THEN "patch" ELSE "move"],
             UNCHANGED <<stackVars, heapAUsed>>
      PROVE  IInv(F)'
  <2> DEFINE h == nextAddr(cs)
             q == h + 16
  <2>1. /\ reg' = reg /\ stack' = stack /\ sp' = sp /\ fp' = fp /\ ip' = ip /\ status' = status
        /\ heapAUsed' = heapAUsed /\ arrays' = arrays \cup {q}
        /\ chunks' = [chunks EXCEPT ![idle] = bumped(cs, T)]
        /\ totalAllocated' = [totalAllocated EXCEPT ![idle] = @ + T]
    BY <1>9 DEF stackVars, Take
  <2>2. /\ active' = active /\ idle' = idle /\ RootPointers' = RootPointers /\ Roots' = Roots
    BY <2>1, TwoSpaces, RootsNow
  <2>3. /\ DOMAIN gc' = gcFields
        /\ gc'.phase = IF walked(next) THEN "patch" ELSE "move"
        /\ gc'.at = next /\ gc'.ptrHolder = gc.ptrHolder /\ gc'.want = gc.want
    <3>1. DOMAIN gc = gcFields
      BY <1>2 DEF Always
    <3> HIDE DEF next
    <3> QED
      BY <1>9, <3>1 DEF gcFields
  <2>4. Roomy(chunks, idle, cs, T)
    <3> HIDE DEF T
    <3> QED
      BY <1>3, <1>6, <1>9, RoomFound
  <2>5. /\ Grown(chunks, chunks', idle, Len(cs), h, T)
        /\ bytesIn(bumped(cs, T)) = bytesIn(chunks[idle]) + T
    <3> HIDE DEF T
    <3> QED
      BY <1>3, <1>6, <2>1, <2>4, RoomTaken
  <2>6. Carried(chunks, arrays, mem, idle, p, chunks', q, arrays', mem')
    <3>1. CopyLaid(chunks, mem, idle, n, chunks', Len(cs), h, p - 16, mem')
      BY <1>4, <1>9, <2>5 DEF CopyLaid
    <3>2. Sized(mem, p) = totalOf(n)
      BY <1>4, <1>6
    <3> HIDE DEF p, T, h
    <3> QED
      BY <1>3, <1>4, <1>6, <2>1, <3>1, <3>2 DEF Carried
  <2> HIDE DEF h, q, p, next, size, T
  <2>7. /\ HeapOK(F, chunks', arrays', mem')
        /\ Copied(arrays, mem, p, q, mem')
        /\ q \notin arrays /\ q \in Nat /\ q >= 16 /\ q < MID * LO
        /\ ArraysOf(chunks', arrays', idle) = ArraysOf(chunks, arrays, idle) \cup {q}
        /\ ArraysOf(chunks', arrays', active) = ArraysOf(chunks, arrays, active)
    BY <1>3, <2>6, CarriedHeap
  <2>8. Arrays(active)' = Arrays(active) /\ Arrays(idle)' = Arrays(idle) \cup {q}
    BY <2>2, <2>7, ArraysNow
  <2>9. /\ \A x \in arrays : /\ mem'[x - 16] = mem[x - 16]
                             /\ x # p => mem'[x - 8] = mem[x - 8]
        /\ Unmarked(mem', q) /\ Unforwarded(mem', q)
    BY <1>3, <1>4, <2>7, CopiedArrays
  <2>10. /\ Arrays(active) \subseteq arrays /\ Arrays(idle) \subseteq arrays
         /\ Arrays(active) \cap Arrays(idle) = {}
    <3>1. \A x \in arrays : ~(x \in ArraysOf(chunks, arrays, active) /\ x \in ArraysOf(chunks, arrays, idle))
      BY <1>3, ArraysSplit
    <3> QED
      BY <3>1, ArraysNow DEF ArraysOf
  <2>11. Forwarded(mem', Arrays(active), Arrays(idle) \cup {q}, RootPointers, chunks[active], next)
    BY <1>2, <1>3, <1>4, <1>5, <2>7, <2>10, ForwardedMore
  <2>12. chunks'[active] = chunks[active]
    BY <1>3, <2>1
  <2>13. totalAllocated' \in [Spaces -> Nat]
         /\ \A s \in Spaces : totalAllocated'[s] = bytesIn(chunks'[s])
    <3>1. \A s \in Spaces : totalAllocated[s] = bytesIn(chunks[s])
      BY <1>2, StateFacts
    <3> QED
      BY <1>3, <1>6, <2>1, <2>5, <3>1
  <2>14. Always(F)'
    <3>1. sp' \in 0 .. STACK_SIZE /\ fp' \in Nat /\ fp' =< sp' /\ ip' \in Nat
      BY <1>2, <2>1, StateFacts
    <3>2. RootPointers' \subseteq Arrays(active)'
      BY <1>2, <2>2, <2>8 DEF Always
    <3> QED
      BY <2>2, <2>3, <2>7, <2>13, <3>1, <3>2 DEF Always
  <2>15. TypeOK'
    <3>1. /\ reg' \in [Regs -> Word] /\ stack' \in [Slots -> Word] /\ heapAUsed' \in BOOLEAN
          /\ status' \in {"running", "wild", "threw", "halted"} /\ gc'.phase \in HeapPhases
      BY <1>2, <2>1, <2>3 DEF TypeOK, HeapPhases
    <3> QED
      BY <2>7, <2>13, <3>1, TypesNext
  <2>16. BeforeMove' /\ BeforeMark' /\ InWalk'
    BY <1>2, <2>3 DEF BeforeMove, BeforeMark, InWalk
  <2>17. AfterMark'
    <3>1. \A x \in Arrays(active) : mem'[x - OBJ_HEADER] = mem[x - OBJ_HEADER]
      BY <2>9, <2>10
    <3> QED
      BY <1>2, <2>2, <2>3, <2>8, <3>1 DEF AfterMark
  <2>18. InMove'
    <3>1. CursorOK(chunks[active], arrays', next)
      BY <1>4, <2>1 DEF CursorOK
    <3>2. \A x \in Arrays(idle) \cup {q} : Unmarked(mem', x) /\ Unforwarded(mem', x)
      <4>1. \A x \in Arrays(idle) : x \in arrays /\ x # p
        BY <1>4, <2>10
      <4>2. \A x \in Arrays(idle) : Unmarked(mem', x) /\ Unforwarded(mem', x)
        BY <1>2, <2>9, <4>1 DEF Unmarked, Unforwarded
      <4> QED
        BY <2>9, <4>2
    <3> QED
      BY <1>4, <2>2, <2>3, <2>8, <2>11, <2>12, <3>1, <3>2 DEF InMove
  <2> QED
    BY <2>14, <2>15, <2>16, <2>17, <2>18 DEF IInv
<1> QED
  BY <1>7, <1>8, <1>9

(***************************************************************************)
(* The end of a collection.                                                *)
(***************************************************************************)
\* A cell is a word of the region it lies in, and of no other.
LEMMA WordOf ==
  ASSUME Tame, NEW r \in Regions, NEW a \in Cells
  PROVE  a \in wordsOf(r) <=> r =< a /\ a < r + CHUNK_SIZE
<1>1. r \in Nat /\ r % 8 = 0 /\ CHUNK_SIZE \in Nat /\ CHUNK_SIZE % 8 = 0
  BY RegionFacts
<1>2. a \in Nat /\ a % 8 = 0
  BY CellFacts
<1>3. CHUNK_SIZE = 8 * (CHUNK_SIZE \div 8)
  BY <1>1
<1>4. ASSUME a \in wordsOf(r) PROVE r =< a /\ a < r + CHUNK_SIZE
  <2>1. PICK k \in 0 .. CHUNK_SIZE \div 8 - 1 : a = r + 8 * k
    BY <1>4 DEF wordsOf
  <2>2. k \in Nat /\ k =< CHUNK_SIZE \div 8 - 1
    BY <1>1, <2>1
  <2> QED
    BY <1>1, <1>3, <2>1, <2>2
<1>5. ASSUME r =< a, a < r + CHUNK_SIZE PROVE a \in wordsOf(r)
  <2> DEFINE k == (a - r) \div 8
  <2>1. a = r + 8 * k /\ k \in 0 .. CHUNK_SIZE \div 8 - 1
    BY <1>1, <1>2, <1>3, <1>5
  <2> QED
    BY <2>1 DEF wordsOf
<1> QED
  BY <1>4, <1>5

\* Half-space s of ch is freed, and with it its arrays.
Freed(ch, A, m, s, ch2, A2, m2) ==
  /\ s \in Spaces
  /\ ch2 = [ch EXCEPT ![s] = <<>>]
  /\ A2 = {p \in A : ~Mapped(heldBy(ch[s]), {p - OBJ_HEADER})}
  /\ m2 = overwrite(m, [a \in UNION {wordsOf(r) : r \in heldBy(ch[s])} |-> ZERO])

\* Memory in which the words S were cleared.
LEMMA WordsCleared ==
  ASSUME NEW m \in [Cells -> Word], NEW S, NEW g, DOMAIN g = S, \A a \in S : g[a] = ZERO,
         NEW m2, m2 = overwrite(m, g)
  PROVE  m2 \in [Cells -> Word] /\ \A a \in Cells : m2[a] = IF a \in S THEN ZERO ELSE m[a]
<1>1. m2 = [a \in Cells |-> IF a \in DOMAIN g THEN g[a] ELSE m[a]]
  BY DEF overwrite
<1>2. \A a \in Cells : m2[a] = IF a \in S THEN ZERO ELSE m[a]
  BY <1>1
<1>3. \A a \in Cells : m2[a] \in Word
  BY <1>2, ZeroWord
<1> QED
  BY <1>1, <1>2, <1>3

\* The words of the freed half-space are clear, those of the other are kept.
LEMMA FreedMemory ==
  ASSUME Tame, NEW F, NEW ch, NEW A, NEW m, HeapOK(F, ch, A, m),
         NEW s, NEW t \in Spaces, t # s, NEW ch2, NEW A2, NEW m2,
         Freed(ch, A, m, s, ch2, A2, m2)
  PROVE  /\ m2 \in [Cells -> Word]
         /\ A2 = ArraysOf(ch, A, t) /\ A2 \subseteq A
         /\ Untouched(A2, m, m2)
         /\ Clear(A2, m2)
<1> DEFINE W0 == UNION {wordsOf(r) : r \in heldBy(ch[s])}
<1>1. /\ Layout(F, ch, A, m) /\ m \in [Cells -> Word]
      /\ \A p \in A : ArrayOK(m, p)
      /\ s \in Spaces /\ \A u \in Spaces : u = s \/ u = t
      /\ A2 = {p \in A : ~Mapped(heldBy(ch[s]), {p - OBJ_HEADER})}
      /\ m2 = overwrite(m, [a \in W0 |-> ZERO])
  BY DEF HeapOK, Freed, Spaces
<1> HIDE DEF W0
<1>2. m2 \in [Cells -> Word] /\ \A a \in Cells : m2[a] = IF a \in W0 THEN ZERO ELSE m[a]
  <2> DEFINE g == [a \in W0 |-> ZERO]
  <2>1. m \in [Cells -> Word] /\ m2 = overwrite(m, g)
    BY <1>1
  <2>2. DOMAIN g = W0 /\ \A a \in W0 : g[a] = ZERO
    OBVIOUS
  <2> HIDE DEF g
  <2> QED
    BY <2>1, <2>2, WordsCleared
<1>3. \A a \in Cells : a \in W0 <=>
        \E i \in DOMAIN ch[s] : ch[s][i].mem =< a /\ a < ch[s][i].mem + CHUNK_SIZE
  <2>1. \A i \in DOMAIN ch[s] : ch[s][i].mem \in Regions
    BY <1>1, ChunkNumbers
  <2> QED
    BY <2>1, WordOf DEF heldBy, W0
<1>4. A2 = ArraysOf(ch, A, t)
  <2>1. A2 = {p \in A : p \notin ArraysOf(ch, A, s)}
    BY <1>1 DEF ArraysOf
  <2>2. \A p \in A : p \in ArraysOf(ch, A, s) \/ p \in ArraysOf(ch, A, t)
    BY <1>1, ArraysSplit
  <2>3. \A p \in A : ~(p \in ArraysOf(ch, A, s) /\ p \in ArraysOf(ch, A, t))
    BY <1>1, ArraysSplit
  <2>4. ArraysOf(ch, A, t) \subseteq A
    BY DEF ArraysOf
  <2> QED
    BY <2>1, <2>2, <2>3, <2>4
\* An array's words lie in its chunk.
<1>5. ASSUME NEW u \in Spaces, NEW p \in ArraysOf(ch, A, u)
      PROVE  \E i \in DOMAIN ch[u] : \A a \in Nat : covers(m, p, a) =>
               ch[u][i].mem =< a /\ a < ch[u][i].mem + CHUNK_SIZE
  <2>1. PICK i \in DOMAIN ch[u] : p \in A /\ InChunk(m, p, ch[u][i])
    BY <1>1, ArraysIn
  <2>2. /\ ch[u][i].mem \in Nat /\ ch[u][i].used \in Nat /\ ch[u][i].used =< CHUNK_SIZE
        /\ CHUNK_SIZE \in Nat
    BY <1>1, ChunkNumbers, RegionFacts
  <2>3. p \in Nat /\ p >= 16 /\ Sized(m, p) \in Nat
    BY <2>1, OwnWords
  <2>4. ASSUME NEW a \in Nat, covers(m, p, a)
        PROVE  ch[u][i].mem =< a /\ a < ch[u][i].mem + CHUNK_SIZE
    <3>1. ch[u][i].mem + 16 =< p /\ p - 16 + Sized(m, p) =< ch[u][i].mem + ch[u][i].used
      BY <2>1 DEF InChunk
    <3>2. p - 16 =< a /\ a < p - 16 + Sized(m, p)
      BY <2>4 DEF covers
    <3> QED
      BY <2>2, <2>3, <3>1, <3>2
  <2> QED
    BY <2>4
<1>6. Untouched(A2, m, m2)
  <2> SUFFICES ASSUME NEW p \in A2, NEW a \in Cells, covers(m, p, a)
               PROVE  a \notin W0
    BY <1>2 DEF Untouched
  <2>1. a \in Nat
    BY CellFacts
  <2>2. PICK j \in DOMAIN ch[t] : ch[t][j].mem =< a /\ a < ch[t][j].mem + CHUNK_SIZE
    BY <1>4, <1>5, <2>1
  <2>3. ASSUME NEW i \in DOMAIN ch[s]
        PROVE  ~(ch[s][i].mem =< a /\ a < ch[s][i].mem + CHUNK_SIZE)
    <3>1. ch[s][i].mem # ch[t][j].mem
      BY <1>1 DEF Layout
    <3>2. /\ ch[s][i].mem \in Regions /\ ch[t][j].mem \in Regions
          /\ ch[s][i].mem \in Nat /\ ch[t][j].mem \in Nat /\ CHUNK_SIZE \in Nat
      BY <1>1, ChunkNumbers, RegionFacts
    <3>3. \/ ch[s][i].mem + CHUNK_SIZE =< ch[t][j].mem
          \/ ch[t][j].mem + CHUNK_SIZE =< ch[s][i].mem
      BY <3>1, <3>2, RegionFacts
    <3> QED
      BY <2>1, <2>2, <3>2, <3>3
  <2> QED
    BY <1>3, <2>3
<1>7. Clear(A2, m2)
  <2> SUFFICES ASSUME NEW a \in Cells, \A p \in A2 : ~covers(m2, p, a), a \notin W0
               PROVE  m[a] = ZERO
    BY <1>2 DEF Clear
  <2>1. a \in Nat
    BY CellFacts
  <2>2. ASSUME NEW p \in A PROVE ~covers(m, p, a)
    <3>1. CASE p \in ArraysOf(ch, A, s)
      <4>1. SUFFICES ASSUME covers(m, p, a) PROVE FALSE
        OBVIOUS
      <4>2. \E i \in DOMAIN ch[s] : ch[s][i].mem =< a /\ a < ch[s][i].mem + CHUNK_SIZE
        BY <1>1, <1>5, <2>1, <3>1, <4>1
      <4> QED
        BY <1>3, <4>2
    <3>2. CASE p \in ArraysOf(ch, A, t)
      <4>1. p \in A2 /\ p - 16 \in Cells /\ covers(m, p, p - 16)
        BY <1>4, <3>2, OwnWords
      <4>2. m2[p - 16] = m[p - 16]
        BY <1>6, <4>1 DEF Untouched
      <4>3. ~covers(m2, p, a)
        BY <4>1
      <4> QED
        BY <4>2, <4>3 DEF covers, Sized
    <3>3. p \in ArraysOf(ch, A, s) \/ p \in ArraysOf(ch, A, t)
      BY <1>1, ArraysSplit
    <3> QED
      BY <3>1, <3>2, <3>3
  <2> QED
    BY <2>2 DEF HeapOK, Clear
<1> QED
  BY <1>1, <1>2, <1>4, <1>6, <1>7

LEMMA FreedHeap ==
  ASSUME Tame, NEW F, NEW ch, NEW A, NEW m, HeapOK(F, ch, A, m),
         NEW s, NEW t \in Spaces, t # s, NEW ch2, NEW A2, NEW m2,
         Freed(ch, A, m, s, ch2, A2, m2)
  PROVE  /\ HeapOK(F, ch2, A2, m2)
         /\ A2 = ArraysOf(ch, A, t) /\ ArraysOf(ch2, A2, t) = A2
         /\ Untouched(A2, m, m2)
<1>1. /\ Layout(F, ch, A, m) /\ \A p \in A : ArrayOK(m, p)
      /\ s \in Spaces /\ \A u \in Spaces : u = s \/ u = t
      /\ ch \in [Spaces -> Seq(HeapChunk)]
      /\ ch2 = [ch EXCEPT ![s] = <<>>]
  BY DEF HeapOK, Layout, Freed, Spaces
<1>2. /\ m2 \in [Cells -> Word]
      /\ A2 = ArraysOf(ch, A, t) /\ A2 \subseteq A
      /\ Untouched(A2, m, m2)
      /\ Clear(A2, m2)
  BY FreedMemory, Z3
<1>3. /\ ch2 \in [Spaces -> Seq(HeapChunk)]
      /\ ch2[t] = ch[t] /\ ch2[s] = <<>> /\ DOMAIN ch2[s] = {}
  <2>1. <<>> \in Seq(HeapChunk) /\ DOMAIN <<>> = {}
    OBVIOUS
  <2> QED
    BY <1>1, <2>1
<1>4. ASSUME NEW p \in A2
      PROVE  /\ p \in Nat /\ p >= 16 /\ Sized(m, p) \in Nat /\ Sized(m, p) >= 40
             /\ m2[p - 16] = m[p - 16] /\ Sized(m2, p) = Sized(m, p)
             /\ ArrayOK(m2, p)
  <2>1. /\ p \in A /\ p \in Nat /\ p >= 16 /\ Sized(m, p) \in Nat /\ Sized(m, p) >= 40
        /\ p - 16 \in Cells /\ covers(m, p, p - 16)
    BY <1>2, OwnWords
  <2>2. m2[p - 16] = m[p - 16] /\ Sized(m2, p) = Sized(m, p)
    BY <1>2, <2>1 DEF Untouched, Sized
  <2>3. ASSUME NEW a \in Nat, a % 8 = 0, p =< a, a < p - OBJ_HEADER + Sized(m, p)
        PROVE  m2[a] = m[a]
    <3>1. covers(m, p, a)
      BY <2>1, <2>3 DEF covers
    <3>2. a \in Cells
      BY <1>1, <2>1, <2>3, <3>1, ArrayCells
    <3> QED
      BY <1>2, <3>1, <3>2 DEF Untouched
  <2>4. ArrayOK(m, p) /\ typeOf(m2[p - OBJ_HEADER]) = typeOf(m[p - OBJ_HEADER])
    BY <1>1, <2>1, <2>2
  <2>5. ArrayOK(m2, p)
    BY <2>2, <2>3, <2>4, ArrayKept
  <2> QED
    BY <2>1, <2>2, <2>5
<1>5. \A p \in A2 : \E i \in DOMAIN ch[t] : InChunk(m, p, ch[t][i])
  BY <1>1, <1>2, ArraysIn
<1>6. ASSUME NEW i \in DOMAIN ch[t]
      PROVE  /\ ch[t][i].used \in F
             /\ ch[t][i].mem + OBJ_HEADER \in A2
             /\ \A p \in A2 : InChunk(m2, p, ch[t][i]) =>
                  \/ p + Sized(m2, p) \in A2
                  \/ p + Sized(m2, p) = ch[t][i].mem + ch[t][i].used + OBJ_HEADER
  <2> DEFINE c == ch[t][i]
  <2>1. /\ c.used \in F /\ c.mem + 16 \in A
        /\ \A p \in A : InChunk(m, p, c) =>
             \/ p + Sized(m, p) \in A
             \/ p + Sized(m, p) = c.mem + c.used + 16
    BY <1>1 DEF Layout
  <2>2. /\ c.mem \in Nat /\ c.used \in Nat /\ c.used =< CHUNK_SIZE /\ CHUNK_SIZE \in Nat
        /\ CHUNK_SIZE > 0
    BY <1>1, ChunkNumbers, RegionFacts
  <2>3. ASSUME NEW x \in A, c.mem =< x - 16, x - 16 < c.mem + CHUNK_SIZE
        PROVE  x \in A2
    <3>1. InChunk(m, x, c)
      BY <1>1, <2>3, ChunkOfArray
    <3> QED
      BY <1>1, <1>2, <3>1, ArraysIn
  <2> HIDE DEF c
  <2>4. c.mem + 16 \in A2
    <3>1. c.mem =< (c.mem + 16) - 16 /\ (c.mem + 16) - 16 < c.mem + CHUNK_SIZE
      BY <2>2
    <3> QED
      BY <2>1, <2>3, <3>1
  <2>5. ASSUME NEW p \in A2, InChunk(m2, p, c)
        PROVE  p + Sized(m2, p) \in A2 \/ p + Sized(m2, p) = c.mem + c.used + 16
    <3>1. /\ InChunk(m, p, c) /\ c.mem + 16 =< p /\ p - 16 + Sized(m, p) =< c.mem + c.used
      BY <1>4, <2>5 DEF InChunk
    <3>2. p + Sized(m, p) \in A \/ p + Sized(m, p) = c.mem + c.used + 16
      BY <1>2, <2>1, <3>1
    <3>3. CASE p + Sized(m, p) = c.mem + c.used + 16
      BY <1>4, <3>3
    <3>4. CASE p + Sized(m, p) \in A /\ p + Sized(m, p) # c.mem + c.used + 16
      <4>1. p \in Nat /\ Sized(m, p) \in Nat /\ Sized(m, p) >= 40
        BY <1>4
      <4>2. /\ c.mem =< (p + Sized(m, p)) - 16
            /\ (p + Sized(m, p)) - 16 < c.mem + CHUNK_SIZE
        BY <2>2, <3>1, <3>4, <4>1
      <4> QED
        BY <1>4, <2>3, <3>4, <4>2
    <3> QED
      BY <3>2, <3>3, <3>4
  <2> QED
    BY <2>1, <2>4, <2>5 DEF c
<1>7. \A u \in Spaces : \A i \in DOMAIN ch2[u] : u = t /\ ch2[u] = ch[t]
  BY <1>1, <1>3
<1>8. Layout(F, ch2, A2, m2)
  <2>1. \A u, v \in Spaces : \A i \in DOMAIN ch2[u], j \in DOMAIN ch2[v] :
          u # v \/ i # j => ch2[u][i].mem # ch2[v][j].mem
    BY <1>1, <1>3, <1>7 DEF Layout
  <2>2. \A p, q \in A2 : p # q => p + Sized(m2, p) =< q \/ q + Sized(m2, q) =< p
    <3>1. \A p, q \in A : p # q => p + Sized(m, p) =< q \/ q + Sized(m, q) =< p
      BY <1>1 DEF Layout
    <3> QED
      BY <1>2, <1>4, <3>1
  <2>3. \A p \in A2 : \E u \in Spaces : \E i \in DOMAIN ch2[u] : InChunk(m2, p, ch2[u][i])
    <3> SUFFICES ASSUME NEW p \in A2
                 PROVE  \E i \in DOMAIN ch2[t] : InChunk(m2, p, ch2[t][i])
      OBVIOUS
    <3>1. PICK i \in DOMAIN ch[t] : InChunk(m, p, ch[t][i])
      BY <1>5
    <3> QED
      BY <1>3, <1>4, <3>1 DEF InChunk
  <2>4. \A u \in Spaces : \A i \in DOMAIN ch2[u] :
          /\ ch2[u][i].used \in F
          /\ ch2[u][i].mem + OBJ_HEADER \in A2
          /\ \A p \in A2 : InChunk(m2, p, ch2[u][i]) =>
               \/ p + Sized(m2, p) \in A2
               \/ p + Sized(m2, p) = ch2[u][i].mem + ch2[u][i].used + OBJ_HEADER
    <3> SUFFICES ASSUME NEW u \in Spaces, NEW i \in DOMAIN ch2[u]
                 PROVE  /\ ch2[u][i].used \in F
                        /\ ch2[u][i].mem + OBJ_HEADER \in A2
                        /\ \A p \in A2 : InChunk(m2, p, ch2[u][i]) =>
                             \/ p + Sized(m2, p) \in A2
                             \/ p + Sized(m2, p) = ch2[u][i].mem + ch2[u][i].used + OBJ_HEADER
      OBVIOUS
    <3>1. ch2[u] = ch[t] /\ i \in DOMAIN ch[t]
      BY <1>7
    <3> QED
      BY <1>6, <3>1
  <2> QED
    BY <1>3, <2>1, <2>2, <2>3, <2>4 DEF Layout
<1>9. ArraysOf(ch2, A2, t) = A2
  <2>1. A2 \subseteq ArraysOf(ch2, A2, t)
    BY <1>2, <1>3 DEF ArraysOf
  <2> QED
    BY <2>1 DEF ArraysOf
<1> QED
  BY <1>2, <1>4, <1>8, <1>9 DEF HeapOK

\* At the end of the walk every array of the half-space has been passed.
LEMMA EveryPassed ==
  ASSUME Tame, NEW F, NEW ch, NEW A, NEW m, HeapOK(F, ch, A, m), NEW s \in Spaces, NEW at,
         CursorOK(ch[s], A, at), at[1] \notin DOMAIN ch[s], NEW p \in ArraysOf(ch, A, s)
  PROVE  Passed(m, ch[s], at, p)
<1>1. /\ Layout(F, ch, A, m) /\ \A q \in A : ArrayOK(m, q)
      /\ DOMAIN ch[s] = 1 .. Len(ch[s]) /\ Len(ch[s]) \in Nat
  BY ChunkNumbers DEF HeapOK
<1>2. at[1] = Len(ch[s]) + 1
  BY DEF CursorOK
<1>3. PICK i \in DOMAIN ch[s] : InChunk(m, p, ch[s][i])
  BY <1>1, ArraysIn
<1>4. i < at[1]
  BY <1>1, <1>2, <1>3
<1> QED
  BY <1>3, <1>4 DEF Passed

\* Once all that was marked has moved, a root's forwarding address is that of
\* an array of B, and every array of B is one.
LEMMA AllForwarded ==
  ASSUME NEW m, NEW A, NEW B, NEW P, NEW cs, NEW at, Forwarded(m, A, B, P, cs, at),
         \A p \in A : Passed(m, cs, at, p), P \subseteq A
  PROVE  /\ \A p \in P : m[p - 8] # ZERO /\ isPointer(m[p - 8]) /\ fwd(m, p) \in B
         /\ \A q \in B : \E p \in P : fwd(m, p) = q
<1>1. {p \in A : p \in P /\ Passed(m, cs, at, p)} = P
  OBVIOUS
<1> QED
  BY <1>1 DEF Forwarded

\* updatePtrHolder: the roots are the forwarding addresses.
RootsForwarded(m, rg, st, top, rg2, st2) ==
  /\ \A r \in Regs : rg2[r] = IF isPointer(rg[r]) THEN m[decodePointer(rg[r]) - 8] ELSE rg[r]
  /\ \A i \in Slots : st2[i] = IF i < top /\ isPointer(st[i])
                               THEN m[decodePointer(st[i]) - 8] ELSE st[i]

\* And the forwarding addresses lead to the arrays B.
RootsFollowed(m, B, rg, st, top, rg2, st2) ==
  /\ RootsForwarded(m, rg, st, top, rg2, st2)
  /\ \A p \in rootsOf(rg, st, top) : isPointer(m[p - 8]) /\ fwd(m, p) \in B
  /\ \A q \in B : \E p \in rootsOf(rg, st, top) : fwd(m, p) = q

LEMMA RootsFollow ==
  ASSUME NEW m, NEW B, NEW rg, NEW st, NEW top, NEW rg2, NEW st2,
         RootsFollowed(m, B, rg, st, top, rg2, st2)
  PROVE  rootsOf(rg2, st2, top) = B
<1> USE DEF RootsFollowed
<1>1. ASSUME NEW r \in Regs
      PROVE  /\ isPointer(rg2[r]) <=> isPointer(rg[r])
             /\ isPointer(rg[r]) => /\ decodePointer(rg[r]) \in rootsOf(rg, st, top)
                                    /\ decodePointer(rg2[r]) = fwd(m, decodePointer(rg[r]))
  <2>1. isPointer(rg[r]) => decodePointer(rg[r]) \in rootsOf(rg, st, top)
    BY RootIs
  <2> QED
    BY <2>1 DEF RootsForwarded, fwd
<1>2. ASSUME NEW i \in Slots, i < top
      PROVE  /\ isPointer(st2[i]) <=> isPointer(st[i])
             /\ isPointer(st[i]) => /\ decodePointer(st[i]) \in rootsOf(rg, st, top)
                                    /\ decodePointer(st2[i]) = fwd(m, decodePointer(st[i]))
  <2>1. isPointer(st[i]) => decodePointer(st[i]) \in rootsOf(rg, st, top)
    BY <1>2, RootIs
  <2> QED
    BY <1>2, <2>1 DEF RootsForwarded, fwd
<1>3. ASSUME NEW q \in rootsOf(rg2, st2, top) PROVE q \in B
  <2>1. \/ \E r \in Regs : isPointer(rg2[r]) /\ q = decodePointer(rg2[r])
        \/ \E i \in Slots : i < top /\ isPointer(st2[i]) /\ q = decodePointer(st2[i])
    BY <1>3, RootIs
  <2>2. \E p \in rootsOf(rg, st, top) : q = fwd(m, p)
    BY <1>1, <1>2, <2>1
  <2> QED
    BY <2>2
<1>4. ASSUME NEW q \in B PROVE q \in rootsOf(rg2, st2, top)
  <2>1. PICK p \in rootsOf(rg, st, top) : fwd(m, p) = q
    OBVIOUS
  <2>2. \/ \E r \in Regs : isPointer(rg[r]) /\ p = decodePointer(rg[r])
        \/ \E i \in Slots : i < top /\ isPointer(st[i]) /\ p = decodePointer(st[i])
    BY <2>1, RootIs
  <2>3. \/ \E r \in Regs : isPointer(rg2[r]) /\ q = decodePointer(rg2[r])
        \/ \E i \in Slots : i < top /\ isPointer(st2[i]) /\ q = decodePointer(st2[i])
    BY <1>1, <1>2, <2>1, <2>2
  <2> QED
    BY <2>3, RootIs
<1> QED
  BY <1>3, <1>4

\* The places of the roots are registers and slots, and in no array.
LEMMA RootPlaces ==
  /\ \A r \in Regs : <<"reg", r>> \in Roots <=> isPointer(reg[r])
  /\ \A i \in Slots : <<"stack", i>> \in Roots <=> i < sp /\ isPointer(stack[i])
  /\ \A a : <<"mem", a>> \notin Roots
<1>1. ASSUME NEW r \in Regs PROVE <<"reg", r>> \in Roots <=> isPointer(reg[r])
  BY DEF Roots
<1>2. ASSUME NEW i \in Slots
      PROVE  <<"stack", i>> \in Roots <=> i < sp /\ isPointer(stack[i])
  BY DEF Roots
<1>3. ASSUME NEW a PROVE <<"mem", a>> \notin Roots
  BY DEF Roots
<1> QED
  BY <1>1, <1>2, <1>3

\* The roots change to what they are forwarded to.
LEMMA RootsPatched ==
  ASSUME Tame, NEW F, TypeOK, Always(F), gc.ptrHolder = Roots, UpdatePtrHolder
  PROVE  /\ reg' \in [Regs -> Word] /\ stack' \in [Slots -> Word]
         /\ RootsForwarded(mem, reg, stack, sp, reg', stack')
<1>1. /\ reg' = [r \in Regs |-> IF <<"reg", r>> \in gc.ptrHolder
                                THEN mem[decodePointer(reg[r]) - 8] ELSE reg[r]]
      /\ stack' = [i \in Slots |-> IF <<"stack", i>> \in gc.ptrHolder
                                   THEN mem[decodePointer(stack[i]) - 8] ELSE stack[i]]
  BY DEF UpdatePtrHolder
<1>2. /\ reg \in [Regs -> Word] /\ stack \in [Slots -> Word] /\ mem \in [Cells -> Word]
      /\ HeapOK(F, chunks, arrays, mem) /\ RootPointers \subseteq arrays
  BY StateFacts DEF ArraysOf
<1>3. \A p \in RootPointers : mem[p - 8] \in Word
  BY <1>2, OwnWords
<1>4. /\ \A r \in Regs : reg'[r] = IF isPointer(reg[r])
                                   THEN mem[decodePointer(reg[r]) - 8] ELSE reg[r]
      /\ \A i \in Slots : stack'[i] = IF i < sp /\ isPointer(stack[i])
                                      THEN mem[decodePointer(stack[i]) - 8] ELSE stack[i]
  BY <1>1, RootPlaces
<1>5. /\ \A r \in Regs : isPointer(reg[r]) => decodePointer(reg[r]) \in RootPointers
      /\ \A i \in Slots : i < sp /\ isPointer(stack[i]) => decodePointer(stack[i]) \in RootPointers
  BY RootsAre
<1>6. /\ \A r \in Regs : reg'[r] \in Word
      /\ \A i \in Slots : stack'[i] \in Word
  BY <1>2, <1>3, <1>4, <1>5
<1> QED
  BY <1>1, <1>4, <1>6 DEF RootsForwarded

\* freeHeap of the old half-space.
LEMMA HalfFreed ==
  ASSUME Tame, NEW F, TypeOK, Always(F), gc.ptrHolder = Roots, UpdatePtrHolder
  PROVE  Freed(chunks, arrays, mem, active, chunks', arrays', mem')
<1> DEFINE interior == {a \in Cells : <<"mem", a>> \in gc.ptrHolder}
           patched  == overwrite(mem, [a \in interior |-> mem[decodePointer(mem[a]) - 8]])
<1>1. /\ mem' = released(patched, heldBy(chunks[active]))
      /\ chunks' = [chunks EXCEPT ![active] = <<>>]
      /\ arrays' = {p \in arrays : ~Mapped(heldBy(chunks[active]), {p - OBJ_HEADER})}
  BY DEF UpdatePtrHolder
<1>2. interior = {}
  BY RootPlaces
<1> HIDE DEF interior
<1>3. mem \in [Cells -> Word]
  BY DEF TypeOK
<1>4. patched = mem
  BY <1>2, <1>3 DEF overwrite
<1> HIDE DEF patched
<1>5. mem' = overwrite(mem, [a \in UNION {wordsOf(r) : r \in heldBy(chunks[active])} |-> ZERO])
  BY <1>1, <1>4 DEF released, Tame
<1> QED
  BY <1>1, <1>5, TwoSpaces DEF Freed

\* updatePtrHolder and the flip.
LEMMA UpdatePtrHolderStep ==
  ASSUME Tame, NEW F, IInv(F), UpdatePtrHolder
  PROVE  IInv(F)'
<1>1. /\ Running /\ gc.phase = "patch"
      /\ totalAllocated' = [totalAllocated EXCEPT ![active] = 0]
      /\ heapAUsed' = ~heapAUsed
      /\ gc' = [NotCollecting EXCEPT !.phase = "alloc", !.want = gc.want]
      /\ sp' = sp /\ fp' = fp /\ ip' = ip /\ status' = status
  BY DEF UpdatePtrHolder
<1>2. /\ TypeOK /\ Always(F)
      /\ gc.want \in Regs \X Lengths \X Types
      /\ gc.ptrHolder = Roots
      /\ CursorOK(chunks[active], arrays, gc.at)
      /\ gc.at[1] \notin DOMAIN chunks[active]
      /\ \A q \in Arrays(idle) : Unmarked(mem, q) /\ Unforwarded(mem, q)
      /\ Forwarded(mem, Arrays(active), Arrays(idle), RootPointers, chunks[active], gc.at)
  BY <1>1 DEF IInv, BeforeMark, AfterMark, InMove
<1>3. /\ HeapOK(F, chunks, arrays, mem)
      /\ chunks \in [Spaces -> Seq(HeapChunk)] /\ totalAllocated \in [Spaces -> Nat]
      /\ \A s \in Spaces : totalAllocated[s] = bytesIn(chunks[s])
      /\ RootPointers \subseteq Arrays(active)
  BY <1>2, StateFacts
<1>4. /\ active \in Spaces /\ idle \in Spaces /\ active # idle
      /\ \A s \in Spaces : s = active \/ s = idle
      /\ active' = idle /\ idle' = active
  BY <1>1, <1>2, StateFacts, TwoSpaces
<1>5. \A p \in Arrays(active) : Passed(mem, chunks[active], gc.at, p)
  BY <1>2, <1>3, <1>4, EveryPassed, ArraysNow
<1>6. /\ \A p \in RootPointers :
           mem[p - 8] # ZERO /\ isPointer(mem[p - 8]) /\ fwd(mem, p) \in Arrays(idle)
      /\ \A q \in Arrays(idle) : \E p \in RootPointers : fwd(mem, p) = q
  BY <1>2, <1>3, <1>5, AllForwarded
<1>7. /\ reg' \in [Regs -> Word] /\ stack' \in [Slots -> Word]
      /\ RootsForwarded(mem, reg, stack, sp, reg', stack')
  BY <1>2, RootsPatched
<1>8. RootPointers' = Arrays(idle)
  <2>1. RootsFollowed(mem, Arrays(idle), reg, stack, sp, reg', stack')
    BY <1>6, <1>7, RootsNow DEF RootsFollowed
  <2>2. rootsOf(reg', stack', sp) = Arrays(idle)
    BY <2>1, RootsFollow
  <2> QED
    BY <1>1, <2>2, RootsNow
<1>9. Freed(chunks, arrays, mem, active, chunks', arrays', mem')
  BY <1>2, HalfFreed
<1>10. /\ HeapOK(F, chunks', arrays', mem')
       /\ arrays' = Arrays(idle) /\ Arrays(active)' = arrays'
       /\ Untouched(arrays', mem, mem')
  <2>1. /\ HeapOK(F, chunks', arrays', mem')
        /\ arrays' = ArraysOf(chunks, arrays, idle) /\ ArraysOf(chunks', arrays', idle) = arrays'
        /\ Untouched(arrays', mem, mem')
    BY <1>3, <1>4, <1>9, FreedHeap
  <2> QED
    BY <1>4, <2>1, ArraysNow
<1>11. /\ chunks' = [chunks EXCEPT ![active] = <<>>]
       /\ chunks'[active] = <<>> /\ chunks'[idle] = chunks[idle]
  BY <1>3, <1>4, <1>9 DEF Freed
<1>12. /\ totalAllocated' \in [Spaces -> Nat]
       /\ \A s \in Spaces : totalAllocated'[s] = bytesIn(chunks'[s])
  BY <1>1, <1>3, <1>4, <1>11, BytesOfNone
<1>13. /\ gc'.phase = "alloc" /\ gc'.want = gc.want /\ DOMAIN gc' = gcFields
  BY <1>1 DEF NotCollecting, gcFields
<1>14. Always(F)'
  <2>1. sp' \in 0 .. STACK_SIZE /\ fp' \in Nat /\ fp' =< sp' /\ ip' \in Nat
    BY <1>1, <1>2, StateFacts
  <2>2. RootPointers' \subseteq Arrays(active)'
    BY <1>8, <1>10
  <2> QED
    BY <1>10, <1>12, <1>13, <2>1, <2>2 DEF Always
<1>15. TypeOK'
  <2>1. /\ heapAUsed' \in BOOLEAN /\ gc'.phase \in HeapPhases
        /\ status' \in {"running", "wild", "threw", "halted"}
    <3>1. heapAUsed' \in BOOLEAN
      BY <1>1
    <3> QED
      BY <1>1, <1>2, <1>13, <3>1 DEF TypeOK, HeapPhases
  <2> QED
    BY <1>7, <1>10, <1>12, <2>1, TypesNext
<1>16. \A p \in arrays' : Unmarked(mem', p) /\ Unforwarded(mem', p)
  <2> SUFFICES ASSUME NEW p \in arrays' PROVE Unmarked(mem', p) /\ Unforwarded(mem', p)
    OBVIOUS
  <2>1. p \in arrays /\ p \in Arrays(idle)
    BY <1>9, <1>10 DEF Freed
  <2>2. /\ covers(mem, p, p - 16) /\ p - 16 \in Cells
        /\ covers(mem, p, p - 8) /\ p - 8 \in Cells
    BY <1>3, <2>1, OwnWords
  <2>3. mem'[p - 16] = mem[p - 16] /\ mem'[p - 8] = mem[p - 8]
    BY <1>10, <2>2 DEF Untouched
  <2> QED
    BY <1>2, <2>1, <2>3 DEF Unmarked, Unforwarded
<1>17. BeforeMove'
  BY <1>4, <1>11, <1>16 DEF BeforeMove
<1>18. BeforeMark'
  BY <1>2, <1>8, <1>10, <1>13, <1>16 DEF BeforeMark
<1>19. InWalk' /\ AfterMark' /\ InMove'
  BY <1>13 DEF InWalk, AfterMark, InMove
<1> QED
  BY <1>14, <1>15, <1>17, <1>18, <1>19 DEF IInv

(***************************************************************************)
(* The invariant.                                                          *)
(***************************************************************************)
\* A heap with no chunk yet.
LEMMA InitInvariant ==
  ASSUME Tame, NEW F, HeapInit
  PROVE  IInv(F)
<1>1. /\ reg = [r \in Regs |-> ZERO] /\ stack = [i \in Slots |-> ZERO]
      /\ sp = 0 /\ fp = 0 /\ ip \in CodeAddrs /\ status = "running"
      /\ mem = [a \in Cells |-> ZERO]
      /\ chunks = [s \in Spaces |-> <<>>] /\ totalAllocated = [s \in Spaces |-> 0]
      /\ heapAUsed = TRUE /\ gc = NotCollecting /\ arrays = {}
  BY DEF HeapInit, Init
<1>2. /\ reg \in [Regs -> Word] /\ stack \in [Slots -> Word] /\ mem \in [Cells -> Word]
      /\ \A r \in Regs : ~isPointer(reg[r])
      /\ \A i \in Slots : ~isPointer(stack[i])
  BY <1>1, ZeroWord
<1>3. /\ chunks \in [Spaces -> Seq(HeapChunk)] /\ totalAllocated \in [Spaces -> Nat]
      /\ \A s \in Spaces : DOMAIN chunks[s] = {} /\ chunks[s] = <<>>
  <2>1. <<>> \in Seq(HeapChunk) /\ DOMAIN <<>> = {}
    OBVIOUS
  <2> QED
    BY <1>1, <2>1
<1>4. HeapOK(F, chunks, arrays, mem)
  <2>1. Layout(F, chunks, arrays, mem)
    BY <1>1, <1>3 DEF Layout
  <2>2. Clear(arrays, mem)
    BY <1>1 DEF Clear
  <2> QED
    BY <1>1, <1>2, <2>1, <2>2 DEF HeapOK
<1>5. \A s \in Spaces : totalAllocated[s] = bytesIn(chunks[s])
  BY <1>1, <1>3, BytesOfNone
<1>6. RootPointers = {}
  BY <1>2, RootsAre
<1>7. /\ gc.phase = "idle" /\ DOMAIN gc = gcFields
  BY <1>1 DEF NotCollecting, gcFields
<1>8. sp \in 0 .. STACK_SIZE /\ fp \in Nat /\ fp =< sp /\ ip \in Nat
  <2>1. STACK_SIZE \in Nat /\ CodeAddrs \subseteq 0 .. MID * LO - 1
    BY CallStackAssumption
  <2>2. MID * LO \in Nat
    BY RegionFacts
  <2>3. ip \in Nat
    BY <1>1, <2>1, <2>2
  <2> QED
    BY <1>1, <2>1, <2>3
<1>9. Always(F)
  BY <1>4, <1>5, <1>6, <1>7, <1>8 DEF Always
<1>10. TypeOK
  <2>1. /\ \A s \in Spaces : chunks[s] \in Seq([mem : Regions, used : 1 .. CHUNK_SIZE])
        /\ arrays \subseteq Cells
    BY <1>4, HeapTypes
  <2> QED
    BY <1>1, <1>2, <1>3, <1>7, <2>1 DEF TypeOK, HeapPhases
<1>11. BeforeMove
  BY <1>1, <1>3, TwoSpaces DEF BeforeMove
<1>12. BeforeMark
  BY <1>1, <1>7 DEF BeforeMark
<1>13. InWalk /\ AfterMark /\ InMove
  BY <1>7 DEF InWalk, AfterMark, InMove
<1> QED
  BY <1>9, <1>10, <1>11, <1>12, <1>13 DEF IInv

\* Nothing happens.
LEMMA StutterStep ==
  ASSUME Tame, NEW F, IInv(F), UNCHANGED allVars
  PROVE  IInv(F)'
<1>1. /\ stackVars' = stackVars /\ mem' = mem /\ chunks' = chunks
      /\ totalAllocated' = totalAllocated /\ heapAUsed' = heapAUsed
      /\ arrays' = arrays /\ gc' = gc
  BY DEF allVars, heapVars
<1>2. status' = status /\ (Running' <=> Running)
  BY <1>1 DEF stackVars, Running
<1>3. TypeOK
  BY DEF IInv
<1>4. TypeOK'
  BY <1>1, <1>3 DEF TypeOK, stackVars, Slots, Cells
<1>5. CASE ~Running
  BY <1>2, <1>4, <1>5 DEF IInv
<1>6. CASE Running
  <2>1. Always(F) /\ BeforeMove /\ BeforeMark /\ InWalk /\ AfterMark /\ InMove
    BY <1>6 DEF IInv
  <2>2. DOMAIN gc' = gcFields /\ gc'.phase \in HeapPhases
    BY <1>1, <1>3, <2>1 DEF Always, TypeOK
  <2>3. /\ Always(F)' /\ active' = active /\ idle' = idle
        /\ RootPointers' = RootPointers /\ Roots' = Roots
        /\ \A s : Arrays(s)' = Arrays(s)
    BY <1>1, <1>3, <1>6, <2>1, <2>2, QuietStep
  <2>4. BeforeMove' /\ BeforeMark' /\ InWalk'
    BY <1>1, <2>1, <2>3 DEF BeforeMove, BeforeMark, InWalk
  <2>5. AfterMark'
    BY <1>1, <2>1, <2>3 DEF AfterMark
  <2>6. InMove'
    BY <1>1, <2>1, <2>3 DEF InMove
  <2> QED
    BY <1>4, <2>3, <2>4, <2>5, <2>6 DEF IInv
<1> QED
  BY <1>5, <1>6

\* Every action of the program and of the collector preserves the invariant.
LEMMA NextInvariant ==
  ASSUME Tame, NEW F, Fills(F), Spare(F) \/ Apart, IInv(F), [HeapNext]_allVars
  PROVE  IInv(F)'
<1>1. CASE StackInstruction
  BY <1>1, StackInstructionStep
<1>2. ASSUME NEW r \in Regs, NEW n \in Lengths, NEW t \in Types, ArrInit(r, n, t) \/ StartGC(r, n, t)
      PROVE  IInv(F)'
  <2>1. CASE ArrInit(r, n, t)
    BY <2>1, ArrInitStep
  <2>2. CASE StartGC(r, n, t)
    BY <2>2, StartGCStep
  <2> QED
    BY <1>2, <2>1, <2>2
<1>3. CASE Collect
  <2>1. CASE WalkObject
    BY <2>1, WalkObjectStep
  <2>2. CASE MarkRoots
    BY <2>2, MarkRootsStep
  <2>3. CASE ScanObject
    BY <2>3, ScanObjectStep
  <2>4. CASE SkipObject
    BY <2>4, SkipObjectStep
  <2>5. CASE MoveObject
    BY <2>5, MoveObjectStep
  <2>6. CASE UpdatePtrHolder
    BY <2>6, UpdatePtrHolderStep
  <2>7. CASE FinishInit
    BY <2>7, FinishInitStep
  <2> QED
    BY <1>3, <2>1, <2>2, <2>3, <2>4, <2>5, <2>6, <2>7 DEF Collect
<1>4. ASSUME NEW r \in Regs, NEW array \in Regs, NEW i,
             OnArray(array), (MayStore(r) /\ ArrInsert(r, array, i)) \/ ArrRead(r, array, i)
      PROVE  IInv(F)'
  <2>0. isPointer(reg[array]) /\ (MayStore(r) => ~isPointer(reg[r]))
    BY <1>4 DEF OnArray, MayStore, Tame
  <2>1. CASE MayStore(r) /\ ArrInsert(r, array, i)
    BY <2>0, <2>1, ArrInsertStep
  <2>2. CASE ArrRead(r, array, i)
    BY <2>0, <2>2, ArrReadStep
  <2> QED
    BY <1>4, <2>1, <2>2
<1>5. CASE End
  BY <1>5, EndStep
<1>6. CASE UNCHANGED allVars
  BY <1>6, StutterStep
<1> QED
  BY <1>1, <1>2, <1>3, <1>4, <1>5, <1>6 DEF HeapNext

\* Chunks whose regions do not touch can be filled to any word.
LEMMA ApartFills ==
  ASSUME Tame, Apart
  PROVE  \E F : Fills(F) /\ (Spare(F) \/ Apart)
<1> DEFINE F == {u \in 0 .. CHUNK_SIZE : u % 8 = 0}
<1>1. CHUNK_SIZE \in Nat
  BY RegionFacts
<1>2. ASSUME NEW u \in F, NEW n \in Lengths, u + totalOf(n) =< CHUNK_SIZE
      PROVE  u + totalOf(n) \in F
  <2>1. u \in Nat /\ u % 8 = 0 /\ n \in Nat
    BY <1>1, HeapAssumption
  <2>2. totalOf(n) = 24 + 8 * n
    BY <2>1, Totals8
  <2> QED
    BY <1>1, <1>2, <2>1, <2>2
<1>3. F \subseteq 0 .. CHUNK_SIZE /\ 0 \in F /\ \A u \in F : u % 8 = 0
  BY <1>1
<1> HIDE DEF F
<1>4. Fills(F)
  BY <1>2, <1>3 DEF Fills
<1> QED
  BY <1>4

(***************************************************************************)
(* What the invariant says of the heap.                                    *)
(***************************************************************************)
LEMMA RootsLiveNow ==
  ASSUME NEW F, IInv(F)
  PROVE  RootsLive
BY DEF IInv, Always, RootsLive, Settled

LEMMA SpaceDisciplineNow ==
  ASSUME NEW F, IInv(F)
  PROVE  SpaceDiscipline
<1> SUFFICES ASSUME Settled
             PROVE  /\ chunks[idle] = <<>> /\ totalAllocated[idle] = 0
                    /\ totalAllocated[active] = bytesIn(chunks[active])
  BY DEF SpaceDiscipline
<1>1. chunks[idle] = <<>> /\ \A s \in Spaces : totalAllocated[s] = bytesIn(chunks[s])
  BY DEF IInv, Always, BeforeMove, Settled
<1> QED
  BY <1>1, TwoSpaces, BytesOfNone

LEMMA OnlyReachableNow ==
  ASSUME NEW F, IInv(F)
  PROVE  OnlyReachableSurvive
BY DEF IInv, BeforeMark, OnlyReachableSurvive

\* The walks lead from the start of a chunk to its end.
LEMMA HeadersIntactNow ==
  ASSUME Tame, NEW F, IInv(F)
  PROVE  HeadersIntact
<1> SUFFICES ASSUME Running, NEW s \in Spaces, NEW i \in DOMAIN chunks[s]
             PROVE  LET c      == chunks[s][i]
                        inside == {p \in Arrays(s) : c.mem =< p /\ p < c.mem + c.used}
                    IN /\ c.mem + OBJ_HEADER \in inside
                       /\ \A p \in inside :
                            /\ typeOf(mem[p - OBJ_HEADER]) = OBJ_ARRAY
                            /\ p + sizeOf(mem[p - OBJ_HEADER]) \in
                                 inside \cup {c.mem + c.used + OBJ_HEADER}
  BY DEF HeadersIntact
<1> DEFINE c      == chunks[s][i]
           inside == {p \in Arrays(s) : c.mem =< p /\ p < c.mem + c.used}
<1>1. /\ HeapOK(F, chunks, arrays, mem) /\ Layout(F, chunks, arrays, mem)
      /\ \A p \in arrays : ArrayOK(mem, p)
  BY StateFacts DEF IInv
<1>2. /\ c.mem \in Regions /\ c.mem \in Nat /\ c.used \in Nat
      /\ c.used > 0 /\ c.used =< CHUNK_SIZE
      /\ CHUNK_SIZE \in Nat /\ CHUNK_SIZE > 0
  BY <1>1, ChunkNumbers, RegionFacts
<1>3. /\ c.mem + 16 \in arrays
      /\ \A p \in arrays : InChunk(mem, p, c) =>
           p + Sized(mem, p) \in arrays \/ p + Sized(mem, p) = c.mem + c.used + 16
  BY <1>1 DEF Layout
<1>4. ASSUME NEW p \in arrays, c.mem =< p - 16, p - 16 < c.mem + CHUNK_SIZE
      PROVE  p \in inside
  <2>1. InChunk(mem, p, c)
    BY <1>1, <1>4, ChunkOfArray
  <2>2. p \in Arrays(s)
    BY <1>1, <2>1, ArraysIn, ArraysNow
  <2>3. p \in Nat /\ Sized(mem, p) \in Nat /\ Sized(mem, p) >= 40
    BY <1>1, OwnWords
  <2>4. c.mem + 16 =< p /\ p - 16 + Sized(mem, p) =< c.mem + c.used
    BY <2>1 DEF InChunk
  <2> HIDE DEF c
  <2>5. c.mem =< p /\ p < c.mem + c.used
    BY <1>2, <2>3, <2>4
  <2> QED
    BY <2>2, <2>5
<1>5. ASSUME NEW p \in inside PROVE p \in arrays /\ InChunk(mem, p, c)
  <2>1. p \in ArraysOf(chunks, arrays, s)
    BY ArraysNow
  <2>2. p \in arrays /\ p \in Nat /\ Sized(mem, p) \in Nat /\ Sized(mem, p) >= 40
    BY <1>1, <2>1, OwnWords DEF ArraysOf
  <2>3. PICK j \in DOMAIN chunks[s] : InChunk(mem, p, chunks[s][j])
    BY <1>1, <2>1, ArraysIn
  <2> DEFINE d == chunks[s][j]
  <2>4. /\ d.mem \in Regions /\ d.mem \in Nat /\ d.used \in Nat /\ d.used =< CHUNK_SIZE
    BY <1>1, ChunkNumbers
  <2>5. d.mem + 16 =< p /\ p - 16 + Sized(mem, p) =< d.mem + d.used
    BY <2>3 DEF InChunk
  <2>6. d.mem # c.mem => d.mem + CHUNK_SIZE =< c.mem \/ c.mem + CHUNK_SIZE =< d.mem
    BY <1>2, <2>4, RegionFacts
  <2>7. i # j => c.mem # d.mem
    BY <1>1 DEF Layout
  <2>8. c.mem =< p /\ p < c.mem + c.used
    OBVIOUS
  <2> HIDE DEF c, d
  <2>9. d.mem = c.mem
    BY <1>2, <2>2, <2>4, <2>5, <2>6, <2>8
  <2>10. i = j
    BY <2>7, <2>9
  <2> QED
    BY <2>2, <2>3, <2>10 DEF c
<1>6. c.mem + 16 \in inside
  <2> HIDE DEF c, inside
  <2>1. c.mem =< (c.mem + 16) - 16 /\ (c.mem + 16) - 16 < c.mem + CHUNK_SIZE
    BY <1>2
  <2> QED
    BY <1>3, <1>4, <2>1
<1>7. ASSUME NEW p \in inside
      PROVE  /\ typeOf(mem[p - 16]) = OBJ_ARRAY
             /\ p + Sized(mem, p) \in inside \cup {c.mem + c.used + 16}
  <2>1. p \in arrays /\ InChunk(mem, p, c)
    BY <1>5
  <2>2. typeOf(mem[p - 16]) = OBJ_ARRAY
    BY <1>1, <2>1 DEF ArrayOK
  <2>3. p \in Nat /\ Sized(mem, p) \in Nat
    BY <1>1, <2>1, OwnWords
  <2>4. c.mem + 16 =< p /\ p - 16 + Sized(mem, p) =< c.mem + c.used
    BY <2>1 DEF InChunk
  <2>5. p + Sized(mem, p) \in arrays \/ p + Sized(mem, p) = c.mem + c.used + 16
    BY <1>3, <2>1
  <2>6. CASE p + Sized(mem, p) \in arrays /\ p + Sized(mem, p) # c.mem + c.used + 16
    <3> DEFINE x == p + Sized(mem, p)
    <3>1. c.mem =< x - 16 /\ x - 16 < c.mem + CHUNK_SIZE
      <4> HIDE DEF c, inside
      <4> QED
        BY <1>2, <2>3, <2>4, <2>6
    <3>2. x \in arrays
      BY <2>6
    <3> HIDE DEF x, c, inside
    <3>3. x \in inside
      BY <1>4, <3>1, <3>2
    <3> QED
      BY <2>2, <3>3 DEF x
  <2> QED
    BY <2>2, <2>5, <2>6
<1>8. \A p : Sized(mem, p) = sizeOf(mem[p - 16])
  BY DEF Sized
<1> HIDE DEF c, inside
<1>9. /\ c.mem + 16 \in inside
      /\ \A p \in inside : /\ typeOf(mem[p - 16]) = OBJ_ARRAY
                           /\ p + sizeOf(mem[p - 16]) \in inside \cup {c.mem + c.used + 16}
  BY <1>6, <1>7, <1>8
<1> QED
  BY <1>9 DEF c, inside

\* A forwarding address leads to an equal array.
LEMMA ForwardingSoundNow ==
  ASSUME Tame, NEW F, IInv(F)
  PROVE  ForwardingSound
<1> SUFFICES ASSUME Running, gc.phase \in {"move", "patch"}
             PROVE  LET moved == {p \in Arrays(active) : mem[p - 8] # ZERO}
                    IN /\ \A p \in moved :
                            /\ decodePointer(mem[p - 8]) \in Arrays(idle)
                            /\ \A k \in 0 .. (sizeOf(mem[p - OBJ_HEADER]) - OBJ_HEADER) \div 8 - 1 :
                                 mem[decodePointer(mem[p - 8]) + 8 * k] = mem[p + 8 * k]
                       /\ \A p, q \in moved : mem[p - 8] = mem[q - 8] => p = q
                       /\ gc.phase = "patch" => RootPointers \subseteq moved
  BY DEF ForwardingSound
<1> DEFINE moved == {p \in Arrays(active) : mem[p - 8] # ZERO}
<1>1. /\ HeapOK(F, chunks, arrays, mem)
      /\ RootPointers \subseteq Arrays(active)
      /\ CursorOK(chunks[active], arrays, gc.at)
      /\ (gc.phase = "patch") <=> (gc.at[1] \notin DOMAIN chunks[active])
      /\ Forwarded(mem, Arrays(active), Arrays(idle), RootPointers, chunks[active], gc.at)
  BY DEF IInv, Always, InMove
<1>2. moved = {p \in Arrays(active) :
                 p \in RootPointers /\ Passed(mem, chunks[active], gc.at, p)}
  BY <1>1 DEF Forwarded, Unforwarded
<1> HIDE DEF moved
<1>3. /\ \A p \in moved :
           /\ fwd(mem, p) \in Arrays(idle)
           /\ \A k \in 0 .. (Sized(mem, p) - OBJ_HEADER) \div 8 - 1 :
                mem[fwd(mem, p) + 8 * k] = mem[p + 8 * k]
      /\ \A p, q \in moved : fwd(mem, p) = fwd(mem, q) => p = q
  BY <1>1, <1>2 DEF Forwarded
<1>4. \A p, q \in moved : mem[p - 8] = mem[q - 8] => p = q
  <2>1. \A p, q : mem[p - 8] = mem[q - 8] => fwd(mem, p) = fwd(mem, q)
    BY DEF fwd
  <2> QED
    BY <1>3, <2>1
<1>5. gc.phase = "patch" => RootPointers \subseteq moved
  <2> SUFFICES ASSUME gc.phase = "patch", NEW p \in RootPointers PROVE p \in moved
    OBVIOUS
  <2>1. p \in Arrays(active) /\ gc.at[1] \notin DOMAIN chunks[active]
    BY <1>1
  <2>2. Passed(mem, chunks[active], gc.at, p)
    BY <1>1, <2>1, EveryPassed, ArraysNow, TwoSpaces
  <2> QED
    BY <1>2, <2>1, <2>2
<1>6. \A p \in moved :
        /\ decodePointer(mem[p - 8]) \in Arrays(idle)
        /\ \A k \in 0 .. (sizeOf(mem[p - OBJ_HEADER]) - OBJ_HEADER) \div 8 - 1 :
             mem[decodePointer(mem[p - 8]) + 8 * k] = mem[p + 8 * k]
  BY <1>3 DEF fwd, Sized
<1> QED
  BY <1>4, <1>5, <1>6 DEF moved

(***************************************************************************)
(* Every access is to memory the heap holds.                               *)
(***************************************************************************)
\* The words of an array lie in a region in use.
LEMMA HeldWord ==
  ASSUME Tame, NEW F, HeapOK(F, chunks, arrays, mem), NEW p \in arrays,
         NEW a \in Nat, a % 8 = 0, covers(mem, p, a)
  PROVE  \E r \in Held : r =< a /\ a < r + CHUNK_SIZE
<1>1. Layout(F, chunks, arrays, mem)
  BY DEF HeapOK
<1>2. PICK s \in Spaces : \E i \in DOMAIN chunks[s] : InChunk(mem, p, chunks[s][i])
  BY <1>1 DEF Layout
<1>3. PICK i \in DOMAIN chunks[s] : InChunk(mem, p, chunks[s][i])
  BY <1>2
<1> DEFINE c == chunks[s][i]
<1>4. /\ c.mem \in Nat /\ c.used \in Nat /\ c.used =< CHUNK_SIZE /\ CHUNK_SIZE \in Nat
  BY <1>1, ChunkNumbers, RegionFacts
<1>5. c.mem \in Held
  BY <1>3 DEF Held, heldBy, Spaces
<1>6. p \in Nat /\ Sized(mem, p) \in Nat
  BY OwnWords
<1>7. c.mem + 16 =< p /\ p - 16 + Sized(mem, p) =< c.mem + c.used
  BY <1>3 DEF InChunk
<1>8. p - 16 =< a /\ a < p - 16 + Sized(mem, p)
  BY DEF covers
<1> HIDE DEF c
<1>9. c.mem =< a /\ a < c.mem + CHUNK_SIZE
  BY <1>4, <1>6, <1>7, <1>8
<1> QED
  BY <1>5, <1>9

\* A new array's payload ends with the chunk at the latest.
LEMMA BodyHeld ==
  ASSUME Tame, NEW F, Fills(F), Spare(F), Layout(F, chunks, arrays, mem),
         NEW s \in Spaces, NEW n \in Lengths, NEW cs \in withRoom(s, totalOf(n))
  PROVE  Mapped(Held \cup heldBy(cs), bodyOf(nextAddr(cs) + 16, n))
<1> DEFINE T   == totalOf(n)
           ch2 == [chunks EXCEPT ![s] = bumped(cs, T)]
           h   == nextAddr(cs)
           c   == ch2[s][Len(cs)]
<1>1. n \in Nat /\ n >= 2 /\ T =< CHUNK_SIZE /\ T = 24 + 8 * n /\ T \in Nat /\ T > 0
  <2>1. n \in Nat /\ n >= 2 /\ T =< CHUNK_SIZE
    BY HeapAssumption DEF Tame
  <2>2. T \in Nat /\ T = 24 + 8 * n
    BY <2>1, Totals8
  <2> QED
    BY <2>1, <2>2
<1>2. Roomy(chunks, s, cs, T)
  BY <1>1, RoomFound
<1>3. Grown(chunks, ch2, s, Len(cs), h, T)
  BY <1>1, <1>2, RoomTaken
<1>4. /\ c.mem \in Nat /\ c.used \in Nat /\ c.used \in F
      /\ h \in Nat /\ h % 8 = 0 /\ h >= c.mem /\ h + T = c.mem + c.used
  <2> HIDE DEF h, ch2
  <2> QED
    BY <1>3, GrownFacts
<1>5. c.used =< CHUNK_SIZE - 16 /\ CHUNK_SIZE \in Nat
  BY <1>4, RegionFacts DEF Spare
<1>6. c.mem \in heldBy(cs)
  <2>1. /\ cs \in Seq(ChunkOf(Regions)) /\ cs # <<>> /\ Len(cs) \in DOMAIN cs
    BY <1>1, <1>2, RoomyChunks
  <2>2. bumped(cs, T)[Len(cs)].mem = cs[Len(cs)].mem
    BY <1>1, <2>1, BumpedChunks
  <2>3. ch2[s] = bumped(cs, T)
    BY DEF Layout
  <2> QED
    BY <2>1, <2>2, <2>3 DEF heldBy
<1> HIDE DEF h, c, T
<1>7. ASSUME NEW a \in bodyOf(h + 16, n)
      PROVE  a % 8 = 0 /\ c.mem =< a /\ a < c.mem + CHUNK_SIZE
  <2>1. CASE a = h + 16 + 16
    BY <1>1, <1>4, <1>5, <2>1
  <2>2. ASSUME NEW i \in 0 .. n - 1, a = h + 16 + 24 + 8 * i
        PROVE  a % 8 = 0 /\ c.mem =< a /\ a < c.mem + CHUNK_SIZE
    <3>1. i \in Nat /\ i =< n - 1
      BY <1>1
    <3>2. a =< h + T + 8
      BY <1>1, <1>4, <2>2, <3>1
    <3>3. a % 8 = 0 /\ a >= h /\ a \in Nat
      BY <1>4, <2>2, <3>1
    <3> QED
      BY <1>1, <1>4, <1>5, <3>2, <3>3
  <2> QED
    BY <1>7, <2>1, <2>2 DEF bodyOf
<1>8. Mapped(Held \cup heldBy(cs), bodyOf(h + 16, n))
  BY <1>6, <1>7 DEF Mapped
<1> QED
  BY <1>8 DEF h

\* The actions, none of which leaves the VM wild.
LEMMA NewArrayTame ==
  ASSUME Tame, NEW F, Fills(F), Spare(F), Running, Layout(F, chunks, arrays, mem),
         NEW dst \in Regs, NEW length \in Lengths, NEW type \in Types,
         NewArray(dst, length, type)
  PROVE  status' # "wild"
<1>1. align(OBJ_HEADER + 8 * length + 8) = totalOf(length)
  BY HeapAssumption, Totals8
<1>2. CASE HeapThrew
  BY <1>2 DEF HeapThrew
<1>3. ASSUME NEW cs \in withRoom(active, totalOf(length)),
             ~Mapped(Held \cup heldBy(cs), bodyOf(nextAddr(cs) + 16, length))
      PROVE  FALSE
  BY <1>3, BodyHeld, TwoSpaces
<1>4. \/ HeapThrew \/ status' = status
      \/ \E cs \in withRoom(active, totalOf(length)) :
           ~Mapped(Held \cup heldBy(cs), bodyOf(nextAddr(cs) + 16, length))
  BY <1>1 DEF NewArray, bodyOf
<1> QED
  BY <1>2, <1>3, <1>4 DEF Running

LEMMA WalkObjectTame ==
  ASSUME Tame, NEW F, IInv(F), WalkObject
  PROVE  status' # "wild"
<1>1. /\ TypeOK /\ Always(F) /\ Running
      /\ CursorOK(chunks[active], arrays, gc.at) /\ gc.at[1] \in DOMAIN chunks[active]
  BY DEF WalkObject, IInv, InWalk
<1>2. Mapped(Held, {objAt})
  BY <1>1, UnderCursor
<1>3. HeapThrew \/ stackVars' = stackVars
  BY <1>2 DEF WalkObject
<1> QED
  BY <1>1, <1>3 DEF HeapThrew, Running, stackVars

LEMMA MarkRootsTame ==
  ASSUME Tame, NEW F, IInv(F), MarkRoots
  PROVE  status' # "wild"
<1> DEFINE headers == {decodePointer(rootValue(l)) - OBJ_HEADER : l \in Roots}
<1>1. /\ Running /\ HeapOK(F, chunks, arrays, mem) /\ sp \in 0 .. STACK_SIZE
      /\ RootPointers \subseteq arrays
  BY StateFacts DEF MarkRoots, IInv, ArraysOf
<1>2. sp =< STACK_SIZE
  BY <1>1, CallStackAssumption
<1>3. headers = {q - 16 : q \in RootPointers}
  BY DEF RootPointers
<1> HIDE DEF headers
<1>4. ASSUME NEW q \in RootPointers
      PROVE  (q - 16) % 8 = 0 /\ \E r \in Held : r =< q - 16 /\ q - 16 < r + CHUNK_SIZE
  <2>1. q \in arrays
    BY <1>1
  <2>2. q \in Nat /\ q % 8 = 0 /\ q >= 16 /\ covers(mem, q, q - 16)
    BY <1>1, <2>1, OwnWords
  <2>3. q - 16 \in Nat /\ (q - 16) % 8 = 0
    BY <2>2
  <2> QED
    BY <1>1, <2>1, <2>2, <2>3, HeldWord
<1>5. Mapped(Held, headers)
  BY <1>3, <1>4 DEF Mapped
<1>6. stackVars' = stackVars
  BY <1>2, <1>5 DEF MarkRoots, headers
<1> QED
  BY <1>1, <1>6 DEF Running, stackVars

LEMMA ScanObjectTame ==
  ASSUME Tame, NEW F, IInv(F), ScanObject
  PROVE  status' # "wild"
<1> DEFINE obj      == Head(gc.objects)
           isTraced == /\ typeOf(mem[obj]) = OBJ_ARRAY
                       /\ Mapped(Held, {obj + 16})
                       /\ elemType(mem[obj + 16]) = TAG_POINTER
           length   == IF isTraced THEN lengthOf(mem[obj + 16]) ELSE 0
           data     == {a \in Cells : obj + ARRAY_OBJ =< a /\ a < obj + ARRAY_OBJ + 8 * length}
           pointers == {a \in data : isPointer(mem[a])}
           headers  == {decodePointer(mem[a]) - OBJ_HEADER : a \in pointers}
<1>1. /\ TypeOK /\ Always(F) /\ Running /\ HeapOK(F, chunks, arrays, mem)
      /\ gc.objects \in Seq(Cells) /\ gc.objects # <<>>
      /\ \A k \in 1 .. Len(gc.objects) : gc.objects[k] + 16 \in arrays
  BY StateFacts DEF IInv, InWalk, ScanObject
<1>2. obj \in Cells /\ obj + 16 \in arrays
  BY <1>1
<1>3. obj \in Nat /\ \A a \in Cells : a \in Nat
  BY <1>2, CellFacts
<1>4. mem[obj + 16] = ZERO
  BY <1>1, <1>2, StateFacts DEF ArrayOK
<1>5. Mapped(Held, {obj + 16})
  <2>1. (obj + 16) % 8 = 0 /\ covers(mem, obj + 16, obj + 16) /\ obj + 16 \in Nat
    BY <1>1, <1>2, OwnWords
  <2> QED
    BY <1>1, <1>2, <2>1, HeldWord DEF Mapped
<1> HIDE DEF obj
<1>6. ~isTraced
  BY <1>4 DEF elemType, ZERO, W, TAG_POINTER
<1> HIDE DEF isTraced
<1>7. length = 0
  BY <1>6
<1> HIDE DEF length
<1>8. data = {}
  BY <1>3, <1>7
<1> HIDE DEF data
<1>9. pointers = {}
  BY <1>8
<1>10. headers = {}
  BY <1>9
<1> HIDE DEF pointers, headers
<1>11. Mapped(Held, {obj + 16} \cup data \cup headers)
  BY <1>5, <1>8, <1>10 DEF Mapped
<1>12. Cardinality(data) = length
  BY <1>7, <1>8, FS_EmptySet
<1>13. stackVars' = stackVars
  BY <1>11, <1>12 DEF ScanObject, headers, pointers, data, length, isTraced, obj
<1> QED
  BY <1>1, <1>13 DEF Running, stackVars

LEMMA MoveObjectTame ==
  ASSUME Tame, NEW F, IInv(F), MoveObject
  PROVE  status' # "wild"
<1> DEFINE p    == objAt + 16
           size == sizeOf(mem[objAt])
           body == {objAt + 8 * k : k \in 2 .. size \div 8 - 1}
<1>1. /\ TypeOK /\ Always(F) /\ Running /\ HeapOK(F, chunks, arrays, mem)
      /\ CursorOK(chunks[active], arrays, gc.at) /\ gc.at[1] \in DOMAIN chunks[active]
  BY StateFacts DEF MoveObject, IInv, InMove
<1>2. objAt \in Nat /\ p \in arrays /\ p - 16 = objAt /\ Sized(mem, p) = size
  BY <1>1, UnderCursor
<1>3. size \in Nat /\ size % 8 = 0 /\ size >= 40 /\ p % 8 = 0
  BY <1>1, <1>2, OwnWords
<1> HIDE DEF size
<1>4. ASSUME NEW a \in body
      PROVE  a % 8 = 0 /\ \E r \in Held : r =< a /\ a < r + CHUNK_SIZE
  <2>1. PICK k \in 2 .. size \div 8 - 1 : a = objAt + 8 * k
    OBVIOUS
  <2>2. k \in Nat /\ k =< size \div 8 - 1 /\ size = 8 * (size \div 8)
    BY <1>3, <2>1
  <2>3. a \in Nat /\ a % 8 = 0 /\ p - 16 =< a /\ a < p - 16 + size
    BY <1>2, <1>3, <2>1, <2>2
  <2>4. covers(mem, p, a)
    BY <1>2, <2>3 DEF covers
  <2> QED
    BY <1>1, <1>2, <2>3, <2>4, HeldWord
<1>5. Mapped(Held, body)
  BY <1>4 DEF Mapped
<1> DEFINE inside == size >= OBJ_HEADER /\ size % 8 = 0 /\ Mapped(Held, body)
<1>6. inside
  BY <1>3, <1>5
<1>7. HeapThrew \/ ~inside \/ stackVars' = stackVars
  BY DEF MoveObject, size
<1> QED
  BY <1>1, <1>6, <1>7 DEF HeapThrew, Running, stackVars

LEMMA AccessTame ==
  ASSUME Tame, NEW F, IInv(F), NEW r \in Regs, NEW array \in Regs, isPointer(reg[array]),
         NEW i, ArrInsert(r, array, i) \/ ArrRead(r, array, i)
  PROVE  status' # "wild"
<1> DEFINE p == decodePointer(reg[array])
           e == p + ARRAY_OBJ + 8 * i
<1>1. /\ Running /\ TypeOK /\ Always(F) /\ HeapOK(F, chunks, arrays, mem)
  BY StateFacts DEF ArrInsert, ArrRead, AccessElement, Mutating, IInv
<1>2. p \in arrays
  <2>1. p \in RootPointers
    BY <1>1, RootsAre
  <2> QED
    BY <1>1, <2>1, StateFacts DEF ArraysOf
<1>3. Mapped(Held, {p + 16})
  <2>1. p \in Nat /\ p % 8 = 0 /\ covers(mem, p, p + 16)
    BY <1>1, <1>2, OwnWords
  <2>2. p + 16 \in Nat /\ (p + 16) % 8 = 0
    BY <2>1
  <2> QED
    BY <1>1, <1>2, <2>1, <2>2, HeldWord DEF Mapped
<1>4. i \in Indices(lengthOf(mem[p + 16])) => Mapped(Held, {e})
  <2> SUFFICES ASSUME i \in Indices(lengthOf(mem[p + 16])) PROVE Mapped(Held, {e})
    OBVIOUS
  <2>1. e \in Cells /\ covers(mem, p, e)
    BY <1>1, <1>2, ElementFacts
  <2>2. e \in Nat /\ e % 8 = 0
    BY <2>1, CellFacts
  <2> QED
    BY <1>1, <1>2, <2>1, <2>2, HeldWord DEF Mapped
<1>5. HeapThrew \/ status' = status
  BY <1>3, <1>4 DEF ArrInsert, ArrRead, AccessElement, elementAt, stackVars
<1> QED
  BY <1>1, <1>5 DEF HeapThrew, Running

LEMMA StepTame ==
  ASSUME Tame, NEW F, Fills(F), Spare(F), IInv(F), status # "wild", [HeapNext]_allVars
  PROVE  status' # "wild"
<1>1. CASE StackInstruction \/ UNCHANGED allVars
  BY <1>1 DEF StackInstruction, allVars, stackVars
<1>2. ASSUME NEW r \in Regs, NEW n \in Lengths, NEW t \in Types, ArrInit(r, n, t) \/ StartGC(r, n, t)
      PROVE  status' # "wild"
  <2>1. Running /\ Layout(F, chunks, arrays, mem)
    BY <1>2, StateFacts DEF ArrInit, StartGC, Mutating, IInv
  <2>2. CASE ArrInit(r, n, t)
    BY <2>1, <2>2, NewArrayTame DEF ArrInit
  <2>3. CASE StartGC(r, n, t)
    BY <2>1, <2>3 DEF StartGC, stackVars, Running
  <2> QED
    BY <1>2, <2>2, <2>3
<1>3. CASE Collect
  <2>1. CASE SkipObject
    BY <2>1 DEF SkipObject, stackVars, Running
  <2>2. CASE UpdatePtrHolder
    BY <2>2 DEF UpdatePtrHolder, Running
  <2>3. CASE FinishInit
    <3>1. /\ Running /\ Layout(F, chunks, arrays, mem)
          /\ gc.want \in Regs \X Lengths \X Types
      BY <2>3, StateFacts DEF FinishInit, IInv, BeforeMark
    <3>2. gc.want[1] \in Regs /\ gc.want[2] \in Lengths /\ gc.want[3] \in Types
      BY <3>1
    <3> QED
      BY <2>3, <3>1, <3>2, NewArrayTame DEF FinishInit
  <2> QED
    BY <1>3, <2>1, <2>2, <2>3, WalkObjectTame, MarkRootsTame, ScanObjectTame, MoveObjectTame
       DEF Collect
<1>4. ASSUME NEW r \in Regs, NEW array \in Regs, NEW i,
             OnArray(array), ArrInsert(r, array, i) \/ ArrRead(r, array, i)
      PROVE  status' # "wild"
  <2>1. isPointer(reg[array])
    BY <1>4 DEF OnArray, Tame
  <2> QED
    BY <1>4, <2>1, AccessTame
<1>5. CASE End
  BY <1>5 DEF End
<1> QED
  BY <1>1, <1>2, <1>3, <1>4, <1>5 DEF HeapNext

(***************************************************************************)
(* What is left of a collection.                                           *)
(***************************************************************************)
\* The phases, one by one.
LEMMA LeftIn ==
  ASSUME NEW g, NEW cs
  PROVE  /\ g.phase = "walk" =>
              leftOf(g, cs) = 2 * ahead(cs, g.at) + Len(g.objects) + (ahead(cs, <<1, 0>>) + 2) + 3
         /\ g.phase = "mark" => leftOf(g, cs) = Len(g.objects) + (ahead(cs, <<1, 0>>) + 2) + 2
         /\ g.phase = "scan" => leftOf(g, cs) = Len(g.objects) + (ahead(cs, <<1, 0>>) + 2) + 1
         /\ g.phase = "move" => leftOf(g, cs) = ahead(cs, g.at) + 2
         /\ g.phase = "patch" => leftOf(g, cs) = 2
         /\ g.phase = "alloc" => leftOf(g, cs) = 1
         /\ g.phase = "idle" => leftOf(g, cs) = 0
BY DEF leftOf

LEMMA OneChunkMore ==
  ASSUME NEW c \in Nat, NEW k \in Nat
  PROVE  c * k \in Nat /\ c * (k + 1) \in Nat /\ c * (k + 1) = c * k + c
<1>1. c * k \in Nat /\ c * (k + 1) = c * k + c
  BY Z3
<1> QED
  BY <1>1

\* Before a walk, all bytes of the chunks are ahead.
LEMMA AheadOfStart ==
  ASSUME Tame, NEW cs, Len(cs) \in Nat
  PROVE  ahead(cs, <<1, 0>>) \in Nat
<1>1. CHUNK_SIZE \in Nat
  BY RegionFacts
<1>2. CHUNK_SIZE * Len(cs) \in Nat
  BY <1>1, OneChunkMore
<1>3. Len(cs) + 1 - 1 = Len(cs)
  OBVIOUS
<1>4. ahead(cs, <<1, 0>>) = CHUNK_SIZE * (Len(cs) + 1 - 1) - 0
  BY DEF ahead
<1> QED
  BY <1>2, <1>3, <1>4

\* The cursor's step over an object leaves fewer bytes ahead.
LEMMA CursorAdvances ==
  ASSUME Tame, NEW F, TypeOK, Always(F),
         CursorOK(chunks[active], arrays, gc.at), gc.at[1] \in DOMAIN chunks[active],
         NEW next, next = after(sizeOf(mem[objAt]))
  PROVE  /\ ahead(chunks[active], gc.at) \in Nat /\ ahead(chunks[active], gc.at) > 0
         /\ ahead(chunks[active], next) \in Nat
         /\ ahead(chunks[active], next) < ahead(chunks[active], gc.at)
<1> DEFINE cs == chunks[active]
           p  == objAt + 16
           n  == Len(cs)
           c  == CHUNK_SIZE
<1>1. PICK i, o, z, u : i = gc.at[1] /\ o = gc.at[2] /\ z = sizeOf(mem[objAt]) /\ u = cs[i].used
  OBVIOUS
<1>2. /\ Layout(F, chunks, arrays, mem) /\ active \in Spaces
      /\ \A q \in arrays : ArrayOK(mem, q)
  BY StateFacts, TwoSpaces
<1>3. p \in arrays /\ Sized(mem, p) = z
  BY <1>1, UnderCursor
<1>4. z \in Nat /\ z >= 40
  BY <1>2, <1>3, ArrayFacts
<1>5. n \in Nat /\ DOMAIN cs = 1 .. n /\ i \in 1 .. n /\ u \in Nat /\ u =< c
  BY <1>1, <1>2, ChunkNumbers
<1>6. o \in Nat /\ o < u
  <2>1. gc.at \in (Nat \ {0}) \X Nat
    BY CursorType
  <2>2. gc.at[1] # Len(cs) + 1
    BY <1>1, <1>5
  <2>3. gc.at[2] < cs[gc.at[1]].used
    BY <2>2 DEF CursorOK
  <2> QED
    BY <1>1, <2>1, <2>3
<1>7. c \in Nat
  BY RegionFacts
<1> DEFINE k == n - i
<1>8. k \in Nat /\ n + 1 - i = k + 1 /\ n + 1 - (i + 1) = k
  <2>1. n \in Nat /\ i \in Nat /\ i =< n
    BY ONLY <1>5
  <2> HIDE DEF n
  <2> QED
    BY ONLY <2>1
<1>9. c * k \in Nat /\ c * (k + 1) = c * k + c
  BY <1>7, <1>8, OneChunkMore
<1>10. ahead(cs, gc.at) = c * (k + 1) - o
  BY <1>1, <1>8 DEF ahead
<1>11. next = IF o + z >= u THEN <<i + 1, 0>> ELSE <<i, o + z>>
  BY <1>1 DEF after
<1>12. CASE o + z >= u
  <2>1. next[1] = i + 1 /\ next[2] = 0
    BY <1>11, <1>12
  <2>2. ahead(cs, next) = c * k - 0
    BY <1>8, <2>1 DEF ahead
  <2> HIDE DEF n, k, c, cs
  <2> QED
    BY <1>5, <1>6, <1>7, <1>9, <1>10, <2>2 DEF cs
<1>13. CASE ~(o + z >= u)
  <2>1. next[1] = i /\ next[2] = o + z
    BY <1>11, <1>13
  <2>2. ahead(cs, next) = c * (k + 1) - (o + z)
    BY <1>8, <2>1 DEF ahead
  <2> HIDE DEF n, k, c, cs
  <2> QED
    BY <1>4, <1>5, <1>6, <1>7, <1>9, <1>10, <1>13, <2>2 DEF cs
<1> QED
  BY <1>12, <1>13

\* A step of the collector leaves less to do.
Advances == GcLeft' \in 0 .. GcLeft - 1

\* getAllObjects, one object: listed, and no longer ahead.
LEMMA WalkAdvances ==
  ASSUME Tame, NEW F, IInv(F), WalkObject, Running'
  PROVE  Advances
<1> DEFINE next == after(sizeOf(mem[objAt]))
           cs   == chunks[active]
<1>1. /\ Running /\ gc.phase = "walk"
      /\ gc' = [gc EXCEPT !.objects = Append(@, objAt), !.at = next,
                          !.phase = IF walked(next) THEN "mark" ELSE "walk"]
      /\ chunks' = chunks /\ heapAUsed' = heapAUsed
  BY DEF WalkObject, HeapWild, HeapThrew, Running
<1>2. /\ TypeOK /\ Always(F)
      /\ CursorOK(cs, arrays, gc.at) /\ gc.at[1] \in DOMAIN cs
      /\ gc.objects \in Seq(Cells)
  BY <1>1 DEF IInv, InWalk
<1>3. DOMAIN gc = gcFields /\ Layout(F, chunks, arrays, mem) /\ active \in Spaces
  BY <1>2, StateFacts, TwoSpaces
<1>4. /\ gc'.phase = IF walked(next) THEN "mark" ELSE "walk"
      /\ gc'.at = next /\ gc'.objects = Append(gc.objects, objAt)
  <2> HIDE DEF next
  <2> QED
    BY <1>1, <1>3 DEF gcFields
<1>5. objAt \in Cells
  BY <1>2, UnderCursor
<1>6. Len(gc'.objects) = Len(gc.objects) + 1 /\ Len(gc.objects) \in Nat
  BY <1>2, <1>4, <1>5
<1>7. chunks'[active'] = cs
  BY <1>1, TwoSpaces
<1>8. Len(cs) \in Nat
  BY <1>3, ChunkNumbers
<1>9. PICK a, b, w, k : /\ a = ahead(cs, gc.at) /\ b = ahead(cs, next)
                        /\ w = ahead(cs, <<1, 0>>) /\ k = Len(gc.objects)
  OBVIOUS
<1>10. a \in Nat /\ b \in Nat /\ b < a /\ w \in Nat /\ k \in Nat
  <2>1. a \in Nat /\ b \in Nat /\ b < a
    BY <1>2, <1>9, CursorAdvances
  <2>2. w \in Nat
    BY <1>8, <1>9, AheadOfStart
  <2> QED
    BY <1>6, <1>9, <2>1, <2>2
<1>11. GcLeft = 2 * a + k + (w + 2) + 3
  BY <1>1, <1>9, LeftIn DEF GcLeft
<1>12. \/ GcLeft' = 2 * b + (k + 1) + (w + 2) + 3
       \/ GcLeft' = (k + 1) + (w + 2) + 2
  <2>1. GcLeft' = leftOf(gc', cs)
    BY <1>7 DEF GcLeft
  <2>2. Len(gc'.objects) = k + 1
    BY <1>6, <1>9
  <2>3. CASE gc'.phase = "walk"
    BY <1>4, <1>9, <2>1, <2>2, <2>3, LeftIn
  <2>4. CASE gc'.phase = "mark"
    BY <1>9, <2>1, <2>2, <2>4, LeftIn
  <2> QED
    BY <1>4, <2>3, <2>4
<1>13. PICK l, l2 : l = GcLeft /\ l2 = GcLeft'
  OBVIOUS
<1>14. l2 \in 0 .. l - 1
  BY ONLY <1>10, <1>11, <1>12, <1>13
<1> QED
  BY <1>13, <1>14 DEF Advances

\* markObjects, the roots: the list of objects is left.
LEMMA MarkAdvances ==
  ASSUME Tame, NEW F, IInv(F), MarkRoots, Running'
  PROVE  Advances
<1>1. /\ Running /\ gc.phase = "mark"
      /\ gc' = [gc EXCEPT !.phase = "scan", !.ptrHolder = Roots]
      /\ chunks' = chunks /\ heapAUsed' = heapAUsed
  BY DEF MarkRoots, HeapWild, Running
<1>2. TypeOK /\ Always(F) /\ gc.objects \in Seq(Cells)
  BY <1>1 DEF IInv, InWalk
<1>3. DOMAIN gc = gcFields /\ Layout(F, chunks, arrays, mem) /\ active \in Spaces
  BY <1>2, StateFacts, TwoSpaces
<1>4. gc'.phase = "scan" /\ gc'.objects = gc.objects
  BY <1>1, <1>3 DEF gcFields
<1>5. PICK w, k : w = ahead(chunks[active], <<1, 0>>) /\ k = Len(gc.objects)
  OBVIOUS
<1>6. w \in Nat /\ k \in Nat
  <2>1. Len(chunks[active]) \in Nat
    BY <1>3, ChunkNumbers
  <2> QED
    BY <1>2, <1>5, <2>1, AheadOfStart
<1>7. GcLeft = k + (w + 2) + 2
  BY <1>1, <1>5, LeftIn DEF GcLeft
<1>8. GcLeft' = k + (w + 2) + 1
  <2>1. chunks'[active'] = chunks[active]
    BY <1>1, TwoSpaces
  <2>2. GcLeft' = leftOf(gc', chunks[active])
    BY <2>1 DEF GcLeft
  <2> QED
    BY <1>4, <1>5, <2>2, LeftIn
<1>9. PICK l, l2 : l = GcLeft /\ l2 = GcLeft'
  OBVIOUS
<1>10. l2 \in 0 .. l - 1
  BY ONLY <1>6, <1>7, <1>8, <1>9
<1> QED
  BY <1>9, <1>10 DEF Advances

\* markObjects, one object: off the list.  After the last one the copying
\* begins with all bytes ahead.
LEMMA ScanAdvances ==
  ASSUME Tame, NEW F, IInv(F), ScanObject, Running'
  PROVE  Advances
<1>1. Running /\ gc.phase = "scan"
  BY DEF ScanObject
<1>2. /\ gc' = [gc EXCEPT !.objects = Tail(@), !.ptrHolder = @ \cup {},
                          !.phase = IF Len(gc.objects) = 1 THEN "move" ELSE "scan",
                          !.at = <<1, 0>>]
      /\ chunks' = chunks /\ heapAUsed' = heapAUsed
  BY <1>1, ScanIdle DEF HeapWild, Running
<1>3. TypeOK /\ Always(F) /\ gc.objects \in Seq(Cells) /\ gc.objects # <<>>
  BY <1>1 DEF IInv, InWalk
<1>4. DOMAIN gc = gcFields /\ Layout(F, chunks, arrays, mem) /\ active \in Spaces
  BY <1>3, StateFacts, TwoSpaces
<1>5. /\ gc'.phase = IF Len(gc.objects) = 1 THEN "move" ELSE "scan"
      /\ gc'.objects = Tail(gc.objects) /\ gc'.at = <<1, 0>>
  BY <1>2, <1>4 DEF gcFields
<1>6. PICK w, k : w = ahead(chunks[active], <<1, 0>>) /\ k = Len(gc.objects)
  OBVIOUS
<1>7. w \in Nat /\ k \in Nat /\ k > 0 /\ Len(gc'.objects) = k - 1
  <2>1. Len(chunks[active]) \in Nat
    BY <1>4, ChunkNumbers
  <2>2. Len(gc.objects) \in Nat /\ Len(gc.objects) > 0
    BY <1>3
  <2>3. Len(Tail(gc.objects)) = Len(gc.objects) - 1
    BY <1>3
  <2> QED
    BY <1>5, <1>6, <2>1, <2>2, <2>3, AheadOfStart
<1>8. GcLeft = k + (w + 2) + 1
  BY <1>1, <1>6, LeftIn DEF GcLeft
<1>9. GcLeft' = (k - 1) + (w + 2) + 1 \/ GcLeft' = w + 2
  <2>1. chunks'[active'] = chunks[active]
    BY <1>2, TwoSpaces
  <2>2. GcLeft' = leftOf(gc', chunks[active])
    BY <2>1 DEF GcLeft
  <2>3. CASE gc'.phase = "scan"
    BY <1>6, <1>7, <2>2, <2>3, LeftIn
  <2>4. CASE gc'.phase = "move"
    BY <1>5, <1>6, <2>2, <2>4, LeftIn
  <2> QED
    BY <1>5, <2>3, <2>4
<1>10. PICK l, l2 : l = GcLeft /\ l2 = GcLeft'
  OBVIOUS
<1>11. l2 \in 0 .. l - 1
  BY ONLY <1>7, <1>8, <1>9, <1>10
<1> QED
  BY <1>10, <1>11 DEF Advances

\* moveObjects, one object: skipped or copied, the cursor goes on.  Copies fill
\* the idle half-space, never the one that is walked.
LEMMA MoveAdvances ==
  ASSUME Tame, NEW F, IInv(F), SkipObject \/ MoveObject, Running'
  PROVE  Advances
<1> DEFINE next == after(sizeOf(mem[objAt]))
           cs   == chunks[active]
<1>1. Running /\ gc.phase = "move"
  BY DEF SkipObject, MoveObject
<1>2. /\ TypeOK /\ Always(F)
      /\ CursorOK(cs, arrays, gc.at) /\ gc.at[1] \in DOMAIN cs
  BY <1>1 DEF IInv, InMove
<1>3. DOMAIN gc = gcFields /\ chunks \in [Spaces -> Seq(HeapChunk)]
  BY <1>2, StateFacts
<1>4. /\ gc' = [gc EXCEPT !.at = next, !.phase = IF walked(next) THEN "patch" ELSE "move"]
      /\ heapAUsed' = heapAUsed /\ chunks'[active] = cs
  <2>1. CASE SkipObject
    BY <2>1 DEF SkipObject
  <2>2. CASE MoveObject
    <3>1. ~HeapThrew /\ ~HeapWild
      BY DEF HeapThrew, HeapWild, Running
    <3>2. PICK new : /\ Take(idle, new, align(sizeOf(mem[objAt])))
                     /\ gc' = [gc EXCEPT !.at = next,
                                         !.phase = IF walked(next) THEN "patch" ELSE "move"]
                     /\ heapAUsed' = heapAUsed
      BY <2>2, <3>1 DEF MoveObject
    <3>3. chunks'[active] = chunks[active]
      BY <1>3, <3>2, TwoSpaces DEF Take
    <3> QED
      BY <3>2, <3>3
  <2> QED
    BY <2>1, <2>2
<1>5. gc'.phase = (IF walked(next) THEN "patch" ELSE "move") /\ gc'.at = next
  <2> HIDE DEF next
  <2> QED
    BY <1>3, <1>4 DEF gcFields
<1>6. PICK a, b : a = ahead(cs, gc.at) /\ b = ahead(cs, next)
  OBVIOUS
<1>7. a \in Nat /\ a > 0 /\ b \in Nat /\ b < a
  BY <1>2, <1>6, CursorAdvances
<1>8. GcLeft = a + 2
  BY <1>1, <1>6, LeftIn DEF GcLeft
<1>9. GcLeft' = b + 2 \/ GcLeft' = 2
  <2>1. GcLeft' = leftOf(gc', cs)
    BY <1>4, TwoSpaces DEF GcLeft
  <2>2. CASE gc'.phase = "move"
    BY <1>5, <1>6, <2>1, <2>2, LeftIn
  <2>3. CASE gc'.phase = "patch"
    BY <2>1, <2>3, LeftIn
  <2> QED
    BY <1>5, <2>2, <2>3
<1>10. PICK l, l2 : l = GcLeft /\ l2 = GcLeft'
  OBVIOUS
<1>11. l2 \in 0 .. l - 1
  BY ONLY <1>7, <1>8, <1>9, <1>10
<1> QED
  BY <1>10, <1>11 DEF Advances

\* updatePtrHolder, then the allocation the collection was for.
LEMMA EndAdvances ==
  ASSUME UpdatePtrHolder \/ FinishInit, Running'
  PROVE  Advances
<1>1. CASE UpdatePtrHolder
  <2>1. gc.phase = "patch" /\ gc' = [NotCollecting EXCEPT !.phase = "alloc", !.want = gc.want]
    BY <1>1 DEF UpdatePtrHolder
  <2>2. gc'.phase = "alloc"
    BY <2>1 DEF NotCollecting
  <2>3. GcLeft = 2 /\ GcLeft' = 1
    BY <2>1, <2>2, LeftIn DEF GcLeft
  <2> QED
    BY <2>3 DEF Advances
<1>2. CASE FinishInit
  <2>1. ~HeapThrew /\ ~HeapWild
    BY DEF HeapThrew, HeapWild, Running
  <2>2. gc.phase = "alloc" /\ gc' = NotCollecting
    BY <1>2, <2>1 DEF FinishInit, NewArray
  <2>3. gc'.phase = "idle"
    BY <2>2 DEF NotCollecting
  <2>4. GcLeft = 1 /\ GcLeft' = 0
    BY <2>2, <2>3, LeftIn DEF GcLeft
  <2> QED
    BY <2>4 DEF Advances
<1> QED
  BY <1>1, <1>2

\* Between the steps of a collection nothing else runs.
LEMMA StepAdvances ==
  ASSUME Tame, NEW F, IInv(F), HeapNext, gc.phase # "idle", Running'
  PROVE  Advances
<1>1. Collect
  <2>1. ~Mutating
    BY DEF Mutating
  <2>2. ~StackInstruction /\ ~End
    BY <2>1 DEF StackInstruction, End
  <2>3. \A r, n, t : ~ArrInit(r, n, t) /\ ~StartGC(r, n, t)
    BY <2>1 DEF ArrInit, StartGC
  <2>4. \A r, array, i : ~ArrInsert(r, array, i) /\ ~ArrRead(r, array, i)
    BY <2>1 DEF ArrInsert, ArrRead, AccessElement
  <2> QED
    BY <2>2, <2>3, <2>4 DEF HeapNext
<1>2. CASE WalkObject
  BY <1>2, WalkAdvances
<1>3. CASE MarkRoots
  BY <1>3, MarkAdvances
<1>4. CASE ScanObject
  BY <1>4, ScanAdvances
<1>5. CASE SkipObject \/ MoveObject
  BY <1>5, MoveAdvances
<1>6. CASE UpdatePtrHolder \/ FinishInit
  BY <1>6, EndAdvances
<1> QED
  BY <1>1, <1>2, <1>3, <1>4, <1>5, <1>6 DEF Collect

(***************************************************************************)
(* The theorems.                                                           *)
(***************************************************************************)
\* No chunk of this size is ever filled to its last 16 bytes.
RoomBehind == \E F : Fills(F) /\ Spare(F)

\* How full a chunk can be here.
fills == CHOOSE F : Fills(F) /\ (Spare(F) \/ Apart)
spare == CHOOSE F : Fills(F) /\ Spare(F)

LEMMA FillsExist ==
  ASSUME Tame, RoomBehind \/ Apart
  PROVE  Fills(fills) /\ (Spare(fills) \/ Apart)
<1>1. \E F : Fills(F) /\ (Spare(F) \/ Apart)
  BY ApartFills DEF RoomBehind
<1> QED
  BY <1>1 DEF fills

LEMMA SpareExist ==
  ASSUME RoomBehind
  PROVE  Fills(spare) /\ Spare(spare)
BY DEF RoomBehind, spare

\* The invariant holds throughout.
LEMMA HeapInvariance ==
  ASSUME Tame, RoomBehind \/ Apart
  PROVE  HeapSpec => []IInv(fills)
<1>1. HeapInit => IInv(fills)
  BY InitInvariant
<1>2. IInv(fills) /\ [HeapNext]_allVars => IInv(fills)'
  BY FillsExist, NextInvariant
<1> QED
  BY <1>1, <1>2, PTL DEF HeapSpec

\* Registers, stack and memory hold words and the half-spaces chunks, whatever
\* the allocations and collections (Heap.cpp, all of it).
THEOREM HeapTypeCorrect ==
  ASSUME Tame, RoomBehind \/ Apart
  PROVE  HeapSpec => []TypeOK
<1>1. IInv(fills) => TypeOK
  BY DEF IInv
<1> QED
  BY <1>1, HeapInvariance, PTL

\* Between collections every pointer in a register or live slot is the address
\* of an array in the active half-space: markObjects finds every root and
\* updatePtrHolder leaves none behind.
THEOREM HeapRootsLive ==
  ASSUME Tame, RoomBehind \/ Apart
  PROVE  HeapSpec => []RootsLive
<1>1. IInv(fills) => RootsLive
  BY RootsLiveNow
<1> QED
  BY <1>1, HeapInvariance, PTL

\* The sizes in the headers lead from the start of every chunk through each of
\* its arrays to the end of its used bytes, so getAllObjects and moveObjects
\* walk objects only.
THEOREM HeapHeadersIntact ==
  ASSUME Tame, RoomBehind \/ Apart
  PROVE  HeapSpec => []HeadersIntact
<1>1. IInv(fills) => HeadersIntact
  BY HeadersIntactNow
<1> QED
  BY <1>1, HeapInvariance, PTL

\* A forwarding address that moveObjects leaves behind is that of an equal
\* array in the idle half-space, a different one for every array.
THEOREM HeapForwardingSound ==
  ASSUME Tame, RoomBehind \/ Apart
  PROVE  HeapSpec => []ForwardingSound
<1>1. IInv(fills) => ForwardingSound
  BY ForwardingSoundNow
<1> QED
  BY <1>1, HeapInvariance, PTL

\* After a collection the active half-space holds the arrays the roots lead to
\* and no other.
THEOREM HeapOnlyReachable ==
  ASSUME Tame, RoomBehind \/ Apart
  PROVE  HeapSpec => []OnlyReachableSurvive
<1>1. IInv(fills) => OnlyReachableSurvive
  BY OnlyReachableNow
<1> QED
  BY <1>1, HeapInvariance, PTL

\* While the program runs the idle half-space is empty, and totalAllocated is
\* the sum of the used bytes of the active one's chunks: what triggers the next
\* collection counts what is there.
THEOREM HeapSpaceDiscipline ==
  ASSUME Tame, RoomBehind \/ Apart
  PROVE  HeapSpec => []SpaceDiscipline
<1>1. IInv(fills) => SpaceDiscipline
  BY SpaceDisciplineNow
<1> QED
  BY <1>1, HeapInvariance, PTL

\* Every step of a collection leaves less to do than it found: no size that
\* getAllObjects or moveObjects reads from a header leads nowhere or backward,
\* so no collection goes on for ever.
THEOREM HeapGcAdvances ==
  ASSUME Tame, RoomBehind \/ Apart
  PROVE  HeapSpec => GcAdvances
<1>1. IInv(fills) /\ [HeapNext]_allVars =>
        [gc.phase # "idle" /\ status' = "running" => GcLeft' \in 0 .. GcLeft - 1]_allVars
  BY StepAdvances DEF Advances, Running
<1> QED
  BY <1>1, HeapInvariance, PTL DEF HeapSpec, GcAdvances

\* No instruction of such a program and no step of a collection reads or writes
\* outside the chunks of the heap, if no chunk is filled to its last 16 bytes,
\* which initArray clears past the object.  That the program names arrays in its
\* array instructions is part of Tame: moveArray follows any register.
THEOREM HeapNeverWild ==
  ASSUME Tame, RoomBehind
  PROVE  HeapSpec => []NeverWild
<1>1. HeapInit => IInv(spare) /\ NeverWild
  <2>1. HeapInit => NeverWild
    BY DEF HeapInit, Init, NeverWild
  <2> QED
    BY <2>1, InitInvariant
<1>2. IInv(spare) /\ NeverWild /\ [HeapNext]_allVars => IInv(spare)' /\ NeverWild'
  <2> SUFFICES ASSUME IInv(spare), NeverWild, [HeapNext]_allVars
               PROVE  IInv(spare)' /\ NeverWild'
    OBVIOUS
  <2>1. IInv(spare)'
    BY SpareExist, NextInvariant
  <2>2. status' # "wild"
    BY SpareExist, StepTame DEF NeverWild
  <2> QED
    BY <2>1, <2>2 DEF NeverWild
<1> QED
  BY <1>1, <1>2, PTL DEF HeapSpec

(***************************************************************************)
(* The refinement: what a program sees of the heap are the arrays of       *)
(* ArrayGraph.                                                             *)
(***************************************************************************)

\* A pointer is a reference to its array, any other word is itself.
LEMMA ValueOf ==
  ASSUME NEW w \in Word
  PROVE  /\ isPointer(w) => /\ value(w) = Graph!ref(decodePointer(w))
                            /\ Graph!isRef(value(w))
         /\ ~isPointer(w) => value(w) = w /\ ~Graph!isRef(value(w))
<1>1. DOMAIN w = {"hi", "mid", "lo"}
  BY DEF Word
<1>2. DOMAIN w # {"array"}
  BY <1>1
<1>3. \A q : DOMAIN [array |-> q] = {"array"}
  OBVIOUS
<1> QED
  BY <1>2, <1>3 DEF value, Graph!ref, Graph!isRef

LEMMA RefIs ==
  /\ \A q : Graph!isRef(Graph!ref(q)) /\ Graph!ref(q).array = q
  /\ \A q, x : Graph!ref(q) = Graph!ref(x) => q = x
BY DEF Graph!ref, Graph!isRef

\* The references in the registers and live slots are those to the roots.
LEMMA RefsAre ==
  ASSUME NEW rg \in [Regs -> Word], NEW st \in [Slots -> Word], NEW top
  PROVE  Graph!RefsIn(regsOf(rg)) \cup Graph!RefsIn(liveOf(st, top)) =
           {Graph!ref(q) : q \in rootsOf(rg, st, top)}
<1>1. ASSUME NEW r \in Regs
      PROVE  /\ isPointer(rg[r]) => regsOf(rg)[r] = Graph!ref(decodePointer(rg[r]))
             /\ Graph!isRef(regsOf(rg)[r]) <=> isPointer(rg[r])
  BY ValueOf DEF regsOf
<1>2. ASSUME NEW i \in Slots, i < top
      PROVE  /\ isPointer(st[i]) => liveOf(st, top)[i] = Graph!ref(decodePointer(st[i]))
             /\ Graph!isRef(liveOf(st, top)[i]) <=> isPointer(st[i])
  <2>1. liveOf(st, top)[i] = value(st[i]) /\ st[i] \in Word
    BY <1>2 DEF liveOf
  <2> QED
    BY <2>1, ValueOf
<1>3. DOMAIN regsOf(rg) = Regs /\ DOMAIN liveOf(st, top) = {i \in Slots : i < top}
  BY DEF regsOf, liveOf
<1>4. ASSUME NEW v \in Graph!RefsIn(regsOf(rg)) \cup Graph!RefsIn(liveOf(st, top))
      PROVE  \E q \in rootsOf(rg, st, top) : v = Graph!ref(q)
  <2>1. CASE v \in Graph!RefsIn(regsOf(rg))
    <3>1. PICK r \in Regs : v = regsOf(rg)[r] /\ Graph!isRef(v)
      BY <1>3, <2>1 DEF Graph!RefsIn, Graph!Range
    <3>2. isPointer(rg[r]) /\ v = Graph!ref(decodePointer(rg[r]))
      BY <1>1, <3>1
    <3> QED
      BY <3>2, RootIs
  <2>2. CASE v \in Graph!RefsIn(liveOf(st, top))
    <3>1. PICK i \in Slots : i < top /\ v = liveOf(st, top)[i] /\ Graph!isRef(v)
      BY <1>3, <2>2 DEF Graph!RefsIn, Graph!Range
    <3>2. isPointer(st[i]) /\ v = Graph!ref(decodePointer(st[i]))
      BY <1>2, <3>1
    <3> QED
      BY <3>1, <3>2, RootIs
  <2> QED
    BY <1>4, <2>1, <2>2
<1>5. ASSUME NEW q \in rootsOf(rg, st, top)
      PROVE  Graph!ref(q) \in Graph!RefsIn(regsOf(rg)) \cup Graph!RefsIn(liveOf(st, top))
  <2>1. CASE \E r \in Regs : isPointer(rg[r]) /\ q = decodePointer(rg[r])
    <3>1. PICK r \in Regs : isPointer(rg[r]) /\ q = decodePointer(rg[r])
      BY <2>1
    <3>2. regsOf(rg)[r] = Graph!ref(q) /\ Graph!isRef(regsOf(rg)[r])
      BY <1>1, <3>1
    <3> QED
      BY <1>3, <3>2 DEF Graph!RefsIn, Graph!Range
  <2>2. CASE \E i \in Slots : i < top /\ isPointer(st[i]) /\ q = decodePointer(st[i])
    <3>1. PICK i \in Slots : i < top /\ isPointer(st[i]) /\ q = decodePointer(st[i])
      BY <2>2
    <3>2. liveOf(st, top)[i] = Graph!ref(q) /\ Graph!isRef(liveOf(st, top)[i])
      BY <1>2, <3>1
    <3> QED
      BY <1>3, <3>1, <3>2 DEF Graph!RefsIn, Graph!Range
  <2> QED
    BY <2>1, <2>2, RootIs
<1> QED
  BY <1>4, <1>5

\* No array holds a reference.
LEMMA ElementsPlain ==
  ASSUME Tame, NEW F, NEW ch, NEW A, NEW m, HeapOK(F, ch, A, m), NEW p \in A
  PROVE  /\ DOMAIN elements(m, p) = Indices(lengthOf(m[p + 16]))
         /\ \A i \in DOMAIN elements(m, p) : ~Graph!isRef(elements(m, p)[i])
         /\ Graph!RefsIn(elements(m, p)) = {}
<1>1. DOMAIN elements(m, p) = Indices(lengthOf(m[p + 16]))
  BY DEF elements
<1>2. ASSUME NEW i \in Indices(lengthOf(m[p + 16]))
      PROVE  ~Graph!isRef(elements(m, p)[i])
  <2> DEFINE e == p + ARRAY_OBJ + 8 * i
  <2>1. e \in Cells /\ ~isPointer(m[e])
    BY ElementFacts
  <2>2. elements(m, p)[i] = value(m[e])
    BY DEF elements
  <2> HIDE DEF e
  <2>3. m[e] \in Word
    BY <2>1 DEF HeapOK
  <2> QED
    BY <2>1, <2>2, <2>3, ValueOf
<1> QED
  BY <1>1, <1>2 DEF Graph!RefsIn, Graph!Range

\* Memory that agrees on the words of the arrays B, headers apart.
SamePayload(m, B, m2) ==
  \A p \in B : \A a \in Cells : covers(m, p, a) /\ a >= p => m2[a] = m[a]

LEMMA StoreKept ==
  ASSUME Tame, NEW F, NEW ch, NEW A, NEW m, HeapOK(F, ch, A, m),
         NEW B, B \subseteq A, NEW m2, SamePayload(m, B, m2)
  PROVE  storeOf(B, m2) = storeOf(B, m)
<1> SUFFICES ASSUME NEW p \in B PROVE elements(m2, p) = elements(m, p)
  BY DEF storeOf
<1>1. p \in A
  OBVIOUS
<1>2. p \in Nat /\ covers(m, p, p + 16) /\ p + 16 \in Cells
  BY <1>1, OwnWords
<1>3. m2[p + 16] = m[p + 16]
  BY <1>2 DEF SamePayload
<1>4. ASSUME NEW i \in Indices(lengthOf(m[p + 16]))
      PROVE  m2[p + ARRAY_OBJ + 8 * i] = m[p + ARRAY_OBJ + 8 * i]
  <2> DEFINE e == p + ARRAY_OBJ + 8 * i
  <2>1. e \in Cells /\ e \in Nat /\ e >= p + 24 /\ covers(m, p, e)
    BY <1>1, ElementFacts
  <2> HIDE DEF e
  <2>2. m2[e] = m[e]
    BY <1>2, <2>1 DEF SamePayload
  <2> QED
    BY <2>2 DEF e
<1> QED
  BY <1>3, <1>4 DEF elements

\* What a program sees of the heap.
seen == <<regsOf(reg), liveOf(stack, sp), storeOf(Arrays(active), mem), status = "running">>

LEMMA GraphStutter ==
  ASSUME reg' = reg, stack' = stack, sp' = sp, status' = status,
         storeOf(Arrays(active)', mem') = storeOf(Arrays(active), mem)
  PROVE  UNCHANGED seen
BY DEF seen

\* An exception, or an access outside the heap, ends the program.
LEMMA StopGraph ==
  ASSUME Running, HeapWild \/ HeapThrew
  PROVE  Graph!Stop
BY DEF Graph!Stop, HeapWild, HeapThrew, Running

\* A collector's step that leaves payloads and half-spaces alone.
LEMMA QuietGraph ==
  ASSUME Tame, NEW F, HeapOK(F, chunks, arrays, mem),
         reg' = reg, stack' = stack, sp' = sp, status' = status,
         active' = active, Arrays(active)' = Arrays(active),
         SamePayload(mem, Arrays(active), mem')
  PROVE  UNCHANGED seen
<1>1. Arrays(active) \subseteq arrays
  BY DEF Arrays
<1>2. storeOf(Arrays(active), mem') = storeOf(Arrays(active), mem)
  BY <1>1, StoreKept
<1> QED
  BY <1>2, GraphStutter

\* A stack instruction shuffles values and makes up no reference.
LEMMA StackGraph ==
  ASSUME Tame, NEW F, IInv(F), StackInstruction, did' = <<"stack">>
  PROVE  Graph!Shuffle
<1>1. /\ Running /\ gc.phase = "idle" /\ UNCHANGED heapVars
  BY DEF StackInstruction, Mutating
<1>2. /\ TypeOK /\ Always(F) /\ sp \in 0 .. STACK_SIZE /\ fp \in Nat /\ fp =< sp /\ ip \in Nat
      /\ reg \in [Regs -> Word] /\ stack \in [Slots -> Word]
  BY <1>1, StateFacts DEF IInv
<1>3. /\ reg' \in [Regs -> Word] /\ stack' \in [Slots -> Word]
      /\ RootPointers' \subseteq RootPointers
      /\ status' = "running"
  BY <1>2, StackStep
<1>4. rootsOf(reg', stack', sp') \subseteq rootsOf(reg, stack, sp)
  BY <1>3, RootsNow
<1>5. Graph!RefsIn(regsOf(reg')) \cup Graph!RefsIn(liveOf(stack', sp')) \subseteq
        Graph!RefsIn(regsOf(reg)) \cup Graph!RefsIn(liveOf(stack, sp))
  <2>1. /\ Graph!RefsIn(regsOf(reg')) \cup Graph!RefsIn(liveOf(stack', sp')) =
             {Graph!ref(q) : q \in rootsOf(reg', stack', sp')}
        /\ Graph!RefsIn(regsOf(reg)) \cup Graph!RefsIn(liveOf(stack, sp)) =
             {Graph!ref(q) : q \in rootsOf(reg, stack, sp)}
    BY <1>2, <1>3, RefsAre
  <2> QED
    BY <1>4, <2>1
<1>6. /\ status = "running" /\ status' = "running"
      /\ UNCHANGED <<mem, chunks, heapAUsed, arrays>>
  BY <1>1, <1>3 DEF Running, heapVars
<1>7. active' = active /\ Arrays(active)' = Arrays(active)
  BY <1>6, TwoSpaces, ArraysNow
<1>8. DOMAIN regsOf(reg') = DOMAIN regsOf(reg)
  BY DEF regsOf
<1> QED
  BY <1>5, <1>6, <1>7, <1>8 DEF Graph!Shuffle

\* initArray, when it neither throws nor leaves the heap.
LEMMA NewArrayPlaces ==
  ASSUME Tame, NEW F, Layout(F, chunks, arrays, mem),
         NEW dst \in Regs, NEW length \in Lengths, NEW type \in Types,
         NewArray(dst, length, type)
  PROVE  \/ HeapThrew \/ HeapWild
         \/ \E p : /\ Placed(chunks, arrays, mem, active, length, type, chunks', p, arrays', mem')
                   /\ reg' = [reg EXCEPT ![dst] = encodePointer(p)]
                   /\ UNCHANGED <<stack, sp, status, heapAUsed>>
<1> DEFINE T == totalOf(length)
<1>1. /\ align(OBJ_HEADER + 8 * length + 8) = T
      /\ length \in Nat /\ T \in Nat /\ T > 0 /\ T =< CHUNK_SIZE
  <2>1. length \in Nat /\ T =< CHUNK_SIZE
    BY HeapAssumption DEF Tame
  <2>2. T \in Nat /\ T = 24 + 8 * length /\ align(OBJ_HEADER + 8 * length + 8) = T
    BY <2>1, Totals8
  <2> QED
    BY <2>1, <2>2
<1> HIDE DEF T
<1>2. \/ HeapThrew \/ HeapWild
      \/ \E cs \in withRoom(active, T) :
           /\ mem' = overwrite(overwrite(mem, headerAt(nextAddr(cs), T, OBJ_ARRAY)),
                               blank(nextAddr(cs) + 16, length, type))
           /\ Take(active, cs, T)
           /\ reg' = [reg EXCEPT ![dst] = encodePointer(nextAddr(cs) + 16)]
           /\ arrays' = arrays \cup {nextAddr(cs) + 16}
           /\ gc' = NotCollecting
           /\ UNCHANGED <<stack, sp, fp, ip, status, frames, heapAUsed>>
  BY <1>1 DEF NewArray, blank, bodyOf
<1>3. ASSUME NEW cs \in withRoom(active, T),
             mem' = overwrite(overwrite(mem, headerAt(nextAddr(cs), T, OBJ_ARRAY)),
                               blank(nextAddr(cs) + 16, length, type)),
             Take(active, cs, T),
             arrays' = arrays \cup {nextAddr(cs) + 16}
      PROVE  Placed(chunks, arrays, mem, active, length, type, chunks', nextAddr(cs) + 16,
                    arrays', mem')
  <2>1. active \in Spaces
    BY TwoSpaces
  <2>2. chunks' = [chunks EXCEPT ![active] = bumped(cs, T)]
    BY <1>3 DEF Take
  <2>3. Roomy(chunks, active, cs, T)
    BY <1>1, <1>3, <2>1, RoomFound
  <2>4. Grown(chunks, chunks', active, Len(cs), nextAddr(cs), T)
    BY <1>1, <2>1, <2>2, <2>3, RoomTaken
  <2> QED
    BY <1>3, <2>1, <2>4 DEF Placed, Laid, T
<1> QED
  BY <1>2, <1>3

\* Its array has the length asked for and holds zeros.
LEMMA FreshElements ==
  ASSUME Tame, NEW F, Fills(F), NEW ch, NEW A, NEW m, HeapOK(F, ch, A, m),
         NEW s, NEW n, NEW type, NEW ch2, NEW p, NEW A2, NEW m2,
         Placed(ch, A, m, s, n, type, ch2, p, A2, m2)
  PROVE  elements(m2, p) = [i \in Indices(n) |-> ZERO]
<1>1. PICK h, last : p = h + 16 /\ Laid(ch, m, s, n, type, ch2, last, h, m2)
  BY DEF Placed
<1>2. /\ s \in Spaces /\ n \in Lengths /\ type \in Types /\ n \in Nat /\ type \in Nat
      /\ Indices(n) \subseteq 0 .. n - 3
  BY HeapAssumption DEF Placed, Tame
<1>3. /\ Grown(ch, ch2, s, last, h, totalOf(n))
      /\ m2 = overwrite(overwrite(m, headerAt(h, totalOf(n), OBJ_ARRAY)), blank(h + 16, n, type))
      /\ Layout(F, ch, A, m) /\ m \in [Cells -> Word] /\ \A x \in A : ArrayOK(m, x)
  BY <1>1 DEF Laid, HeapOK
<1> DEFINE r == ch2[s][last].mem
<1>4. /\ h \in Nat /\ h % 8 = 0 /\ r =< h /\ r \in Regions /\ r \in Nat
      /\ h + totalOf(n) = r + ch2[s][last].used /\ ch2[s][last].used =< CHUNK_SIZE
      /\ ch2[s][last].used \in Nat /\ CHUNK_SIZE \in Nat
  BY <1>2, <1>3, GrownFacts, RegionFacts
<1>5. h + totalOf(n) =< r + CHUNK_SIZE
  BY <1>4
<1> HIDE DEF r
<1>6. /\ m2[h + 32] = arrayInfo(type, n)
      /\ \A k \in 0 .. n - 3 : m2[h + 40 + 8 * k] = ZERO
  BY <1>2, <1>3, <1>4, <1>5, NewArrayMemory
<1>7. lengthOf(m2[p + 16]) = n
  BY <1>1, <1>2, <1>4, <1>6, InfoWord
<1>8. ASSUME NEW i \in Indices(n) PROVE value(m2[p + ARRAY_OBJ + 8 * i]) = ZERO
  <2>1. m2[p + ARRAY_OBJ + 8 * i] = ZERO
    <3>1. i \in 0 .. n - 3 /\ p + 24 + 8 * i = h + 40 + 8 * i
      BY <1>1, <1>2, <1>4
    <3> QED
      BY <1>6, <3>1
  <2> QED
    BY <2>1, ZeroWord DEF value
<1> QED
  BY <1>7, <1>8 DEF elements

\* initArray gives the program one array more, of which it knows before anyone.
LEMMA NewArrayGraph ==
  ASSUME Tame, NEW F, Fills(F), Spare(F) \/ Apart, HeapOK(F, chunks, arrays, mem), Running,
         reg \in [Regs -> Word],
         NEW dst \in Regs, NEW length \in Lengths, NEW type \in Types,
         NewArray(dst, length, type), did' = <<"arr", dst>>
  PROVE  Graph!NewArray \/ Graph!Stop
<1>1. CASE HeapThrew \/ HeapWild
  BY <1>1, StopGraph
<1>2. ASSUME NEW p,
             Placed(chunks, arrays, mem, active, length, type, chunks', p, arrays', mem'),
             reg' = [reg EXCEPT ![dst] = encodePointer(p)],
             UNCHANGED <<stack, sp, status, heapAUsed>>
      PROVE  Graph!NewArray
  <2>1. /\ HeapOK(F, chunks', arrays', mem')
        /\ p \notin arrays /\ p \in Nat /\ p < MID * LO
        /\ Untouched(arrays, mem, mem')
        /\ ArraysOf(chunks', arrays', active) = ArraysOf(chunks, arrays, active) \cup {p}
    BY <1>2, PlacedHeap
  <2>2. active' = active /\ Arrays(active)' = Arrays(active) \cup {p}
        /\ Arrays(active) \subseteq arrays
    BY <1>2, <2>1, TwoSpaces, ArraysNow DEF Arrays
  <2>3. elements(mem', p) = [i \in Indices(length) |-> ZERO]
    BY <1>2, FreshElements
  <2>4. storeOf(Arrays(active), mem') = storeOf(Arrays(active), mem)
    <3>1. SamePayload(mem, Arrays(active), mem')
      BY <2>1, <2>2 DEF SamePayload, Untouched
    <3> QED
      BY <2>2, <3>1, StoreKept
  <2>5. storeOf(Arrays(active)', mem') =
          [k \in Arrays(active) \cup {p} |->
             IF k = p THEN [i \in Indices(length) |-> ZERO] ELSE storeOf(Arrays(active), mem)[k]]
    <3>1. \A k \in Arrays(active) : storeOf(Arrays(active), mem)[k] = elements(mem', k)
      BY <2>4 DEF storeOf
    <3> QED
      BY <2>2, <2>3, <3>1 DEF storeOf
  <2>6. regsOf(reg') = [regsOf(reg) EXCEPT ![dst] = Graph!ref(p)]
    <3>1. encodePointer(p) \in Word /\ isPointer(encodePointer(p))
          /\ decodePointer(encodePointer(p)) = p
      BY <2>1, PointerWord
    <3>2. value(encodePointer(p)) = Graph!ref(p)
      BY <3>1, ValueOf
    <3>3. \A r \in Regs : reg'[r] = IF r = dst THEN encodePointer(p) ELSE reg[r]
      BY <1>2
    <3> QED
      BY <3>2, <3>3 DEF regsOf
  <2>8. DOMAIN regsOf(reg) = Regs /\ DOMAIN storeOf(Arrays(active), mem) = Arrays(active)
        /\ DOMAIN storeOf(Arrays(active)', mem') = Arrays(active) \cup {p}
    BY <2>2 DEF regsOf, storeOf
  <2>9. p \notin Arrays(active) /\ Indices(length) \in {Indices(n) : n \in Lengths}
    BY <2>1, <2>2
  <2>10. status = "running" /\ status' = status /\ stack' = stack /\ sp' = sp
    BY <1>2 DEF Running
  <2>11. \E r \in DOMAIN regsOf(reg), shape \in {Indices(n) : n \in Lengths} :
           \E id \in DOMAIN storeOf(Arrays(active)', mem') \ DOMAIN storeOf(Arrays(active), mem) :
             /\ did' = <<"arr", r>>
             /\ regsOf(reg') = [regsOf(reg) EXCEPT ![r] = Graph!ref(id)]
             /\ storeOf(Arrays(active)', mem') =
                  [k \in DOMAIN storeOf(Arrays(active), mem) \cup {id} |->
                     IF k = id THEN [i \in shape |-> ZERO] ELSE storeOf(Arrays(active), mem)[k]]
    <3>1. storeOf(Arrays(active)', mem') =
            [k \in DOMAIN storeOf(Arrays(active), mem) \cup {p} |->
               IF k = p THEN [i \in Indices(length) |-> ZERO]
               ELSE storeOf(Arrays(active), mem)[k]]
      BY <2>5, <2>8
    <3>2. dst \in DOMAIN regsOf(reg)
          /\ p \in DOMAIN storeOf(Arrays(active)', mem') \ DOMAIN storeOf(Arrays(active), mem)
      BY <2>8, <2>9
    <3> DEFINE S  == storeOf(Arrays(active), mem)
               S2 == storeOf(Arrays(active)', mem')
               R  == regsOf(reg)
               R2 == regsOf(reg')
               T  == {Indices(n) : n \in Lengths}
    <3>3. /\ R2 = [R EXCEPT ![dst] = Graph!ref(p)]
          /\ S2 = [k \in DOMAIN S \cup {p} |->
                     IF k = p THEN [i \in Indices(length) |-> ZERO] ELSE S[k]]
          /\ dst \in DOMAIN R /\ p \in DOMAIN S2 \ DOMAIN S /\ Indices(length) \in T
      BY <2>6, <2>9, <3>1, <3>2
    <3> HIDE DEF S, S2, R, R2, T
    <3>4. \E r \in DOMAIN R, shape \in T : \E id \in DOMAIN S2 \ DOMAIN S :
            /\ did' = <<"arr", r>>
            /\ R2 = [R EXCEPT ![r] = Graph!ref(id)]
            /\ S2 = [k \in DOMAIN S \cup {id} |->
                       IF k = id THEN [i \in shape |-> ZERO] ELSE S[k]]
      BY <3>3
    <3> QED
      BY <3>4 DEF S, S2, R, R2, T
  <2> QED
    BY <2>10, <2>11 DEF Graph!NewArray
<1>3. Layout(F, chunks, arrays, mem)
  BY DEF HeapOK
<1> QED
  BY <1>1, <1>2, <1>3, NewArrayPlaces

\* Marking touches headers only.
LEMMA MarkRootsGraph ==
  ASSUME Tame, NEW F, IInv(F), MarkRoots
  PROVE  Graph!Stop \/ UNCHANGED seen
<1> DEFINE H == {decodePointer(rootValue(l)) - OBJ_HEADER : l \in Roots}
<1>1. /\ Running /\ gc.phase = "mark"
      /\ \/ HeapWild
         \/ /\ mem' = overwrite(mem, [a \in H |-> marked(mem[a])])
            /\ UNCHANGED <<stackVars, chunks, heapAUsed, arrays>>
  BY DEF MarkRoots
<1>2. CASE HeapWild
  BY <1>1, <1>2, StopGraph
<1>3. CASE /\ mem' = overwrite(mem, [a \in H |-> marked(mem[a])])
           /\ UNCHANGED <<stackVars, chunks, heapAUsed, arrays>>
  <2>1. /\ HeapOK(F, chunks, arrays, mem) /\ RootPointers \subseteq arrays
        /\ mem \in [Cells -> Word] /\ Arrays(active) \subseteq arrays
    BY <1>1, StateFacts DEF IInv, ArraysOf
  <2>2. /\ reg' = reg /\ stack' = stack /\ sp' = sp /\ status' = status
        /\ active' = active /\ Arrays(active)' = Arrays(active)
    <3>1. active' = active
      BY <1>3, TwoSpaces
    <3> QED
      BY <1>3, <3>1, ArraysNow DEF stackVars
  <2>3. H = {q - 16 : q \in RootPointers}
    BY DEF RootPointers
  <2> HIDE DEF H
  <2>4. ASSUME NEW p \in Arrays(active), NEW a \in Cells, covers(mem, p, a), a >= p
        PROVE  mem'[a] = mem[a]
    <3>1. p \in arrays /\ a \in Nat
      BY <2>1, CellFacts
    <3>2. a \notin H
      <4>1. SUFFICES ASSUME NEW q \in RootPointers, a = q - 16 PROVE FALSE
        BY <2>3
      <4>2. q \in arrays /\ covers(mem, q, a) /\ q \in Nat /\ p \in Nat
        BY <2>1, <3>1, <4>1, OwnWords
      <4>3. p = q
        BY <2>1, <2>4, <3>1, <4>2, OwnWords
      <4> QED
        BY <2>4, <4>1, <4>2, <4>3
    <3> QED
      BY <1>3, <2>1, <3>2 DEF overwrite
  <2>5. SamePayload(mem, Arrays(active), mem')
    BY <2>4 DEF SamePayload
  <2> QED
    BY <2>1, <2>2, <2>5, QuietGraph
<1> QED
  BY <1>1, <1>2, <1>3

\* So do the other steps of a collection before the end, as far as the
\* half-space a program sees is concerned.
LEMMA WalkGraph ==
  ASSUME Tame, NEW F, IInv(F), WalkObject \/ SkipObject \/ ScanObject
  PROVE  Graph!Stop \/ UNCHANGED seen
<1>1. /\ Running
      /\ \/ HeapWild \/ HeapThrew
         \/ UNCHANGED <<stackVars, mem, chunks, heapAUsed, arrays>>
  <2>1. CASE WalkObject
    BY <2>1 DEF WalkObject
  <2>2. CASE SkipObject
    BY <2>2 DEF SkipObject
  <2>3. CASE ScanObject
    <3>1. Running /\ gc.phase = "scan"
      BY <2>3 DEF ScanObject
    <3> QED
      BY <2>3, <3>1, ScanIdle
  <2> QED
    BY <2>1, <2>2, <2>3
<1>2. CASE UNCHANGED <<stackVars, mem, chunks, heapAUsed, arrays>>
  <2>1. HeapOK(F, chunks, arrays, mem)
    BY <1>1, StateFacts DEF IInv
  <2>2. active' = active /\ Arrays(active)' = Arrays(active)
    <3>1. active' = active
      BY <1>2, TwoSpaces
    <3> QED
      BY <1>2, <3>1, ArraysNow
  <2>3. SamePayload(mem, Arrays(active), mem')
    BY <1>2 DEF SamePayload
  <2> QED
    BY <1>2, <2>1, <2>2, <2>3, QuietGraph DEF stackVars
<1> QED
  BY <1>1, <1>2, StopGraph

\* moveObjects, the cases of an object that is marked.
LEMMA MoveCarries ==
  ASSUME Tame, NEW F, Fills(F), IInv(F), MoveObject
  PROVE  \/ HeapThrew \/ HeapWild
         \/ \E p, q : /\ Carried(chunks, arrays, mem, idle, p, chunks', q, arrays', mem')
                      /\ UNCHANGED <<stackVars, heapAUsed>>
<1> DEFINE size == sizeOf(mem[objAt])
           p    == objAt + 16
<1>1. /\ Running /\ gc.phase = "move" /\ flagsOf(mem[objAt]) = FLAG_MARKED
  BY DEF MoveObject
<1>2. /\ TypeOK /\ Always(F)
      /\ CursorOK(chunks[active], arrays, gc.at)
      /\ gc.at[1] \in DOMAIN chunks[active]
  BY <1>1 DEF IInv, InMove
<1>3. /\ Layout(F, chunks, arrays, mem) /\ idle \in Spaces
      /\ \A x \in arrays : ArrayOK(mem, x)
  BY <1>2, StateFacts, TwoSpaces
<1>4. objAt \in Nat /\ p - 16 = objAt /\ p \in arrays /\ Sized(mem, p) = size
  BY <1>2, UnderCursor
<1> DEFINE n == lengthOf(mem[p + 16])
           T == totalOf(n)
<1>5. /\ n \in Lengths /\ size = T /\ align(size) = T /\ T \in Nat
      /\ T > 0 /\ T =< CHUNK_SIZE /\ typeOf(mem[objAt]) = OBJ_ARRAY
  <2>1. ArrayOK(mem, p)
    BY <1>3, <1>4
  <2>2. n \in Lengths /\ Sized(mem, p) = totalOf(n) /\ typeOf(mem[objAt]) = OBJ_ARRAY
    BY <1>4, <2>1 DEF ArrayOK
  <2>3. n \in Nat /\ totalOf(n) =< CHUNK_SIZE
    BY <2>2, HeapAssumption DEF Tame
  <2>4. totalOf(n) \in Nat /\ totalOf(n) = 24 + 8 * n /\ align(totalOf(n)) = totalOf(n)
    BY <2>3, Totals8
  <2>5. totalOf(n) > 0
    BY <2>3, <2>4
  <2> QED
    BY <1>4, <2>2, <2>3, <2>4, <2>5
<1>6. \/ HeapThrew \/ HeapWild
      \/ \E cs \in withRoom(idle, align(size)) :
           /\ mem' = overwrite(overwrite(overwrite(mem,
                                headerAt(nextAddr(cs), align(size), typeOf(mem[objAt]))),
                                memcpy(nextAddr(cs) + 16, objAt + 16, size - 16)),
                               [a \in {objAt + 8} |-> encodePointer(nextAddr(cs) + 16)])
           /\ Take(idle, cs, align(size))
           /\ arrays' = arrays \cup {nextAddr(cs) + 16}
           /\ UNCHANGED <<stackVars, heapAUsed>>
  BY DEF MoveObject
<1>7. \A to, from, bytes : memcpy(to, from, bytes) = copyOf(mem, to, from, bytes)
  BY DEF memcpy, copyOf
<1>8. \/ HeapThrew \/ HeapWild
      \/ \E cs \in withRoom(idle, T) :
           /\ mem' = overwrite(overwrite(overwrite(mem, headerAt(nextAddr(cs), T, OBJ_ARRAY)),
                                         copyOf(mem, nextAddr(cs) + 16, objAt + 16, T - 16)),
                               [a \in {objAt + 8} |-> encodePointer(nextAddr(cs) + 16)])
           /\ Take(idle, cs, T)
           /\ arrays' = arrays \cup {nextAddr(cs) + 16}
           /\ UNCHANGED <<stackVars, heapAUsed>>
  <2> HIDE DEF size, T
  <2> QED
    BY <1>5, <1>6, <1>7
<1>9. ASSUME NEW cs \in withRoom(idle, T),
             mem' = overwrite(overwrite(overwrite(mem, headerAt(nextAddr(cs), T, OBJ_ARRAY)),
                                        copyOf(mem, nextAddr(cs) + 16, objAt + 16, T - 16)),
                              [a \in {objAt + 8} |-> encodePointer(nextAddr(cs) + 16)]),
             Take(idle, cs, T),
             arrays' = arrays \cup {nextAddr(cs) + 16}
      PROVE  Carried(chunks, arrays, mem, idle, p, chunks', nextAddr(cs) + 16, arrays', mem')
  <2>1. chunks' = [chunks EXCEPT ![idle] = bumped(cs, T)]
    BY <1>9 DEF Take
  <2>2. Roomy(chunks, idle, cs, T)
    <3> HIDE DEF T
    <3> QED
      BY <1>3, <1>5, <1>9, RoomFound
  <2>3. Grown(chunks, chunks', idle, Len(cs), nextAddr(cs), T)
    <3> HIDE DEF T
    <3> QED
      BY <1>3, <1>5, <2>1, <2>2, RoomTaken
  <2>4. CopyLaid(chunks, mem, idle, n, chunks', Len(cs), nextAddr(cs), p - 16, mem')
    BY <1>4, <1>9, <2>3 DEF CopyLaid
  <2>5. Sized(mem, p) = totalOf(n)
    BY <1>4, <1>5
  <2> HIDE DEF p, T
  <2> QED
    BY <1>3, <1>4, <1>5, <1>9, <2>4, <2>5 DEF Carried
<1> QED
  BY <1>8, <1>9

\* A copy is made in the half-space nobody sees.
LEMMA MoveGraph ==
  ASSUME Tame, NEW F, Fills(F), IInv(F), MoveObject
  PROVE  Graph!Stop \/ UNCHANGED seen
<1>1. Running
  BY DEF MoveObject
<1>2. CASE HeapThrew \/ HeapWild
  BY <1>1, <1>2, StopGraph
<1>3. ASSUME NEW p, NEW q,
             Carried(chunks, arrays, mem, idle, p, chunks', q, arrays', mem'),
             UNCHANGED <<stackVars, heapAUsed>>
      PROVE  UNCHANGED seen
  <2>1. /\ HeapOK(F, chunks, arrays, mem) /\ Arrays(active) \subseteq arrays
        /\ active \in Spaces /\ idle \in Spaces /\ active # idle
    BY <1>1, StateFacts, TwoSpaces DEF IInv, ArraysOf
  <2>2. /\ Copied(arrays, mem, p, q, mem')
        /\ ArraysOf(chunks', arrays', active) = ArraysOf(chunks, arrays, active)
    BY <1>3, <2>1, CarriedHeap
  <2>3. p \in arrays
    BY <1>3 DEF Carried
  <2>4. active' = active /\ Arrays(active)' = Arrays(active)
    <3>1. active' = active
      BY <1>3, TwoSpaces
    <3> QED
      BY <2>2, <3>1, ArraysNow
  <2>5. ASSUME NEW x \in Arrays(active), NEW a \in Cells, covers(mem, x, a), a >= x
        PROVE  mem'[a] = mem[a]
    <3>1. x \in arrays /\ a \in Nat /\ x \in Nat
      BY <2>1, CellFacts, OwnWords
    <3>2. a # p - 8
      <4>1. SUFFICES ASSUME a = p - 8 PROVE FALSE
        OBVIOUS
      <4>2. covers(mem, p, a)
        BY <2>1, <2>3, <4>1, OwnWords
      <4>3. x = p
        BY <2>1, <2>3, <2>5, <3>1, <4>2, OwnWords
      <4> QED
        BY <2>5, <3>1, <4>1, <4>3
    <3> QED
      BY <2>2, <2>5, <3>1, <3>2 DEF Copied
  <2>6. SamePayload(mem, Arrays(active), mem')
    BY <2>5 DEF SamePayload
  <2> QED
    BY <1>3, <2>1, <2>4, <2>6, QuietGraph DEF stackVars
<1> QED
  BY <1>2, <1>3, MoveCarries

\* An array's payload is equal to that of another, word for word.
Equal(m, p, m2, q) ==
  \A k \in 0 .. (Sized(m, p) - OBJ_HEADER) \div 8 - 1 : m2[q + 8 * k] = m[p + 8 * k]

\* Equal payloads hold equal elements.
LEMMA EqualElements ==
  ASSUME Tame, NEW m, NEW p, ArrayOK(m, p), NEW m2, NEW q \in Nat, Equal(m, p, m2, q)
  PROVE  elements(m2, q) = elements(m, p)
<1> DEFINE n == lengthOf(m[p + 16])
<1>1. /\ p \in Nat /\ n \in Lengths /\ Sized(m, p) = totalOf(n)
      /\ n \in Nat /\ n >= 2 /\ Indices(n) \subseteq 0 .. n - 3
  BY HeapAssumption DEF ArrayOK, Tame
<1> HIDE DEF n
<1>2. (Sized(m, p) - 16) \div 8 - 1 = n
  BY <1>1, PayloadWords
<1>3. \A k \in 0 .. n : m2[q + 8 * k] = m[p + 8 * k]
  BY <1>2 DEF Equal
<1>4. m2[q + 16] = m[p + 16]
  <2>1. 2 \in 0 .. n /\ q + 8 * 2 = q + 16 /\ p + 8 * 2 = p + 16
    BY <1>1
  <2> QED
    BY <1>3, <2>1
<1>5. ASSUME NEW i \in Indices(n)
      PROVE  m2[q + ARRAY_OBJ + 8 * i] = m[p + ARRAY_OBJ + 8 * i]
  <2>1. i \in Nat /\ i + 3 \in 0 .. n
    BY <1>1
  <2>2. q + 8 * (i + 3) = q + 24 + 8 * i /\ p + 8 * (i + 3) = p + 24 + 8 * i
    BY <1>1, <2>1
  <2>3. m2[q + 8 * (i + 3)] = m[p + 8 * (i + 3)]
    BY <1>3, <2>1
  <2> QED
    BY <2>2, <2>3
<1> QED
  BY <1>4, <1>5 DEF elements, n

\* What moveObjects leaves: the roots' arrays and those of the other half-space
\* are the same, one to one.
LEMMA ForwardedOneToOne ==
  ASSUME NEW m, NEW A, NEW B, NEW P, NEW cs, NEW at, Forwarded(m, A, B, P, cs, at),
         \A p \in A : Passed(m, cs, at, p), P \subseteq A
  PROVE  /\ \A p \in P : /\ isPointer(m[p - 8]) /\ fwd(m, p) \in B
                         /\ Sized(m, fwd(m, p)) = Sized(m, p)
                         /\ Equal(m, p, m, fwd(m, p))
         /\ [p \in P |-> fwd(m, p)] \in Bijection(P, B)
<1>1. {p \in A : p \in P /\ Passed(m, cs, at, p)} = P
  OBVIOUS
<1>2. /\ \A p \in P : /\ isPointer(m[p - 8]) /\ fwd(m, p) \in B
                      /\ Sized(m, fwd(m, p)) = Sized(m, p)
                      /\ Equal(m, p, m, fwd(m, p))
      /\ \A p, q \in P : fwd(m, p) = fwd(m, q) => p = q
      /\ \A q \in B : \E p \in P : fwd(m, p) = q
  BY <1>1 DEF Forwarded, Equal
<1> QED
  BY <1>2 DEF Bijection, Injection, Surjection, IsInjective

\* The values of the roots are renamed as their arrays are.
LEMMA RootsRenamed ==
  ASSUME NEW rg \in [Regs -> Word], NEW st \in [Slots -> Word], NEW top,
         NEW m, NEW B, NEW rg2 \in [Regs -> Word], NEW st2 \in [Slots -> Word],
         RootsFollowed(m, B, rg, st, top, rg2, st2),
         NEW f, f = [p \in rootsOf(rg, st, top) |-> fwd(m, p)]
  PROVE  /\ regsOf(rg2) = Graph!renamedAll(f, regsOf(rg))
         /\ liveOf(st2, top) = Graph!renamedAll(f, liveOf(st, top))
<1>1. ASSUME NEW w \in Word, NEW w2 \in Word,
             isPointer(w) => decodePointer(w) \in rootsOf(rg, st, top)
                             /\ w2 = m[decodePointer(w) - 8],
             ~isPointer(w) => w2 = w
      PROVE  value(w2) = Graph!renamed(f, value(w))
  <2>1. CASE ~isPointer(w)
    BY <1>1, <2>1, ValueOf DEF Graph!renamed
  <2>2. CASE isPointer(w)
    <3> DEFINE q == decodePointer(w)
    <3>1. q \in rootsOf(rg, st, top) /\ w2 = m[q - 8] /\ isPointer(m[q - 8])
      BY <1>1, <2>2 DEF RootsFollowed
    <3>2. value(w) = Graph!ref(q) /\ Graph!isRef(value(w)) /\ value(w).array = q
      BY <2>2, ValueOf, RefIs
    <3>3. value(w2) = Graph!ref(fwd(m, q))
      BY <3>1, ValueOf DEF fwd
    <3> HIDE DEF q
    <3>4. f[q] = fwd(m, q)
      BY <3>1
    <3> QED
      BY <3>2, <3>3, <3>4 DEF Graph!renamed
  <2> QED
    BY <2>1, <2>2
<1>2. ASSUME NEW r \in Regs
      PROVE  value(rg2[r]) = Graph!renamed(f, value(rg[r]))
  <2>1. /\ isPointer(rg[r]) => decodePointer(rg[r]) \in rootsOf(rg, st, top)
                               /\ rg2[r] = m[decodePointer(rg[r]) - 8]
        /\ ~isPointer(rg[r]) => rg2[r] = rg[r]
    BY RootIs DEF RootsFollowed, RootsForwarded
  <2>2. rg[r] \in Word /\ rg2[r] \in Word
    OBVIOUS
  <2> QED
    BY <1>1, <2>1, <2>2
<1>3. ASSUME NEW i \in Slots, i < top
      PROVE  value(st2[i]) = Graph!renamed(f, value(st[i]))
  <2>1. /\ isPointer(st[i]) => decodePointer(st[i]) \in rootsOf(rg, st, top)
                               /\ st2[i] = m[decodePointer(st[i]) - 8]
        /\ ~isPointer(st[i]) => st2[i] = st[i]
    BY <1>3, RootIs DEF RootsFollowed, RootsForwarded
  <2>2. st[i] \in Word /\ st2[i] \in Word
    OBVIOUS
  <2> QED
    BY <1>1, <2>1, <2>2
<1>4. regsOf(rg2) = Graph!renamedAll(f, regsOf(rg))
  BY <1>2 DEF regsOf, Graph!renamedAll
<1>5. liveOf(st2, top) = Graph!renamedAll(f, liveOf(st, top))
  BY <1>3 DEF liveOf, Graph!renamedAll
<1> QED
  BY <1>4, <1>5

\* The end of a collection, all at once for the program: the arrays its roots
\* lead to have new names, everywhere, and the others are gone.
LEMMA CollectGraph ==
  ASSUME Tame, NEW F, IInv(F), IInv(F)', UpdatePtrHolder, did' = <<"flip">>
  PROVE  Graph!Collect
<1> DEFINE K == RootPointers
           f == [p \in K |-> fwd(mem, p)]
<1>1. /\ Running /\ gc.phase = "patch" /\ heapAUsed' = ~heapAUsed
      /\ sp' = sp /\ status' = status
  BY DEF UpdatePtrHolder
<1>2. /\ TypeOK /\ Always(F) /\ gc.ptrHolder = Roots
      /\ CursorOK(chunks[active], arrays, gc.at)
      /\ gc.at[1] \notin DOMAIN chunks[active]
      /\ Forwarded(mem, Arrays(active), Arrays(idle), K, chunks[active], gc.at)
  BY <1>1 DEF IInv, AfterMark, InMove
<1>3. /\ HeapOK(F, chunks, arrays, mem) /\ \A p \in arrays : ArrayOK(mem, p)
      /\ K \subseteq Arrays(active)
      /\ reg \in [Regs -> Word] /\ stack \in [Slots -> Word]
      /\ Arrays(active) \subseteq arrays /\ Arrays(idle) \subseteq arrays
  BY <1>2, StateFacts DEF Arrays
<1>4. /\ active \in Spaces /\ idle \in Spaces /\ active # idle
      /\ active' = idle /\ idle' = active
  BY <1>1, <1>2, StateFacts, TwoSpaces
<1>5. \A p \in Arrays(active) : Passed(mem, chunks[active], gc.at, p)
  BY <1>2, <1>3, <1>4, EveryPassed, ArraysNow
<1>6. /\ \A p \in K : /\ isPointer(mem[p - 8]) /\ fwd(mem, p) \in Arrays(idle)
                      /\ Sized(mem, fwd(mem, p)) = Sized(mem, p)
                      /\ Equal(mem, p, mem, fwd(mem, p))
      /\ f \in Bijection(K, Arrays(idle))
      /\ \A q \in Arrays(idle) : \E p \in K : fwd(mem, p) = q
  BY <1>2, <1>3, <1>5, AllForwarded, ForwardedOneToOne
<1>7. /\ reg' \in [Regs -> Word] /\ stack' \in [Slots -> Word]
      /\ RootsForwarded(mem, reg, stack, sp, reg', stack')
  BY <1>2, RootsPatched
<1>8. K = rootsOf(reg, stack, sp)
  BY RootsNow
<1>9. /\ regsOf(reg') = Graph!renamedAll(f, regsOf(reg))
      /\ liveOf(stack', sp') = Graph!renamedAll(f, liveOf(stack, sp))
  <2>1. RootsFollowed(mem, Arrays(idle), reg, stack, sp, reg', stack')
    BY <1>6, <1>7, <1>8 DEF RootsFollowed
  <2>2. f = [p \in rootsOf(reg, stack, sp) |-> fwd(mem, p)]
    BY <1>8
  <2> HIDE DEF f
  <2> QED
    BY <1>1, <1>3, <1>7, <2>1, <2>2, RootsRenamed
<1>10. /\ arrays' = Arrays(idle) /\ Arrays(active)' = arrays'
       /\ Untouched(arrays', mem, mem')
  <2>1. Freed(chunks, arrays, mem, active, chunks', arrays', mem')
    BY <1>2, HalfFreed
  <2>2. /\ arrays' = ArraysOf(chunks, arrays, idle) /\ ArraysOf(chunks', arrays', idle) = arrays'
        /\ Untouched(arrays', mem, mem')
    BY <1>3, <1>4, <2>1, FreedHeap
  <2> QED
    BY <1>4, <2>2, ArraysNow
<1>11. ASSUME NEW k \in K
       PROVE  storeOf(Arrays(active)', mem')[f[k]] =
                Graph!renamedAll(f, storeOf(Arrays(active), mem)[k])
  <2> DEFINE q == fwd(mem, k)
  <2>1. /\ k \in Arrays(active) /\ k \in arrays /\ q \in Arrays(idle) /\ q \in arrays
        /\ ArrayOK(mem, k) /\ f[k] = q
    BY <1>3, <1>6
  <2>2. elements(mem, q) = elements(mem, k)
    <3>1. q \in Nat /\ Equal(mem, k, mem, q)
      BY <1>3, <1>6, <2>1, OwnWords
    <3> QED
      BY <2>1, <3>1, EqualElements
  <2>3. elements(mem', q) = elements(mem, q)
    <3>1. SamePayload(mem, Arrays(idle), mem')
      BY <1>10 DEF SamePayload, Untouched
    <3>2. storeOf(Arrays(idle), mem') = storeOf(Arrays(idle), mem)
      BY <1>3, <3>1, StoreKept
    <3>3. /\ storeOf(Arrays(idle), mem')[q] = elements(mem', q)
          /\ storeOf(Arrays(idle), mem)[q] = elements(mem, q)
      BY <2>1 DEF storeOf
    <3> QED
      BY <3>2, <3>3
  <2>4. Graph!renamedAll(f, elements(mem, k)) = elements(mem, k)
    <3>1. \A i \in DOMAIN elements(mem, k) : ~Graph!isRef(elements(mem, k)[i])
      BY <1>3, <2>1, ElementsPlain
    <3>2. elements(mem, k) = [i \in DOMAIN elements(mem, k) |-> elements(mem, k)[i]]
      BY DEF elements
    <3> QED
      BY <3>1, <3>2 DEF Graph!renamedAll, Graph!renamed
  <2>5. /\ storeOf(Arrays(active)', mem')[f[k]] = elements(mem', q)
        /\ storeOf(Arrays(active), mem)[k] = elements(mem, k)
    BY <1>10, <2>1 DEF storeOf
  <2> QED
    BY <2>2, <2>3, <2>4, <2>5
<1>12. Graph!Closed(K)
  <2>1. \A v \in Graph!RefsIn(regsOf(reg)) \cup Graph!RefsIn(liveOf(stack, sp)) : v.array \in K
    <3>1. Graph!RefsIn(regsOf(reg)) \cup Graph!RefsIn(liveOf(stack, sp)) =
            {Graph!ref(q) : q \in K}
      BY <1>3, <1>8, RefsAre
    <3> HIDE DEF K
    <3> QED
      BY <3>1, RefIs
  <2>2. \A k \in K : Graph!RefsIn(storeOf(Arrays(active), mem)[k]) = {}
    <3> SUFFICES ASSUME NEW k \in K PROVE Graph!RefsIn(storeOf(Arrays(active), mem)[k]) = {}
      OBVIOUS
    <3>1. k \in Arrays(active) /\ k \in arrays
      BY <1>3
    <3>2. storeOf(Arrays(active), mem)[k] = elements(mem, k)
      BY <3>1 DEF storeOf
    <3> QED
      BY <1>3, <3>1, <3>2, ElementsPlain
  <2> QED
    BY <2>1, <2>2 DEF Graph!Closed
<1>13. /\ DOMAIN storeOf(Arrays(active), mem) = Arrays(active)
       /\ DOMAIN storeOf(Arrays(active)', mem') = Arrays(idle)
  BY <1>10 DEF storeOf
<1>14. status = "running" /\ status' = status
  BY <1>1 DEF Running
<1>15. /\ K \in SUBSET DOMAIN storeOf(Arrays(active), mem)
       /\ f \in Bijection(K, DOMAIN storeOf(Arrays(active)', mem'))
  BY <1>3, <1>6, <1>13
<1> HIDE DEF K, f
<1> QED
  BY <1>9, <1>11, <1>12, <1>14, <1>15
     DEF Graph!Collect, Graph!Bijection, Bijection, Graph!Injection, Injection,
         Graph!Surjection, Surjection, Graph!IsInjective, IsInjective

\* heapAlloc, with or without a collection before it.
LEMMA ArrInitGraph ==
  ASSUME Tame, NEW F, Fills(F), Spare(F) \/ Apart, IInv(F),
         NEW dst \in Regs, NEW length \in Lengths, NEW type \in Types,
         ArrInit(dst, length, type), did' = <<"arr", dst>>
  PROVE  Graph!NewArray \/ Graph!Stop
<1>1. Running /\ NewArray(dst, length, type)
  BY DEF ArrInit, Mutating
<1>2. HeapOK(F, chunks, arrays, mem) /\ reg \in [Regs -> Word]
  BY <1>1, StateFacts DEF IInv
<1> QED
  BY <1>1, <1>2, NewArrayGraph

LEMMA FinishInitGraph ==
  ASSUME Tame, NEW F, Fills(F), Spare(F) \/ Apart, IInv(F), FinishInit,
         did' = <<"arr", gc.want[1]>>
  PROVE  Graph!NewArray \/ Graph!Stop
<1>1. Running /\ gc.phase = "alloc" /\ NewArray(gc.want[1], gc.want[2], gc.want[3])
  BY DEF FinishInit
<1>2. /\ HeapOK(F, chunks, arrays, mem) /\ reg \in [Regs -> Word]
      /\ gc.want \in Regs \X Lengths \X Types
  BY <1>1, StateFacts DEF IInv, BeforeMark
<1>3. gc.want[1] \in Regs /\ gc.want[2] \in Lengths /\ gc.want[3] \in Types
  BY <1>2
<1> QED
  BY <1>1, <1>2, <1>3, NewArrayGraph

\* Steps that touch neither memory nor what a program holds.
LEMMA SameGraph ==
  ASSUME UNCHANGED <<stackVars, mem, chunks, heapAUsed, arrays>>
  PROVE  UNCHANGED seen
<1>1. active' = active /\ Arrays(active)' = Arrays(active)
  <2>1. active' = active
    BY TwoSpaces
  <2> QED
    BY <2>1, ArraysNow
<1>2. storeOf(Arrays(active)', mem') = storeOf(Arrays(active), mem)
  BY <1>1
<1> QED
  BY <1>2, GraphStutter DEF stackVars

\* What moveArray finds in its operand register.
LEMMA AccessFacts ==
  ASSUME Tame, NEW F, IInv(F), NEW array \in Regs, Running, isPointer(reg[array]),
         NEW p, p = decodePointer(reg[array])
  PROVE  /\ HeapOK(F, chunks, arrays, mem) /\ reg \in [Regs -> Word]
         /\ p \in Arrays(active) /\ Arrays(active) \subseteq arrays
         /\ regsOf(reg)[array] = Graph!ref(p)
<1>1. TypeOK /\ Always(F)
  BY DEF IInv
<1>2. p \in RootPointers
  BY RootsNow, RootIs
<1>3. HeapOK(F, chunks, arrays, mem) /\ reg \in [Regs -> Word]
      /\ RootPointers \subseteq Arrays(active)
  BY <1>1, StateFacts
<1>4. regsOf(reg)[array] = value(reg[array])
  BY DEF regsOf
<1> QED
  BY <1>2, <1>3, <1>4, ValueOf DEF Arrays

\* The arrays after an element was written.
LEMMA ElementStored ==
  ASSUME Tame, NEW F, NEW ch, NEW A, NEW m, HeapOK(F, ch, A, m), NEW B, B \subseteq A,
         NEW p \in B, NEW i \in Indices(lengthOf(m[p + 16])), NEW e, e = p + ARRAY_OBJ + 8 * i,
         NEW w \in Word, ~isPointer(w), NEW m2 \in [Cells -> Word],
         \A a \in Cells : m2[a] = IF a = e THEN w ELSE m[a]
  PROVE  storeOf(B, m2) = [storeOf(B, m) EXCEPT ![p][i] = w]
<1>0. p \in A
  OBVIOUS
<1>1. e \in Cells /\ e \in Nat /\ e >= p + 24 /\ covers(m, p, e) /\ p \in Nat
  BY <1>0, ElementFacts, OwnWords
<1>2. elements(m2, p) = [elements(m, p) EXCEPT ![i] = w]
  <2>1. p + 16 \in Cells
    BY <1>0, OwnWords
  <2>2. m2[p + 16] = m[p + 16]
    BY <1>1, <2>1
  <2>3. i \in Int /\ \A j \in Indices(lengthOf(m[p + 16])) : j \in Int
    <3>1. lengthOf(m[p + 16]) \in Nat
      BY <1>0, HeapAssumption DEF HeapOK, ArrayOK
    <3> QED
      BY <3>1 DEF Tame
  <2>4. ASSUME NEW j \in Indices(lengthOf(m[p + 16]))
        PROVE  value(m2[p + ARRAY_OBJ + 8 * j]) =
                 IF j = i THEN w ELSE value(m[p + ARRAY_OBJ + 8 * j])
    <3> DEFINE d == p + ARRAY_OBJ + 8 * j
    <3>1. d \in Cells
      BY <1>0, ElementFacts
    <3>2. d = e <=> j = i
      BY <1>1, <2>3
    <3> HIDE DEF d
    <3>3. m2[d] = IF j = i THEN w ELSE m[d]
      BY <3>1, <3>2
    <3>4. value(w) = w
      BY ValueOf
    <3> QED
      BY <3>3, <3>4 DEF d
  <2> QED
    BY <2>2, <2>4 DEF elements
<1>3. ASSUME NEW q \in B, q # p
      PROVE  elements(m2, q) = elements(m, q)
  <2>1. ASSUME NEW a \in Cells, covers(m, q, a) PROVE m2[a] = m[a]
    <3>1. a # e
      BY <1>0, <1>1, <1>3, <2>1, OwnWords
    <3> QED
      BY <3>1
  <2>2. SamePayload(m, {q}, m2)
    BY <2>1 DEF SamePayload
  <2>3. storeOf({q}, m2) = storeOf({q}, m)
    BY <2>2, StoreKept
  <2> QED
    <3>1. storeOf({q}, m2)[q] = elements(m2, q) /\ storeOf({q}, m)[q] = elements(m, q)
      BY DEF storeOf
    <3> QED
      BY <2>3, <3>1
<1>4. \A q \in B : elements(m2, q) = IF q = p THEN [elements(m, p) EXCEPT ![i] = w]
                                    ELSE elements(m, q)
  BY <1>2, <1>3
<1> QED
  BY <1>4 DEF storeOf

\* moveArray writes an element.
LEMMA ArrInsertGraph ==
  ASSUME Tame, NEW F, IInv(F), NEW source \in Regs, NEW array \in Regs,
         isPointer(reg[array]), ~isPointer(reg[source]), NEW i, ArrInsert(source, array, i),
         did' = <<"arrins", source, array, i>>
  PROVE  Graph!Insert(source, array, i) \/ Graph!Stop
<1> DEFINE p == decodePointer(reg[array])
           e == p + ARRAY_OBJ + 8 * i
<1>1. /\ Running
      /\ \/ HeapWild \/ HeapThrew
         \/ /\ i \in Indices(lengthOf(mem[p + 16]))
            /\ mem' = [mem EXCEPT ![e] = reg[source]]
            /\ UNCHANGED <<stackVars, chunks, heapAUsed, arrays>>
  BY DEF ArrInsert, AccessElement, elementAt, Mutating
<1>2. CASE HeapWild \/ HeapThrew
  BY <1>1, <1>2, StopGraph
<1>3. CASE /\ i \in Indices(lengthOf(mem[p + 16]))
           /\ mem' = [mem EXCEPT ![e] = reg[source]]
           /\ UNCHANGED <<stackVars, chunks, heapAUsed, arrays>>
  <2>1. /\ HeapOK(F, chunks, arrays, mem) /\ reg \in [Regs -> Word]
        /\ p \in Arrays(active) /\ Arrays(active) \subseteq arrays
        /\ regsOf(reg)[array] = Graph!ref(p)
    BY <1>1, AccessFacts
  <2>2. ~isPointer(reg[source]) /\ reg[source] \in Word
    BY <2>1
  <2>3. /\ mem' \in [Cells -> Word]
        /\ \A a \in Cells : mem'[a] = IF a = e THEN reg[source] ELSE mem[a]
    <3>1. mem \in [Cells -> Word]
      BY <2>1 DEF HeapOK
    <3> HIDE DEF e
    <3> QED
      BY <1>3, <2>2, <3>1
  <2>4. i \in Indices(lengthOf(mem[p + 16]))
    BY <1>3
  <2> HIDE DEF p
  <2>5. storeOf(Arrays(active), mem') = [storeOf(Arrays(active), mem) EXCEPT ![p][i] = reg[source]]
    BY <2>1, <2>2, <2>3, <2>4, ElementStored
  <2>6. active' = active /\ Arrays(active)' = Arrays(active)
    <3>1. active' = active
      BY <1>3, TwoSpaces
    <3> QED
      BY <1>3, <3>1, ArraysNow
  <2>7. regsOf(reg)[source] = reg[source]
    <3>1. regsOf(reg)[source] = value(reg[source])
      BY DEF regsOf
    <3> QED
      BY <2>2, <3>1, ValueOf
  <2>8. i \in DOMAIN storeOf(Arrays(active), mem)[p]
    BY <2>1, <2>4 DEF storeOf, elements
  <2>9. Graph!isRef(regsOf(reg)[array]) /\ regsOf(reg)[array].array = p
    BY <2>1, RefIs
  <2>10. /\ status = "running" /\ status' = status /\ reg' = reg
         /\ stack' = stack /\ sp' = sp
    BY <1>1, <1>3 DEF Running, stackVars
  <2> QED
    BY <2>5, <2>6, <2>7, <2>8, <2>9, <2>10 DEF Graph!Insert
<1> QED
  BY <1>1, <1>2, <1>3

\* moveArray reads an element.
LEMMA ArrReadGraph ==
  ASSUME Tame, NEW F, IInv(F), NEW target \in Regs, NEW array \in Regs,
         isPointer(reg[array]), NEW i, ArrRead(target, array, i),
         did' = <<"arrread", target, array, i>>
  PROVE  Graph!Read(target, array, i) \/ Graph!Stop
<1> DEFINE p == decodePointer(reg[array])
           e == p + ARRAY_OBJ + 8 * i
<1>1. /\ Running
      /\ \/ HeapWild \/ HeapThrew
         \/ /\ i \in Indices(lengthOf(mem[p + 16]))
            /\ reg' = [reg EXCEPT ![target] = mem[e]]
            /\ UNCHANGED <<stack, sp, status, mem, chunks, heapAUsed, arrays>>
  BY DEF ArrRead, AccessElement, elementAt, Mutating, heapVars
<1>2. CASE HeapWild \/ HeapThrew
  BY <1>1, <1>2, StopGraph
<1>3. CASE /\ i \in Indices(lengthOf(mem[p + 16]))
           /\ reg' = [reg EXCEPT ![target] = mem[e]]
           /\ UNCHANGED <<stack, sp, status, mem, chunks, heapAUsed, arrays>>
  <2>1. /\ HeapOK(F, chunks, arrays, mem) /\ reg \in [Regs -> Word]
        /\ p \in Arrays(active) /\ Arrays(active) \subseteq arrays
        /\ regsOf(reg)[array] = Graph!ref(p)
    BY <1>1, AccessFacts
  <2>2. i \in Indices(lengthOf(mem[p + 16]))
    BY <1>3
  <2>3. /\ storeOf(Arrays(active), mem)[p] = elements(mem, p)
        /\ elements(mem, p)[i] = value(mem[e])
        /\ i \in DOMAIN elements(mem, p)
    BY <2>1, <2>2 DEF storeOf, elements
  <2>4. regsOf(reg') = [regsOf(reg) EXCEPT ![target] = value(mem[e])]
    <3> HIDE DEF e
    <3>1. \A r \in Regs : reg'[r] = IF r = target THEN mem[e] ELSE reg[r]
      BY <1>3, <2>1
    <3> QED
      BY <3>1 DEF regsOf
  <2> HIDE DEF p, e
  <2>5. active' = active /\ Arrays(active)' = Arrays(active)
    <3>1. active' = active
      BY <1>3, TwoSpaces
    <3> QED
      BY <1>3, <3>1, ArraysNow
  <2>6. Graph!isRef(regsOf(reg)[array]) /\ regsOf(reg)[array].array = p
    BY <2>1, RefIs
  <2>7. status = "running" /\ status' = status /\ mem' = mem /\ stack' = stack /\ sp' = sp
    BY <1>1, <1>3 DEF Running
  <2> QED
    BY <2>3, <2>4, <2>5, <2>6, <2>7 DEF Graph!Read
<1> QED
  BY <1>1, <1>2, <1>3

\* Every step of the program or the collector is one of ArrayGraph, or nothing
\* that a program sees.
LEMMA GraphStep ==
  ASSUME Tame, NEW F, Fills(F), Spare(F) \/ Apart, IInv(F), IInv(F)', [TracedNext]_tracedVars
  PROVE  [Graph!Next]_(Graph!vars)
<1>0. UNCHANGED seen /\ did' = did => UNCHANGED Graph!vars
  BY DEF seen, Graph!vars
<1>1. CASE StackInstruction /\ did' = <<"stack">>
  BY <1>1, StackGraph DEF Graph!Next
<1>2. ASSUME NEW r \in Regs, NEW n \in Lengths, NEW t \in Types
      PROVE  /\ ArrInit(r, n, t) /\ did' = <<"arr", r>> => Graph!Next
             /\ StartGC(r, n, t) /\ did' = <<"gc">> => Graph!Next
  <2>1. CASE ArrInit(r, n, t) /\ did' = <<"arr", r>>
    BY <2>1, ArrInitGraph DEF Graph!Next
  <2>2. CASE StartGC(r, n, t) /\ did' = <<"gc">>
    <3>1. UNCHANGED seen /\ status = "running"
      BY <2>2, SameGraph DEF StartGC, Mutating, Running
    <3> QED
      BY <2>2, <3>1 DEF seen, Graph!Pause, Graph!Next
  <2> QED
    BY <2>1, <2>2
<1>3. CASE /\ WalkObject \/ MarkRoots \/ ScanObject \/ SkipObject \/ MoveObject
           /\ did' = did
  <2>1. Graph!Stop \/ UNCHANGED seen
    BY <1>3, WalkGraph, MarkRootsGraph, MoveGraph
  <2> QED
    BY <1>0, <1>3, <2>1 DEF Graph!Next
<1>4. CASE UpdatePtrHolder /\ did' = <<"flip">>
  BY <1>4, CollectGraph DEF Graph!Next
<1>5. CASE FinishInit /\ did' = <<"arr", gc.want[1]>>
  BY <1>5, FinishInitGraph DEF Graph!Next
<1>6. ASSUME NEW r \in Regs, NEW array \in Regs,
             NEW i \in UNION {Indices(n) : n \in Lengths}, OnArray(array),
             \/ MayStore(r) /\ ArrInsert(r, array, i) /\ did' = <<"arrins", r, array, i>>
             \/ ArrRead(r, array, i) /\ did' = <<"arrread", r, array, i>>
      PROVE  Graph!Next
  <2>1. isPointer(reg[array]) /\ (MayStore(r) => ~isPointer(reg[r]))
    BY <1>6 DEF OnArray, MayStore, Tame
  <2>2. \/ Graph!Insert(r, array, i) \/ Graph!Read(r, array, i)
        \/ Graph!Stop
    BY <1>6, <2>1, ArrInsertGraph, ArrReadGraph
  <2>3. r \in DOMAIN regsOf(reg) /\ array \in DOMAIN regsOf(reg)
    BY DEF regsOf
  <2> QED
    BY <2>2, <2>3 DEF Graph!Next
<1>7. CASE End
  BY <1>7 DEF End, Mutating, Running, Graph!Next, Graph!Stop
<1>8. CASE UNCHANGED tracedVars
  <2>1. UNCHANGED seen /\ did' = did
    BY <1>8, SameGraph DEF tracedVars, allVars, heapVars
  <2> QED
    BY <1>0, <2>1
<1> QED
  BY <1>1, <1>2, <1>3, <1>4, <1>5, <1>6, <1>7, <1>8 DEF TracedNext

LEMMA GraphInit ==
  ASSUME TracedInit
  PROVE  Graph!Init
<1>1. /\ reg = [r \in Regs |-> ZERO] /\ stack = [i \in Slots |-> ZERO] /\ sp = 0
      /\ status = "running" /\ arrays = {} /\ did = <<>>
  BY DEF TracedInit, HeapInit, Init
<1>2. Graph!RefsIn(regsOf(reg)) = {}
  <2>1. ASSUME NEW r \in Regs PROVE ~Graph!isRef(regsOf(reg)[r])
    <3>1. regsOf(reg)[r] = value(ZERO) /\ ZERO \in Word /\ ~isPointer(ZERO)
      BY <1>1, ZeroWord DEF regsOf
    <3> QED
      BY <3>1, ValueOf
  <2>2. DOMAIN regsOf(reg) = Regs
    BY DEF regsOf
  <2> QED
    BY <2>1, <2>2 DEF Graph!RefsIn, Graph!Range
<1>3. liveOf(stack, sp) = [i \in {} |-> ZERO]
  <2>1. {i \in Slots : i < sp} = {}
    BY <1>1, CallStackAssumption DEF Slots
  <2> QED
    BY <2>1 DEF liveOf
<1>4. storeOf(Arrays(active), mem) = [k \in {} |-> ZERO]
  BY <1>1 DEF storeOf, Arrays
<1> QED
  BY <1>1, <1>2, <1>3, <1>4 DEF Graph!Init

\* The history changes nothing: with it or without, the same steps happen.
LEMMA TracedIsHeap == TracedSpec => HeapSpec
<1>1. TracedInit => HeapInit
  BY DEF TracedInit
<1>2. [TracedNext]_tracedVars => [HeapNext]_allVars
  <2>1. UNCHANGED tracedVars => UNCHANGED allVars
    BY DEF tracedVars
  <2>2. TracedNext => HeapNext
    BY DEF TracedNext, HeapNext, Collect
  <2> QED
    BY <2>1, <2>2
<1> QED
  BY <1>1, <1>2, PTL DEF TracedSpec, HeapSpec

\* The heap keeps ArrayGraph's promise to a program: an element read is what
\* was last written to that element of that array, however many collections
\* moved it; while a collection runs nothing changes that a program sees, and at
\* its end the arrays the roots lead to are renamed, everywhere at once.
THEOREM HeapRefinesGraph ==
  ASSUME Tame, RoomBehind \/ Apart
  PROVE  TracedSpec => GraphSpec
<1>1. TracedInit => Graph!Init
  BY GraphInit
<1>2. IInv(fills) /\ IInv(fills)' /\ [TracedNext]_tracedVars => [Graph!Next]_(Graph!vars)
  BY FillsExist, GraphStep
<1> QED
  BY <1>1, <1>2, TracedIsHeap, HeapInvariance, PTL DEF TracedSpec, GraphSpec, Graph!Spec
==============================================================================
