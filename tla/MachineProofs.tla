----------------------------- MODULE MachineProofs -----------------------------
(***************************************************************************)
(* The assembler and the VM for every set of programs: where the code of   *)
(* each function lies in the file, that every branch stays in its          *)
(* function, that the instruction pointer never enters an operand, and     *)
(* that together they implement the source program.                        *)
(***************************************************************************)
EXTENDS MachineProps, SumsProofs, SequenceTheorems, FiniteSetTheorems

Bytes == 0 .. BYTE - 1
Words == 0 .. WORD - 1

(***************************************************************************)
(* Instruction words.                                                      *)
(***************************************************************************)
packed(a, b, c, d) == ((a * BYTE + b) * BYTE + c) * BYTE + d

\* What decode takes from a word is what was packed into it.
LEMMA Packed ==
  ASSUME NEW a \in Bytes, NEW b \in Bytes, NEW c \in Bytes, NEW d \in Bytes
  PROVE  /\ packed(a, b, c, d) \in Words
         /\ op(packed(a, b, c, d)) = a /\ ra(packed(a, b, c, d)) = b
         /\ rb(packed(a, b, c, d)) = c /\ rc(packed(a, b, c, d)) = d
<1> DEFINE w == packed(a, b, c, d)
<1>1. CASE BYTE = 128
  <2>1. w = 128 * 128 * 128 * a + 128 * 128 * b + 128 * c + d /\ w \in Nat
    BY <1>1 DEF packed, Bytes
  <2> HIDE DEF w
  <2>2. a \in 0 .. 127 /\ b \in 0 .. 127 /\ c \in 0 .. 127 /\ d \in 0 .. 127
    BY <1>1 DEF Bytes
  <2>3. w =< 128 * 128 * 128 * 128 - 1
    BY <2>1, <2>2
  <2>4. w \div (128 * 128 * 128) = a
    BY <2>1, <2>2
  <2>5. w \div (128 * 128) = 128 * a + b /\ w \div 128 = 128 * 128 * a + 128 * b + c
    BY <2>1, <2>2
  <2>6. (128 * a + b) % 128 = b /\ (128 * 128 * a + 128 * b + c) % 128 = c /\ w % 128 = d
    BY <2>1, <2>2
  <2>7. w \in Words
    <3>1. WORD = 128 * 128 * 128 * 128 /\ WORD \in Nat
      BY <1>1 DEF WORD
    <3>2. w =< WORD - 1
      BY <2>1, <2>3, <3>1
    <3>3. WORD \in Nat
      BY <3>1
    <3> QED
      BY <2>1, <3>2, <3>3 DEF Words
  <2>8. op(w) = a
    BY <1>1, <2>4 DEF op
  <2>9. ra(w) = b /\ rb(w) = c /\ rc(w) = d
    BY <1>1, <2>5, <2>6 DEF ra, rb, rc
  <2> QED
    BY <2>7, <2>8, <2>9 DEF w
<1>2. CASE BYTE = 256
  <2>1. w = 256 * 256 * 256 * a + 256 * 256 * b + 256 * c + d /\ w \in Nat
    BY <1>2 DEF packed, Bytes
  <2> HIDE DEF w
  <2>2. a \in 0 .. 255 /\ b \in 0 .. 255 /\ c \in 0 .. 255 /\ d \in 0 .. 255
    BY <1>2 DEF Bytes
  <2>3. w =< 256 * 256 * 256 * 256 - 1
    BY <2>1, <2>2
  <2>4. w \div (256 * 256 * 256) = a
    BY <2>1, <2>2
  <2>5. w \div (256 * 256) = 256 * a + b /\ w \div 256 = 256 * 256 * a + 256 * b + c
    BY <2>1, <2>2
  <2>6. (256 * a + b) % 256 = b /\ (256 * 256 * a + 256 * b + c) % 256 = c /\ w % 256 = d
    BY <2>1, <2>2
  <2>7. w \in Words
    <3>1. WORD = 256 * 256 * 256 * 256 /\ WORD \in Nat
      BY <1>2 DEF WORD
    <3>2. w =< WORD - 1
      BY <2>1, <2>3, <3>1
    <3>3. WORD \in Nat
      BY <3>1
    <3> QED
      BY <2>1, <3>2, <3>3 DEF Words
  <2>8. op(w) = a
    BY <1>2, <2>4 DEF op
  <2>9. ra(w) = b /\ rb(w) = c /\ rc(w) = d
    BY <1>2, <2>5, <2>6 DEF ra, rb, rc
  <2> QED
    BY <2>7, <2>8, <2>9 DEF w
<1> QED
  BY <1>1, <1>2, ImageAssumption

\* A word's fields are bytes.
LEMMA Fields ==
  ASSUME NEW w \in Words
  PROVE  op(w) \in Bytes /\ ra(w) \in Bytes /\ rb(w) \in Bytes /\ rc(w) \in Bytes
<1>1. CASE BYTE = 128
  <2>1. w \in Nat /\ w =< 128 * 128 * 128 * 128 - 1
    <3>1. WORD = 128 * 128 * 128 * 128 /\ WORD \in Nat
      BY <1>1 DEF WORD
    <3>2. WORD \in Nat
      BY <3>1
    <3>3. w \in Nat /\ w =< WORD - 1
      BY <3>2 DEF Words
    <3> QED
      BY <3>1, <3>3
  <2>2. w \div (128 * 128 * 128) \in 0 .. 127
    BY <2>1
  <2>3. (w \div (128 * 128)) % 128 \in 0 .. 127 /\ (w \div 128) % 128 \in 0 .. 127
    BY <2>1
  <2>4. w % 128 \in 0 .. 127
    BY <2>1
  <2>5. op(w) \in Bytes
    BY <1>1, <2>2 DEF op, Bytes
  <2>6. ra(w) \in Bytes /\ rb(w) \in Bytes /\ rc(w) \in Bytes
    BY <1>1, <2>3, <2>4 DEF ra, rb, rc, Bytes
  <2> QED
    BY <2>5, <2>6
<1>2. CASE BYTE = 256
  <2>1. w \in Nat /\ w =< 256 * 256 * 256 * 256 - 1
    <3>1. WORD = 256 * 256 * 256 * 256 /\ WORD \in Nat
      BY <1>2 DEF WORD
    <3>2. WORD \in Nat
      BY <3>1
    <3>3. w \in Nat /\ w =< WORD - 1
      BY <3>2 DEF Words
    <3> QED
      BY <3>1, <3>3
  <2>2. w \div (256 * 256 * 256) \in 0 .. 255
    BY <2>1
  <2>3. (w \div (256 * 256)) % 256 \in 0 .. 255 /\ (w \div 256) % 256 \in 0 .. 255
    BY <2>1
  <2>4. w % 256 \in 0 .. 255
    BY <2>1
  <2>5. op(w) \in Bytes
    BY <1>2, <2>2 DEF op, Bytes
  <2>6. ra(w) \in Bytes /\ rb(w) \in Bytes /\ rc(w) \in Bytes
    BY <1>2, <2>3, <2>4 DEF ra, rb, rc, Bytes
  <2> QED
    BY <2>5, <2>6
<1> QED
  BY <1>1, <1>2, ImageAssumption

\* The bits of a byte.
bitOf(x, w) == IF (x \div w) % 2 = 1 THEN w ELSE 0

LEMMA Bits ==
  ASSUME NEW x \in 0 .. 255
  PROVE  x = bitOf(x, 1) + bitOf(x, 2) + bitOf(x, 4) + bitOf(x, 8) + bitOf(x, 16)
               + bitOf(x, 32) + bitOf(x, 64) + bitOf(x, 128)
<1>1. /\ x = 2 * (x \div 2) + (x % 2)
      /\ x \div 2 = 2 * (x \div 4) + ((x \div 2) % 2)
      /\ x \div 4 = 2 * (x \div 8) + ((x \div 4) % 2)
      /\ x \div 8 = 2 * (x \div 16) + ((x \div 8) % 2)
  OBVIOUS
<1>2. /\ x \div 16 = 2 * (x \div 32) + ((x \div 16) % 2)
      /\ x \div 32 = 2 * (x \div 64) + ((x \div 32) % 2)
      /\ x \div 64 = 2 * (x \div 128) + ((x \div 64) % 2)
      /\ x \div 128 = (x \div 128) % 2
  OBVIOUS
<1>3. x \div 1 = x
  OBVIOUS
<1>4. \A y \in Nat : y % 2 = 1 \/ y % 2 = 0
  OBVIOUS
<1>5. /\ x \in Nat /\ x \div 2 \in Nat /\ x \div 4 \in Nat /\ x \div 8 \in Nat
      /\ x \div 16 \in Nat /\ x \div 32 \in Nat /\ x \div 64 \in Nat /\ x \div 128 \in Nat
  OBVIOUS
<1> QED
  BY <1>1, <1>2, <1>3, <1>4, <1>5 DEF bitOf

LEMMA Plus8 ==
  ASSUME NEW a \in Int, NEW b \in Int, NEW c \in Int, NEW d \in Int,
         NEW e \in Int, NEW f \in Int, NEW g \in Int, NEW h \in Int,
         NEW p \in Int, NEW q \in Int, NEW r \in Int, NEW s \in Int,
         NEW t \in Int, NEW u \in Int, NEW v \in Int, NEW w \in Int,
         a =< p, b =< q, c =< r, d =< s, e =< t, f =< u, g =< v, h =< w
  PROVE  a + b + c + d + e + f + g + h =< p + q + r + s + t + u + v + w
  OBVIOUS

\* or of bytes is a byte, no less than either, and 0 adds nothing.
LEMMA OrFacts ==
  ASSUME NEW x \in Bytes, NEW y \in Bytes
  PROVE  /\ or(x, y) \in Bytes
         /\ x =< or(x, y)
         /\ or(x, 0) = x
<1> DEFINE bit(w) == IF (x \div w) % 2 = 1 \/ (y \div w) % 2 = 1 THEN w ELSE 0
<1>1. x \in 0 .. 255 /\ y \in 0 .. 255
  BY ImageAssumption DEF Bytes
<1>2. or(x, y) = bit(1) + bit(2) + bit(4) + bit(8) + bit(16) + bit(32) + bit(64) + bit(128)
  BY DEF or
<1>3. \A w \in Nat : bit(w) \in {0, w} /\ bitOf(x, w) \in {0, w} /\ bitOf(x, w) =< bit(w)
  BY DEF bitOf
<1>4. BYTE = 128 => bit(128) = 0
  <2>1. BYTE = 128 => x \div 128 = 0 /\ y \div 128 = 0
    BY DEF Bytes
  <2> QED
    BY <2>1
<1>5. or(x, 0) = x
  <2>1. \A w \in {1, 2, 4, 8, 16, 32, 64, 128} : 0 \div w = 0
    OBVIOUS
  <2>2. or(x, 0) = bitOf(x, 1) + bitOf(x, 2) + bitOf(x, 4) + bitOf(x, 8) + bitOf(x, 16)
                     + bitOf(x, 32) + bitOf(x, 64) + bitOf(x, 128)
    BY <2>1 DEF or, bitOf
  <2> QED
    BY <1>1, <2>2, Bits
<1> HIDE DEF bit
<1>6. x =< or(x, y)
  <2>1. /\ bit(1) \in 0 .. 1 /\ bit(2) \in 0 .. 2 /\ bit(4) \in 0 .. 4 /\ bit(8) \in 0 .. 8
        /\ bitOf(x, 1) \in 0 .. bit(1) /\ bitOf(x, 2) \in 0 .. bit(2)
        /\ bitOf(x, 4) \in 0 .. bit(4) /\ bitOf(x, 8) \in 0 .. bit(8)
    BY <1>3
  <2>2. /\ bit(16) \in 0 .. 16 /\ bit(32) \in 0 .. 32
        /\ bit(64) \in 0 .. 64 /\ bit(128) \in 0 .. 128
        /\ bitOf(x, 16) \in 0 .. bit(16) /\ bitOf(x, 32) \in 0 .. bit(32)
        /\ bitOf(x, 64) \in 0 .. bit(64) /\ bitOf(x, 128) \in 0 .. bit(128)
    BY <1>3
  <2> QED
    <3>1. /\ bitOf(x, 1) =< bit(1) /\ bitOf(x, 2) =< bit(2)
          /\ bitOf(x, 4) =< bit(4) /\ bitOf(x, 8) =< bit(8)
          /\ bitOf(x, 16) =< bit(16) /\ bitOf(x, 32) =< bit(32)
          /\ bitOf(x, 64) =< bit(64) /\ bitOf(x, 128) =< bit(128)
      BY <2>1, <2>2
    <3>2. x = bitOf(x, 1) + bitOf(x, 2) + bitOf(x, 4) + bitOf(x, 8) + bitOf(x, 16)
               + bitOf(x, 32) + bitOf(x, 64) + bitOf(x, 128)
      BY <1>1, Bits
    <3>3. /\ bit(1) \in Int /\ bit(2) \in Int /\ bit(4) \in Int /\ bit(8) \in Int
          /\ bit(16) \in Int /\ bit(32) \in Int /\ bit(64) \in Int /\ bit(128) \in Int
          /\ bitOf(x, 1) \in Int /\ bitOf(x, 2) \in Int /\ bitOf(x, 4) \in Int
          /\ bitOf(x, 8) \in Int /\ bitOf(x, 16) \in Int /\ bitOf(x, 32) \in Int
          /\ bitOf(x, 64) \in Int /\ bitOf(x, 128) \in Int
      BY <2>1, <2>2
    <3> QED
      BY <1>2, <3>1, <3>2, <3>3, Plus8
<1>7. or(x, y) \in Bytes
  BY <1>2, <1>3, <1>4, ImageAssumption DEF Bytes
<1> QED
  BY <1>5, <1>6, <1>7

\* A place in a part that ends within the whole.
LEMMA Within ==
  ASSUME NEW a \in Nat, NEW l \in Nat, NEW b, b = a + l, NEW c \in Nat, b =< c, NEW k \in 1 .. l
  PROVE  a + k \in 1 .. c
OBVIOUS

(***************************************************************************)
(* Sequences.                                                              *)
(***************************************************************************)
LEMMA Concatenated ==
  ASSUME NEW S, NEW s \in Seq(S), NEW t \in Seq(S)
  PROVE  /\ s \o t \in Seq(S) /\ Len(s \o t) = Len(s) + Len(t)
         /\ DOMAIN (s \o t) = 1 .. Len(s) + Len(t)
         /\ \A k \in 1 .. Len(s) : (s \o t)[k] = s[k]
         /\ \A k \in 1 .. Len(t) : (s \o t)[Len(s) + k] = t[k]
<1>1. /\ s \o t \in Seq(S) /\ Len(s \o t) = Len(s) + Len(t)
      /\ Len(s) \in Nat /\ Len(t) \in Nat
  OBVIOUS
<1>2. \A k \in 1 .. Len(s) + Len(t) :
        (s \o t)[k] = IF k =< Len(s) THEN s[k] ELSE t[k - Len(s)]
  OBVIOUS
<1>3. ASSUME NEW k \in 1 .. Len(t) PROVE (s \o t)[Len(s) + k] = t[k]
  BY <1>1, <1>2
<1>4. ASSUME NEW k \in 1 .. Len(s) PROVE (s \o t)[k] = s[k]
  BY <1>1, <1>2
<1> QED
  BY <1>1, <1>3, <1>4

LEMMA FunctionIsSeq ==
  ASSUME NEW S, NEW n \in Nat, NEW s \in [1 .. n -> S]
  PROVE  s \in Seq(S) /\ Len(s) = n
<1>1. s \in Seq(S)
  BY SeqDef
<1>2. DOMAIN s = 1 .. n
  OBVIOUS
<1> QED
  BY <1>1, <1>2

lens(ss) == [i \in DOMAIN ss |-> Len(ss[i])]

\* The recursion of FlattenSeq.
Flattens(f, ss, n) ==
  /\ DOMAIN f = 1 .. n
  /\ \A i \in 1 .. n : f[i] = IF i = 1 THEN ss[i] ELSE f[i - 1] \o ss[i]

LEMMA FlattensExist ==
  ASSUME NEW S, NEW ss \in Seq(Seq(S))
  PROVE  \A n \in Nat : n =< Len(ss) => \E f \in [1 .. n -> Seq(S)] : Flattens(f, ss, n)
<1> DEFINE P(n) == \E f \in [1 .. n -> Seq(S)] : Flattens(f, ss, n)
           T    == {n \in Nat : n =< Len(ss) => P(n)}
<1>1. P(0)
  <2> DEFINE f == [i \in 1 .. 0 |-> <<>>]
  <2>1. f \in [1 .. 0 -> Seq(S)] /\ Flattens(f, ss, 0)
    BY DEF Flattens
  <2> QED
    BY <2>1
<1>2. ASSUME NEW n \in Nat, n \in T PROVE n + 1 \in T
  <2>1. SUFFICES ASSUME n + 1 =< Len(ss) PROVE P(n + 1)
    OBVIOUS
  <2>2. Len(ss) \in Nat /\ n =< Len(ss) /\ ss[n + 1] \in Seq(S)
    BY <2>1
  <2>3. PICK f \in [1 .. n -> Seq(S)] : Flattens(f, ss, n)
    BY <1>2, <2>2
  <2> DEFINE g == [i \in 1 .. n + 1 |->
                     IF i = n + 1 THEN (IF n = 0 THEN ss[i] ELSE f[n] \o ss[i]) ELSE f[i]]
  <2>4. g \in [1 .. n + 1 -> Seq(S)]
    <3> SUFFICES ASSUME NEW i \in 1 .. n + 1 PROVE g[i] \in Seq(S)
      OBVIOUS
    <3>1. CASE i = n + 1 /\ n # 0
      <4>1. f[n] \in Seq(S)
        BY <2>3, <3>1
      <4> QED
        BY <2>2, <3>1, <4>1
    <3>2. CASE i = n + 1 /\ n = 0
      BY <2>2, <3>2
    <3>3. CASE i # n + 1
      BY <2>3, <3>3
    <3> QED
      BY <3>1, <3>2, <3>3
  <2>5. ASSUME NEW i \in 1 .. n + 1
        PROVE  g[i] = IF i = 1 THEN ss[i] ELSE g[i - 1] \o ss[i]
    <3>1. CASE i = n + 1
      <4>1. n # 0 => g[n] = f[n]
        OBVIOUS
      <4>2. i = 1 <=> n = 0
        BY <3>1
      <4> QED
        BY <3>1, <4>1, <4>2
    <3>2. CASE i # n + 1
      <4>1. i \in 1 .. n /\ (i # 1 => i - 1 \in 1 .. n)
        BY <3>2
      <4>2. \A j \in 1 .. n : j \in 1 .. n + 1 /\ j # n + 1
        OBVIOUS
      <4>3. \A j \in 1 .. n : g[j] = f[j]
        BY <4>2
      <4>4. g[i] = f[i] /\ (i # 1 => g[i - 1] = f[i - 1])
        BY <4>1, <4>3
      <4> QED
        BY <2>3, <4>1, <4>4 DEF Flattens
    <3> QED
      BY <3>1, <3>2
  <2> HIDE DEF g
  <2> QED
    BY <2>4, <2>5 DEF Flattens
<1> HIDE DEF P
<1>3. 0 \in T
  BY <1>1
<1>4. \A n \in Nat : n \in T
  <2> HIDE DEF T
  <2> QED
    BY <1>2, <1>3, Induction
<1> QED
  BY <1>4 DEF P

\* FlattenSeq puts its parts one behind the other.
LEMMA Flattened ==
  ASSUME NEW S, NEW ss \in Seq(Seq(S))
  PROVE  /\ FlattenSeq(ss) \in Seq(S)
         /\ Len(FlattenSeq(ss)) = sumOf(lens(ss), Len(ss))
         /\ \A i \in DOMAIN ss : \A k \in 1 .. Len(ss[i]) :
              FlattenSeq(ss)[sumOf(lens(ss), i - 1) + k] = ss[i][k]
<1> DEFINE n == Len(ss)
           f == CHOOSE f : f = [i \in 1 .. n |-> IF i = 1 THEN ss[i] ELSE f[i - 1] \o ss[i]]
           at(i) == sumOf(lens(ss), i)
<1>1. /\ n \in Nat /\ DOMAIN ss = 1 .. n
      /\ \A i \in 1 .. n : ss[i] \in Seq(S) /\ Len(ss[i]) \in Nat
                           /\ lens(ss)[i] = Len(ss[i])
  BY DEF lens
<1>2. /\ \A i \in 0 .. n : at(i) \in Nat
      /\ \A i, j \in 0 .. n : i =< j => at(i) =< at(j)
      /\ \A i \in 1 .. n : at(i) = at(i - 1) + Len(ss[i])
      /\ at(0) = 0
  BY <1>1, SumGrows, SumZero
<1>3. CASE n = 0
  BY <1>1, <1>2, <1>3 DEF FlattenSeq
<1>4. CASE n # 0
  <2>1. FlattenSeq(ss) = f[n]
    BY <1>4 DEF FlattenSeq
  <2>2. PICK g \in [1 .. n -> Seq(S)] : Flattens(g, ss, n)
    BY <1>1, FlattensExist
  <2>3. g = [i \in 1 .. n |-> IF i = 1 THEN ss[i] ELSE g[i - 1] \o ss[i]]
    BY <2>2 DEF Flattens
  <2>4. f = [i \in 1 .. n |-> IF i = 1 THEN ss[i] ELSE f[i - 1] \o ss[i]]
    BY <2>3
  <2> HIDE DEF f, at
  <2> DEFINE Q(m) == /\ f[m] \in Seq(S) /\ Len(f[m]) = at(m)
                     /\ \A i \in 1 .. m : \A k \in 1 .. Len(ss[i]) :
                          f[m][at(i - 1) + k] = ss[i][k]
             T    == {m \in Nat : m # 0 /\ m =< n => Q(m)}
  <2>5. ASSUME NEW m \in Nat, m \in T PROVE m + 1 \in T
    <3>1. SUFFICES ASSUME m + 1 =< n PROVE Q(m + 1)
      OBVIOUS
    <3>2. m + 1 \in 1 .. n
      BY <1>1, <3>1
    <3>3. CASE m = 0
      <4>1. f[1] = ss[1]
        BY <2>4, <3>2, <3>3
      <4>2. at(1) = Len(ss[1]) /\ at(0) = 0
        BY <1>1, <1>2, <3>2, <3>3
      <4> QED
        BY <1>1, <3>2, <3>3, <4>1, <4>2
    <3>4. CASE m # 0
      <4>1. f[m + 1] = f[m] \o ss[m + 1]
        <5>1. m + 1 # 1 /\ (m + 1) - 1 = m
          BY <3>4
        <5>2. f[m + 1] = IF m + 1 = 1 THEN ss[m + 1] ELSE f[(m + 1) - 1] \o ss[m + 1]
          BY <2>4, <3>2
        <5> QED
          BY <5>1, <5>2
      <4>2. Q(m)
        BY <1>1, <2>5, <3>1, <3>4
      <4>3. ss[m + 1] \in Seq(S) /\ Len(ss[m + 1]) \in Nat
            /\ at(m + 1) = at(m) + Len(ss[m + 1]) /\ at(m) \in Nat
        <5>1. (m + 1) - 1 = m /\ m \in 0 .. n
          BY <3>2
        <5> QED
          BY <1>1, <1>2, <3>2, <5>1
      <4>4. /\ f[m + 1] \in Seq(S) /\ Len(f[m + 1]) = at(m + 1)
            /\ \A k \in 1 .. at(m) : f[m + 1][k] = f[m][k]
            /\ \A k \in 1 .. Len(ss[m + 1]) : f[m + 1][at(m) + k] = ss[m + 1][k]
        <5>1. f[m] \in Seq(S) /\ Len(f[m]) = at(m)
          BY <4>2
        <5> DEFINE a == f[m]
                   b == ss[m + 1]
        <5>3. /\ a \o b \in Seq(S) /\ Len(a \o b) = Len(a) + Len(b)
              /\ \A k \in 1 .. Len(a) : (a \o b)[k] = a[k]
              /\ \A k \in 1 .. Len(b) : (a \o b)[Len(a) + k] = b[k]
          <6>1. a \in Seq(S) /\ b \in Seq(S)
            BY <4>3, <5>1
          <6> HIDE DEF a, b
          <6> QED
            BY <6>1, Concatenated
        <5> QED
          BY <4>1, <4>3, <5>1, <5>3
      <4>5. ASSUME NEW i \in 1 .. m + 1, NEW k \in 1 .. Len(ss[i])
            PROVE  f[m + 1][at(i - 1) + k] = ss[i][k]
        <5>1. CASE i = m + 1
          BY <4>4, <5>1
        <5>2. CASE i # m + 1
          <6>1. i \in 1 .. m /\ i \in 1 .. n /\ i - 1 \in 0 .. n /\ i \in 0 .. n /\ m \in 0 .. n
                /\ i =< m
            BY <3>2, <5>2
          <6>2. /\ at(i - 1) \in Nat /\ at(i) = at(i - 1) + Len(ss[i]) /\ at(i) =< at(m)
                /\ Len(ss[i]) \in Nat
            BY <1>1, <1>2, <6>1
          <6>3. at(i - 1) + k \in 1 .. at(m)
            <7>1. at(m) \in Nat
              BY <4>3
            <7> HIDE DEF at
            <7> QED
              BY <6>2, <7>1
          <6> QED
            BY <4>2, <4>4, <6>1, <6>3
        <5> QED
          BY <5>1, <5>2
      <4> QED
        BY <4>4, <4>5
    <3> QED
      BY <3>3, <3>4
  <2>6. 0 \in T
    OBVIOUS
  <2>7. n \in T
    <3> HIDE DEF T
    <3> QED
      BY <1>1, <2>5, <2>6, Induction
  <2> QED
    BY <1>1, <1>4, <2>1, <2>7 DEF at
<1> QED
  BY <1>3, <1>4

(***************************************************************************)
(* Functions of the file.                                                  *)
(***************************************************************************)
Labelings == UNION {[D -> Nat] : D \in SUBSET Names}
Func == [frameSize : Words, labels : Labelings, patches : Seq([offset : Nat, label : Names]),
         raw : Seq(Words), lines : Seq(Nat)]

isBranch(w) == op(w) \in 8 .. 11
width(w)    == IF op(w) = 5 THEN 3 ELSE IF isBranch(w) THEN 2 ELSE 1

\* An instruction's first word, and the places control may go to.
InstrAt(f, k)  == k \in 1 .. Len(f.raw) /\ f.lines[k] # 0
Boundary(f, k) == k = Len(f.raw) + 1 \/ InstrAt(f, k)

\* From instruction to instruction, over the operands.
CodeOK(f) ==
  /\ Len(f.lines) = Len(f.raw)
  /\ Boundary(f, 1)
  /\ \A k \in Nat : InstrAt(f, k) =>
       /\ Boundary(f, k + width(f.raw[k]))
       /\ \A m \in k + 1 .. k + width(f.raw[k]) - 1 : ~InstrAt(f, m)

LabelsOK(f) ==
  \A x \in DOMAIN f.labels : \E k \in Nat : Boundary(f, k) /\ f.labels[x] = 4 * (k - 1)

Patch(f, j, k) == InstrAt(f, k) /\ isBranch(f.raw[k]) /\ f.patches[j].offset = 4 * (k - 1)

\* Patches are for branches, and every branch has one.
PatchesOK(f) ==
  /\ \A j \in DOMAIN f.patches : \E k \in Nat : Patch(f, j, k)
  /\ \A k \in Nat : InstrAt(f, k) /\ isBranch(f.raw[k]) =>
       \E j \in DOMAIN f.patches : Patch(f, j, k)

FuncOK(f) == f \in Func /\ CodeOK(f) /\ LabelsOK(f) /\ PatchesOK(f)

FuncsOK == functions \in Seq(Func) /\ \A i \in DOMAIN functions : FuncOK(functions[i])

(***************************************************************************)
(* Where the code of each function begins.                                 *)
(***************************************************************************)
LEMMA SumScaled ==
  ASSUME NEW u, NEW v, NEW n \in Nat, \A i \in 1 .. n : u[i] \in Nat /\ v[i] = 4 * u[i]
  PROVE  sumOf(v, n) = 4 * sumOf(u, n)
<1>1. (\A i \in 1 .. n : u[i] \in Int) /\ (\A i \in 1 .. n : v[i] \in Int)
  OBVIOUS
<1>2. PICK s \in [0 .. n -> Int] : Totals(s, u, n)
  BY <1>1, TotalsExist
<1> DEFINE t == [i \in 0 .. n |-> 4 * s[i]]
<1>3. Totals(t, v, n)
  <2>1. DOMAIN t = 0 .. n /\ t[0] = 0
    BY <1>2 DEF Totals
  <2>2. ASSUME NEW i \in 1 .. n PROVE t[i] = t[i - 1] + v[i]
    <3>1. s[i] = s[i - 1] + u[i] /\ i - 1 \in 0 .. n /\ i \in 0 .. n
      BY <1>2 DEF Totals
    <3>2. s[i - 1] \in Int /\ u[i] \in Int /\ v[i] = 4 * u[i]
      BY <1>2, <3>1
    <3> QED
      BY <3>1, <3>2
  <2> HIDE DEF t
  <2> QED
    BY <2>1, <2>2 DEF Totals
<1>4. sumOf(v, n) = t[n] /\ sumOf(u, n) = s[n]
  <2> HIDE DEF t
  <2> QED
    BY <1>1, <1>2, <1>3, SumIsTotal
<1> QED
  BY <1>4

\* n twos.
LEMMA SumOfPairs ==
  ASSUME NEW u, NEW n \in Nat, \A i \in 1 .. n : u[i] = 2
  PROVE  \A k \in 0 .. n : sumOf(u, k) = 2 * k
<1>1. \A i \in 1 .. n : u[i] \in Int
  OBVIOUS
<1> DEFINE t == [i \in 0 .. n |-> 2 * i]
<1>2. Totals(t, u, n)
  <2>1. DOMAIN t = 0 .. n /\ t[0] = 0
    OBVIOUS
  <2>2. ASSUME NEW i \in 1 .. n PROVE t[i] = t[i - 1] + u[i]
    <3>1. i \in 0 .. n /\ i - 1 \in 0 .. n
      OBVIOUS
    <3> QED
      BY <3>1
  <2> HIDE DEF t
  <2> QED
    BY <2>1, <2>2 DEF Totals
<1>3. ASSUME NEW k \in 0 .. n PROVE sumOf(u, k) = t[k]
  <2> HIDE DEF t
  <2>1. k \in Nat /\ k =< n /\ \A i \in 1 .. k : u[i] \in Int
    BY <1>1
  <2> QED
    BY <1>2, <2>1, SumIsTotal
<1> QED
  BY <1>3

raws == [i \in DOMAIN functions |-> Len(functions[i].raw)]
rawsBefore(i) == sumOf(raws, i - 1)

LEMMA Bases ==
  ASSUME functions \in Seq(Func)
  PROVE  /\ Len(functions) \in Nat /\ DOMAIN functions = 1 .. Len(functions)
         /\ \A i \in 1 .. Len(functions) :
              functions[i].raw \in Seq(Words) /\ Len(functions[i].raw) \in Nat
         /\ rawsBefore(1) = 0
         /\ \A i \in 1 .. Len(functions) + 1 :
              /\ rawsBefore(i) \in Nat
              /\ base(i) = 32 + 8 * Len(functions) + 4 * rawsBefore(i)
              /\ rawsBefore(i) =< rawsBefore(Len(functions) + 1)
         /\ \A i \in 1 .. Len(functions) :
              rawsBefore(i + 1) = rawsBefore(i) + Len(functions[i].raw)
<1> DEFINE n == Len(functions)
           v == [k \in DOMAIN functions |-> offset(functions[k])]
<1>1. n \in Nat /\ DOMAIN functions = 1 .. n
  OBVIOUS
<1>2. ASSUME NEW i \in 1 .. n
      PROVE  functions[i].raw \in Seq(Words) /\ Len(functions[i].raw) \in Nat
  <2>1. functions[i] \in Func
    BY <1>1
  <2> QED
    BY <2>1 DEF Func
<1>3. /\ DOMAIN raws = 1 .. n
      /\ \A i \in 1 .. n : raws[i] = Len(functions[i].raw) /\ raws[i] \in Nat
                           /\ v[i] = 4 * raws[i]
  BY <1>1, <1>2 DEF raws, offset
<1> HIDE DEF v
<1>4. /\ \A k \in 0 .. n : sumOf(raws, k) \in Nat
      /\ \A k, l \in 0 .. n : k =< l => sumOf(raws, k) =< sumOf(raws, l)
      /\ \A k \in 1 .. n : sumOf(raws, k) = sumOf(raws, k - 1) + raws[k]
  BY <1>1, <1>3, SumGrows
<1>5. ASSUME NEW i \in 1 .. n + 1
      PROVE  /\ rawsBefore(i) \in Nat
             /\ base(i) = 32 + 8 * n + 4 * rawsBefore(i)
             /\ rawsBefore(i) =< rawsBefore(n + 1)
  <2>1. i - 1 \in 0 .. n /\ i - 1 \in Nat /\ (n + 1) - 1 \in 0 .. n /\ i - 1 =< (n + 1) - 1
    BY <1>1
  <2>2. sumOf(v, i - 1) = 4 * sumOf(raws, i - 1)
    <3>1. \A k \in 1 .. i - 1 : raws[k] \in Nat /\ v[k] = 4 * raws[k]
      BY <1>1, <1>3, <2>1
    <3> QED
      BY <2>1, <3>1, SumScaled
  <2>3. base(i) = codeOffset + sumOf(v, i - 1)
    BY DEF base, v
  <2>4. codeOffset = 32 + 8 * n
    BY <1>1 DEF codeOffset, HEADER_SIZE, FUNC_ENTRY_SIZE
  <2> QED
    BY <1>4, <2>1, <2>2, <2>3, <2>4 DEF rawsBefore
<1>6. ASSUME NEW i \in 1 .. n
      PROVE  rawsBefore(i + 1) = rawsBefore(i) + Len(functions[i].raw)
  <2>1. (i + 1) - 1 = i
    BY <1>1
  <2> QED
    BY <1>3, <1>4, <2>1 DEF rawsBefore
<1>7. rawsBefore(1) = 0
  BY SumZero DEF rawsBefore
<1> QED
  BY <1>1, <1>2, <1>5, <1>6, <1>7

(***************************************************************************)
(* Where everything lies in the file.                                      *)
(***************************************************************************)
tables == [i \in DOMAIN functions |-> <<base(i), functions[i].frameSize>>]
codes  == [i \in DOMAIN functions |-> patched(i)]

LEMMA FilePlaces ==
  ASSUME functions \in Seq(Func), image = fileHeader \o funcTable \o code,
         NEW S, fileHeader \in Seq(S), tables \in Seq(Seq(S)), codes \in Seq(Seq(S))
  PROVE  /\ image \in Seq(S)
         /\ Len(image) = 8 + 2 * Len(functions) + rawsBefore(Len(functions) + 1)
         /\ \A k \in 1 .. 8 : image[k] = fileHeader[k]
         /\ \A i \in 1 .. Len(functions) :
              /\ image[7 + 2 * i] = base(i)
              /\ image[8 + 2 * i] = functions[i].frameSize
              /\ \A k \in 1 .. Len(functions[i].raw) :
                   image[8 + 2 * Len(functions) + rawsBefore(i) + k] = patched(i)[k]
<1> DEFINE n == Len(functions)
           h == fileHeader
           t == funcTable
           c == code
<1>1. /\ n \in Nat /\ DOMAIN functions = 1 .. n
      /\ \A i \in 1 .. n : Len(functions[i].raw) \in Nat /\ functions[i].raw \in Seq(Words)
      /\ \A i \in 1 .. n + 1 : rawsBefore(i) \in Nat
      /\ \A i \in 1 .. n : rawsBefore(i + 1) = rawsBefore(i) + Len(functions[i].raw)
      /\ \A i \in 1 .. n + 1 : rawsBefore(i) =< rawsBefore(n + 1)
  BY Bases
<1>2. Len(h) = 8 /\ h \in Seq(S)
  BY DEF fileHeader
<1>3. /\ t \in Seq(S) /\ Len(t) = 2 * n
      /\ \A i \in 1 .. n : t[2 * i - 1] = base(i) /\ t[2 * i] = functions[i].frameSize
  <2>1. DOMAIN tables = 1 .. n /\ Len(tables) = n
    BY <1>1 DEF tables
  <2>2. \A i \in 1 .. n : /\ Len(tables[i]) = 2 /\ lens(tables)[i] = 2
                          /\ tables[i][1] = base(i)
                          /\ tables[i][2] = functions[i].frameSize
    BY <1>1 DEF tables, lens
  <2>3. \A k \in 0 .. n : sumOf(lens(tables), k) = 2 * k
    BY <1>1, <2>2, SumOfPairs
  <2>4. /\ t \in Seq(S) /\ Len(t) = sumOf(lens(tables), n)
        /\ \A i \in 1 .. n : \A k \in 1 .. Len(tables[i]) :
             t[sumOf(lens(tables), i - 1) + k] = tables[i][k]
    <3>1. t = FlattenSeq(tables)
      BY DEF funcTable, tables
    <3>2. /\ FlattenSeq(tables) \in Seq(S)
          /\ Len(FlattenSeq(tables)) = sumOf(lens(tables), Len(tables))
          /\ \A i \in DOMAIN tables : \A k \in 1 .. Len(tables[i]) :
               FlattenSeq(tables)[sumOf(lens(tables), i - 1) + k] = tables[i][k]
      BY Flattened
    <3> HIDE DEF t
    <3> QED
      BY <2>1, <3>1, <3>2
  <2>5. ASSUME NEW i \in 1 .. n
        PROVE  t[2 * i - 1] = base(i) /\ t[2 * i] = functions[i].frameSize
    <3>1. sumOf(lens(tables), i - 1) = 2 * (i - 1) /\ 1 \in 1 .. Len(tables[i])
          /\ 2 \in 1 .. Len(tables[i])
      <4>1. n \in Nat /\ i - 1 \in 0 .. n
        BY <1>1
      <4>2. sumOf(lens(tables), i - 1) = 2 * (i - 1)
        BY <2>3, <4>1
      <4>3. Len(tables[i]) = 2
        BY <2>2
      <4> QED
        BY <4>2, <4>3
    <3>2. t[2 * (i - 1) + 1] = base(i) /\ t[2 * (i - 1) + 2] = functions[i].frameSize
      BY <2>2, <2>4, <3>1
    <3>3. 2 * (i - 1) + 1 = 2 * i - 1 /\ 2 * (i - 1) + 2 = 2 * i
      BY <1>1
    <3> QED
      BY <3>2, <3>3
  <2> QED
    BY <1>1, <2>3, <2>4, <2>5
<1>4. /\ c \in Seq(S) /\ Len(c) = rawsBefore(n + 1)
      /\ \A i \in 1 .. n : \A k \in 1 .. Len(functions[i].raw) :
           c[rawsBefore(i) + k] = patched(i)[k]
  <2>1. DOMAIN codes = 1 .. n /\ Len(codes) = n
    BY <1>1 DEF codes
  <2>2. ASSUME NEW i \in 1 .. n
        PROVE  /\ codes[i] = patched(i) /\ Len(codes[i]) = Len(functions[i].raw)
               /\ lens(codes)[i] = raws[i] /\ raws[i] \in Nat
    <3>1. codes[i] = patched(i) /\ patched(i) \in Seq(S)
      BY <1>1, <2>1 DEF codes
    <3>2. DOMAIN patched(i) = 1 .. Len(functions[i].raw)
      BY <1>1 DEF patched
    <3>3. Len(patched(i)) = Len(functions[i].raw)
      BY <1>1, <3>1, <3>2
    <3> QED
      BY <1>1, <2>1, <3>1, <3>3 DEF lens, raws
  <2>3. ASSUME NEW i \in 1 .. n + 1 PROVE sumOf(lens(codes), i - 1) = rawsBefore(i)
    <3>1. i - 1 \in Nat /\ \A k \in 1 .. i - 1 : k \in 1 .. n
      BY <1>1
    <3>2. \A k \in 1 .. i - 1 : lens(codes)[k] \in Int /\ lens(codes)[k] = raws[k]
      BY <2>2, <3>1
    <3> QED
      BY <3>1, <3>2, SumSame DEF rawsBefore
  <2>4. /\ c \in Seq(S) /\ Len(c) = sumOf(lens(codes), n)
        /\ \A i \in 1 .. n : \A k \in 1 .. Len(codes[i]) :
             c[sumOf(lens(codes), i - 1) + k] = codes[i][k]
    <3>1. c = FlattenSeq(codes)
      BY DEF code, codes
    <3>2. /\ FlattenSeq(codes) \in Seq(S)
          /\ Len(FlattenSeq(codes)) = sumOf(lens(codes), Len(codes))
          /\ \A i \in DOMAIN codes : \A k \in 1 .. Len(codes[i]) :
               FlattenSeq(codes)[sumOf(lens(codes), i - 1) + k] = codes[i][k]
      BY Flattened
    <3> HIDE DEF c
    <3> QED
      BY <2>1, <3>1, <3>2
  <2>5. n + 1 \in 1 .. n + 1 /\ (n + 1) - 1 = n /\ \A i \in 1 .. n : i \in 1 .. n + 1
    BY <1>1
  <2>6. Len(c) = rawsBefore(n + 1)
    BY <2>3, <2>4, <2>5
  <2>7. ASSUME NEW i \in 1 .. n, NEW k \in 1 .. Len(functions[i].raw)
        PROVE  c[rawsBefore(i) + k] = patched(i)[k]
    <3>1. k \in 1 .. Len(codes[i]) /\ codes[i] = patched(i)
      BY <2>2
    <3>2. sumOf(lens(codes), i - 1) = rawsBefore(i)
      BY <2>3, <2>5
    <3> QED
      BY <2>4, <3>1, <3>2
  <2> QED
    BY <2>4, <2>6, <2>7
<1> HIDE DEF h, t, c
<1>5. /\ h \o t \in Seq(S) /\ Len(h \o t) = 8 + 2 * n
      /\ \A k \in 1 .. 8 : (h \o t)[k] = h[k]
      /\ \A k \in 1 .. 2 * n : (h \o t)[8 + k] = t[k]
  <2>1. /\ h \o t \in Seq(S) /\ Len(h \o t) = Len(h) + Len(t)
        /\ \A k \in 1 .. Len(h) : (h \o t)[k] = h[k]
        /\ \A k \in 1 .. Len(t) : (h \o t)[Len(h) + k] = t[k]
    <3>1. h \in Seq(S) /\ t \in Seq(S)
      BY <1>2, <1>3
    <3> QED
      BY <3>1, Concatenated
  <2> QED
    BY <1>2, <1>3, <2>1
<1>6. /\ image \in Seq(S) /\ Len(image) = 8 + 2 * n + rawsBefore(n + 1)
      /\ \A k \in 1 .. 8 + 2 * n : image[k] = (h \o t)[k]
      /\ \A k \in 1 .. rawsBefore(n + 1) : image[8 + 2 * n + k] = c[k]
  <2>1. image = (h \o t) \o c
    BY DEF h, t, c
  <2> DEFINE ht == h \o t
  <2>2. ht \in Seq(S) /\ c \in Seq(S) /\ Len(ht) = 8 + 2 * n /\ Len(c) = rawsBefore(n + 1)
    BY <1>4, <1>5
  <2> HIDE DEF ht
  <2>3. /\ ht \o c \in Seq(S) /\ Len(ht \o c) = Len(ht) + Len(c)
        /\ \A k \in 1 .. Len(ht) : (ht \o c)[k] = ht[k]
        /\ \A k \in 1 .. Len(c) : (ht \o c)[Len(ht) + k] = c[k]
    <3>1. ht \in Seq(S) /\ c \in Seq(S)
      BY <2>2
    <3> QED
      BY <3>1, Concatenated
  <2>4. image = ht \o c
    BY <2>1 DEF ht
  <2>5. /\ image \in Seq(S) /\ Len(image) = 8 + 2 * n + rawsBefore(n + 1)
        /\ \A k \in 1 .. 8 + 2 * n : image[k] = ht[k]
        /\ \A k \in 1 .. rawsBefore(n + 1) : image[8 + 2 * n + k] = c[k]
    BY <2>2, <2>3, <2>4
  <2> QED
    BY <2>5 DEF ht
<1>7. \A k \in 1 .. 8 : image[k] = fileHeader[k]
  <2>1. ASSUME NEW k \in 1 .. 8 PROVE k \in 1 .. 8 + 2 * n
    BY <1>1
  <2> QED
    BY <1>5, <1>6, <2>1 DEF h
<1>8. ASSUME NEW i \in 1 .. n
      PROVE  /\ image[7 + 2 * i] = base(i) /\ image[8 + 2 * i] = functions[i].frameSize
             /\ \A k \in 1 .. Len(functions[i].raw) :
                  image[8 + 2 * n + rawsBefore(i) + k] = patched(i)[k]
  <2>1. /\ 2 * i - 1 \in 1 .. 2 * n /\ 2 * i \in 1 .. 2 * n
        /\ 8 + (2 * i - 1) = 7 + 2 * i
        /\ 7 + 2 * i \in 1 .. 8 + 2 * n /\ 8 + 2 * i \in 1 .. 8 + 2 * n
    BY <1>1
  <2>2. image[7 + 2 * i] = base(i) /\ image[8 + 2 * i] = functions[i].frameSize
    BY <1>3, <1>5, <1>6, <2>1
  <2>3. ASSUME NEW k \in 1 .. Len(functions[i].raw)
        PROVE  image[8 + 2 * n + rawsBefore(i) + k] = patched(i)[k]
    <3>1. /\ rawsBefore(i) \in Nat /\ Len(functions[i].raw) \in Nat
          /\ rawsBefore(i + 1) = rawsBefore(i) + Len(functions[i].raw)
          /\ rawsBefore(i + 1) =< rawsBefore(n + 1)
          /\ rawsBefore(n + 1) \in Nat
      BY <1>1
    <3>2. rawsBefore(i) + k \in 1 .. rawsBefore(n + 1)
      <4> HIDE DEF n
      <4> QED
        BY <3>1, Within
    <3>3. image[8 + 2 * n + (rawsBefore(i) + k)] = c[rawsBefore(i) + k]
      BY <1>6, <3>2
    <3>4. 8 + 2 * n + (rawsBefore(i) + k) = 8 + 2 * n + rawsBefore(i) + k
      BY <1>1, <3>1
    <3> QED
      BY <1>4, <3>3, <3>4
  <2> QED
    BY <2>2, <2>3
<1> QED
  BY <1>6, <1>7, <1>8

Filed ==
  /\ image = fileHeader \o funcTable \o code
  /\ \A i \in DOMAIN functions : Defined(functions[i])

\* The address of word k of function i.
at(i, k) == base(i) + 4 * (k - 1)

\* _emit_binary writes behind each branch an address in its function, and
\* leaves every instruction as it was.
LEMMA PatchedCode ==
  ASSUME FuncsOK, \A i \in DOMAIN functions : Defined(functions[i]),
         NEW i \in 1 .. Len(functions)
  PROVE  LET f == functions[i]
         IN /\ patched(i) \in [1 .. Len(f.raw) -> Nat]
            /\ \A k \in Nat : InstrAt(f, k) => patched(i)[k] = f.raw[k]
            /\ \A k \in Nat : InstrAt(f, k) /\ isBranch(f.raw[k]) =>
                 /\ k + 1 \in 1 .. Len(f.raw)
                 /\ \E m \in Nat : Boundary(f, m) /\ patched(i)[k + 1] = at(i, m)
            /\ \A w \in 1 .. Len(f.raw) :
                 \/ patched(i)[w] = f.raw[w]
                 \/ \E m \in Nat : Boundary(f, m) /\ patched(i)[w] = at(i, m)
<1> DEFINE f == functions[i]
           target(w) == {k \in DOMAIN f.patches : f.patches[k].offset + 4 = 4 * (w - 1)}
<1>1. /\ f \in Func /\ CodeOK(f) /\ LabelsOK(f) /\ PatchesOK(f) /\ Defined(f)
      /\ f.raw \in Seq(Words) /\ DOMAIN f.raw = 1 .. Len(f.raw) /\ Len(f.raw) \in Nat
      /\ \A w \in 1 .. Len(f.raw) : f.raw[w] \in Nat
      /\ base(i) \in Nat
  <2>1. i \in DOMAIN functions /\ functions \in Seq(Func)
    BY DEF FuncsOK
  <2>2. FuncOK(f) /\ Defined(f)
    BY <2>1 DEF FuncsOK
  <2>3. f.raw \in Seq(Words)
    BY <2>2 DEF FuncOK, Func
  <2>4. base(i) \in Nat
    <3>1. i \in 1 .. Len(functions) + 1 /\ Len(functions) \in Nat
      BY <2>1
    <3> QED
      BY <2>1, <3>1, Bases
  <2>5. \A w \in Words : w \in Nat
    <3>1. WORD \in Nat
      BY ImageAssumption DEF WORD
    <3> QED
      BY <3>1 DEF Words
  <2> QED
    BY <2>2, <2>3, <2>4, <2>5 DEF FuncOK
<1>2. /\ patched(i) = [w \in 1 .. Len(f.raw) |-> patched(i)[w]]
      /\ \A w \in 1 .. Len(f.raw) :
           patched(i)[w] = IF target(w) = {} THEN f.raw[w]
             ELSE base(i) + f.labels[f.patches[CHOOSE k \in target(w) : TRUE].label]
  <2> DEFINE e(w) == IF target(w) = {} THEN f.raw[w]
             ELSE base(i) + f.labels[f.patches[CHOOSE k \in target(w) : TRUE].label]
  <2>1. patched(i) = [w \in 1 .. Len(f.raw) |-> e(w)]
    BY <1>1 DEF patched
  <2> HIDE DEF e
  <2>2. /\ patched(i) = [w \in 1 .. Len(f.raw) |-> patched(i)[w]]
        /\ \A w \in 1 .. Len(f.raw) : patched(i)[w] = e(w)
    BY <2>1
  <2> QED
    BY <2>2 DEF e
<1> HIDE DEF f
\* Every target is the second word of a branch.
<1>3. ASSUME NEW w \in 1 .. Len(f.raw), NEW j \in target(w)
      PROVE  \E k \in Nat : InstrAt(f, k) /\ isBranch(f.raw[k]) /\ w = k + 1
  <2>1. PICK k \in Nat : Patch(f, j, k)
    BY <1>1 DEF PatchesOK
  <2>2. 4 * (k - 1) + 4 = 4 * (w - 1)
    BY <2>1 DEF Patch
  <2>3. w = k + 1
    BY <1>1, <2>2
  <2> QED
    BY <2>1, <2>3 DEF Patch
<1>4. ASSUME NEW w \in 1 .. Len(f.raw), target(w) # {}
      PROVE  \E m \in Nat : Boundary(f, m) /\ patched(i)[w] = at(i, m)
  <2> DEFINE j == CHOOSE k \in target(w) : TRUE
             x == f.patches[j].label
  <2>1. j \in target(w)
    BY <1>4
  <2>2. x \in DOMAIN f.labels
    BY <1>1, <2>1 DEF Defined
  <2>3. patched(i)[w] = base(i) + f.labels[x]
    BY <1>2, <1>4
  <2>4. PICK m \in Nat : Boundary(f, m) /\ f.labels[x] = 4 * (m - 1)
    <3> HIDE DEF x
    <3> QED
      BY <1>1, <2>2 DEF LabelsOK
  <2> QED
    BY <2>3, <2>4 DEF at
<1>5. ASSUME NEW k \in Nat, InstrAt(f, k) PROVE patched(i)[k] = f.raw[k]
  <2>1. k \in 1 .. Len(f.raw)
    BY <1>5 DEF InstrAt
  <2>2. target(k) = {}
    <3> SUFFICES ASSUME target(k) # {} PROVE FALSE
      OBVIOUS
    <3>1. PICK m \in Nat : InstrAt(f, m) /\ isBranch(f.raw[m]) /\ k = m + 1
      <4>1. PICK j : j \in target(k)
        OBVIOUS
      <4> HIDE DEF target
      <4> QED
        BY <1>3, <2>1, <4>1
    <3>2. k \in m + 1 .. m + width(f.raw[m]) - 1
      BY <3>1 DEF width, isBranch
    <3> QED
      BY <1>1, <1>5, <3>1, <3>2 DEF CodeOK
  <2> QED
    BY <1>2, <2>1, <2>2
<1>6. ASSUME NEW k \in Nat, InstrAt(f, k), isBranch(f.raw[k])
      PROVE  /\ k + 1 \in 1 .. Len(f.raw)
             /\ \E m \in Nat : Boundary(f, m) /\ patched(i)[k + 1] = at(i, m)
  <2>1. k + 1 \in 1 .. Len(f.raw)
    <3>1. Boundary(f, k + 2)
      <4>1. width(f.raw[k]) = 2
        BY <1>6 DEF width, isBranch
      <4> QED
        BY <1>1, <1>6, <4>1 DEF CodeOK
    <3>2. k + 2 =< Len(f.raw) + 1
      BY <1>1, <3>1 DEF Boundary, InstrAt
    <3> QED
      BY <1>1, <3>2
  <2>2. PICK j \in DOMAIN f.patches : Patch(f, j, k)
    BY <1>1, <1>6 DEF PatchesOK
  <2>3. j \in target(k + 1)
    BY <2>2 DEF Patch
  <2> QED
    BY <1>4, <2>1, <2>3
<1>7. ASSUME NEW w \in 1 .. Len(f.raw)
      PROVE  \/ patched(i)[w] = f.raw[w]
             \/ \E m \in Nat : Boundary(f, m) /\ patched(i)[w] = at(i, m)
  BY <1>2, <1>4
<1>8. ASSUME NEW m \in Nat, Boundary(f, m) PROVE at(i, m) \in Nat
  <2>1. m >= 1
    BY <1>1, <1>8 DEF Boundary, InstrAt
  <2> QED
    BY <1>1, <2>1 DEF at
<1>9. patched(i) \in [1 .. Len(f.raw) -> Nat]
  <2>1. \A w \in 1 .. Len(f.raw) : patched(i)[w] \in Nat
    BY <1>1, <1>7, <1>8
  <2> QED
    BY <1>2, <2>1
<1> QED
  BY <1>5, <1>6, <1>7, <1>9 DEF f

\* What the VM finds where it looks.
LEMMA WrittenFile ==
  ASSUME FuncsOK, Filed
  PROVE  /\ image \in Seq(Nat)
         /\ Len(image) = 8 + 2 * Len(functions) + rawsBefore(Len(functions) + 1)
         /\ Inside(0) /\ word(0) = SPROUT_LANG_MAGIC /\ word(4) = SPROUT_LANG_VERSION
         /\ functionCount = Len(functions) /\ functionOffset = 32 /\ word(28) = base(1)
         /\ \A i \in 1 .. Len(functions) :
              /\ word(24 + 8 * i) = base(i)
              /\ word(28 + 8 * i) = functions[i].frameSize
              /\ \A k \in 1 .. Len(functions[i].raw) :
                   Inside(at(i, k)) /\ word(at(i, k)) = patched(i)[k]
         /\ ~Inside(EndOfCode)
<1> DEFINE n == Len(functions)
<1>1. /\ functions \in Seq(Func) /\ n \in Nat /\ DOMAIN functions = 1 .. n
      /\ \A i \in 1 .. n : /\ functions[i].frameSize \in Nat /\ Len(functions[i].raw) \in Nat
                           /\ patched(i) \in [1 .. Len(functions[i].raw) -> Nat]
  <2>1. functions \in Seq(Func) /\ n \in Nat /\ DOMAIN functions = 1 .. n
    BY Bases DEF FuncsOK
  <2>2. ASSUME NEW i \in 1 .. n
        PROVE  /\ functions[i].frameSize \in Nat /\ Len(functions[i].raw) \in Nat
               /\ patched(i) \in [1 .. Len(functions[i].raw) -> Nat]
    <3>1. functions[i].frameSize \in Words
      <4>1. functions[i] \in Func
        BY <2>1
      <4> QED
        BY <4>1 DEF Func
    <3>2. functions[i].frameSize \in Nat
      <4>1. WORD \in Nat
        BY ImageAssumption DEF WORD
      <4> QED
        BY <3>1, <4>1 DEF Words
    <3> QED
      BY <2>1, <3>2, Bases, PatchedCode DEF Filed
  <2> QED
    BY <2>1, <2>2
<1>2. /\ \A i \in 1 .. n + 1 : rawsBefore(i) \in Nat /\ base(i) = 32 + 8 * n + 4 * rawsBefore(i)
      /\ \A i \in 1 .. n : rawsBefore(i + 1) = rawsBefore(i) + Len(functions[i].raw)
      /\ \A i \in 1 .. n + 1 : rawsBefore(i) =< rawsBefore(n + 1)
      /\ rawsBefore(1) = 0
  BY <1>1, Bases
<1>3. fileHeader \in Seq(Nat)
  <2>1. SPROUT_LANG_MAGIC \in Nat /\ SPROUT_LANG_VERSION \in Nat
    BY ImageAssumption DEF SPROUT_LANG_MAGIC, SPROUT_LANG_VERSION
  <2>2. codeOffset \in Nat /\ HEADER_SIZE \in Nat
    BY <1>1 DEF codeOffset, HEADER_SIZE, FUNC_ENTRY_SIZE
  <2> QED
    BY <1>1, <2>1, <2>2 DEF fileHeader
<1>4. tables \in Seq(Seq(Nat))
  <2>1. ASSUME NEW i \in 1 .. n PROVE <<base(i), functions[i].frameSize>> \in Seq(Nat)
    <3>1. i \in 1 .. n + 1
      BY <1>1
    <3>2. base(i) \in Nat /\ functions[i].frameSize \in Nat
      BY <1>1, <1>2, <3>1
    <3> QED
      BY <3>2
  <2> QED
    BY <1>1, <2>1 DEF tables
<1>5. codes \in Seq(Seq(Nat))
  <2>1. ASSUME NEW i \in 1 .. n PROVE patched(i) \in Seq(Nat)
    <3>1. Len(functions[i].raw) \in Nat /\ patched(i) \in [1 .. Len(functions[i].raw) -> Nat]
      BY <1>1
    <3> QED
      BY <3>1, FunctionIsSeq
  <2> QED
    BY <1>1, <2>1 DEF codes
<1>6. /\ image \in Seq(Nat)
      /\ Len(image) = 8 + 2 * n + rawsBefore(n + 1)
      /\ \A k \in 1 .. 8 : image[k] = fileHeader[k]
      /\ \A i \in 1 .. n :
           /\ image[7 + 2 * i] = base(i)
           /\ image[8 + 2 * i] = functions[i].frameSize
           /\ \A k \in 1 .. Len(functions[i].raw) :
                image[8 + 2 * n + rawsBefore(i) + k] = patched(i)[k]
  BY <1>1, <1>3, <1>4, <1>5, FilePlaces DEF Filed
<1>7. \A a \in Nat : (4 * a) % 4 = 0 /\ (4 * a) \div 4 = a /\ 4 * a >= 0
  OBVIOUS
<1>8. /\ Inside(0) /\ word(0) = SPROUT_LANG_MAGIC /\ word(4) = SPROUT_LANG_VERSION
      /\ functionCount = n /\ functionOffset = 32 /\ word(28) = base(1)
  <2>1. /\ word(0) = image[1] /\ word(4) = image[2] /\ word(16) = image[5] /\ word(24) = image[7]
        /\ word(28) = image[8]
    BY DEF word
  <2>2. /\ fileHeader[1] = SPROUT_LANG_MAGIC /\ fileHeader[2] = SPROUT_LANG_VERSION
        /\ fileHeader[5] = n /\ fileHeader[7] = 32
        /\ fileHeader[8] = codeOffset
    BY DEF fileHeader, HEADER_SIZE
  <2>3. codeOffset = base(1)
    BY <1>1, <1>2 DEF codeOffset, HEADER_SIZE, FUNC_ENTRY_SIZE
  <2>4. rawsBefore(n + 1) \in Nat
    BY <1>1, <1>2
  <2>5. Inside(0)
    BY <1>1, <1>6, <2>4 DEF Inside
  <2>6. /\ image[1] = fileHeader[1] /\ image[2] = fileHeader[2] /\ image[5] = fileHeader[5]
        /\ image[7] = fileHeader[7] /\ image[8] = fileHeader[8]
    BY <1>6
  <2> QED
    BY <2>1, <2>2, <2>3, <2>5, <2>6 DEF functionCount, functionOffset
<1>9. ASSUME NEW i \in 1 .. n
      PROVE  /\ word(24 + 8 * i) = base(i) /\ word(28 + 8 * i) = functions[i].frameSize
             /\ \A k \in 1 .. Len(functions[i].raw) :
                   Inside(at(i, k)) /\ word(at(i, k)) = patched(i)[k]
  <2>1. (24 + 8 * i) \div 4 + 1 = 7 + 2 * i /\ (28 + 8 * i) \div 4 + 1 = 8 + 2 * i
    BY <1>1
  <2>2. word(24 + 8 * i) = base(i) /\ word(28 + 8 * i) = functions[i].frameSize
    BY <1>6, <2>1 DEF word
  <2>3. ASSUME NEW k \in 1 .. Len(functions[i].raw)
        PROVE  Inside(at(i, k)) /\ word(at(i, k)) = patched(i)[k]
    <3> DEFINE a == 8 + 2 * n + rawsBefore(i) + k - 1
    <3>1. /\ rawsBefore(i) \in Nat /\ rawsBefore(i + 1) \in Nat /\ rawsBefore(n + 1) \in Nat
          /\ rawsBefore(i) + Len(functions[i].raw) =< rawsBefore(n + 1)
          /\ Len(functions[i].raw) \in Nat
          /\ base(i) = 32 + 8 * n + 4 * rawsBefore(i)
      <4>1. i \in 1 .. n + 1 /\ i + 1 \in 1 .. n + 1 /\ n + 1 \in 1 .. n + 1
        BY <1>1
      <4> QED
        BY <1>1, <1>2, <4>1
    <3>2. at(i, k) = 4 * a /\ a \in Nat /\ a < Len(image)
          /\ a + 1 = 8 + 2 * n + rawsBefore(i) + k
      <4>1. Len(image) = 8 + 2 * n + rawsBefore(n + 1) /\ n \in Nat /\ k \in Nat /\ k >= 1
            /\ k =< Len(functions[i].raw)
        BY <1>1, <1>6, <3>1
      <4>2. at(i, k) = 32 + 8 * n + 4 * rawsBefore(i) + 4 * (k - 1)
        BY <3>1 DEF at
      <4> DEFINE r == rawsBefore(i)
                 z == rawsBefore(n + 1)
                 l == Len(functions[i].raw)
      <4>3. /\ r \in Nat /\ z \in Nat /\ l \in Nat /\ r + l =< z /\ k =< l
            /\ Len(image) = 8 + 2 * n + z /\ at(i, k) = 32 + 8 * n + 4 * r + 4 * (k - 1)
            /\ a = 8 + 2 * n + r + k - 1 /\ n \in Nat /\ k \in Nat /\ k >= 1
        BY <3>1, <4>1, <4>2
      <4> HIDE DEF r, z, l, n, a
      <4>4. at(i, k) = 4 * a /\ a \in Nat /\ a < Len(image) /\ a + 1 = 8 + 2 * n + r + k
        BY <4>3
      <4> QED
        BY <4>4 DEF r
    <3> HIDE DEF a
    <3>3. Inside(at(i, k))
      BY <1>7, <3>2 DEF Inside
    <3>4. word(at(i, k)) = image[a + 1]
      BY <1>7, <3>2 DEF word
    <3> QED
      BY <1>6, <3>2, <3>3, <3>4
  <2> QED
    BY <2>2, <2>3
<1>10. ~Inside(EndOfCode)
  <2> DEFINE a == 8 + 2 * n + rawsBefore(n + 1)
  <2>1. EndOfCode = 4 * a /\ a \in Nat /\ a = Len(image)
    <3>1. n + 1 \in 1 .. n + 1 /\ n \in Nat
      BY <1>1
    <3>2. EndOfCode = 32 + 8 * n + 4 * rawsBefore(n + 1) /\ rawsBefore(n + 1) \in Nat
      BY <1>2, <3>1 DEF EndOfCode
    <3> QED
      BY <1>6, <3>1, <3>2
  <2> HIDE DEF a
  <2> QED
    BY <1>7, <2>1 DEF Inside
<1> QED
  BY <1>6, <1>8, <1>9, <1>10

\* A word of a function in the file.
LEMMA WrittenWord ==
  ASSUME FuncsOK, Filed, NEW i \in 1 .. Len(functions), NEW k \in 1 .. Len(functions[i].raw)
  PROVE  Inside(at(i, k)) /\ word(at(i, k)) = patched(i)[k]
BY WrittenFile

(***************************************************************************)
(* Where control may go.                                                   *)
(***************************************************************************)
Landing == InstrStarts \cup {EndOfCode, 0}

\* Where a function begins an instruction does, its own or a later one's.
LEMMA BaseLands ==
  ASSUME FuncsOK, NEW i \in 1 .. Len(functions) + 1
  PROVE  base(i) \in InstrStarts \cup {EndOfCode}
<1> DEFINE n == Len(functions)
           T == {d \in Nat : d =< n => base(n + 1 - d) \in InstrStarts \cup {EndOfCode}}
<1>1. /\ functions \in Seq(Func) /\ n \in Nat /\ DOMAIN functions = 1 .. n
      /\ \A j \in 1 .. n : Len(functions[j].raw) \in Nat /\ functions[j].raw \in Seq(Words)
      /\ \A j \in 1 .. n + 1 : base(j) = 32 + 8 * n + 4 * rawsBefore(j) /\ rawsBefore(j) \in Nat
      /\ \A j \in 1 .. n : rawsBefore(j + 1) = rawsBefore(j) + Len(functions[j].raw)
  BY Bases DEF FuncsOK
<1>2. 0 \in T
  BY <1>1 DEF EndOfCode
<1>3. ASSUME NEW d \in Nat, d \in T PROVE d + 1 \in T
  <2>1. SUFFICES ASSUME d + 1 =< n
                 PROVE  base(n + 1 - (d + 1)) \in InstrStarts \cup {EndOfCode}
    OBVIOUS
  <2> DEFINE j == n + 1 - (d + 1)
  <2>2. j \in 1 .. n /\ j + 1 = n + 1 - d /\ j \in 1 .. n + 1 /\ j + 1 \in 1 .. n + 1 /\ d =< n
    BY <1>1, <2>1
  <2> HIDE DEF j
  <2>3. CASE Len(functions[j].raw) = 0
    <3>1. base(j) = base(j + 1)
      <4>1. rawsBefore(j + 1) = rawsBefore(j) + 0 /\ rawsBefore(j) \in Nat
        BY <1>1, <2>2, <2>3
      <4>2. base(j) = 32 + 8 * n + 4 * rawsBefore(j)
            /\ base(j + 1) = 32 + 8 * n + 4 * rawsBefore(j + 1)
        BY <1>1, <2>2
      <4> QED
        BY <4>1, <4>2
    <3>2. base(j + 1) \in InstrStarts \cup {EndOfCode}
      BY <1>3, <2>2
    <3> QED
      BY <3>1, <3>2 DEF j
  <2>4. CASE Len(functions[j].raw) # 0
    <3>1. Boundary(functions[j], 1)
      BY <1>1, <2>2 DEF FuncsOK, FuncOK, CodeOK
    <3>2. 1 \in DOMAIN functions[j].raw /\ functions[j].lines[1] # 0
      <4>1. Len(functions[j].raw) \in Nat /\ functions[j].raw \in Seq(Words)
        BY <1>1, <2>2
      <4>2. DOMAIN functions[j].raw = 1 .. Len(functions[j].raw)
        BY <4>1
      <4>3. 1 # Len(functions[j].raw) + 1
        BY <2>4, <4>1
      <4>4. InstrAt(functions[j], 1)
        BY <3>1, <4>3 DEF Boundary
      <4> QED
        BY <4>2, <4>4 DEF InstrAt
    <3>3. base(j) + 4 * (1 - 1) \in Starts(j)
      BY <3>2 DEF Starts
    <3>4. base(j) = base(j) + 4 * (1 - 1)
      BY <1>1, <2>2
    <3>5. base(j) \in InstrStarts
      BY <1>1, <2>2, <3>3, <3>4 DEF InstrStarts
    <3> QED
      BY <3>5 DEF j
  <2> QED
    BY <1>1, <2>2, <2>3, <2>4
<1>4. n + 1 - i \in T
  <2>1. n + 1 - i \in Nat
    BY <1>1
  <2> HIDE DEF T
  <2> QED
    BY <1>2, <1>3, <2>1, Induction
<1>5. n + 1 - i =< n /\ n + 1 - (n + 1 - i) = i
  BY <1>1
<1> QED
  BY <1>4, <1>5

\* Every boundary of a function's code is a place to land, within the function
\* or at its end.
LEMMA BoundaryLands ==
  ASSUME FuncsOK, NEW i \in 1 .. Len(functions), NEW k \in Nat, Boundary(functions[i], k)
  PROVE  /\ at(i, k) \in Starts(i) \cup {base(i + 1)}
         /\ at(i, k) >= base(i)
         /\ at(i, k) \in Landing
<1> DEFINE n == Len(functions)
           f == functions[i]
<1>1. /\ functions \in Seq(Func) /\ n \in Nat /\ DOMAIN functions = 1 .. n
      /\ f.raw \in Seq(Words) /\ Len(f.raw) \in Nat /\ DOMAIN f.raw = 1 .. Len(f.raw)
      /\ base(i) = 32 + 8 * n + 4 * rawsBefore(i) /\ rawsBefore(i) \in Nat
      /\ base(i + 1) = 32 + 8 * n + 4 * rawsBefore(i + 1)
      /\ rawsBefore(i + 1) = rawsBefore(i) + Len(f.raw)
      /\ i + 1 \in 1 .. n + 1
  <2>1. functions \in Seq(Func) /\ n \in Nat
    BY DEF FuncsOK
  <2>2. i \in 1 .. n + 1 /\ i + 1 \in 1 .. n + 1
    BY <2>1
  <2> QED
    BY <2>1, <2>2, Bases
<1> HIDE DEF n, f
<1>2. CASE k = Len(f.raw) + 1
  <2>1. at(i, k) = base(i + 1) /\ at(i, k) >= base(i)
    BY <1>1, <1>2 DEF at
  <2> QED
    BY <1>1, <2>1, BaseLands DEF Landing, n
<1>3. CASE InstrAt(f, k)
  <2>1. k \in DOMAIN f.raw /\ f.lines[k] # 0
    BY <1>1, <1>3 DEF InstrAt
  <2>2. at(i, k) \in Starts(i)
    BY <2>1 DEF Starts, at, f
  <2>3. at(i, k) >= base(i)
    BY <1>1, <2>1 DEF at
  <2> QED
    BY <1>1, <2>2, <2>3 DEF Landing, InstrStarts, n
<1> QED
  BY <1>2, <1>3 DEF Boundary, f

\* A marked word is an instruction's first.
LEMMA MarkedIsInstr ==
  ASSUME NEW f, NEW k \in 1 .. Len(f.raw), f.lines[k] # 0
  PROVE  InstrAt(f, k) /\ k \in Nat
BY DEF InstrAt

\* A place in InstrStarts is an instruction's first word.
LEMMA StartIsInstr ==
  ASSUME FuncsOK, NEW a \in InstrStarts
  PROVE  \E i \in 1 .. Len(functions), k \in Nat : InstrAt(functions[i], k) /\ a = at(i, k)
<1>1. DOMAIN functions = 1 .. Len(functions)
  BY Bases DEF FuncsOK
<1>2. PICK i \in 1 .. Len(functions) : a \in Starts(i)
  BY <1>1 DEF InstrStarts
<1>3. DOMAIN functions[i].raw = 1 .. Len(functions[i].raw)
  BY Bases DEF FuncsOK
<1>4. PICK k \in DOMAIN functions[i].raw :
        functions[i].lines[k] # 0 /\ a = base(i) + 4 * (k - 1)
  BY <1>2 DEF Starts
<1> QED
  BY <1>3, <1>4 DEF InstrAt, at

(***************************************************************************)
(* The words of an instruction.                                            *)
(***************************************************************************)
LEMMA WordFacts ==
  /\ WORD \in Nat /\ BYTE \in Nat /\ BYTE =< WORD /\ 22 < BYTE
  /\ \A w \in Words : w \in Nat
  /\ \A b \in Bytes : b \in Words /\ b \in Nat
  /\ \A o \in 0 .. 84 : o \in Bytes
<1>1. BYTE \in Nat /\ 84 < BYTE
  BY ImageAssumption
<1>2. WORD \in Nat /\ BYTE =< WORD
  <2>1. CASE BYTE = 128
    BY <2>1 DEF WORD
  <2>2. CASE BYTE = 256
    BY <2>2 DEF WORD
  <2> QED
    BY <2>1, <2>2, ImageAssumption
<1> QED
  BY <1>1, <1>2 DEF Words, Bytes

\* An instruction's fields are what was packed; a last operand beyond a byte
\* only adds bits to them.
LEMMA PackInstr ==
  ASSUME NEW o \in Bytes, NEW a \in Bytes, NEW b \in Bytes, NEW n \in Nat
  PROVE  /\ pack_instr(o, a, b, n) \in Words
         /\ op(pack_instr(o, a, b, n)) >= o
         /\ op(pack_instr(o, a, b, n)) \in Bytes
         /\ n \in Bytes => /\ op(pack_instr(o, a, b, n)) = o
                           /\ ra(pack_instr(o, a, b, n)) = a
                           /\ rb(pack_instr(o, a, b, n)) = b
                           /\ rc(pack_instr(o, a, b, n)) = n
<1> DEFINE c1 == (n \div BYTE) % BYTE
           c2 == (n \div (BYTE * BYTE)) % BYTE
           c3 == (n \div (BYTE * BYTE * BYTE)) % BYTE
           d  == n % BYTE
<1>1. c1 \in Bytes /\ c2 \in Bytes /\ c3 \in Bytes /\ d \in Bytes
  <2>1. CASE BYTE = 128
    BY <2>1 DEF Bytes
  <2>2. CASE BYTE = 256
    BY <2>2 DEF Bytes
  <2> QED
    BY <2>1, <2>2, ImageAssumption
<1>2. pack_instr(o, a, b, n) = packed(or(o, c3), or(a, c2), or(b, c1), d)
  BY DEF pack_instr, packed
<1>3. n \in Bytes => c1 = 0 /\ c2 = 0 /\ c3 = 0 /\ d = n
  <2>1. CASE BYTE = 128
    BY <2>1 DEF Bytes
  <2>2. CASE BYTE = 256
    BY <2>2 DEF Bytes
  <2> QED
    BY <2>1, <2>2, ImageAssumption
<1> HIDE DEF c1, c2, c3, d
<1>4. /\ or(o, c3) \in Bytes /\ or(a, c2) \in Bytes /\ or(b, c1) \in Bytes
      /\ o =< or(o, c3)
      /\ or(o, 0) = o /\ or(a, 0) = a /\ or(b, 0) = b
  BY <1>1, OrFacts
<1>5. or(o, c3) >= o
  BY <1>4, WordFacts
<1> QED
  BY <1>1, <1>2, <1>3, <1>4, <1>5, Packed

\* The number of words the assembler emits is the number the VM reads.
LEMMA Widths ==
  ASSUME NEW w \in Words
  PROVE  /\ op(w) \in Nat /\ width(w) \in 1 .. 3
         /\ op(w) = 5 => width(w) = 3
         /\ op(w) \in 8 .. 11 => width(w) = 2 /\ isBranch(w)
         /\ op(w) # 5 /\ op(w) \notin 8 .. 11 => width(w) = 1 /\ ~isBranch(w)
         /\ isBranch(w) => width(w) = 2
<1>1. op(w) \in Nat
  BY Fields, WordFacts
<1> QED
  BY <1>1 DEF width, isBranch

LEMMA Encodings ==
  /\ DOMAIN OPCODES = {"add", "sub", "mul", "div", "end", "load", "cmp", "dbgret", "je", "jne",
                       "jl", "jg", "call", "ret", "push", "pop", "ins", "read", "mov", "arr",
                       "arrins", "arrread"}
  /\ \A m \in DOMAIN OPCODES : OPCODES[m] \in 0 .. 21
  /\ \A m \in BRANCH_OPS : OPCODES[m] \in 8 .. 11
  /\ \A m \in Plain : OPCODES[m] # 5 /\ OPCODES[m] \notin 8 .. 11
  /\ OPCODES["load"] = 5 /\ OPCODES["call"] = 12 /\ OPCODES["mov"] = 18
<1>1. DOMAIN OPCODES = {"add", "sub", "mul", "div", "end", "load", "cmp", "dbgret", "je", "jne",
                       "jl", "jg", "call", "ret", "push", "pop", "ins", "read", "mov", "arr",
                       "arrins", "arrread"}
  BY DEF OPCODES
<1>2. \A m \in DOMAIN OPCODES : OPCODES[m] \in 0 .. 21
  BY DEF OPCODES
<1>3. \A m \in BRANCH_OPS : OPCODES[m] \in 8 .. 11
  BY DEF OPCODES, BRANCH_OPS
<1>4. \A m \in Plain : OPCODES[m] # 5 /\ OPCODES[m] \notin 8 .. 11
  BY DEF OPCODES, BRANCH_OPS, Plain
<1>5. OPCODES["load"] = 5 /\ OPCODES["call"] = 12 /\ OPCODES["mov"] = 18
  BY DEF OPCODES
<1> QED
  BY <1>1, <1>2, <1>3, <1>4, <1>5

\* What the VM makes of an opcode.
LEMMA Decodings ==
  ASSUME NEW o \in Nat, o < Len(Opcode)
  PROVE  /\ o \in 0 .. 21
         /\ Opcode[o + 1] = "load" <=> o = 5
         /\ Opcode[o + 1] \in BRANCH_OPS <=> o \in 8 .. 11
<1>1. Len(Opcode) = 22
  BY DEF Opcode
<1>2. o \in 0 .. 21
  BY <1>1
<1>3. Opcode[o + 1] = "load" <=> o = 5
  BY <1>2 DEF Opcode
<1>4. Opcode[o + 1] \in BRANCH_OPS <=> o \in 8 .. 11
  BY <1>2 DEF Opcode, BRANCH_OPS
<1> QED
  BY <1>2, <1>3, <1>4

(***************************************************************************)
(* What the assembler does to a function.                                  *)
(***************************************************************************)
marked(words) == [i \in DOMAIN words |-> IF i = 1 THEN pos ELSE 0]

\* g's code is f's and these words, marked with the line being read.
Extends(g, f, words) ==
  /\ Len(g.raw) = Len(f.raw) + Len(words) /\ Len(g.lines) = Len(g.raw)
  /\ \A k \in 1 .. Len(f.raw) : g.raw[k] = f.raw[k] /\ g.lines[k] = f.lines[k]
  /\ \A k \in 1 .. Len(words) : g.raw[Len(f.raw) + k] = words[k]
  /\ g.lines[Len(f.raw) + 1] = pos
  /\ \A k \in Nat : InstrAt(g, k) <=> InstrAt(f, k) \/ k = Len(f.raw) + 1

\* A function that is emitted into.
LEMMA GrownCode ==
  ASSUME NEW f \in Func, NEW g \in Func, NEW words \in Seq(Words),
         Len(f.lines) = Len(f.raw), words # <<>>, pos \in Nat \ {0},
         g.raw = f.raw \o words, g.lines = f.lines \o marked(words)
  PROVE  Extends(g, f, words)
<1> DEFINE n == Len(f.raw)
           l == Len(words)
           s == f.lines
           t == marked(words)
<1>1. f.raw \in Seq(Words) /\ s \in Seq(Nat) /\ Len(s) = n /\ n \in Nat
  BY DEF Func
<1>2. /\ t \in Seq(Nat) /\ Len(t) = l /\ l \in Nat /\ l # 0
      /\ t[1] = pos /\ \A m \in 2 .. l : t[m] = 0
  <2>1. l \in Nat /\ l # 0 /\ DOMAIN words = 1 .. l
    OBVIOUS
  <2>2. t \in [1 .. l -> Nat]
    BY <2>1 DEF marked
  <2>3. t \in Seq(Nat) /\ Len(t) = l
    BY <2>1, <2>2, FunctionIsSeq
  <2>4. t[1] = pos /\ \A m \in 2 .. l : t[m] = 0
    BY <2>1 DEF marked
  <2> QED
    BY <2>1, <2>3, <2>4
<1>3. /\ Len(g.raw) = n + l
      /\ \A k \in 1 .. n : g.raw[k] = f.raw[k]
      /\ \A k \in 1 .. l : g.raw[n + k] = words[k]
  BY <1>1, <1>2, Concatenated
<1> HIDE DEF s, t
<1>4. /\ Len(g.lines) = n + l
      /\ \A k \in 1 .. n : g.lines[k] = s[k]
      /\ \A k \in 1 .. l : g.lines[n + k] = t[k]
  <2>1. g.lines = s \o t
    BY DEF s, t
  <2>2. s \in Seq(Nat) /\ t \in Seq(Nat)
    BY <1>1, <1>2
  <2>3. /\ Len(g.lines) = Len(s) + Len(t)
        /\ \A k \in 1 .. Len(s) : g.lines[k] = s[k]
        /\ \A k \in 1 .. Len(t) : g.lines[Len(s) + k] = t[k]
    BY <2>1, <2>2, Concatenated
  <2> QED
    BY <1>1, <1>2, <2>3
<1> HIDE DEF n, l
<1>5. g.lines[n + 1] = pos /\ \A m \in 2 .. l : g.lines[n + m] = 0
  <2>1. 1 \in 1 .. l /\ \A m \in 2 .. l : m \in 1 .. l
    BY <1>2
  <2> QED
    BY <1>2, <1>4, <2>1
<1>6. ASSUME NEW k \in Nat
      PROVE  InstrAt(g, k) <=> InstrAt(f, k) \/ k = n + 1
  <2>1. CASE k \in 1 .. n
    <3>1. k \in 1 .. n + l /\ k # n + 1
      BY <1>1, <1>2, <2>1
    <3>2. g.lines[k] = f.lines[k] /\ Len(g.raw) = n + l
      BY <1>3, <1>4, <2>1 DEF s
    <3> QED
      BY <2>1, <3>1, <3>2 DEF InstrAt, n
  <2>2. CASE k = n + 1
    <3>1. k \in 1 .. n + l
      BY <1>1, <1>2, <2>2
    <3>2. g.lines[k] # 0 /\ Len(g.raw) = n + l
      BY <1>3, <1>5, <2>2
    <3> QED
      BY <2>2, <3>1, <3>2 DEF InstrAt
  <2>3. CASE k \in n + 2 .. n + l
    <3>1. k - n \in 2 .. l /\ n + (k - n) = k
      BY <1>1, <1>2, <2>3
    <3>2. g.lines[k] = 0
      BY <1>5, <3>1
    <3>3. k \notin 1 .. n /\ k # n + 1
      BY <1>1, <2>3
    <3> QED
      BY <3>2, <3>3 DEF InstrAt, n
  <2>4. CASE k \notin 1 .. n + l
    <3>1. k \notin 1 .. n /\ k # n + 1
      BY <1>1, <1>2, <2>4
    <3> QED
      BY <1>3, <2>4, <3>1 DEF InstrAt, n
  <2> QED
    BY <1>1, <1>2, <2>1, <2>2, <2>3, <2>4
<1> QED
  BY <1>1, <1>2, <1>3, <1>4, <1>5, <1>6 DEF n, l, s, Extends

\* An instruction appended to a function's code.
LEMMA Grown ==
  ASSUME NEW f, FuncOK(f), NEW g \in Func,
         NEW words \in Seq(Words), words # <<>>, Len(words) = width(words[1]),
         pos \in Nat \ {0},
         g.raw = f.raw \o words, g.lines = f.lines \o marked(words), g.labels = f.labels,
         \/ g.patches = f.patches /\ ~isBranch(words[1])
         \/ /\ isBranch(words[1])
            /\ \E x \in Names :
                 g.patches = Append(f.patches, [offset |-> 4 * Len(f.raw), label |-> x])
  PROVE  FuncOK(g)
<1> DEFINE n == Len(f.raw)
           l == Len(words)
<1>1. /\ f \in Func /\ CodeOK(f) /\ LabelsOK(f) /\ PatchesOK(f)
      /\ f.raw \in Seq(Words) /\ f.lines \in Seq(Nat) /\ Len(f.lines) = n /\ n \in Nat
      /\ f.patches \in Seq([offset : Nat, label : Names])
  <2>1. f \in Func /\ CodeOK(f) /\ LabelsOK(f) /\ PatchesOK(f)
    BY DEF FuncOK
  <2> QED
    BY <2>1 DEF Func, CodeOK
<1>2. Extends(g, f, words) /\ l \in Nat /\ l # 0 /\ 1 \in 1 .. l
  <2>1. f \in Func /\ Len(f.lines) = Len(f.raw)
    BY <1>1
  <2>2. Extends(g, f, words)
    BY <2>1, GrownCode
  <2> QED
    BY <2>2
<1>3. /\ Len(g.raw) = n + l
      /\ \A k \in 1 .. n : g.raw[k] = f.raw[k]
      /\ g.raw[n + 1] = words[1]
  BY <1>2 DEF Extends
<1>4. Len(g.lines) = n + l
  BY <1>2, <1>3 DEF Extends
<1>5. ASSUME NEW k \in Nat
      PROVE  InstrAt(g, k) <=> InstrAt(f, k) \/ k = n + 1
  BY <1>2 DEF Extends
<1> HIDE DEF n, l
<1>6. ASSUME NEW k \in Nat, Boundary(f, k) PROVE Boundary(g, k)
  BY <1>5, <1>6 DEF Boundary, n
<1>7. ASSUME NEW k \in Nat, InstrAt(f, k) PROVE k \in 1 .. n /\ g.raw[k] = f.raw[k]
  BY <1>3, <1>7 DEF InstrAt, n
<1>8. CodeOK(g)
  <2>1. Boundary(g, 1)
    BY <1>1, <1>6 DEF CodeOK
  <2>2. ASSUME NEW k \in Nat, InstrAt(g, k)
        PROVE  /\ Boundary(g, k + width(g.raw[k]))
               /\ \A m \in k + 1 .. k + width(g.raw[k]) - 1 : ~InstrAt(g, m)
    <3>1. CASE InstrAt(f, k)
      <4> DEFINE d == width(f.raw[k])
      <4>1. f.raw[k] \in Words /\ g.raw[k] = f.raw[k] /\ k \in 1 .. n
        BY <1>1, <1>7, <3>1 DEF n
      <4>2. d \in 1 .. 3
        BY <4>1, Widths
      <4>3. Boundary(f, k + d) /\ \A m \in k + 1 .. k + d - 1 : ~InstrAt(f, m)
        BY <1>1, <3>1 DEF CodeOK
      <4>4. k + d =< n + 1
        BY <1>1, <4>2, <4>3 DEF Boundary, InstrAt, n
      <4> HIDE DEF d
      <4>5. \A m \in k + 1 .. k + d - 1 : m \in Nat /\ m # n + 1
        BY <1>1, <4>2, <4>4
      <4>6. k + d \in Nat
        BY <4>2
      <4> QED
        BY <1>5, <1>6, <4>1, <4>3, <4>5, <4>6 DEF d
    <3>2. CASE k = n + 1
      <4>1. width(g.raw[k]) = l
        BY <1>3, <3>2 DEF l
      <4>2. Boundary(g, k + l)
        BY <1>1, <1>2, <1>3, <3>2 DEF Boundary
      <4>3. ASSUME NEW m \in k + 1 .. k + l - 1 PROVE ~InstrAt(g, m)
        <5>1. m \in Nat /\ m # n + 1 /\ m \notin 1 .. n
          BY <1>1, <1>2, <3>2
        <5> QED
          BY <1>5, <5>1 DEF InstrAt, n
      <4> QED
        BY <4>1, <4>2, <4>3
    <3> QED
      BY <1>5, <2>2, <3>1, <3>2
  <2> QED
    BY <1>3, <1>4, <2>1, <2>2 DEF CodeOK
<1>9. LabelsOK(g)
  BY <1>1, <1>6 DEF LabelsOK
<1>10. PatchesOK(g)
  <2>1. CASE g.patches = f.patches /\ ~isBranch(words[1])
    <3>1. ASSUME NEW j \in DOMAIN g.patches PROVE \E k \in Nat : Patch(g, j, k)
      <4>1. PICK k \in Nat : Patch(f, j, k)
        BY <1>1, <2>1 DEF PatchesOK
      <4> QED
        BY <1>5, <1>7, <2>1, <4>1 DEF Patch
    <3>2. ASSUME NEW k \in Nat, InstrAt(g, k), isBranch(g.raw[k])
          PROVE  \E j \in DOMAIN g.patches : Patch(g, j, k)
      <4>1. InstrAt(f, k)
        BY <1>3, <1>5, <2>1, <3>2
      <4>2. PICK j \in DOMAIN f.patches : Patch(f, j, k)
        BY <1>1, <1>7, <3>2, <4>1 DEF PatchesOK
      <4> QED
        BY <1>5, <1>7, <2>1, <4>1, <4>2 DEF Patch
    <3> QED
      BY <3>1, <3>2 DEF PatchesOK
  <2>2. ASSUME isBranch(words[1]), NEW x \in Names,
               g.patches = Append(f.patches, [offset |-> 4 * Len(f.raw), label |-> x])
        PROVE  PatchesOK(g)
    <3> DEFINE c == Len(f.patches)
    <3>1. /\ c \in Nat /\ DOMAIN f.patches = 1 .. c /\ DOMAIN g.patches = 1 .. c + 1
          /\ \A j \in 1 .. c : g.patches[j] = f.patches[j]
          /\ g.patches[c + 1].offset = 4 * n
      <4>1. f.patches \in Seq([offset : Nat, label : Names])
        BY <1>1
      <4> QED
        BY <2>2, <4>1 DEF n
    <3> HIDE DEF c
    <3>2. ASSUME NEW j \in 1 .. c, NEW k \in Nat, Patch(f, j, k) PROVE Patch(g, j, k)
      BY <1>5, <1>7, <3>1, <3>2 DEF Patch
    <3>3. Patch(g, c + 1, n + 1)
      BY <1>1, <1>3, <1>5, <2>2, <3>1 DEF Patch
    <3>4. ASSUME NEW j \in DOMAIN g.patches PROVE \E k \in Nat : Patch(g, j, k)
      <4>1. CASE j \in 1 .. c
        <5>1. PICK k \in Nat : Patch(f, j, k)
          BY <1>1, <3>1, <4>1 DEF PatchesOK
        <5> QED
          BY <3>2, <4>1, <5>1
      <4>2. CASE j = c + 1
        <5>1. n + 1 \in Nat
          BY <1>1
        <5> QED
          BY <3>3, <4>2, <5>1
      <4>3. j \in 1 .. c \/ j = c + 1
        BY <3>1
      <4> QED
        BY <4>1, <4>2, <4>3
    <3>5. ASSUME NEW k \in Nat, InstrAt(g, k), isBranch(g.raw[k])
          PROVE  \E j \in DOMAIN g.patches : Patch(g, j, k)
      <4>1. CASE InstrAt(f, k)
        <5>1. PICK j \in DOMAIN f.patches : Patch(f, j, k)
          BY <1>1, <1>7, <3>5, <4>1 DEF PatchesOK
        <5>2. j \in 1 .. c /\ j \in DOMAIN g.patches
          BY <3>1, <5>1
        <5> QED
          BY <3>2, <5>1, <5>2
      <4>2. CASE k = n + 1
        <5>1. c + 1 \in DOMAIN g.patches
          BY <3>1
        <5> QED
          BY <3>3, <4>2, <5>1
      <4> QED
        BY <1>5, <3>5, <4>1, <4>2
    <3> QED
      BY <3>4, <3>5 DEF PatchesOK
  <2> QED
    BY <2>1, <2>2
<1> QED
  BY <1>8, <1>9, <1>10 DEF FuncOK

(***************************************************************************)
(* The assembler's invariant.                                              *)
(***************************************************************************)
\* No line makes more than three words, or two of the table.
Room == 8 * Len(functions) + 4 * rawsBefore(Len(functions) + 1) =< 12 * (pos - 1)

AsmInv ==
  /\ source \in Programs \cup {<<>>}
  /\ pos \in 1 .. Len(source) + 1
  /\ inFunc \in BOOLEAN
  /\ inFunc => functions # <<>>
  /\ FuncsOK
  /\ Room
  /\ asm \in {"reading", "exited", "written"}
  /\ asm # "written" => image = <<>>
  /\ asm = "written" => Filed \/ (functions = <<>> /\ image \in Files)

LEMMA SourceLines ==
  ASSUME source \in Programs \cup {<<>>}
  PROVE  /\ Len(source) \in Nat /\ DOMAIN source = 1 .. Len(source)
         /\ \A n \in DOMAIN source :
              /\ source \in Programs
              /\ source[n].line = "func" => source[n].frameSize \in Words
              /\ source[n].line = "label" => source[n].name \in Names
              /\ source[n].line = "instr" =>
                   /\ Len(source[n].args) \in Nat
                   /\ DOMAIN source[n].args = 1 .. Len(source[n].args)
                   /\ source[n].mnem = "load" =>
                        \A i \in {2, 3} \cap DOMAIN source[n].args :
                          source[n].args[i] \in Words
<1>1. CASE source = <<>>
  BY <1>1
<1>2. CASE source \in Programs
  <2>1. source \in Seq(Range(source))
    BY <1>2, AssemblerAssumption
  <2>2. Len(source) \in Nat /\ DOMAIN source = 1 .. Len(source)
    BY <2>1
  <2>3. ASSUME NEW n \in DOMAIN source, source[n].line = "instr"
        PROVE  Len(source[n].args) \in Nat /\ DOMAIN source[n].args = 1 .. Len(source[n].args)
    <3>1. source[n].args \in Seq(Range(source[n].args))
      BY <1>2, <2>3, AssemblerAssumption
    <3> QED
      BY <3>1
  <2> QED
    BY <1>2, <2>2, <2>3, AssemblerAssumption DEF Words
<1> QED
  BY <1>1, <1>2

\* The line _pass1 is at.
LEMMA LineFacts ==
  ASSUME AsmInv, Reading
  PROVE  /\ source \in Programs /\ pos \in DOMAIN source /\ pos \in Nat \ {0}
         /\ Line = source[pos]
         /\ pos + 1 \in 1 .. Len(source) + 1
<1>1. /\ Len(source) \in Nat /\ pos \in 1 .. Len(source)
      /\ DOMAIN source = 1 .. Len(source)
  BY SourceLines DEF AsmInv, Reading
<1>2. source \in Programs
  BY <1>1 DEF AsmInv
<1> QED
  BY <1>1, <1>2 DEF Line

\* What the file is made of depends on the functions alone.
LEMMA SameFunctions ==
  ASSUME functions' = functions
  PROVE  /\ FuncsOK' <=> FuncsOK
         /\ Len(functions)' = Len(functions)
         /\ \A i : base(i)' = base(i) /\ patched(i)' = patched(i)
         /\ \A i : rawsBefore(i)' = rawsBefore(i)
         /\ fileHeader' = fileHeader /\ funcTable' = funcTable /\ code' = code
<1>1. FuncsOK' <=> FuncsOK
  BY DEF FuncsOK
<1>2. codeOffset' = codeOffset
  BY DEF codeOffset
<1>3. ASSUME NEW i PROVE base(i)' = base(i)
  BY <1>2 DEF base
<1>4. ASSUME NEW i PROVE patched(i)' = patched(i)
  <2>1. base(i)' = base(i) /\ functions[i]' = functions[i]
    BY <1>3
  <2> QED
    BY <2>1 DEF patched
<1>5. ASSUME NEW i PROVE rawsBefore(i)' = rawsBefore(i)
  BY DEF rawsBefore, raws
<1>6. fileHeader' = fileHeader
  BY <1>2 DEF fileHeader
<1>7. funcTable' = funcTable
  BY <1>3 DEF funcTable
<1>8. code' = code
  BY <1>4 DEF code
<1> QED
  BY <1>1, <1>3, <1>4, <1>5, <1>6, <1>7, <1>8

\* Where the first functions are the same, so is what lies before them.
LEMMA RawsPrefix ==
  ASSUME functions \in Seq(Func), functions' \in Seq(Func), NEW n \in Nat,
         n =< Len(functions), n =< Len(functions'),
         \A i \in 1 .. n : functions'[i] = functions[i]
  PROVE  \A i \in 1 .. n + 1 : rawsBefore(i)' = rawsBefore(i)
<1> DEFINE u == raws
           v == raws'
<1>1. \A i \in 1 .. n : i \in DOMAIN functions /\ i \in DOMAIN functions'
  OBVIOUS
<1>2. \A i \in 1 .. n : u[i] = Len(functions[i].raw) /\ v[i] = Len(functions'[i].raw)
  BY <1>1 DEF raws
<1>3. \A i \in 1 .. n : Len(functions[i].raw) \in Nat
  BY <1>1, Bases
<1> HIDE DEF u, v
<1>4. ASSUME NEW k \in 0 .. n PROVE sumOf(v, k) = sumOf(u, k)
  <2>1. k \in Nat /\ \A i \in 1 .. k : i \in 1 .. n
    OBVIOUS
  <2>2. \A i \in 1 .. k : u[i] \in Int
    BY <1>2, <1>3, <2>1
  <2>3. \A i \in 1 .. k : u[i] = v[i]
    BY <1>2, <2>1
  <2> QED
    BY <2>1, <2>2, <2>3, SumSame
<1>5. \A i \in 1 .. n + 1 : i - 1 \in 0 .. n
  OBVIOUS
<1> QED
  BY <1>4, <1>5 DEF rawsBefore, u, v

\* The last function is replaced: the others, and where each begins, remain.
LEMMA Replaced ==
  ASSUME AsmInv, Reading, inFunc, NEW f \in Func, Becomes(f)
  PROVE  /\ Len(functions) \in Nat \ {0} /\ DOMAIN functions = 1 .. Len(functions)
         /\ functions' \in Seq(Func) /\ Len(functions)' = Len(functions)
         /\ functions'[Len(functions)] = f
         /\ \A i \in 1 .. Len(functions) : i # Len(functions) => functions'[i] = functions[i]
         /\ \A i \in 1 .. Len(functions) : rawsBefore(i)' = rawsBefore(i)
         /\ rawsBefore(Len(functions) + 1)' = rawsBefore(Len(functions)) + Len(f.raw)
<1> DEFINE n == Len(functions)
<1>1. /\ functions \in Seq(Func) /\ functions # <<>> /\ n \in Nat \ {0}
      /\ DOMAIN functions = 1 .. n
  BY Bases DEF AsmInv, FuncsOK
<1>2. functions' = [functions EXCEPT ![n] = f]
  BY DEF Becomes
<1>3. /\ functions' \in Seq(Func) /\ Len(functions') = n
      /\ functions'[n] = f
      /\ \A i \in 1 .. n : i # n => functions'[i] = functions[i]
  <2>1. n \in 1 .. Len(functions)
    BY <1>1
  <2> HIDE DEF n
  <2>2. /\ functions' \in Seq(Func) /\ Len(functions') = Len(functions)
        /\ \A i \in 1 .. Len(functions) : functions'[i] = IF i = n THEN f ELSE functions[i]
    BY <1>1, <1>2, <2>1, ExceptSeq
  <2>3. n = Len(functions)
    BY DEF n
  <2> QED
    BY <2>1, <2>2, <2>3
<1>4. \A i \in 1 .. n : rawsBefore(i)' = rawsBefore(i)
  <2> DEFINE m == n - 1
  <2>1. m \in Nat /\ m =< n /\ m + 1 = n /\ \A i \in 1 .. m : i \in 1 .. n /\ i # n
    <3>1. n \in Nat \ {0}
      BY <1>1
    <3> HIDE DEF n
    <3> QED
      BY <3>1
  <2>2. m =< Len(functions) /\ m =< Len(functions')
    BY <1>3, <2>1
  <2>3. \A i \in 1 .. m : functions'[i] = functions[i]
    BY <1>3, <2>1
  <2> HIDE DEF m, n
  <2>4. \A i \in 1 .. m + 1 : rawsBefore(i)' = rawsBefore(i)
    BY <1>1, <1>3, <2>1, <2>2, <2>3, RawsPrefix
  <2> QED
    BY <2>1, <2>4
<1>5. rawsBefore(n + 1)' = rawsBefore(n)' + Len(f.raw)
  <2> DEFINE v == raws'
             m == n - 1
  <2>1. DOMAIN functions' = 1 .. n
    BY <1>3
  <2>2. \A i \in 1 .. n : v[i] = Len(functions'[i].raw)
    BY <2>1 DEF raws
  <2>3. \A i \in 1 .. n : functions'[i] \in Func
    BY <1>3, <2>1
  <2>4. \A g \in Func : Len(g.raw) \in Int
    BY DEF Func
  <2>5. \A i \in 1 .. n : v[i] \in Int
    BY <2>2, <2>3, <2>4
  <2>6. m \in Nat /\ m + 1 = n /\ (n + 1) - 1 = n /\ n \in 1 .. n
    BY <1>1
  <2>7. n' = n
    BY <1>3
  <2>8. v[n] = Len(f.raw)
    BY <1>3, <2>2, <2>6
  <2>9. rawsBefore(n + 1)' = sumOf(v, n)
    BY <2>6, <2>7 DEF rawsBefore
  <2>10. rawsBefore(n)' = sumOf(v, m)
    BY <2>7 DEF rawsBefore
  <2> HIDE DEF v, m, n
  <2>11. sumOf(v, m + 1) = sumOf(v, m) + v[m + 1]
    BY <2>5, <2>6, SumNext
  <2> QED
    BY <2>6, <2>8, <2>9, <2>10, <2>11
<1>6. n' = n
  BY <1>3
<1>7. rawsBefore(n)' = rawsBefore(n)
  <2>1. n \in 1 .. n
    BY <1>1
  <2> HIDE DEF n
  <2> QED
    BY <1>4, <1>6, <2>1
<1> QED
  BY <1>1, <1>3, <1>4, <1>5, <1>6, <1>7

\* The last function is replaced by one with at most three words more.
LEMMA FunctionReplaced ==
  ASSUME AsmInv, Reading, inFunc, NEW f, FuncOK(f), Becomes(f),
         NEW d \in 0 .. 3, Len(f.raw) = Len(cur.raw) + d
  PROVE  AsmInv'
<1> DEFINE n == Len(functions)
<1>1. /\ functions \in Seq(Func) /\ functions # <<>> /\ n \in Nat \ {0}
      /\ DOMAIN functions = 1 .. n
      /\ \A i \in DOMAIN functions : FuncOK(functions[i])
  BY Bases DEF AsmInv, FuncsOK
<1>2. /\ functions' = [functions EXCEPT ![n] = f] /\ pos' = pos + 1
      /\ source' = source /\ inFunc' = inFunc /\ asm' = asm /\ image' = image
  BY DEF Becomes
<1>3. f \in Func
  BY DEF FuncOK
<1>4. /\ functions' \in Seq(Func) /\ Len(functions') = n /\ DOMAIN functions' = 1 .. n
      /\ functions'[n] = f
      /\ \A i \in 1 .. n : i # n => functions'[i] = functions[i]
  BY <1>3, Replaced
<1>5. FuncsOK'
  <2>1. \A i \in 1 .. n : FuncOK(functions'[i])
    BY <1>1, <1>4
  <2> QED
    BY <1>4, <2>1 DEF FuncsOK
<1>6. rawsBefore(n + 1)' = rawsBefore(n + 1) + d
  <2>1. rawsBefore(n + 1)' = rawsBefore(n) + Len(f.raw)
    BY <1>3, Replaced
  <2>2. /\ rawsBefore(n + 1) = rawsBefore(n) + Len(functions[n].raw)
        /\ rawsBefore(n) \in Nat /\ Len(functions[n].raw) \in Nat
    BY <1>1, Bases
  <2>3. Len(f.raw) = Len(functions[n].raw) + d
    BY DEF cur
  <2> HIDE DEF n
  <2> QED
    BY <2>1, <2>2, <2>3
<1>7. Room'
  <2>1. rawsBefore(n + 1) \in Nat
    BY <1>1, Bases
  <2>2. pos \in Nat
    BY LineFacts
  <2>3. 8 * n + 4 * rawsBefore(n + 1) =< 12 * (pos - 1)
    BY DEF AsmInv, Room
  <2>4. Len(functions') = n
    BY <1>4
  <2> HIDE DEF n
  <2>5. 8 * n + 4 * rawsBefore(n + 1)' =< 12 * ((pos + 1) - 1)
    <3>1. n \in Nat
      BY <1>1
    <3> QED
      BY <1>6, <2>1, <2>2, <2>3, <3>1
  <2>6. n = Len(functions)
    BY DEF n
  <2>7. Len(functions)' = n
    BY <2>4
  <2> QED
    BY <1>2, <2>5, <2>6, <2>7 DEF Room, n
<1>8. pos' \in 1 .. Len(source) + 1
  BY <1>2, LineFacts
<1>9. asm = "reading"
  BY DEF Reading
<1>10. functions' # <<>>
  BY <1>1, <1>4
<1> QED
  BY <1>2, <1>5, <1>7, <1>8, <1>9, <1>10 DEF AsmInv

LEMMA CurrentFunction ==
  ASSUME AsmInv, inFunc
  PROVE  /\ FuncOK(cur) /\ cur \in Func
         /\ cur.raw \in Seq(Words) /\ cur.lines \in Seq(Nat) /\ Len(cur.raw) \in Nat
         /\ cur.patches \in Seq([offset : Nat, label : Names])
         /\ cur.labels \in Labelings /\ cur.frameSize \in Words
<1>1. functions \in Seq(Func) /\ functions # <<>>
  BY DEF AsmInv, FuncsOK
<1>2. Len(functions) \in DOMAIN functions
  BY <1>1
<1>3. FuncOK(cur)
  BY <1>2 DEF AsmInv, FuncsOK, cur
<1>4. cur \in Func
  BY <1>3 DEF FuncOK
<1>5. /\ cur.raw \in Seq(Words) /\ cur.lines \in Seq(Nat)
      /\ cur.patches \in Seq([offset : Nat, label : Names])
      /\ cur.labels \in Labelings /\ cur.frameSize \in Words
  BY <1>4 DEF Func
<1> QED
  BY <1>3, <1>4, <1>5

LEMMA BeginFuncStep ==
  ASSUME AsmInv, BeginFunc
  PROVE  AsmInv'
<1> DEFINE n == Len(functions)
           f == [frameSize |-> Line.frameSize, labels |-> [x \in {} |-> 0], patches |-> <<>>,
                 raw |-> <<>>, lines |-> <<>>]
<1>1. /\ functions' = Append(functions, f) /\ inFunc' = TRUE /\ pos' = pos + 1
      /\ source' = source /\ asm' = asm /\ image' = image
      /\ Reading /\ Line.line = "func"
  BY DEF BeginFunc, is
<1>2. f \in Func
  <2>1. Line.frameSize \in Words
    BY <1>1, LineFacts, SourceLines
  <2>2. [x \in {} |-> 0] \in Labelings
    <3>1. {} \in SUBSET Names /\ [x \in {} |-> 0] \in [{} -> Nat]
      OBVIOUS
    <3> QED
      BY <3>1 DEF Labelings
  <2> QED
    BY <2>1, <2>2 DEF Func
<1>3. FuncOK(f)
  <2>1. /\ f.raw = <<>> /\ f.lines = <<>> /\ f.patches = <<>> /\ DOMAIN f.labels = {}
        /\ Len(f.raw) = 0 /\ Len(f.lines) = 0 /\ DOMAIN f.patches = {}
    OBVIOUS
  <2> HIDE DEF f
  <2>2. \A k : ~InstrAt(f, k)
    BY <2>1 DEF InstrAt
  <2>3. CodeOK(f) /\ LabelsOK(f) /\ PatchesOK(f)
    BY <2>1, <2>2 DEF CodeOK, LabelsOK, PatchesOK, Boundary
  <2> QED
    BY <1>2, <2>3 DEF FuncOK
<1>4. Len(f.raw) = 0
  OBVIOUS
<1>5. /\ functions \in Seq(Func) /\ n \in Nat
      /\ \A i \in 1 .. n : FuncOK(functions[i])
      /\ \A i \in 1 .. n : Len(functions[i].raw) \in Nat
      /\ rawsBefore(n + 1) \in Nat
  <2> HIDE DEF f
  <2>1. functions \in Seq(Func) /\ \A i \in DOMAIN functions : FuncOK(functions[i])
    BY DEF AsmInv, FuncsOK
  <2>2. /\ n \in Nat /\ DOMAIN functions = 1 .. n
        /\ \A i \in 1 .. n : Len(functions[i].raw) \in Nat
    BY <2>1, Bases
  <2>3. rawsBefore(n + 1) \in Nat
    <3>1. n + 1 \in 1 .. n + 1
      BY <2>2
    <3> QED
      BY <2>1, <3>1, Bases
  <2> QED
    BY <2>1, <2>2, <2>3
<1> HIDE DEF f
<1>6. /\ functions' \in Seq(Func) /\ Len(functions') = n + 1 /\ DOMAIN functions' = 1 .. n + 1
      /\ functions'[n + 1] = f
      /\ \A i \in 1 .. n : functions'[i] = functions[i]
  BY <1>1, <1>2, <1>5
<1>7. FuncsOK'
  <2>1. \A i \in 1 .. n + 1 : FuncOK(functions'[i])
    <3>1. \A i \in 1 .. n + 1 : i \in 1 .. n \/ i = n + 1
      BY <1>5
    <3> QED
      BY <1>3, <1>5, <1>6, <3>1
  <2> QED
    BY <1>6, <2>1 DEF FuncsOK
<1>8. rawsBefore(Len(functions) + 1)' = rawsBefore(n + 1)
  <2> DEFINE u == raws
             v == raws'
  <2>1. \A i \in 1 .. n + 1 : v[i] = Len(functions'[i].raw)
    BY <1>6 DEF raws
  <2>2. \A i \in 1 .. n : u[i] = Len(functions[i].raw)
    BY <1>5 DEF raws
  <2>3. /\ \A i \in 1 .. n : u[i] \in Int /\ u[i] = v[i]
        /\ v[n + 1] = 0
    <3>1. \A i \in 1 .. n : i \in 1 .. n + 1
      BY <1>5
    <3>2. n + 1 \in 1 .. n + 1
      BY <1>5
    <3> QED
      BY <1>4, <1>5, <1>6, <2>1, <2>2, <3>1, <3>2
  <2>4. (Len(functions) + 1)' - 1 = n + 1 /\ (n + 1) - 1 = n
    BY <1>5, <1>6
  <2> HIDE DEF u, v, n
  <2>5. \A i \in 1 .. n + 1 : v[i] \in Int
    <3> SUFFICES ASSUME NEW i \in 1 .. n + 1 PROVE v[i] \in Int
      OBVIOUS
    <3>1. i \in 1 .. n \/ i = n + 1
      BY <1>5
    <3> QED
      BY <2>3, <3>1
  <2>6. sumOf(v, n + 1) = sumOf(v, n) + v[n + 1] /\ sumOf(v, n) \in Int
    BY <1>5, <2>5, SumNext
  <2>7. sumOf(u, n) = sumOf(v, n)
    BY <1>5, <2>3, SumSame
  <2>8. sumOf(v, n + 1) = sumOf(u, n)
    BY <2>3, <2>6, <2>7
  <2> QED
    BY <2>4, <2>8 DEF rawsBefore, u, v
<1>9. Room'
  <2>1. pos \in Nat
    BY <1>1, LineFacts
  <2>2. 8 * n + 4 * rawsBefore(n + 1) =< 12 * (pos - 1)
    BY DEF AsmInv, Room
  <2>3. Len(functions)' = n + 1
    BY <1>6
  <2>4. 8 * (n + 1) + 4 * rawsBefore(n + 1) =< 12 * ((pos + 1) - 1)
    <3> HIDE DEF n
    <3> QED
      BY <1>5, <2>1, <2>2
  <2> QED
    BY <1>1, <1>8, <2>3, <2>4 DEF Room
<1>10. pos' \in 1 .. Len(source) + 1 /\ asm = "reading"
  BY <1>1, LineFacts DEF Reading
<1>11. functions' # <<>>
  BY <1>5, <1>6
<1> QED
  BY <1>1, <1>7, <1>9, <1>10, <1>11 DEF AsmInv

\* Steps that leave the functions.
LEMMA FunctionsKept ==
  ASSUME AsmInv, functions' = functions, source' = source,
         pos' = pos \/ (Reading /\ pos' = pos + 1),
         inFunc' = inFunc \/ inFunc' = FALSE,
         \/ asm' = asm /\ image' = image
         \/ asm = "reading" /\ asm' = "exited" /\ image' = image
         \/ asm' = "written" /\ Filed'
  PROVE  AsmInv'
<1>1. FuncsOK' /\ Len(functions)' = Len(functions)
      /\ \A i : rawsBefore(i)' = rawsBefore(i)
  BY SameFunctions DEF AsmInv
<1>2. /\ pos \in Nat /\ pos' \in Nat /\ pos =< pos' /\ pos' \in 1 .. Len(source) + 1
  <2>1. CASE pos' = pos
    BY <2>1, SourceLines DEF AsmInv
  <2>2. CASE Reading /\ pos' = pos + 1
    BY <2>2, LineFacts
  <2> QED
    BY <2>1, <2>2
<1>3. Room'
  <2>1. rawsBefore(Len(functions) + 1)' = rawsBefore(Len(functions) + 1)
    BY <1>1 DEF rawsBefore
  <2>2. Len(functions) \in Nat /\ rawsBefore(Len(functions) + 1) \in Nat
    BY Bases DEF AsmInv, FuncsOK
  <2>3. 8 * Len(functions) + 4 * rawsBefore(Len(functions) + 1) =< 12 * (pos - 1)
    BY DEF AsmInv, Room
  <2>4. 12 * (pos - 1) =< 12 * (pos' - 1)
    <3>1. \A p, q \in Nat : p =< q => 12 * (p - 1) =< 12 * (q - 1)
      OBVIOUS
    <3> QED
      BY <1>2, <3>1
  <2>5. 8 * Len(functions) + 4 * rawsBefore(Len(functions) + 1) =< 12 * (pos' - 1)
    BY <1>2, <2>2, <2>3, <2>4
  <2> QED
    BY <1>1, <2>1, <2>5 DEF Room
<1>4. inFunc' \in BOOLEAN /\ (inFunc' => functions' # <<>>)
  <2>1. inFunc \in BOOLEAN /\ (inFunc => functions # <<>>)
    BY DEF AsmInv
  <2>2. CASE inFunc' = inFunc
    BY <2>1, <2>2
  <2>3. CASE inFunc' = FALSE
    BY <2>3
  <2> QED
    BY <2>2, <2>3
<1>5. ASSUME asm' = asm, image' = image, Filed PROVE Filed'
  BY <1>5, SameFunctions DEF Filed
<1>6. /\ asm' \in {"reading", "exited", "written"}
      /\ asm' # "written" => image' = <<>>
      /\ asm' = "written" => Filed' \/ (functions' = <<>> /\ image' \in Files)
  BY <1>5 DEF AsmInv
<1> QED
  BY <1>1, <1>2, <1>3, <1>4, <1>6 DEF AsmInv

LEMMA DefineLabelStep ==
  ASSUME AsmInv, DefineLabel
  PROVE  AsmInv'
<1> DEFINE name == lower(Line.name)
           labels == [x \in DOMAIN cur.labels \cup {name} |->
                        IF x = name THEN offset(cur) ELSE cur.labels[x]]
           f == [cur EXCEPT !.labels = labels]
<1>1. Reading /\ inFunc /\ Line.line = "label" /\ Becomes(f)
  BY DEF DefineLabel, is
<1>2. /\ FuncOK(cur) /\ cur \in Func /\ Len(cur.raw) \in Nat /\ cur.labels \in Labelings
  BY <1>1, CurrentFunction
<1>3. name \in Names
  BY <1>1, LineFacts, SourceLines, AssemblerAssumption
<1>4. offset(cur) = 4 * Len(cur.raw) /\ offset(cur) \in Nat
  BY <1>2 DEF offset
<1>5. PICK D \in SUBSET Names : cur.labels \in [D -> Nat]
  BY <1>2 DEF Labelings
<1> HIDE DEF name
<1>6. labels \in Labelings /\ DOMAIN labels = D \cup {name}
  <2>1. labels \in [D \cup {name} -> Nat] /\ D \cup {name} \in SUBSET Names
    BY <1>3, <1>4, <1>5
  <2> QED
    BY <2>1 DEF Labelings
<1>7. \A x \in D \cup {name} : labels[x] = IF x = name THEN offset(cur) ELSE cur.labels[x]
  BY <1>5
<1> HIDE DEF labels
<1>8. /\ f \in Func /\ f.raw = cur.raw /\ f.lines = cur.lines /\ f.patches = cur.patches
      /\ f.labels = labels
  BY <1>2, <1>6 DEF Func
<1> HIDE DEF f
<1>9. \A k : /\ InstrAt(f, k) <=> InstrAt(cur, k)
             /\ Boundary(f, k) <=> Boundary(cur, k)
             /\ \A j : Patch(f, j, k) <=> Patch(cur, j, k)
  BY <1>8 DEF InstrAt, Boundary, Patch
<1>10. CodeOK(f) /\ PatchesOK(f)
  BY <1>2, <1>8, <1>9 DEF FuncOK, CodeOK, PatchesOK
<1>11. LabelsOK(f)
  <2> SUFFICES ASSUME NEW x \in DOMAIN labels
               PROVE  \E k \in Nat : Boundary(f, k) /\ labels[x] = 4 * (k - 1)
    BY <1>8 DEF LabelsOK
  <2>1. CASE x = name
    <3>1. labels[x] = 4 * ((Len(cur.raw) + 1) - 1)
      BY <1>2, <1>4, <1>6, <1>7, <2>1
    <3>2. Boundary(f, Len(cur.raw) + 1) /\ Len(cur.raw) + 1 \in Nat
      BY <1>2, <1>8 DEF Boundary
    <3> QED
      BY <3>1, <3>2
  <2>2. CASE x # name
    <3>1. x \in DOMAIN cur.labels /\ labels[x] = cur.labels[x]
      BY <1>5, <1>6, <1>7, <2>2
    <3>2. PICK k \in Nat : Boundary(cur, k) /\ cur.labels[x] = 4 * (k - 1)
      BY <1>2, <3>1 DEF FuncOK, LabelsOK
    <3> QED
      BY <1>9, <3>1, <3>2
  <2> QED
    BY <2>1, <2>2
<1>12. FuncOK(f) /\ Len(f.raw) = Len(cur.raw) + 0
  BY <1>2, <1>8, <1>10, <1>11 DEF FuncOK
<1> QED
  BY <1>1, <1>12, FunctionReplaced

LEMMA EmittedFunction ==
  ASSUME AsmInv, Reading, inFunc, NEW words \in Seq(Words)
  PROVE  /\ emitted(cur, words) \in Func
         /\ emitted(cur, words).raw = cur.raw \o words
         /\ emitted(cur, words).lines = cur.lines \o marked(words)
         /\ emitted(cur, words).labels = cur.labels
         /\ emitted(cur, words).patches = cur.patches
         /\ emitted(cur, words).frameSize = cur.frameSize
         /\ Len(cur.raw \o words) = Len(cur.raw) + Len(words)
<1>1. cur \in Func /\ cur.raw \in Seq(Words) /\ cur.lines \in Seq(Nat)
  BY CurrentFunction
<1>2. pos \in Nat
  BY LineFacts
<1>3. marked(words) \in Seq(Nat)
  <2>1. marked(words) \in [1 .. Len(words) -> Nat]
    BY <1>2 DEF marked
  <2> QED
    BY <2>1, FunctionIsSeq
<1>4. emitted(cur, words) = [cur EXCEPT !.raw = @ \o words, !.lines = @ \o marked(words)]
  BY DEF emitted, marked
<1>5. cur.raw \o words \in Seq(Words) /\ Len(cur.raw \o words) = Len(cur.raw) + Len(words)
  BY <1>1
<1>6. cur.lines \o marked(words) \in Seq(Nat)
  BY <1>1, <1>3, Concatenated
<1> QED
  BY <1>1, <1>4, <1>5, <1>6 DEF Func

LEMMA EmitStep ==
  ASSUME AsmInv, Reading, inFunc, NEW words \in Seq(Words),
         words # <<>>, Len(words) = width(words[1]), ~isBranch(words[1]),
         Becomes(emitted(cur, words))
  PROVE  AsmInv'
<1> DEFINE f == emitted(cur, words)
<1>1. /\ f \in Func /\ f.raw = cur.raw \o words /\ f.lines = cur.lines \o marked(words)
      /\ f.labels = cur.labels /\ f.patches = cur.patches
      /\ Len(f.raw) = Len(cur.raw) + Len(words)
  BY EmittedFunction
<1>2. FuncOK(cur) /\ pos \in Nat \ {0}
  BY CurrentFunction, LineFacts
<1>3. words[1] \in Words
  OBVIOUS
<1>4. Len(words) \in 0 .. 3
  BY <1>3, Widths
<1> HIDE DEF f
<1>5. FuncOK(f)
  BY <1>1, <1>2, Grown
<1>6. Becomes(f)
  BY DEF f
<1> QED
  BY <1>1, <1>4, <1>5, <1>6, FunctionReplaced

\* The operands of an instruction that is neither a branch, a load nor a call.
LEMMA PlainOperands ==
  ASSUME AsmInv, Reading, isInstr(Plain), Encodable(Line)
  PROVE  /\ OPCODES[Line.mnem] \in Bytes
         /\ arg(Line, 1) \in Bytes /\ arg(Line, 2) \in Bytes /\ arg(Line, 3) \in Nat
         /\ arg(Line, 3) \in Bytes \/ Line.mnem = "mov"
<1> DEFINE l == Line
<1>1. /\ l.line = "instr" /\ l.mnem \in Plain /\ l.mnem \in DOMAIN OPCODES
      /\ Len(l.args) \in Nat /\ DOMAIN l.args = 1 .. Len(l.args)
  BY LineFacts, SourceLines DEF isInstr, is, Plain
<1>2. OPCODES[l.mnem] \in Bytes /\ 0 \in Bytes
  <2>1. OPCODES[l.mnem] \in 0 .. 21
    BY <1>1, Encodings
  <2> QED
    BY <2>1, WordFacts
<1>3. l.mnem \notin BRANCH_OPS /\ l.mnem # "call" /\ l.mnem # "load"
  BY <1>1 DEF Plain
<1>4. CASE l.mnem = "mov"
  <2>1. Len(l.args) >= 2 /\ l.args[1] \in Bytes /\ l.args[2] \in Bytes
    BY <1>3, <1>4 DEF Encodable, Needed, Bytes, BRANCH_OPS
  <2>2. arg(l, 3) \in Nat
    BY <1>3, <1>4, WordFacts DEF Encodable
  <2>3. arg(l, 1) \in Bytes /\ arg(l, 2) \in Bytes
    BY <1>1, <1>4, <2>1 DEF arg, Used
  <2> QED
    BY <1>2, <1>4, <2>2, <2>3
<1>5. CASE l.mnem # "mov"
  <2>1. \A i \in 1 .. Used(l.mnem) : l.args[i] \in Bytes
    BY <1>3, <1>5 DEF Encodable, Bytes, Used
  <2>2. \A i \in 1 .. 3 : arg(l, i) \in Bytes
    BY <1>1, <1>2, <2>1 DEF arg, Used, Needed
  <2>3. 1 \in 1 .. 3 /\ 2 \in 1 .. 3 /\ 3 \in 1 .. 3
    OBVIOUS
  <2> QED
    BY <1>2, <2>2, <2>3, WordFacts
<1> QED
  BY <1>4, <1>5

LEMMA EmitPlainStep ==
  ASSUME AsmInv, EmitPlain
  PROVE  AsmInv'
<1> DEFINE o == OPCODES[Line.mnem]
           w == pack_instr(o, arg(Line, 1), arg(Line, 2), arg(Line, 3))
<1>1. /\ Reading /\ inFunc /\ isInstr(Plain) /\ Encodable(Line)
      /\ Becomes(emitted(cur, <<w>>))
  BY DEF EmitPlain
<1>2. /\ o \in Bytes /\ arg(Line, 1) \in Bytes /\ arg(Line, 2) \in Bytes /\ arg(Line, 3) \in Nat
      /\ arg(Line, 3) \in Bytes \/ Line.mnem = "mov"
  BY <1>1, PlainOperands
<1>3. o # 5 /\ o \notin 8 .. 11 /\ (Line.mnem = "mov" => o = 18)
  BY <1>1, Encodings DEF isInstr
<1> HIDE DEF o
<1>4. w \in Words /\ op(w) >= o /\ op(w) \in Bytes /\ (arg(Line, 3) \in Bytes => op(w) = o)
  <2> DEFINE a == arg(Line, 1)
             b == arg(Line, 2)
             c == arg(Line, 3)
  <2>1. o \in Bytes /\ a \in Bytes /\ b \in Bytes /\ c \in Nat
    BY <1>2
  <2> HIDE DEF a, b, c
  <2>2. /\ pack_instr(o, a, b, c) \in Words /\ op(pack_instr(o, a, b, c)) >= o
        /\ op(pack_instr(o, a, b, c)) \in Bytes
        /\ c \in Bytes => op(pack_instr(o, a, b, c)) = o
    BY <2>1, PackInstr
  <2> QED
    BY <2>2 DEF a, b, c
<1> HIDE DEF w
<1>5. op(w) # 5 /\ op(w) \notin 8 .. 11
  <2>1. CASE arg(Line, 3) \in Bytes
    BY <1>3, <1>4, <2>1
  <2>2. CASE Line.mnem = "mov"
    BY <1>3, <1>4, <2>2, WordFacts
  <2> QED
    BY <1>2, <2>1, <2>2
<1>6. width(w) = 1 /\ ~isBranch(w)
  BY <1>4, <1>5, Widths
<1>7. <<w>> \in Seq(Words) /\ <<w>> # <<>> /\ Len(<<w>>) = 1 /\ <<w>>[1] = w
  BY <1>4
<1> QED
  BY <1>1, <1>6, <1>7, EmitStep

LEMMA EmitLoadStep ==
  ASSUME AsmInv, EmitLoad
  PROVE  AsmInv'
<1> DEFINE a == Line.args[1]
           w == pack_instr(OPCODES["load"], a, 0, 0)
           words == <<w, Line.args[2], Line.args[3]>>
<1>1. /\ Reading /\ inFunc /\ isInstr({"load"}) /\ Encodable(Line)
      /\ Becomes(emitted(cur, words))
  BY DEF EmitLoad
<1>2. Line.line = "instr" /\ Line.mnem = "load"
  BY <1>1 DEF isInstr, is
<1>3. Len(Line.args) >= 3 /\ a \in Bytes
  BY <1>1, <1>2 DEF Encodable, Needed, Bytes, BRANCH_OPS
<1>4. Line.args[2] \in Words /\ Line.args[3] \in Words
  <2>1. /\ Len(Line.args) \in Nat /\ DOMAIN Line.args = 1 .. Len(Line.args)
        /\ \A i \in {2, 3} \cap DOMAIN Line.args : Line.args[i] \in Words
    BY <1>1, <1>2, LineFacts, SourceLines
  <2>2. 2 \in {2, 3} \cap DOMAIN Line.args /\ 3 \in {2, 3} \cap DOMAIN Line.args
    BY <1>3, <2>1
  <2> QED
    BY <2>1, <2>2
<1>5. w \in Words /\ op(w) = 5
  <2>1. OPCODES["load"] = 5 /\ 5 \in Bytes /\ 0 \in Bytes /\ 0 \in Nat
    BY Encodings, WordFacts
  <2> HIDE DEF a
  <2> QED
    BY <1>3, <2>1, PackInstr
<1> HIDE DEF w, a
<1>6. words \in Seq(Words) /\ words # <<>> /\ Len(words) = 3 /\ words[1] = w
  BY <1>4, <1>5
<1>7. width(w) = 3 /\ ~isBranch(w)
  BY <1>5, Widths DEF isBranch
<1> HIDE DEF words
<1> QED
  BY <1>1, <1>6, <1>7, EmitStep

LEMMA EmitCallStep ==
  ASSUME AsmInv, EmitCall
  PROVE  AsmInv'
<1> DEFINE i == Line.args[1]
           w == pack_instr(OPCODES["call"], ra(i), rb(i), rc(i))
<1>1. /\ Reading /\ inFunc /\ isInstr({"call"}) /\ Encodable(Line)
      /\ Becomes(emitted(cur, <<w>>))
  BY DEF EmitCall
<1>2. i \in Words
  <2>1. i \in 0 .. BYTE * BYTE * BYTE - 1
    BY <1>1 DEF isInstr, Encodable, BRANCH_OPS
  <2>2. BYTE * BYTE * BYTE =< WORD /\ BYTE * BYTE * BYTE \in Nat
    <3>1. CASE BYTE = 128
      BY <3>1 DEF WORD
    <3>2. CASE BYTE = 256
      BY <3>2 DEF WORD
    <3> QED
      BY <3>1, <3>2, ImageAssumption
  <2> DEFINE b3 == BYTE * BYTE * BYTE
  <2>3. b3 \in Nat /\ b3 =< WORD /\ i \in 0 .. b3 - 1
    BY <2>1, <2>2
  <2> HIDE DEF b3, i
  <2> QED
    BY <2>3, WordFacts DEF Words
<1>3. ra(i) \in Bytes /\ rb(i) \in Bytes /\ rc(i) \in Bytes
  BY <1>2, Fields
<1>4. w \in Words /\ op(w) = 12
  <2>1. OPCODES["call"] = 12 /\ 12 \in Bytes /\ rc(i) \in Nat
    BY <1>3, Encodings, WordFacts
  <2> HIDE DEF i
  <2> QED
    BY <1>3, <2>1, PackInstr
<1> HIDE DEF w
<1>5. width(w) = 1 /\ ~isBranch(w)
  BY <1>4, Widths DEF isBranch
<1>6. <<w>> \in Seq(Words) /\ <<w>> # <<>> /\ Len(<<w>>) = 1 /\ <<w>>[1] = w
  BY <1>4
<1> QED
  BY <1>1, <1>5, <1>6, EmitStep

LEMMA EmitBranchStep ==
  ASSUME AsmInv, EmitBranch
  PROVE  AsmInv'
<1> DEFINE w == pack_instr(OPCODES[Line.mnem], 0, 0, 0)
           words == <<w, 0>>
           x == Line.args[1]
           patch == [offset |-> offset(cur), label |-> x]
           e == emitted(cur, words)
           f == [e EXCEPT !.patches = Append(@, patch)]
<1>1. /\ Reading /\ inFunc /\ isInstr(BRANCH_OPS) /\ Encodable(Line) /\ Becomes(f)
  BY DEF EmitBranch
<1>2. x \in Names /\ Line.mnem \in BRANCH_OPS
  <2>1. isInstr(BRANCH_OPS) /\ Encodable(Line)
    BY <1>1
  <2> HIDE DEF w, words, patch, e, f
  <2>2. Line.mnem \in BRANCH_OPS
    BY <2>1 DEF isInstr
  <2>3. Line.mnem # "call" /\ Line.mnem # "load" /\ Line.mnem # "mov"
    BY <2>2 DEF BRANCH_OPS
  <2> DEFINE l == Line
  <2>4. Encodable(l) /\ l.mnem \in BRANCH_OPS
        /\ l.mnem # "call" /\ l.mnem # "load" /\ l.mnem # "mov"
    BY <2>1, <2>2, <2>3
  <2> HIDE DEF l
  <2>5. l.args[1] \in Names
    BY <2>4 DEF Encodable
  <2> USE DEF l
  <2> QED
    BY <2>2, <2>5
<1>3. w \in Words /\ isBranch(w) /\ width(w) = 2
  <2>1. OPCODES[Line.mnem] \in 8 .. 11
    BY <1>2, Encodings
  <2>2. OPCODES[Line.mnem] \in Bytes /\ 0 \in Bytes /\ 0 \in Nat
    BY <2>1, WordFacts
  <2>3. w \in Words /\ op(w) = OPCODES[Line.mnem]
    BY <2>2, PackInstr
  <2> QED
    BY <2>1, <2>3, Widths
<1> HIDE DEF w
<1>4. words \in Seq(Words) /\ words # <<>> /\ Len(words) = 2 /\ words[1] = w
  BY <1>3, WordFacts
<1> HIDE DEF words
<1>5. /\ e \in Func /\ e.raw = cur.raw \o words /\ e.lines = cur.lines \o marked(words)
      /\ e.labels = cur.labels /\ e.patches = cur.patches
      /\ Len(e.raw) = Len(cur.raw) + 2
  BY <1>1, <1>4, EmittedFunction
<1>6. /\ FuncOK(cur) /\ pos \in Nat \ {0} /\ Len(cur.raw) \in Nat
      /\ cur.patches \in Seq([offset : Nat, label : Names])
  BY <1>1, CurrentFunction, LineFacts
<1>7. patch \in [offset : Nat, label : Names] /\ patch = [offset |-> 4 * Len(cur.raw), label |-> x]
  BY <1>2, <1>6 DEF offset
<1> HIDE DEF e, patch
<1>8. Append(cur.patches, patch) \in Seq([offset : Nat, label : Names])
  BY <1>6, <1>7
<1>9. /\ f \in Func /\ f.raw = e.raw /\ f.lines = e.lines /\ f.labels = e.labels
      /\ f.patches = Append(cur.patches, patch)
  BY <1>5, <1>8 DEF Func
<1> HIDE DEF f
<1>10. FuncOK(f)
  BY <1>2, <1>3, <1>4, <1>5, <1>6, <1>7, <1>9, Grown
<1>11. Len(f.raw) = Len(cur.raw) + 2 /\ 2 \in 0 .. 3
  BY <1>5, <1>9
<1> QED
  BY <1>1, <1>10, <1>11, FunctionReplaced

\* Every step of the assembler keeps the functions it collects in order, and
\* writes nothing but them.
LEMMA AsmStep ==
  ASSUME AsmInv, AsmNext \/ UNCHANGED asmVars
  PROVE  AsmInv'
<1>1. CASE EndFunc
  BY <1>1, FunctionsKept DEF EndFunc
<1>2. CASE Reject
  BY <1>2, FunctionsKept DEF Reject, Reading
<1>3. CASE RejectFile
  BY <1>3, FunctionsKept DEF RejectFile, AtEnd
<1>4. CASE EmitBinary
  <2>1. functions' = functions /\ image' = fileHeader \o funcTable \o code
        /\ \A i \in DOMAIN functions : Defined(functions[i])
    BY <1>4 DEF EmitBinary
  <2>2. fileHeader' = fileHeader /\ funcTable' = funcTable /\ code' = code
    BY <2>1, SameFunctions
  <2>3. \A i \in DOMAIN functions' : Defined(functions'[i])
    BY <2>1
  <2>4. Filed'
    BY <2>1, <2>2, <2>3 DEF Filed
  <2> QED
    BY <1>4, <2>4, FunctionsKept DEF EmitBinary
<1>5. CASE UNCHANGED asmVars
  BY <1>5, FunctionsKept DEF asmVars
<1> QED
  BY <1>1, <1>2, <1>3, <1>4, <1>5, BeginFuncStep, DefineLabelStep, EmitPlainStep, EmitLoadStep,
     EmitCallStep, EmitBranchStep DEF AsmNext

LEMMA MachineStart == MachineInit => AsmInv
<1> SUFFICES ASSUME MachineInit PROVE AsmInv
  OBVIOUS
<1>1. functions = <<>> /\ pos = 1 /\ inFunc = FALSE
  BY DEF MachineInit, AsmInit
<1>2. FuncsOK
  BY <1>1 DEF FuncsOK
<1>3. Room
  <2>1. Len(functions) = 0 /\ rawsBefore(1) = 0
    BY <1>1, <1>2, Bases DEF FuncsOK
  <2> QED
    BY <1>1, <2>1 DEF Room
<1>4. source \in Programs \cup {<<>>}
  BY DEF MachineInit, AsmInit
<1>5. pos \in 1 .. Len(source) + 1
  BY <1>1, <1>4, SourceLines
<1> QED
  BY <1>1, <1>2, <1>3, <1>4, <1>5 DEF MachineInit, AsmInit, AsmInv

\* The VM leaves the assembler's state alone.
VmNext ==
  \/ RejectImage \/ Load \/ Execute \/ Throw \/ Compare \/ LoadIntoReg
  \/ Jump \/ JumpNot \/ Call \/ Ret \/ End \/ InvalidOpcode \/ RunsOff

LEMMA VmKeepsFile == VmNext => UNCHANGED asmVars
  BY DEF VmNext, RejectImage, Load, Execute, Throw, Compare, LoadIntoReg, Jump, JumpNot, Call,
     Ret, End, InvalidOpcode, RunsOff, Stop, Done

LEMMA MachineAsmInv == MachineSpec => []AsmInv
<1>1. AsmInv /\ [MachineNext]_<<asmVars, vmVars>> => AsmInv'
  <2> SUFFICES ASSUME AsmInv, [MachineNext]_<<asmVars, vmVars>> PROVE AsmInv'
    OBVIOUS
  <2>1. AsmNext \/ UNCHANGED asmVars
    BY VmKeepsFile DEF MachineNext, VmNext, Assemble
  <2> QED
    BY <2>1, AsmStep
<1> QED
  BY <1>1, MachineStart, PTL DEF MachineSpec

\* Labels are local: every branch of a written file leads to an instruction of
\* its own function, or to where its code ends.
THEOREM MachineBranchesStayInside == MachineSpec => []BranchesStayInside
<1>1. AsmInv => BranchesStayInside
  <2> SUFFICES ASSUME AsmInv, asm = "written",
                      NEW i \in DOMAIN functions, NEW j \in DOMAIN functions[i].patches
               PROVE  word(base(i) + functions[i].patches[j].offset + 4)
                        \in {a \in Starts(i) \cup {base(i + 1)} : a >= base(i)}
    BY DEF BranchesStayInside
  <2>1. FuncsOK /\ Filed /\ \A k \in DOMAIN functions : Defined(functions[k])
    BY DEF AsmInv, Filed
  <2>2. i \in 1 .. Len(functions) /\ Len(functions[i].raw) \in Nat /\ base(i) \in Nat
    <3>1. /\ DOMAIN functions = 1 .. Len(functions) /\ Len(functions) \in Nat
          /\ \A m \in 1 .. Len(functions) : Len(functions[m].raw) \in Nat
          /\ \A m \in 1 .. Len(functions) + 1 :
               rawsBefore(m) \in Nat /\ base(m) = 32 + 8 * Len(functions) + 4 * rawsBefore(m)
      BY <2>1, Bases DEF FuncsOK
    <3>2. i \in 1 .. Len(functions) /\ i \in 1 .. Len(functions) + 1
      BY <3>1
    <3> QED
      BY <3>1, <3>2
  <2>3. PICK k \in Nat : Patch(functions[i], j, k)
    BY <2>1 DEF FuncsOK, FuncOK, PatchesOK
  <2>4. InstrAt(functions[i], k) /\ isBranch(functions[i].raw[k])
        /\ functions[i].patches[j].offset = 4 * (k - 1)
    BY <2>3 DEF Patch
  <2>5. k + 1 \in 1 .. Len(functions[i].raw)
        /\ \E m \in Nat : Boundary(functions[i], m) /\ patched(i)[k + 1] = at(i, m)
    BY <2>1, <2>2, <2>4, PatchedCode
  <2>6. PICK m \in Nat : Boundary(functions[i], m) /\ patched(i)[k + 1] = at(i, m)
    BY <2>5
  <2>7. word(at(i, k + 1)) = patched(i)[k + 1]
    BY <2>1, <2>2, <2>5, WrittenFile
  <2>8. base(i) + functions[i].patches[j].offset + 4 = at(i, k + 1)
    BY <2>2, <2>4 DEF at
  <2>9. at(i, m) \in Starts(i) \cup {base(i + 1)} /\ at(i, m) >= base(i)
    BY <2>1, <2>2, <2>6, BoundaryLands
  <2> QED
    BY <2>6, <2>7, <2>8, <2>9
<1> QED
  BY <1>1, MachineAsmInv, PTL

(***************************************************************************)
(* Executing a written file.                                               *)
(***************************************************************************)
LEMMA LandingNat ==
  ASSUME FuncsOK
  PROVE  Landing \subseteq Nat
<1>1. /\ Len(functions) \in Nat
      /\ \A i \in 1 .. Len(functions) + 1 :
           rawsBefore(i) \in Nat /\ base(i) = 32 + 8 * Len(functions) + 4 * rawsBefore(i)
  BY Bases DEF FuncsOK
<1>2. \A i \in 1 .. Len(functions) + 1 : base(i) \in Nat
  BY <1>1
<1>3. EndOfCode \in Nat
  BY <1>1, <1>2 DEF EndOfCode
<1>4. ASSUME NEW a \in InstrStarts PROVE a \in Nat
  <2>1. PICK i \in 1 .. Len(functions), k \in Nat : InstrAt(functions[i], k) /\ a = at(i, k)
    BY StartIsInstr
  <2>2. k - 1 \in Nat /\ base(i) \in Nat
    <3>1. i \in 1 .. Len(functions) + 1
      BY <1>1
    <3>2. k \in 1 .. Len(functions[i].raw)
      BY <2>1 DEF InstrAt
    <3>3. Len(functions[i].raw) \in Nat
      BY Bases DEF FuncsOK
    <3> QED
      BY <1>2, <3>1, <3>2, <3>3
  <2> QED
    BY <2>1, <2>2 DEF at
<1> QED
  BY <1>3, <1>4 DEF Landing

\* The word 0, the magic number, is no instruction: a call of a function that
\* was never declared stops there.
LEMMA MagicIsNoInstr == op(SPROUT_LANG_MAGIC) = 83
<1>1. 83 \in Bytes /\ 80 \in Bytes /\ 82 \in Bytes /\ 84 \in Bytes
  BY WordFacts
<1>2. SPROUT_LANG_MAGIC = packed(83, 80, 82, 84)
  BY DEF SPROUT_LANG_MAGIC, packed
<1> QED
  BY <1>1, <1>2, Packed

\* Where control lands and a word can be decoded, an emitted instruction is.
LEMMA LandsOnInstr ==
  ASSUME FuncsOK, Filed, NEW a \in Landing, Inside(a), op(word(a)) < Len(Opcode)
  PROVE  \E i \in 1 .. Len(functions), k \in Nat :
           /\ InstrAt(functions[i], k)
           /\ a = at(i, k)
           /\ word(a) = functions[i].raw[k]
           /\ word(a) \in Words
<1>1. a # EndOfCode
  BY WrittenFile
<1>2. a # 0
  <2>1. SUFFICES ASSUME a = 0 PROVE FALSE
    OBVIOUS
  <2>2. op(word(0)) = 83
    BY WrittenFile, MagicIsNoInstr
  <2>3. Len(Opcode) = 22
    BY DEF Opcode
  <2> QED
    BY <2>1, <2>2, <2>3
<1>3. PICK i \in 1 .. Len(functions), k \in Nat : InstrAt(functions[i], k) /\ a = at(i, k)
  BY <1>1, <1>2, StartIsInstr DEF Landing
<1>4. k \in 1 .. Len(functions[i].raw) /\ functions[i].raw \in Seq(Words)
  BY <1>3, Bases DEF InstrAt, FuncsOK
<1>5. word(a) = patched(i)[k]
  BY <1>3, <1>4, WrittenFile
<1>6. \A j \in DOMAIN functions : Defined(functions[j])
  BY DEF Filed
<1>7. patched(i)[k] = functions[i].raw[k]
  BY <1>3, <1>6, PatchedCode
<1>8. functions[i].raw[k] \in Words
  BY <1>4
<1> QED
  BY <1>3, <1>5, <1>7, <1>8

\* From there control lands again: behind the instruction and its operands,
\* and at the target of a branch.
LEMMA LandsAgain ==
  ASSUME FuncsOK, Filed, NEW a \in Landing, Inside(a), op(word(a)) < Len(Opcode)
  PROVE  /\ word(a) \in Words
         /\ a \in Nat /\ a + 4 * width(word(a)) \in Landing
         /\ isBranch(word(a)) => word(a + 4) \in Landing
<1>1. PICK i \in 1 .. Len(functions), k \in Nat :
        /\ InstrAt(functions[i], k) /\ a = at(i, k)
        /\ word(a) = functions[i].raw[k] /\ word(a) \in Words
  BY LandsOnInstr
<1> DEFINE f == functions[i]
           w == word(a)
<1>2. CodeOK(f) /\ \A j \in DOMAIN functions : Defined(functions[j])
  <2>1. DOMAIN functions = 1 .. Len(functions)
    BY Bases DEF FuncsOK
  <2> QED
    BY <2>1 DEF FuncsOK, FuncOK, Filed
<1>3. width(w) \in 1 .. 3 /\ a \in Nat /\ base(i) \in Nat
  <2>1. i \in 1 .. Len(functions) + 1
    BY Bases DEF FuncsOK
  <2>2. base(i) \in Nat
    <3>1. rawsBefore(i) \in Nat /\ base(i) = 32 + 8 * Len(functions) + 4 * rawsBefore(i)
          /\ Len(functions) \in Nat
      BY <2>1, Bases DEF FuncsOK
    <3> QED
      BY <3>1
  <2> QED
    BY <1>1, <2>2, Widths, LandingNat
<1>4. Boundary(f, k + width(w)) /\ k + width(w) \in Nat
  BY <1>1, <1>2, <1>3 DEF CodeOK
<1>5. a + 4 * width(w) \in Landing
  <2>1. at(i, k + width(w)) = at(i, k) + 4 * width(w)
    BY <1>3 DEF at
  <2>2. at(i, k + width(w)) \in Landing
    BY <1>4, BoundaryLands
  <2> QED
    BY <1>1, <2>1, <2>2
<1>6. ASSUME isBranch(w) PROVE word(a + 4) \in Landing
  <2>1. /\ k + 1 \in 1 .. Len(f.raw)
        /\ \E m \in Nat : Boundary(f, m) /\ patched(i)[k + 1] = at(i, m)
    BY <1>1, <1>2, <1>6, PatchedCode
  <2>2. PICK m \in Nat : Boundary(f, m) /\ patched(i)[k + 1] = at(i, m)
    BY <2>1
  <2>3. at(i, k + 1) = a + 4
    BY <1>1, <1>3 DEF at
  <2>4. word(a + 4) = patched(i)[k + 1]
    BY <2>1, <2>3, WrittenFile
  <2>5. at(i, m) \in Landing
    BY <2>2, BoundaryLands
  <2> QED
    BY <2>2, <2>4, <2>5
<1> QED
  BY <1>1, <1>3, <1>5, <1>6

\* Every entry of the table the loader fills, and its entry point, is where
\* control may go.
LEMMA LoadedLands ==
  ASSUME FuncsOK, Filed
  PROVE  /\ word(28) \in Landing
         /\ \A i \in 0 .. FUNCTION_TABLE_SIZE - 1 : loadedTable[i].entryIP \in Landing
<1>1. /\ functionCount = Len(functions) /\ functionOffset = 32 /\ word(28) = base(1)
      /\ \A i \in 1 .. Len(functions) : word(24 + 8 * i) = base(i)
      /\ Len(functions) \in Nat
  BY WrittenFile, Bases DEF FuncsOK
<1>2. \A i \in 1 .. Len(functions) + 1 : base(i) \in Landing
  BY BaseLands DEF Landing
<1>3. word(28) \in Landing
  BY <1>1, <1>2
<1>4. ASSUME NEW i \in 0 .. FUNCTION_TABLE_SIZE - 1 PROVE loadedTable[i].entryIP \in Landing
  <2>1. FUNCTION_TABLE_SIZE \in Nat /\ i \in Nat
    BY ImageAssumption
  <2>2. CASE i < functionCount
    <3>1. loadedTable[i].entryIP = word(entryAt(i))
      BY <2>2 DEF loadedTable
    <3>2. entryAt(i) = 24 + 8 * (i + 1)
      BY <1>1, <2>1 DEF entryAt, FUNC_ENTRY_SIZE
    <3>3. i + 1 \in 1 .. Len(functions) /\ i + 1 \in 1 .. Len(functions) + 1
      BY <1>1, <2>1, <2>2
    <3> QED
      BY <1>1, <1>2, <3>1, <3>2, <3>3
  <2>3. CASE ~(i < functionCount)
    BY <2>3 DEF loadedTable, Landing
  <2> QED
    BY <2>2, <2>3
<1> QED
  BY <1>3, <1>4

\* A file no assembler wrote.
Foreign == functions = <<>> /\ image \in Files

\* While the VM runs a written file, its table is the one loaded from it, and
\* the instruction pointer and the saved ones are where control may go.
LandInv ==
  /\ asm # "written" => vm = "off"
  /\ vm = "off" => returns = <<>>
  /\ vm = "running" /\ ~Foreign =>
       /\ functionTable = loadedTable
       /\ ip \in Landing
       /\ returns \in Seq(Landing)

LEMMA SameFile ==
  ASSUME UNCHANGED asmVars
  PROVE  /\ Landing' = Landing /\ Foreign' = Foreign
         /\ loadedTable' = loadedTable
<1>1. functions' = functions /\ image' = image
  BY DEF asmVars
<1>2. (Len(functions))' = Len(functions) /\ \A i : base(i)' = base(i)
  BY <1>1, SameFunctions
<1>3. EndOfCode' = EndOfCode
  BY <1>1, <1>2 DEF EndOfCode
<1>4. ASSUME NEW i PROVE Starts(i)' = Starts(i)
  BY <1>1, <1>2 DEF Starts
<1>5. InstrStarts' = InstrStarts
  BY <1>1, <1>4 DEF InstrStarts
<1>6. \A a : word(a)' = word(a)
  BY <1>1 DEF word
<1>7. functionCount' = functionCount /\ \A i : entryAt(i)' = entryAt(i)
  BY <1>6 DEF functionCount, entryAt, functionOffset
<1>8. \A i : /\ word(entryAt(i))' = word(entryAt(i))
             /\ word(entryAt(i) + 4)' = word(entryAt(i) + 4)
  BY <1>6, <1>7
<1>9. loadedTable' = loadedTable
  BY <1>7, <1>8 DEF loadedTable
<1> QED
  BY <1>1, <1>3, <1>5, <1>9 DEF Landing, Foreign

\* The instruction executed is the one the opcode says.
LEMMA FetchedFacts ==
  ASSUME NEW mnems, Fetched(mnems), FuncsOK, Filed, ip \in Landing
  PROVE  /\ instr \in Words /\ ip \in Nat /\ mnem \in mnems
         /\ mnem = "load" => ip + 12 \in Landing
         /\ mnem \in BRANCH_OPS => ip + 8 \in Landing /\ word(ip + 4) \in Landing
         /\ mnem # "load" /\ mnem \notin BRANCH_OPS => ip + 4 \in Landing
<1>1. /\ instr \in Words /\ ip \in Nat /\ ip + 4 * width(instr) \in Landing
      /\ isBranch(instr) => word(ip + 4) \in Landing
      /\ mnem \in mnems /\ op(instr) < Len(Opcode)
  <2>1. Inside(ip) /\ op(word(ip)) < Len(Opcode) /\ mnem \in mnems
    BY DEF Fetched, opcode, instr
  <2> QED
    BY <2>1, LandsAgain DEF instr
<1>2. op(instr) \in Nat
  BY <1>1, Widths
<1>3. /\ mnem = "load" <=> op(instr) = 5
      /\ mnem \in BRANCH_OPS <=> op(instr) \in 8 .. 11
  BY <1>1, <1>2, Decodings DEF mnem, opcode
<1> DEFINE w == instr
<1> HIDE DEF w
<1>4. /\ op(instr) = 5 => width(instr) = 3
      /\ op(instr) \in 8 .. 11 => width(instr) = 2 /\ isBranch(instr)
      /\ op(instr) # 5 /\ op(instr) \notin 8 .. 11 => width(instr) = 1
  BY <1>1, Widths
<1>5. mnem = "load" => ip + 12 \in Landing
  BY <1>1, <1>3, <1>4
<1>6. mnem \in BRANCH_OPS => ip + 8 \in Landing /\ word(ip + 4) \in Landing
  BY <1>1, <1>3, <1>4
<1>7. mnem # "load" /\ mnem \notin BRANCH_OPS => ip + 4 \in Landing
  BY <1>1, <1>3, <1>4
<1> QED
  BY <1>1, <1>5, <1>6, <1>7

LEMMA LandNext ==
  ASSUME AsmInv, LandInv, vm = "running", ~Foreign, VmNext
  PROVE  LandInv'
<1>1. UNCHANGED asmVars
  BY VmKeepsFile
<1>2. /\ asm' = "written" /\ vm' # "off"
  <2>1. asm = "written"
    BY DEF LandInv
  <2>2. asm' = asm
    BY <1>1 DEF asmVars
  <2>3. vm' # "off"
    BY DEF VmNext, RejectImage, Load, Ready, Execute, Throw, Compare, LoadIntoReg, Jump, JumpNot,
           Call, Ret, End, InvalidOpcode, RunsOff, Stop, Done
  <2> QED
    BY <2>1, <2>2, <2>3
<1>3. FuncsOK /\ Filed /\ ip \in Landing /\ returns \in Seq(Landing)
      /\ functionTable = loadedTable
  BY DEF AsmInv, LandInv, Foreign
<1>4. SUFFICES ASSUME vm' = "running"
               PROVE  functionTable' = loadedTable /\ ip' \in Landing /\ returns' \in Seq(Landing)
  BY <1>1, <1>2, SameFile DEF LandInv
<1>5. CASE Execute
  <2>1. Fetched(DataOps \cup MathOps) /\ ip' = ip + 4 /\ functionTable' = functionTable
        /\ returns' = returns
    BY <1>5 DEF Execute, Done, Keep
  <2>2. mnem # "load" /\ mnem \notin BRANCH_OPS
    BY <2>1 DEF Fetched, DataOps, MathOps, BRANCH_OPS
  <2> QED
    BY <1>3, <2>1, <2>2, FetchedFacts
<1>6. CASE Compare
  <2>1. Fetched({"cmp"}) /\ ip' = ip + 4 /\ functionTable' = functionTable /\ returns' = returns
    BY <1>6 DEF Compare, Done
  <2>2. mnem # "load" /\ mnem \notin BRANCH_OPS
    BY <2>1 DEF Fetched, BRANCH_OPS
  <2> QED
    BY <1>3, <2>1, <2>2, FetchedFacts
<1>7. CASE LoadIntoReg
  <2>1. Fetched({"load"}) /\ ip' = ip + 12 /\ functionTable' = functionTable
        /\ returns' = returns
    BY <1>4, <1>7 DEF LoadIntoReg, Stop, Done, Keep
  <2>2. mnem = "load"
    BY <2>1 DEF Fetched
  <2> QED
    BY <1>3, <2>1, <2>2, FetchedFacts
<1>8. CASE Jump
  <2>1. Fetched(BRANCH_OPS) /\ ip' = word(ip + 4) /\ functionTable' = functionTable
        /\ returns' = returns
    BY <1>4, <1>8 DEF Jump, Stop, Done, Keep
  <2>2. mnem \in BRANCH_OPS
    BY <2>1 DEF Fetched
  <2> QED
    BY <1>3, <2>1, <2>2, FetchedFacts
<1>9. CASE JumpNot
  <2>1. Fetched(BRANCH_OPS) /\ ip' = ip + 8 /\ functionTable' = functionTable
        /\ returns' = returns
    BY <1>9 DEF JumpNot, Done, Keep
  <2>2. mnem \in BRANCH_OPS
    BY <2>1 DEF Fetched
  <2> QED
    BY <1>3, <2>1, <2>2, FetchedFacts
<1>10. CASE Call
  <2> DEFINE index == (ra(instr) * BYTE + rb(instr)) * BYTE + rc(instr)
  <2>1. Fetched({"call"}) /\ ~(index >= FUNCTION_TABLE_SIZE)
        /\ returns' = Append(returns, ip + 4) /\ ip' = functionTable[index].entryIP
        /\ functionTable' = functionTable
    BY <1>4, <1>10 DEF Call, Stop, Done
  <2>2. mnem # "load" /\ mnem \notin BRANCH_OPS
    BY <2>1 DEF Fetched, BRANCH_OPS
  <2>3. instr \in Words /\ ip + 4 \in Landing
    BY <1>3, <2>1, <2>2, FetchedFacts
  <2>4. index \in Nat
    <3>1. ra(instr) \in Nat /\ rb(instr) \in Nat /\ rc(instr) \in Nat /\ BYTE \in Nat
      BY <2>3, Fields, WordFacts
    <3>2. \A x, y, z, b \in Nat : (x * b + y) * b + z \in Nat
      OBVIOUS
    <3> QED
      BY <3>1, <3>2
  <2> HIDE DEF index
  <2>5. index \in 0 .. FUNCTION_TABLE_SIZE - 1
    BY <2>1, <2>4, ImageAssumption
  <2>6. functionTable[index].entryIP \in Landing
    BY <1>3, <2>5, LoadedLands
  <2>7. Append(returns, ip + 4) \in Seq(Landing)
    BY <1>3, <2>3
  <2> QED
    BY <1>3, <2>1, <2>6, <2>7
<1>11. CASE Ret
  <2>1. returns # <<>> /\ ip' = Last(returns) /\ returns' = Front(returns)
        /\ functionTable' = functionTable
    BY <1>4, <1>11 DEF Ret, Stop, Done
  <2>2. Len(returns) \in Nat \ {0}
    BY <1>3, <2>1
  <2>3. Last(returns) \in Landing
    BY <1>3, <2>2 DEF Last
  <2>4. Front(returns) \in Seq(Landing)
    BY <1>3, <2>2 DEF Front
  <2> QED
    BY <1>3, <2>1, <2>3, <2>4
<1>12. CASE RejectImage \/ Load \/ Throw \/ End \/ InvalidOpcode \/ RunsOff
  BY <1>4, <1>12 DEF RejectImage, Load, Ready, Throw, End, InvalidOpcode, RunsOff, Stop
<1> QED
  BY <1>5, <1>6, <1>7, <1>8, <1>9, <1>10, <1>11, <1>12 DEF VmNext

LEMMA LandInvStep ==
  ASSUME AsmInv, LandInv, [MachineNext]_<<asmVars, vmVars>>
  PROVE  LandInv'
<1>1. CASE Assemble
  <2>1. asm = "reading" /\ UNCHANGED vmVars
    BY <1>1 DEF Assemble, AsmNext, BeginFunc, EndFunc, DefineLabel, EmitPlain, EmitLoad,
       EmitBranch, EmitCall, Reject, EmitBinary, RejectFile, Reading, AtEnd
  <2>2. vm = "off" /\ returns = <<>>
    BY <2>1 DEF LandInv
  <2> QED
    BY <2>1, <2>2 DEF LandInv, vmVars
<1>2. CASE UNCHANGED <<asmVars, vmVars>>
  <2>1. UNCHANGED asmVars
    BY <1>2
  <2>2. UNCHANGED vmVars
    BY <1>2
  <2>3. asm' = asm /\ vm' = vm /\ ip' = ip /\ functionTable' = functionTable
        /\ returns' = returns
    BY <2>1, <2>2 DEF asmVars, vmVars
  <2> QED
    BY <2>1, <2>3, SameFile DEF LandInv
<1>3. CASE VmNext /\ vm = "running" /\ ~Foreign
  BY <1>3, LandNext
<1>4. CASE VmNext /\ vm = "running" /\ Foreign
  <2>1. UNCHANGED asmVars /\ vm' # "off"
    BY <1>4, VmKeepsFile
       DEF VmNext, RejectImage, Load, Ready, Execute, Throw, Compare, LoadIntoReg, Jump, JumpNot,
           Call, Ret, End, InvalidOpcode, RunsOff, Stop, Done
  <2>2. Foreign' /\ asm' = asm /\ asm = "written"
    BY <1>4, <2>1, SameFile DEF LandInv, asmVars
  <2> QED
    BY <2>1, <2>2 DEF LandInv
<1>5. CASE VmNext /\ vm # "running"
  <2>1. UNCHANGED asmVars
    BY <1>5, VmKeepsFile
  <2>2. Ready /\ (Load \/ RejectImage)
    BY <1>5 DEF VmNext, RejectImage, Load, Execute, Throw, Compare, LoadIntoReg, Jump,
                JumpNot, Call, Ret, End, InvalidOpcode, RunsOff, Fetched, Running
  <2>3. asm' = "written" /\ returns = <<>>
    BY <2>1, <2>2 DEF Ready, asmVars, LandInv
  <2>4. CASE vm' # "running"
    <3>1. vm' # "off"
      BY <2>2 DEF Load, RejectImage, Stop
    <3> QED
      BY <2>3, <2>4, <3>1 DEF LandInv
  <2>5. CASE vm' = "running"
    <3>1. functionTable' = loadedTable /\ ip' = word(28) /\ returns' = <<>>
      BY <2>2, <2>3, <2>5 DEF Load, RejectImage, Stop
    <3>2. ASSUME ~Foreign PROVE ip' \in Landing
      <4>1. FuncsOK /\ Filed
        BY <2>2, <3>2 DEF AsmInv, Foreign, Ready
      <4> QED
        BY <3>1, <4>1, LoadedLands
    <3>3. returns' \in Seq(Landing)
      BY <3>1
    <3> QED
      BY <2>1, <2>3, <2>5, <3>1, <3>2, <3>3, SameFile DEF LandInv
  <2> QED
    BY <2>4, <2>5
<1> QED
  BY <1>1, <1>2, <1>3, <1>4, <1>5 DEF MachineNext, VmNext

LEMMA MachineLands == MachineSpec => [](AsmInv /\ LandInv)
<1>1. MachineInit => LandInv
  BY DEF MachineInit, LandInv
<1>2. AsmInv /\ LandInv /\ [MachineNext]_<<asmVars, vmVars>> => LandInv'
  BY LandInvStep
<1> QED
  BY <1>1, <1>2, MachineAsmInv, PTL DEF MachineSpec

\* The instruction pointer, and every saved one, is the address of an emitted
\* instruction, the end of the code, or 0, whenever the VM runs a file the
\* assembler wrote; of a file it did not write nothing is said.
THEOREM MachineNeverInOperand == MachineSpec => [](Foreign \/ NeverInOperand)
<1>1. LandInv => Foreign \/ NeverInOperand
  <2> SUFFICES ASSUME LandInv, ~Foreign, vm = "running"
               PROVE  {ip} \cup {returns[k] : k \in DOMAIN returns} \subseteq Landing
    BY DEF NeverInOperand, Landing
  <2>1. ip \in Landing /\ returns \in Seq(Landing)
    BY DEF LandInv
  <2>2. \A k \in DOMAIN returns : returns[k] \in Landing
    BY <2>1
  <2> QED
    BY <2>1, <2>2
<1> QED
  BY <1>1, MachineLands, PTL

\* No file but the assembler's has the header of a Sprout file.
OnlyOurs ==
  \A f \in Files : 4 * Len(f) >= HEADER_SIZE =>
    f[1] # SPROUT_LANG_MAGIC \/ f[2] # SPROUT_LANG_VERSION

\* Then what the VM runs is the assembler's, and its table holds every
\* function; before, nothing has moved.
Accepted ==
  /\ vm = "off" => ip = 0
  /\ vm = "running" => ~Foreign /\ ~Overflows

LEMMA MachineAccepts ==
  ASSUME OnlyOurs
  PROVE  MachineSpec => []Accepted
<1>1. MachineInit => Accepted
  BY DEF MachineInit, Accepted
<1>2. AsmInv /\ LandInv /\ Accepted /\ [MachineNext]_<<asmVars, vmVars>> => Accepted'
  <2> SUFFICES ASSUME LandInv, Accepted, [MachineNext]_<<asmVars, vmVars>>
               PROVE  Accepted'
    OBVIOUS
  <2>1. CASE Assemble
    <3>1. asm = "reading" /\ vm' = vm /\ ip' = ip
      BY <2>1 DEF Assemble, AsmNext, BeginFunc, EndFunc, DefineLabel, EmitPlain, EmitLoad,
         EmitBranch, EmitCall, Reject, EmitBinary, RejectFile, Reading, AtEnd, vmVars
    <3> QED
      BY <3>1 DEF LandInv, Accepted
  <2>2. ASSUME UNCHANGED asmVars PROVE Foreign' = Foreign /\ Overflows' = Overflows
    <3>1. image' = image
      BY <2>2 DEF asmVars
    <3> QED
      BY <2>2, <3>1, SameFile DEF Overflows, functionCount, word
  <2>3. CASE UNCHANGED <<asmVars, vmVars>>
    <3>1. UNCHANGED asmVars /\ vm' = vm /\ ip' = ip
      BY <2>3 DEF vmVars
    <3> QED
      BY <2>2, <3>1 DEF Accepted
  <2>4. CASE VmNext
    <3>1. UNCHANGED asmVars /\ vm' # "off"
      BY <2>4, VmKeepsFile
         DEF VmNext, RejectImage, Load, Ready, Execute, Throw, Compare, LoadIntoReg, Jump, JumpNot,
             Call, Ret, End, InvalidOpcode, RunsOff, Stop, Done, Fetched, Running
    <3>2. CASE vm = "running"
      BY <2>2, <3>1, <3>2 DEF Accepted
    <3>3. CASE vm # "running" /\ vm' = "running"
      <4>1. Load /\ ~Overflows
        BY <2>4, <3>3 DEF VmNext, RejectImage, Load, Execute, Throw, Compare, LoadIntoReg, Jump,
              JumpNot, Call, Ret, End, InvalidOpcode, RunsOff, Fetched, Running, Stop
      <4>2. GoodHeader
        BY <4>1 DEF Load
      <4>3. image \notin Files
        <5>1. word(0) = image[1] /\ word(4) = image[2]
          BY DEF word
        <5> QED
          BY <4>2, <5>1 DEF GoodHeader, OnlyOurs
      <4> QED
        BY <2>2, <3>1, <4>1, <4>3 DEF Foreign, Accepted
    <3> QED
      BY <3>1, <3>2, <3>3 DEF Accepted
  <2> QED
    BY <2>1, <2>3, <2>4 DEF MachineNext, VmNext
<1> QED
  BY <1>1, <1>2, MachineLands, PTL DEF MachineSpec

\* Hence always, when no other file has the header of a Sprout file: such
\* files are turned away before the first instruction.
COROLLARY MachineOnlyAssembled ==
  ASSUME OnlyOurs
  PROVE  MachineSpec => []NeverInOperand
<1>1. Accepted /\ (Foreign \/ NeverInOperand) => NeverInOperand
  BY DEF Accepted, NeverInOperand
<1> QED
  BY <1>1, MachineAccepts, MachineNeverInOperand, PTL

(***************************************************************************)
(* Types.                                                                  *)
(***************************************************************************)
\* The file of a source line holds at most three words, or a table entry: a
\* source whose file ends below 2^32 is assembled into words.
LEMMA ImageWords ==
  ASSUME \A p \in Programs : HEADER_SIZE + 12 * Len(p) < WORD, Files \subseteq Seq(Words), AsmInv
  PROVE  image \in Seq(Words)
<1> DEFINE n == Len(functions)
<1>1. CASE asm # "written" \/ (functions = <<>> /\ image \in Files)
  <2>1. <<>> \in Seq(Words)
    OBVIOUS
  <2> QED
    BY <1>1, <2>1 DEF AsmInv
<1>2. CASE Filed
  <2>1. /\ FuncsOK /\ n \in Nat /\ DOMAIN functions = 1 .. n
        /\ \A i \in 1 .. n : functions[i].raw \in Seq(Words) /\ Len(functions[i].raw) \in Nat
        /\ \A i \in 1 .. n + 1 :
             /\ rawsBefore(i) \in Nat
             /\ base(i) = 32 + 8 * n + 4 * rawsBefore(i)
             /\ rawsBefore(i) =< rawsBefore(n + 1)
        /\ \A i \in 1 .. n : rawsBefore(i + 1) = rawsBefore(i) + Len(functions[i].raw)
    BY Bases DEF AsmInv, FuncsOK
  <2> DEFINE all == rawsBefore(n + 1)
  <2>2. /\ all \in Nat /\ 32 + 8 * n + 4 * all < WORD /\ 32 < WORD /\ WORD \in Nat
    <3>1. pos \in Nat /\ Len(source) \in Nat /\ pos - 1 =< Len(source)
      BY SourceLines DEF AsmInv
    <3>2. 8 * n + 4 * all =< 12 * (pos - 1)
      BY DEF AsmInv, Room
    <3>3. 32 + 12 * Len(source) < WORD
      <4>1. CASE source \in Programs
        BY <4>1 DEF HEADER_SIZE
      <4>2. CASE source = <<>>
        <5>1. CASE BYTE = 128
          BY <4>2, <5>1 DEF WORD
        <5>2. CASE BYTE = 256
          BY <4>2, <5>2 DEF WORD
        <5> QED
          BY <5>1, <5>2, ImageAssumption
      <4> QED
        BY <4>1, <4>2 DEF AsmInv
    <3>4. n \in Nat /\ all \in Nat /\ WORD \in Nat
      <4>1. n \in Nat /\ n + 1 \in 1 .. n + 1
        BY <2>1
      <4> HIDE DEF n
      <4> QED
        BY <2>1, <4>1, WordFacts
    <3> HIDE DEF n, all
    <3> QED
      BY <3>1, <3>2, <3>3, <3>4
  <2>3. \A i \in 1 .. n + 1 : base(i) \in Words /\ base(i) =< 32 + 8 * n + 4 * all
    <3> HIDE DEF n
    <3> QED
      BY <2>1, <2>2 DEF Words
  <2>4. fileHeader \in Seq(Words)
    <3>1. SPROUT_LANG_MAGIC \in Words
      <4>1. 83 \in Bytes /\ 80 \in Bytes /\ 82 \in Bytes /\ 84 \in Bytes
        BY WordFacts
      <4>2. SPROUT_LANG_MAGIC = packed(83, 80, 82, 84)
        BY DEF SPROUT_LANG_MAGIC, packed
      <4> QED
        BY <4>1, <4>2, Packed
    <3>2. n \in Words /\ 0 \in Words /\ 1 \in Words /\ 32 \in Words
      BY <2>1, <2>2 DEF Words
    <3>3. codeOffset \in Words
      <4>1. codeOffset = 32 + 8 * n
        BY DEF codeOffset, HEADER_SIZE, FUNC_ENTRY_SIZE
      <4> HIDE DEF n
      <4> QED
        BY <2>1, <2>2, <4>1 DEF Words
    <3> QED
      BY <3>1, <3>2, <3>3 DEF fileHeader, SPROUT_LANG_VERSION, HEADER_SIZE
  <2>5. tables \in Seq(Seq(Words))
    <3>1. ASSUME NEW i \in 1 .. n PROVE <<base(i), functions[i].frameSize>> \in Seq(Words)
      <4>1. base(i) \in Words
        BY <2>1, <2>3
      <4>2. functions[i].frameSize \in Words
        BY <2>1 DEF FuncsOK, FuncOK, Func
      <4> QED
        BY <4>1, <4>2
    <3>2. tables \in [1 .. n -> Seq(Words)]
      BY <2>1, <3>1 DEF tables
    <3> QED
      BY <2>1, <3>2, FunctionIsSeq
  <2>6. codes \in Seq(Seq(Words))
    <3>1. ASSUME NEW i \in 1 .. n PROVE patched(i) \in Seq(Words)
      <4> DEFINE l == Len(functions[i].raw)
      <4>1. /\ l \in Nat /\ i \in 1 .. n + 1 /\ i + 1 \in 1 .. n + 1
            /\ base(i) \in Nat /\ base(i + 1) = base(i) + 4 * l
            /\ base(i + 1) =< 32 + 8 * n + 4 * all
        <5>1. /\ l \in Nat /\ i \in 1 .. n + 1 /\ i + 1 \in 1 .. n + 1 /\ rawsBefore(i) \in Nat
              /\ rawsBefore(i + 1) = rawsBefore(i) + l
          BY <2>1
        <5>2. base(i) = 32 + 8 * n + 4 * rawsBefore(i)
              /\ base(i + 1) = 32 + 8 * n + 4 * rawsBefore(i + 1)
          BY <2>1, <5>1
        <5>3. base(i + 1) =< 32 + 8 * n + 4 * all
          BY <2>3, <5>1
        <5>4. n \in Nat
          BY <2>1
        <5>5. \A r \in Nat, k \in Nat :
                /\ 32 + 8 * n + 4 * r \in Nat
                /\ 32 + 8 * n + 4 * (r + k) = (32 + 8 * n + 4 * r) + 4 * k
          <6> HIDE DEF n
          <6> QED
            BY <5>4
        <5>6. base(i) \in Nat /\ base(i + 1) = base(i) + 4 * l
          <6> HIDE DEF n, l
          <6> QED
            BY <5>1, <5>2, <5>5
        <5> QED
          BY <5>1, <5>3, <5>6
      <4>2. \A k \in DOMAIN functions : Defined(functions[k])
        BY <1>2 DEF Filed
      <4>3. /\ patched(i) \in [1 .. l -> Nat]
            /\ \A w \in 1 .. l :
                 \/ patched(i)[w] = functions[i].raw[w]
                 \/ \E m \in Nat : Boundary(functions[i], m) /\ patched(i)[w] = at(i, m)
        BY <2>1, <4>2, PatchedCode
      <4>4. ASSUME NEW m \in Nat, Boundary(functions[i], m) PROVE at(i, m) \in Words
        <5>1. m \in 1 .. l + 1
          BY <4>1, <4>4 DEF Boundary, InstrAt
        <5>2. at(i, m) = base(i) + 4 * (m - 1)
          BY DEF at
        <5>3. n \in Nat
          BY <2>1
        <5> HIDE DEF l, n, all
        <5>4. at(i, m) \in Nat /\ at(i, m) =< base(i + 1)
          BY <4>1, <5>1, <5>2
        <5>5. base(i + 1) \in Nat /\ base(i + 1) < WORD
          BY <2>2, <4>1, <5>3
        <5> QED
          BY <2>2, <5>4, <5>5 DEF Words
      <4>5. ASSUME NEW w \in 1 .. l PROVE patched(i)[w] \in Words
        <5>1. CASE patched(i)[w] = functions[i].raw[w]
          <6>1. functions[i].raw \in Seq(Words)
            BY <2>1
          <6> QED
            BY <5>1, <6>1
        <5>2. CASE \E m \in Nat : Boundary(functions[i], m) /\ patched(i)[w] = at(i, m)
          BY <4>4, <5>2
        <5> QED
          BY <4>3, <5>1, <5>2
      <4>6. patched(i) \in [1 .. l -> Words]
        BY <4>3, <4>5
      <4> QED
        BY <4>1, <4>6, FunctionIsSeq
    <3>2. codes \in [1 .. n -> Seq(Words)]
      BY <2>1, <3>1 DEF codes
    <3> QED
      BY <2>1, <3>2, FunctionIsSeq
  <2> QED
    BY <1>2, <2>1, <2>4, <2>5, <2>6, FilePlaces DEF FuncsOK, Filed
<1> QED
  BY <1>1, <1>2 DEF AsmInv

\* The bytes between two words make a word.
LEMMA BetweenWords ==
  ASSUME NEW v \in Words, NEW w \in Words, NEW n \in 1 .. 3
  PROVE  between(v, w, n) \in Words
<1>1. \/ BYTE = 128 /\ WORD = 268435456
      \/ BYTE = 256 /\ WORD = 4294967296
  BY ImageAssumption DEF WORD
<1>2. v \in 0 .. WORD - 1 /\ w \in 0 .. WORD - 1
  BY DEF Words
<1>3. n = 1 \/ n = 2 \/ n = 3
  OBVIOUS
<1>4. /\ shift(1) = BYTE /\ shift(2) = BYTE * BYTE /\ shift(3) = BYTE * BYTE * BYTE
      /\ 4 - 1 = 3 /\ 4 - 2 = 2 /\ 4 - 3 = 1
  BY DEF shift
<1>5. CASE n = 1
  BY <1>1, <1>2, <1>4, <1>5 DEF between, Words
<1>6. CASE n = 2
  BY <1>1, <1>2, <1>4, <1>6 DEF between, Words
<1>7. CASE n = 3
  BY <1>1, <1>2, <1>4, <1>7 DEF between, Words
<1> QED
  BY <1>3, <1>5, <1>6, <1>7

LEMMA WordTyped ==
  ASSUME image \in Seq(Words), NEW a \in Nat, Inside(a)
  PROVE  word(a) \in Words /\ word(a) \in Nat
<1> DEFINE k == a \div 4 + 1
<1>1. k \in 1 .. Len(image) /\ (a % 4 # 0 => k + 1 \in 1 .. Len(image) /\ a % 4 \in 1 .. 3)
  BY DEF Inside
<1>2. image[k] \in Words /\ (a % 4 # 0 => image[k + 1] \in Words)
  BY <1>1
<1> HIDE DEF k
<1>3. word(a) \in Words
  <2>1. CASE a % 4 = 0
    BY <1>2, <2>1 DEF word, k
  <2>2. CASE a % 4 # 0
    BY <1>1, <1>2, <2>2, BetweenWords DEF word, k
  <2> QED
    BY <2>1, <2>2
<1> QED
  BY <1>3, WordFacts

\* The VM's own state; of its table, what a call uses as an address.
VmTyped ==
  /\ asm # "written" => vm = "off"
  /\ vm \in {"off", "running", "halted", "threw", "wild"}
  /\ ip \in Nat
  /\ jmpFlag \in {-1, 0, 1, 2}
  /\ returns \in Seq(Nat)
  /\ vm = "running" => \A i \in 0 .. FUNCTION_TABLE_SIZE - 1 : functionTable[i].entryIP \in Nat

\* The least of a set is its minimum, here and for the source program.
LEMMA LeastIs ==
  ASSUME NEW S, S \subseteq Int, NEW m \in S, \A n \in S : m =< n
  PROVE  Min(S) = m /\ Program!Min(S) = m
<1>1. \A x \in S : (\A y \in S : x =< y) => x = m
  <2>1. ASSUME NEW x \in S, \A y \in S : x =< y PROVE x = m
    <3>1. x =< m /\ m =< x /\ x \in Int /\ m \in Int
      BY <2>1
    <3> QED
      BY <3>1
  <2> QED
    BY <2>1
<1> QED
  BY <1>1 DEF Min, Program!Min

LEMMA MinOfTwo ==
  ASSUME NEW a \in Int, NEW b \in Int, a =< b
  PROVE  Min({a, b}) = a
<1>1. {a, b} \subseteq Int /\ a \in {a, b} /\ \A n \in {a, b} : a =< n
  OBVIOUS
<1> QED
  BY <1>1, LeastIs

LEMMA LoadTyped ==
  ASSUME image \in Seq(Words), GoodHeader, ~Torn, ~Overflows
  PROVE  /\ word(28) \in Nat
         /\ \A i \in 0 .. FUNCTION_TABLE_SIZE - 1 : loadedTable[i].entryIP \in Nat
<1>1. Len(image) \in Nat /\ 8 =< Len(image)
  BY DEF GoodHeader, HEADER_SIZE
<1>2. Inside(16) /\ Inside(24) /\ Inside(28)
  BY <1>1 DEF Inside
<1>3. word(28) \in Nat /\ functionCount \in Nat /\ functionOffset \in Nat
  BY <1>2, WordTyped DEF functionCount, functionOffset
<1>4. ASSUME NEW i \in 0 .. FUNCTION_TABLE_SIZE - 1 PROVE loadedTable[i].entryIP \in Nat
  <2>1. i \in Nat /\ FUNCTION_TABLE_SIZE \in Nat
    BY ImageAssumption
  <2>2. CASE i < functionCount
    <3>1. Min({functionCount - 1, FUNCTION_TABLE_SIZE}) = functionCount - 1
      <4>1. functionCount - 1 \in Int /\ FUNCTION_TABLE_SIZE \in Int
            /\ functionCount - 1 =< FUNCTION_TABLE_SIZE
        BY <1>3, <2>1 DEF Overflows
      <4> QED
        BY <4>1, MinOfTwo
    <3>2. i \in 0 .. functionCount - 1
      BY <1>3, <2>1, <2>2
    <3>3. Inside(entryAt(i) + 4)
      BY <3>1, <3>2 DEF Torn, entriesRead
    <3>4. entryAt(i) \in Nat
      BY <1>3, <2>1 DEF entryAt, FUNC_ENTRY_SIZE
    <3> DEFINE a == entryAt(i)
    <3> HIDE DEF a
    <3>5. a \in Nat /\ Inside(a + 4)
      BY <3>3, <3>4 DEF a
    <3>6. Inside(a)
      BY <1>1, <3>5 DEF Inside
    <3>7. word(entryAt(i)) \in Nat
      BY <3>5, <3>6, WordTyped DEF a
    <3> QED
      BY <2>2, <3>7 DEF loadedTable
  <2>3. CASE ~(i < functionCount)
    BY <2>3 DEF loadedTable
  <2> QED
    BY <2>2, <2>3
<1> QED
  BY <1>3, <1>4

LEMMA VmTypedStep ==
  ASSUME image \in Seq(Words), VmTyped, [MachineNext]_<<asmVars, vmVars>>
  PROVE  VmTyped'
<1>1. CASE Assemble
  <2>1. asm = "reading" /\ UNCHANGED vmVars
    BY <1>1 DEF Assemble, AsmNext, BeginFunc, EndFunc, DefineLabel, EmitPlain, EmitLoad,
       EmitBranch, EmitCall, Reject, EmitBinary, RejectFile, Reading, AtEnd
  <2> QED
    BY <2>1 DEF VmTyped, vmVars
<1>2. CASE UNCHANGED <<asmVars, vmVars>>
  BY <1>2 DEF VmTyped, asmVars, vmVars
<1>3. CASE VmNext
  <2>1. asm' = asm /\ image' = image
    BY <1>3, VmKeepsFile DEF asmVars
  <2>2. asm = "written"
    BY <1>3 DEF VmTyped, VmNext, RejectImage, Load, Ready, Execute, Throw, Compare, LoadIntoReg,
       Jump, JumpNot, Call, Ret, End, InvalidOpcode, RunsOff, Fetched, Running
  <2>3. CASE \E how \in {"halted", "threw", "wild"} : Stop(how)
    BY <2>1, <2>2, <2>3 DEF Stop, VmTyped
  <2>4. ASSUME ~\E how \in {"halted", "threw", "wild"} : Stop(how) PROVE VmTyped'
    <3>1. CASE Load
      <4>1. /\ GoodHeader /\ ~Torn /\ ~Overflows
            /\ functionTable' = loadedTable /\ ip' = word(28) /\ jmpFlag' = 2
            /\ vm' = "running" /\ returns' = returns
        BY <2>4, <3>1 DEF Load
      <4>2. word(28) \in Nat
            /\ \A i \in 0 .. FUNCTION_TABLE_SIZE - 1 : loadedTable[i].entryIP \in Nat
        BY <4>1, LoadTyped
      <4> QED
        BY <2>1, <2>2, <4>1, <4>2 DEF VmTyped
    <3>2. ASSUME vm' = vm, functionTable' = functionTable, vm = "running",
                 ip' \in Nat, jmpFlag' \in {-1, 0, 1, 2}, returns' \in Seq(Nat)
          PROVE  VmTyped'
      BY <2>1, <2>2, <3>2 DEF VmTyped
    <3>3. ip \in Nat /\ returns \in Seq(Nat) /\ jmpFlag \in {-1, 0, 1, 2}
          /\ ip + 4 \in Nat /\ ip + 8 \in Nat /\ ip + 12 \in Nat
      BY DEF VmTyped
    <3>4. CASE Execute
      BY <3>2, <3>3, <3>4 DEF Execute, Done, Keep, Fetched, Running
    <3>5. CASE Compare
      BY <3>2, <3>3, <3>5 DEF Compare, Done, Fetched, Running
    <3>6. CASE LoadIntoReg
      BY <2>4, <3>2, <3>3, <3>6 DEF LoadIntoReg, Done, Keep, Fetched, Running
    <3>7. CASE Jump
      <4>1. Inside(ip + 4) /\ ip' = word(ip + 4)
        BY <2>4, <3>7 DEF Jump, Done
      <4>2. ip' \in Nat
        BY <3>3, <4>1, WordTyped
      <4> QED
        BY <2>4, <3>2, <3>3, <3>7, <4>2 DEF Jump, Done, Keep, Fetched, Running
    <3>8. CASE JumpNot
      BY <3>2, <3>3, <3>8 DEF JumpNot, Done, Keep, Fetched, Running
    <3>9. CASE Call
      <4> DEFINE index == (ra(instr) * BYTE + rb(instr)) * BYTE + rc(instr)
      <4>1. /\ ~(index >= FUNCTION_TABLE_SIZE)
            /\ returns' = Append(returns, ip + 4) /\ ip' = functionTable[index].entryIP
            /\ jmpFlag' = jmpFlag /\ vm' = vm /\ functionTable' = functionTable
            /\ vm = "running" /\ Inside(ip)
        BY <2>4, <3>9 DEF Call, Done, Fetched, Running
      <4>2. instr \in Words
        BY <3>3, <4>1, WordTyped DEF instr
      <4>3. index \in Nat
        <5>1. ra(instr) \in Nat /\ rb(instr) \in Nat /\ rc(instr) \in Nat /\ BYTE \in Nat
          BY <4>2, Fields, WordFacts
        <5>2. \A x, y, z, b \in Nat : (x * b + y) * b + z \in Nat
          OBVIOUS
        <5> QED
          BY <5>1, <5>2
      <4> HIDE DEF index
      <4>4. index \in 0 .. FUNCTION_TABLE_SIZE - 1
        BY <4>1, <4>3, ImageAssumption
      <4>5. ip' \in Nat
        BY <4>1, <4>4 DEF VmTyped
      <4>6. returns' \in Seq(Nat)
        BY <3>3, <4>1
      <4> QED
        BY <3>2, <3>3, <4>1, <4>5, <4>6
    <3>10. CASE Ret
      <4>1. /\ returns # <<>> /\ ip' = Last(returns) /\ returns' = Front(returns)
            /\ jmpFlag' = jmpFlag /\ vm' = vm /\ functionTable' = functionTable
            /\ vm = "running"
        BY <2>4, <3>10 DEF Ret, Done, Fetched, Running
      <4>2. Len(returns) \in Nat \ {0}
        BY <3>3, <4>1
      <4>3. Last(returns) \in Nat
        BY <3>3, <4>2 DEF Last
      <4>4. Front(returns) \in Seq(Nat)
        BY <3>3, <4>2 DEF Front
      <4> QED
        BY <3>2, <3>3, <4>1, <4>3, <4>4
    <3> QED
      BY <1>3, <2>4, <3>1, <3>4, <3>5, <3>6, <3>7, <3>8, <3>9, <3>10
         DEF VmNext, RejectImage, Throw, End, InvalidOpcode, RunsOff
  <2> QED
    BY <2>3, <2>4
<1> QED
  BY <1>1, <1>2, <1>3 DEF MachineNext, VmNext

\* The states' types, when a file is made of words: those that no assembler
\* wrote, and those of sources short enough for their file to end below 2^32.
THEOREM MachineTypeCorrect ==
  ASSUME \A p \in Programs : HEADER_SIZE + 12 * Len(p) < WORD, Files \subseteq Seq(Words)
  PROVE  MachineSpec => []TypeOK
<1>1. MachineInit => VmTyped
  BY DEF MachineInit, AsmInit, VmTyped
<1>2. AsmInv /\ VmTyped /\ [MachineNext]_<<asmVars, vmVars>> => VmTyped'
  BY ImageWords, VmTypedStep
<1>3. AsmInv /\ VmTyped => TypeOK
  BY ImageWords DEF AsmInv, VmTyped, TypeOK, Words
<1> QED
  BY <1>1, <1>2, <1>3, MachineAsmInv, PTL DEF MachineSpec

(***************************************************************************)
(* The lines of the source.                                                *)
(***************************************************************************)
\* Words a line becomes, and how many it and others have become before line n.
cost(n) ==
  IF source[n].line # "instr" THEN 0
  ELSE IF source[n].mnem = "load" THEN 3 ELSE IF source[n].mnem \in BRANCH_OPS THEN 2 ELSE 1
opens(n) == IF source[n].line = "func" THEN 1 ELSE 0
costs    == [k \in DOMAIN source |-> cost(k)]
openings == [k \in DOMAIN source |-> opens(k)]
wordsBefore(n) == sumOf(costs, n - 1)
funcsBefore(n) == sumOf(openings, n - 1)

\* Both counts begin at 0 and grow with the lines.
LEMMA Counting ==
  ASSUME source \in Programs \cup {<<>>}
  PROVE  /\ wordsBefore(1) = 0 /\ funcsBefore(1) = 0
         /\ \A n \in 1 .. Len(source) : cost(n) \in 0 .. 3 /\ opens(n) \in 0 .. 1
         /\ \A n \in 1 .. Len(source) + 1 : wordsBefore(n) \in Nat /\ funcsBefore(n) \in Nat
         /\ \A m, n \in 1 .. Len(source) + 1 : m =< n =>
              wordsBefore(m) =< wordsBefore(n) /\ funcsBefore(m) =< funcsBefore(n)
         /\ \A n \in 1 .. Len(source) :
              /\ wordsBefore(n + 1) = wordsBefore(n) + cost(n)
              /\ funcsBefore(n + 1) = funcsBefore(n) + opens(n)
<1> DEFINE l == Len(source)
           u == costs
           v == openings
<1>1. l \in Nat /\ DOMAIN source = 1 .. l
  BY SourceLines
<1>2. \A n \in 1 .. l : cost(n) \in 0 .. 3 /\ opens(n) \in 0 .. 1
  BY DEF cost, opens
<1>3. \A n \in 1 .. l : u[n] = cost(n) /\ v[n] = opens(n)
  BY <1>1 DEF costs, openings
<1>4. \A n \in 1 .. l : u[n] \in Nat /\ v[n] \in Nat
  BY <1>2, <1>3
<1> HIDE DEF u, v, l
<1>5. /\ \A k \in 0 .. l : sumOf(u, k) \in Nat
      /\ \A j, k \in 0 .. l : j =< k => sumOf(u, j) =< sumOf(u, k)
      /\ \A k \in 1 .. l : sumOf(u, k) = sumOf(u, k - 1) + u[k]
  <2>1. \A n \in 1 .. l : u[n] \in Nat
    BY <1>4
  <2> QED
    BY <1>1, <2>1, SumGrows
<1>6. /\ \A k \in 0 .. l : sumOf(v, k) \in Nat
      /\ \A j, k \in 0 .. l : j =< k => sumOf(v, j) =< sumOf(v, k)
      /\ \A k \in 1 .. l : sumOf(v, k) = sumOf(v, k - 1) + v[k]
  <2>1. \A n \in 1 .. l : v[n] \in Nat
    BY <1>4
  <2> QED
    BY <1>1, <2>1, SumGrows
<1>7. \A n \in 1 .. l + 1 : n - 1 \in 0 .. l
  BY <1>1
<1>8. \A n \in 1 .. l : (n + 1) - 1 = n
  OBVIOUS
<1>9. sumOf(u, 1 - 1) = 0 /\ sumOf(v, 1 - 1) = 0
  BY SumZero
<1>10. ASSUME NEW m \in 1 .. l + 1, NEW n \in 1 .. l + 1, m =< n
       PROVE  sumOf(u, m - 1) =< sumOf(u, n - 1) /\ sumOf(v, m - 1) =< sumOf(v, n - 1)
  <2>1. m - 1 \in 0 .. l /\ n - 1 \in 0 .. l /\ m - 1 =< n - 1
    BY <1>1, <1>10
  <2> QED
    BY <1>5, <1>6, <2>1
<1>11. ASSUME NEW n \in 1 .. l
       PROVE  /\ sumOf(u, (n + 1) - 1) = sumOf(u, n - 1) + cost(n)
              /\ sumOf(v, (n + 1) - 1) = sumOf(v, n - 1) + opens(n)
  <2>1. sumOf(u, n) = sumOf(u, n - 1) + u[n] /\ sumOf(v, n) = sumOf(v, n - 1) + v[n]
    BY <1>5, <1>6
  <2>2. (n + 1) - 1 = n
    BY <1>8
  <2> QED
    BY <1>3, <2>1, <2>2
<1> QED
  BY <1>2, <1>5, <1>6, <1>7, <1>9, <1>10, <1>11 DEF wordsBefore, funcsBefore, u, v, l

\* They depend on the source alone.
LEMMA SameSource ==
  ASSUME source' = source
  PROVE  /\ \A n : wordsBefore(n)' = wordsBefore(n) /\ funcsBefore(n)' = funcsBefore(n)
         /\ \A n : cost(n)' = cost(n) /\ opens(n)' = opens(n)
<1>1. \A n : cost(n)' = cost(n) /\ opens(n)' = opens(n)
  BY DEF cost, opens
<1>2. costs' = costs /\ openings' = openings
  BY <1>1 DEF costs, openings
<1> QED
  BY <1>1, <1>2 DEF wordsBefore, funcsBefore

\* The words at k of f do what the line says.
Encodes(f, k, line) ==
  /\ line.mnem \in DOMAIN OPCODES
  /\ op(f.raw[k]) = OPCODES[line.mnem]
  /\ line.mnem \in BRANCH_OPS =>
       \A j \in DOMAIN f.patches :
         f.patches[j].offset = 4 * (k - 1) => f.patches[j].label = line.args[1]
  /\ line.mnem = "call" =>
       (ra(f.raw[k]) * BYTE + rb(f.raw[k])) * BYTE + rc(f.raw[k]) = line.args[1]
  /\ line.mnem = "load" =>
       /\ ra(f.raw[k]) = arg(line, 1)
       /\ f.raw[k + 1] = arg(line, 2)
       /\ f.raw[k + 2] = arg(line, 3)
  /\ line.mnem \in Plain =>
       /\ ra(f.raw[k]) = arg(line, 1)
       /\ rb(f.raw[k]) = arg(line, 2)
       /\ rc(f.raw[k]) = arg(line, 3)

\* Line m defines label x in the i-th function.
Labels(m, i, x) ==
  source[m].line = "label" /\ funcsBefore(m) = i /\ lower(source[m].name) = x

\* f, with b words before it, is what the lines before p say of the i-th function.
Opened(f, i, b, p) ==
  \E d \in 1 .. p - 1 :
    /\ source[d].line = "func" /\ funcsBefore(d) = i - 1
    /\ wordsBefore(d) = b
    /\ f.frameSize = source[d].frameSize
Emitted(f, i, b, p) ==
  \A k \in Nat : InstrAt(f, k) =>
    /\ f.lines[k] \in 1 .. p - 1
    /\ source[f.lines[k]].line = "instr"
    /\ funcsBefore(f.lines[k]) = i
    /\ wordsBefore(f.lines[k]) = b + (k - 1)
    /\ Encodes(f, k, source[f.lines[k]])
Labelled(f, i, b, p) ==
  \A x \in DOMAIN f.labels :
    \E m \in 1 .. p - 1 :
      /\ Labels(m, i, x)
      /\ f.labels[x] = 4 * (wordsBefore(m) - b)
      /\ \A l \in 1 .. p - 1 : Labels(l, i, x) => l =< m
Tells(f, i, b, p) == Opened(f, i, b, p) /\ Emitted(f, i, b, p) /\ Labelled(f, i, b, p)

\* The functions are what the lines read so far say.
SourceInv ==
  /\ funcsBefore(pos) = Len(functions)
  /\ wordsBefore(pos) = rawsBefore(Len(functions) + 1)
  /\ \A i \in 1 .. Len(functions) : Tells(functions[i], i, rawsBefore(i), pos)
  /\ \A n \in 1 .. pos - 1 : source[n].line = "instr" =>
       \E i \in 1 .. Len(functions) : \E k \in Nat :
         InstrAt(functions[i], k) /\ functions[i].lines[k] = n
  /\ \A n \in 1 .. pos - 1 : source[n].line = "label" => funcsBefore(n) >= 1
  /\ asm = "written" => pos = Len(source) + 1 /\ (Filed \/ source = <<>>)

\* Frame sizes and the flags of mov keep to their fields.
Clean ==
  \A p \in Programs : \A n \in DOMAIN p :
    /\ p[n].line = "func" => p[n].frameSize < BYTE * BYTE
    /\ p[n].line = "instr" /\ p[n].mnem = "mov" => arg(p[n], 3) \in Bytes

\* So does what a function is told by the lines.
LEMMA SameLines ==
  ASSUME source' = source
  PROVE  \A f, i, b, p : Tells(f, i, b, p)' <=> Tells(f, i, b, p)
<1>1. \A n : /\ wordsBefore(n)' = wordsBefore(n) /\ funcsBefore(n)' = funcsBefore(n)
  BY SameSource
<1>2. ASSUME NEW f, NEW i, NEW b, NEW p PROVE Opened(f, i, b, p)' <=> Opened(f, i, b, p)
  BY <1>1 DEF Opened
<1>3. ASSUME NEW f, NEW i, NEW b, NEW p PROVE Emitted(f, i, b, p)' <=> Emitted(f, i, b, p)
  BY <1>1 DEF Emitted
<1>4. \A m, i, x : Labels(m, i, x)' <=> Labels(m, i, x)
  BY <1>1 DEF Labels
<1>5. ASSUME NEW f, NEW i, NEW b, NEW p PROVE Labelled(f, i, b, p)' <=> Labelled(f, i, b, p)
  BY <1>1, <1>4 DEF Labelled
<1> QED
  BY <1>2, <1>3, <1>5 DEF Tells

\* A function that is left alone is told the same by the same lines.
LEMMA SameTells ==
  ASSUME source' = source, NEW f, NEW i, NEW b, NEW p,
         functions'[i] = f, rawsBefore(i)' = b, pos' = p, Tells(f, i, b, p)
  PROVE  Tells(functions[i], i, rawsBefore(i), pos)'
  BY SameLines

\* The line being read, and those before it.
LEMMA AtLine ==
  ASSUME AsmInv, SourceInv, Reading
  PROVE  /\ source \in Programs \cup {<<>>}
         /\ pos \in 1 .. Len(source) /\ Len(source) \in Nat
         /\ Line = source[pos]
         /\ Len(functions) \in Nat
         /\ funcsBefore(pos) = Len(functions)
         /\ wordsBefore(pos) = rawsBefore(Len(functions) + 1)
         /\ funcsBefore(pos + 1) = Len(functions) + opens(pos)
         /\ wordsBefore(pos + 1) = rawsBefore(Len(functions) + 1) + cost(pos)
         /\ rawsBefore(Len(functions) + 1) \in Nat
<1>1. /\ source \in Programs \cup {<<>>} /\ pos \in DOMAIN source /\ Line = source[pos]
      /\ DOMAIN source = 1 .. Len(source) /\ Len(source) \in Nat
  BY LineFacts, SourceLines
<1>2. funcsBefore(pos) = Len(functions) /\ wordsBefore(pos) = rawsBefore(Len(functions) + 1)
  BY DEF SourceInv
<1>3. Len(functions) \in Nat /\ rawsBefore(Len(functions) + 1) \in Nat
  BY Bases DEF AsmInv, FuncsOK
<1>4. /\ funcsBefore(pos + 1) = funcsBefore(pos) + opens(pos)
      /\ wordsBefore(pos + 1) = wordsBefore(pos) + cost(pos)
  BY <1>1, Counting
<1> QED
  BY <1>1, <1>2, <1>3, <1>4

\* A line that labels nothing in a function changes nothing it is told.
LEMMA TellsOn ==
  ASSUME source \in Programs \cup {<<>>}, NEW p \in 1 .. Len(source),
         NEW f, NEW i, NEW b, Tells(f, i, b, p),
         source[p].line # "label" \/ funcsBefore(p) # i
  PROVE  Tells(f, i, b, p + 1)
<1>1. \A n \in 1 .. p - 1 : n \in 1 .. (p + 1) - 1
  OBVIOUS
<1>2. \A n \in 1 .. (p + 1) - 1 : n \in 1 .. p - 1 \/ n = p
  OBVIOUS
<1>3. Opened(f, i, b, p + 1)
  BY <1>1 DEF Tells, Opened
<1>4. Emitted(f, i, b, p + 1)
  BY <1>1 DEF Tells, Emitted
<1>5. \A x : ~Labels(p, i, x)
  BY DEF Labels
<1>6. Labelled(f, i, b, p + 1)
  BY <1>1, <1>2, <1>5 DEF Tells, Labelled
<1> QED
  BY <1>3, <1>4, <1>6 DEF Tells

\* The open function replaced by what one more line says of it.
LEMMA SourceReplaced ==
  ASSUME AsmInv, SourceInv, Reading, inFunc, NEW f \in Func, Becomes(f),
         Line.line # "func",
         Len(f.raw) = Len(cur.raw) + cost(pos),
         Tells(f, Len(functions), rawsBefore(Len(functions)), pos + 1),
         \A k \in Nat : InstrAt(cur, k) => InstrAt(f, k) /\ f.lines[k] = cur.lines[k],
         Line.line = "instr" => \E k \in Nat : InstrAt(f, k) /\ f.lines[k] = pos
  PROVE  SourceInv'
<1> DEFINE n == Len(functions)
<1>1. /\ n \in Nat \ {0} /\ Len(functions)' = n
      /\ functions'[n] = f
      /\ \A i \in 1 .. n : i # n => functions'[i] = functions[i]
      /\ \A i \in 1 .. n : rawsBefore(i)' = rawsBefore(i)
      /\ rawsBefore(n + 1)' = rawsBefore(n) + Len(f.raw)
  BY Replaced
<1>2. /\ source' = source /\ pos' = pos + 1 /\ asm' = asm /\ asm = "reading"
  BY DEF Becomes, Reading
<1>3. /\ source \in Programs \cup {<<>>}
      /\ pos \in 1 .. Len(source) /\ Line = source[pos]
      /\ funcsBefore(pos) = n
      /\ funcsBefore(pos + 1) = n + opens(pos)
      /\ wordsBefore(pos + 1) = rawsBefore(n + 1) + cost(pos)
  BY AtLine
<1>4. \A m : funcsBefore(m)' = funcsBefore(m) /\ wordsBefore(m)' = wordsBefore(m)
  BY <1>2, SameSource
<1>5. rawsBefore(n + 1) = rawsBefore(n) + Len(cur.raw) /\ rawsBefore(n) \in Nat
      /\ Len(cur.raw) \in Nat
  BY <1>1, Bases, CurrentFunction DEF AsmInv, FuncsOK, cur
<1>6. n' = n
  BY <1>1
<1> HIDE DEF n
<1>7. funcsBefore(pos)' = Len(functions)'
  <2>1. opens(pos) = 0
    BY <1>3 DEF opens
  <2>2. funcsBefore(pos)' = funcsBefore(pos + 1)
    BY <1>2, <1>4 DEF funcsBefore
  <2> QED
    BY <1>1, <1>3, <2>1, <2>2
<1>8. wordsBefore(pos)' = rawsBefore(Len(functions) + 1)'
  <2>1. wordsBefore(pos)' = wordsBefore(pos + 1)
    BY <1>2, <1>4 DEF wordsBefore
  <2>2. cost(pos) \in Nat
    BY <1>3, Counting
  <2>3. rawsBefore(Len(functions) + 1)' = rawsBefore(n + 1)'
    BY <1>1, <1>6 DEF rawsBefore
  <2>4. rawsBefore(n + 1)' = rawsBefore(n) + (Len(cur.raw) + cost(pos))
    BY <1>1
  <2> QED
    BY <1>3, <1>5, <2>1, <2>2, <2>3, <2>4
<1>9. ASSUME NEW i \in 1 .. Len(functions)'
      PROVE  Tells(functions[i], i, rawsBefore(i), pos)'
  <2>1. i \in 1 .. n /\ rawsBefore(i)' = rawsBefore(i)
    BY <1>1
  <2>2. Tells(functions'[i], i, rawsBefore(i), pos + 1)
    <3>1. CASE i = n
      BY <1>1, <3>1 DEF n
    <3>2. CASE i # n
      <4>1. Tells(functions[i], i, rawsBefore(i), pos)
        BY <2>1 DEF SourceInv, n
      <4>2. funcsBefore(pos) # i
        BY <1>3, <3>2
      <4>3. Tells(functions[i], i, rawsBefore(i), pos + 1)
        BY <1>3, <4>1, <4>2, TellsOn
      <4> QED
        BY <1>1, <2>1, <3>2, <4>3
    <3> QED
      BY <3>1, <3>2
  <2> QED
    BY <1>2, <2>1, <2>2, SameTells
<1>10. \A m \in 1 .. pos' - 1 : m \in 1 .. pos - 1 \/ m = pos
  BY <1>2, <1>3
<1>11. ASSUME NEW m \in 1 .. pos' - 1, source'[m].line = "instr"
       PROVE  \E i \in 1 .. Len(functions)' : \E k \in Nat :
                InstrAt(functions'[i], k) /\ functions'[i].lines[k] = m
  <2>1. CASE m = pos
    <3>1. PICK k \in Nat : InstrAt(f, k) /\ f.lines[k] = pos
      BY <1>2, <1>3, <1>11, <2>1
    <3>2. n \in 1 .. Len(functions)'
      BY <1>1
    <3> QED
      BY <1>1, <2>1, <3>1, <3>2
  <2>2. CASE m # pos
    <3>1. m \in 1 .. pos - 1 /\ source[m].line = "instr"
      BY <1>2, <1>10, <1>11, <2>2
    <3>2. PICK i \in 1 .. n : \E k \in Nat : InstrAt(functions[i], k) /\ functions[i].lines[k] = m
      BY <3>1 DEF SourceInv, n
    <3>3. PICK k \in Nat : InstrAt(functions[i], k) /\ functions[i].lines[k] = m
      BY <3>2
    <3>4. InstrAt(functions'[i], k) /\ functions'[i].lines[k] = m
      <4>1. CASE i = n
        <5>1. functions[i] = cur
          BY <4>1 DEF cur, n
        <5> QED
          BY <1>1, <3>3, <4>1, <5>1
      <4>2. CASE i # n
        BY <1>1, <3>3, <4>2
      <4> QED
        BY <4>1, <4>2
    <3> QED
      BY <1>1, <3>4
  <2> QED
    BY <2>1, <2>2
<1>12. ASSUME NEW m \in 1 .. pos' - 1, source'[m].line = "label"
       PROVE  funcsBefore(m)' >= 1
  <2>1. funcsBefore(m)' = funcsBefore(m)
    BY <1>4
  <2>2. CASE m = pos
    BY <1>1, <1>3, <2>1, <2>2
  <2>3. CASE m # pos
    <3>1. m \in 1 .. pos - 1 /\ source[m].line = "label"
      BY <1>2, <1>10, <1>12, <2>3
    <3> QED
      BY <2>1, <3>1 DEF SourceInv
  <2> QED
    BY <2>2, <2>3
<1> QED
  BY <1>2, <1>7, <1>8, <1>9, <1>11, <1>12 DEF SourceInv

\* What a function's words encode, they encode when more are appended.
LEMMA EncodesKept ==
  ASSUME NEW f, FuncOK(f), NEW k \in Nat, InstrAt(f, k), NEW line, Encodes(f, k, line),
         NEW g, \A m \in 1 .. Len(f.raw) : g.raw[m] = f.raw[m],
         \/ g.patches = f.patches
         \/ \E x : g.patches = Append(f.patches, [offset |-> 4 * Len(f.raw), label |-> x])
  PROVE  Encodes(g, k, line)
<1>1. /\ f.raw \in Seq(Words) /\ Len(f.raw) \in Nat /\ CodeOK(f)
      /\ f.patches \in Seq([offset : Nat, label : Names])
  BY DEF FuncOK, Func
<1>2. k \in 1 .. Len(f.raw) /\ g.raw[k] = f.raw[k]
  BY DEF InstrAt
<1>3. ASSUME line.mnem \in BRANCH_OPS, NEW j \in DOMAIN g.patches,
             g.patches[j].offset = 4 * (k - 1)
      PROVE  g.patches[j].label = line.args[1]
  <2>1. \A m \in DOMAIN f.patches :
          f.patches[m].offset = 4 * (k - 1) => f.patches[m].label = line.args[1]
    BY <1>3 DEF Encodes
  <2>2. CASE g.patches = f.patches
    BY <1>3, <2>1, <2>2
  <2>3. ASSUME NEW x, g.patches = Append(f.patches, [offset |-> 4 * Len(f.raw), label |-> x])
        PROVE  g.patches[j].label = line.args[1]
    <3> DEFINE c == Len(f.patches)
               s == f.patches
               e == [offset |-> 4 * Len(f.raw), label |-> x]
    <3>1. c \in Nat /\ DOMAIN s = 1 .. c /\ s \in Seq([offset : Nat, label : Names])
      BY <1>1
    <3>2. e.offset = 4 * Len(f.raw) /\ 4 * Len(f.raw) # 4 * (k - 1)
      BY <1>1, <1>2
    <3>3. DOMAIN Append(s, e) = 1 .. c + 1 /\ Append(s, e)[c + 1] = e
          /\ \A m \in 1 .. c : Append(s, e)[m] = s[m]
      <4> HIDE DEF s, e
      <4>1. Len(s) = c /\ c \in Nat
        BY <3>1 DEF s
      <4> HIDE DEF c
      <4>2. \A m \in 1 .. c + 1 : Append(s, e)[m] = IF m = c + 1 THEN e ELSE s[m]
        BY <3>1, <4>1
      <4>3. DOMAIN Append(s, e) = 1 .. c + 1
        BY <3>1, <4>1
      <4>4. c + 1 \in 1 .. c + 1 /\ \A m \in 1 .. c : m \in 1 .. c + 1 /\ m # c + 1
        BY <4>1
      <4> QED
        BY <4>2, <4>3, <4>4
    <3>4. j \in 1 .. c + 1
      BY <1>3, <2>3, <3>3
    <3> HIDE DEF c
    <3>5. CASE j \in 1 .. c
      <4>1. g.patches[j] = s[j] /\ j \in DOMAIN s
        BY <2>3, <3>1, <3>3, <3>5
      <4> QED
        BY <1>3, <2>1, <4>1
    <3>6. CASE j = c + 1
      <4>1. g.patches[j] = e
        BY <2>3, <3>3, <3>6
      <4> QED
        BY <1>3, <3>2, <4>1
    <3> QED
      BY <3>1, <3>4, <3>5, <3>6
  <2> QED
    BY <2>2, <2>3
<1>4. ASSUME line.mnem = "load"
      PROVE  g.raw[k + 1] = f.raw[k + 1] /\ g.raw[k + 2] = f.raw[k + 2]
  <2>1. op(f.raw[k]) = 5
    BY <1>4, Encodings DEF Encodes
  <2>2. width(f.raw[k]) = 3
    BY <2>1 DEF width
  <2>3. Boundary(f, k + 3)
    BY <1>1, <2>2 DEF CodeOK
  <2>4. k + 1 \in 1 .. Len(f.raw) /\ k + 2 \in 1 .. Len(f.raw)
    BY <1>1, <1>2, <2>3 DEF Boundary, InstrAt
  <2> QED
    BY <2>4
<1> QED
  BY <1>2, <1>3, <1>4 DEF Encodes

\* One more instruction, for the line being read.
LEMMA SourceGrown ==
  ASSUME AsmInv, SourceInv, Reading, inFunc, NEW g \in Func, Becomes(g),
         Line.line = "instr",
         NEW words \in Seq(Words), words # <<>>, Len(words) = cost(pos),
         g.raw = cur.raw \o words, g.lines = cur.lines \o marked(words),
         g.labels = cur.labels, g.frameSize = cur.frameSize,
         \/ g.patches = cur.patches
         \/ \E x : g.patches = Append(cur.patches, [offset |-> 4 * Len(cur.raw), label |-> x]),
         Encodes(g, Len(cur.raw) + 1, Line)
  PROVE  SourceInv'
<1> DEFINE n == Len(functions)
           f == cur
           b == rawsBefore(n)
           l == Len(f.raw)
<1>1. /\ FuncOK(f) /\ f \in Func /\ Len(f.lines) = Len(f.raw)
  BY CurrentFunction DEF FuncOK, CodeOK
<1>2. pos \in Nat \ {0}
  BY LineFacts
<1>3. /\ l \in Nat /\ Len(words) \in Nat \ {0}
      /\ Len(g.raw) = l + Len(words)
      /\ \A k \in 1 .. l : g.raw[k] = f.raw[k] /\ g.lines[k] = f.lines[k]
      /\ g.lines[l + 1] = pos
      /\ \A k \in Nat : InstrAt(g, k) <=> InstrAt(f, k) \/ k = l + 1
  <2>1. /\ f \in Func /\ Len(f.lines) = Len(f.raw)
        /\ g.raw = f.raw \o words /\ g.lines = f.lines \o marked(words)
        /\ pos \in Nat \ {0}
    BY <1>1, <1>2
  <2> HIDE DEF f
  <2>2. Extends(g, f, words)
    BY <2>1, GrownCode
  <2>3. Len(f.raw) \in Nat /\ Len(words) \in Nat \ {0}
    BY <1>1 DEF Func
  <2> QED
    BY <2>2, <2>3 DEF Extends
<1>4. /\ source \in Programs \cup {<<>>}
      /\ pos \in 1 .. Len(source) /\ Line = source[pos]
      /\ funcsBefore(pos) = n /\ wordsBefore(pos) = rawsBefore(n + 1)
  BY AtLine
<1>5. /\ n \in 1 .. n /\ b \in Nat /\ rawsBefore(n + 1) = b + l /\ functions[n] = f
  <2>1. functions # <<>> /\ functions \in Seq(Func)
    BY DEF AsmInv, FuncsOK
  <2>2. n \in 1 .. n /\ functions[n] = f
    BY <2>1 DEF cur
  <2>3. n \in Nat /\ n \in 1 .. Len(functions) /\ n \in 1 .. Len(functions) + 1
    BY <2>1
  <2>4. rawsBefore(n + 1) = rawsBefore(n) + Len(functions[n].raw) /\ rawsBefore(n) \in Nat
    BY <2>1, <2>3, Bases
  <2> QED
    BY <2>2, <2>4
<1>6. Tells(f, n, b, pos + 1)
  <2>1. Tells(f, n, b, pos)
    BY <1>5 DEF SourceInv
  <2>2. Line.line # "label"
    OBVIOUS
  <2> HIDE DEF f, n, b
  <2> QED
    BY <1>4, <2>1, <2>2, TellsOn
<1>7. \A k \in Nat : InstrAt(f, k) => k \in 1 .. l /\ InstrAt(g, k) /\ g.lines[k] = f.lines[k]
  BY <1>3 DEF InstrAt
<1>8. Encodes(g, l + 1, source[pos])
  BY <1>4
<1>9. /\ g.labels = f.labels /\ g.frameSize = f.frameSize
      /\ source[pos].line = "instr"
      /\ \/ g.patches = f.patches
         \/ \E x : g.patches = Append(f.patches, [offset |-> 4 * l, label |-> x])
  BY <1>4
<1>10. Len(g.raw) = Len(cur.raw) + cost(pos) /\ Line.line # "func"
  BY <1>3
<1>11. l + 1 \in Nat /\ InstrAt(g, l + 1) /\ g.lines[l + 1] = pos
  BY <1>3
<1> HIDE DEF f, n, b
<1>12. ASSUME NEW k \in Nat, InstrAt(g, k)
       PROVE  /\ g.lines[k] \in 1 .. (pos + 1) - 1
              /\ source[g.lines[k]].line = "instr"
              /\ funcsBefore(g.lines[k]) = n
              /\ wordsBefore(g.lines[k]) = b + (k - 1)
              /\ Encodes(g, k, source[g.lines[k]])
  <2>1. CASE InstrAt(f, k)
    <3>1. /\ f.lines[k] \in 1 .. (pos + 1) - 1
          /\ source[f.lines[k]].line = "instr"
          /\ funcsBefore(f.lines[k]) = n
          /\ wordsBefore(f.lines[k]) = b + (k - 1)
          /\ Encodes(f, k, source[f.lines[k]])
      BY <1>6, <2>1 DEF Tells, Emitted
    <3>2. Encodes(g, k, source[f.lines[k]])
      <4> DEFINE line == source[f.lines[k]]
      <4>1. Encodes(f, k, line)
        BY <3>1
      <4> HIDE DEF line
      <4>2. \A m \in 1 .. Len(f.raw) : g.raw[m] = f.raw[m]
        BY <1>3
      <4>3. Encodes(g, k, line)
        BY <1>1, <1>9, <2>1, <4>1, <4>2, EncodesKept
      <4> QED
        BY <4>3 DEF line
    <3> QED
      BY <1>7, <2>1, <3>1, <3>2
  <2>2. CASE k = l + 1
    <3>1. g.lines[k] = pos
      BY <1>11, <2>2
    <3>3. pos \in 1 .. (pos + 1) - 1
      BY <1>2
    <3>2. wordsBefore(pos) = b + (k - 1)
      BY <1>3, <1>4, <1>5, <2>2
    <3> QED
      BY <1>4, <1>8, <1>9, <2>2, <3>1, <3>2, <3>3
  <2> QED
    BY <1>3, <1>12, <2>1, <2>2
<1>13. Tells(g, n, b, pos + 1)
  <2>1. Opened(g, n, b, pos + 1)
    BY <1>6, <1>9 DEF Tells, Opened
  <2>2. Emitted(g, n, b, pos + 1)
    BY <1>12 DEF Emitted
  <2>3. Labelled(g, n, b, pos + 1)
    BY <1>6, <1>9 DEF Tells, Labelled
  <2> QED
    BY <2>1, <2>2, <2>3 DEF Tells
<1>14. /\ Tells(g, Len(functions), rawsBefore(Len(functions)), pos + 1)
       /\ \A k \in Nat : InstrAt(cur, k) => InstrAt(g, k) /\ g.lines[k] = cur.lines[k]
       /\ \E k \in Nat : InstrAt(g, k) /\ g.lines[k] = pos
  BY <1>7, <1>11, <1>13 DEF f, n, b
<1> QED
  BY <1>10, <1>14, SourceReplaced

\* The words of a line.
Spells(words, line) ==
  /\ line.mnem \in DOMAIN OPCODES
  /\ op(words[1]) = OPCODES[line.mnem]
  /\ line.mnem = "call" =>
       (ra(words[1]) * BYTE + rb(words[1])) * BYTE + rc(words[1]) = line.args[1]
  /\ line.mnem = "load" =>
       /\ Len(words) = 3
       /\ ra(words[1]) = arg(line, 1)
       /\ words[2] = arg(line, 2)
       /\ words[3] = arg(line, 3)
  /\ line.mnem \in Plain =>
       /\ ra(words[1]) = arg(line, 1)
       /\ rb(words[1]) = arg(line, 2)
       /\ rc(words[1]) = arg(line, 3)

\* The words of a line say what the line does where they are emitted.
LEMMA EncodesNew ==
  ASSUME NEW f \in Func, NEW g, NEW words \in Seq(Words), NEW line,
         words # <<>>, Extends(g, f, words), Spells(words, line),
         line.mnem \in BRANCH_OPS => \A j \in DOMAIN g.patches :
           g.patches[j].offset = 4 * Len(f.raw) => g.patches[j].label = line.args[1]
  PROVE  Encodes(g, Len(f.raw) + 1, line)
<1> DEFINE k == Len(f.raw) + 1
<1>1. Len(f.raw) \in Nat /\ Len(words) \in Nat \ {0}
  BY DEF Func
<1>2. \A m \in 1 .. Len(words) : g.raw[Len(f.raw) + m] = words[m]
  BY DEF Extends
<1>3. g.raw[k] = words[1]
  BY <1>1, <1>2
<1>4. ASSUME line.mnem = "load" PROVE g.raw[k + 1] = words[2] /\ g.raw[k + 2] = words[3]
  <2>1. Len(words) = 3
    BY <1>4 DEF Spells
  <2>2. 2 \in 1 .. Len(words) /\ 3 \in 1 .. Len(words)
    BY <2>1
  <2>3. k + 1 = Len(f.raw) + 2 /\ k + 2 = Len(f.raw) + 3
    BY <1>1
  <2> QED
    BY <1>2, <2>2, <2>3
<1>5. 4 * (k - 1) = 4 * Len(f.raw)
  BY <1>1
<1> HIDE DEF k
<1>6. Encodes(g, k, line)
  BY <1>3, <1>4, <1>5 DEF Encodes, Spells
<1> QED
  BY <1>6 DEF k

\* An instruction that is no branch.
LEMMA SourceEmit ==
  ASSUME AsmInv, SourceInv, Reading, inFunc, NEW words \in Seq(Words), words # <<>>,
         Becomes(emitted(cur, words)), Line.line = "instr", Len(words) = cost(pos),
         Spells(words, Line), Line.mnem \notin BRANCH_OPS
  PROVE  SourceInv'
<1> DEFINE g == emitted(cur, words)
<1>1. /\ g \in Func /\ g.raw = cur.raw \o words /\ g.lines = cur.lines \o marked(words)
      /\ g.labels = cur.labels /\ g.patches = cur.patches /\ g.frameSize = cur.frameSize
  BY EmittedFunction
<1>2. cur \in Func /\ Len(cur.lines) = Len(cur.raw) /\ pos \in Nat \ {0}
  BY CurrentFunction, LineFacts DEF FuncOK, CodeOK
<1>3. Becomes(g)
  OBVIOUS
<1> HIDE DEF g
<1>4. Extends(g, cur, words)
  BY <1>1, <1>2, GrownCode
<1>5. Encodes(g, Len(cur.raw) + 1, Line)
  BY <1>2, <1>4, EncodesNew
<1> QED
  BY <1>1, <1>3, <1>5, SourceGrown

\* The one-word instructions, where a flag keeps to its field.
LEMMA SourcePlain ==
  ASSUME AsmInv, SourceInv, Clean, EmitPlain
  PROVE  SourceInv'
<1> DEFINE o == OPCODES[Line.mnem]
           a == arg(Line, 1)
           b == arg(Line, 2)
           c == arg(Line, 3)
           w == pack_instr(o, a, b, c)
<1>1. /\ Reading /\ inFunc /\ isInstr(Plain) /\ Encodable(Line)
      /\ Becomes(emitted(cur, <<w>>))
  BY DEF EmitPlain
<1>2. o \in Bytes /\ a \in Bytes /\ b \in Bytes /\ c \in Nat /\ (c \in Bytes \/ Line.mnem = "mov")
  BY <1>1, PlainOperands
<1>3. /\ Line.line = "instr" /\ Line.mnem \in Plain /\ Line.mnem \in DOMAIN OPCODES
      /\ Line.mnem \notin BRANCH_OPS /\ Line.mnem # "load" /\ Line.mnem # "call"
  BY <1>1 DEF isInstr, is, Plain
<1>4. source \in Programs /\ pos \in DOMAIN source /\ Line = source[pos]
  BY <1>1, LineFacts
<1>5. c \in Bytes
  BY <1>2, <1>3, <1>4 DEF Clean
<1>6. cost(pos) = 1
  BY <1>3, <1>4 DEF cost
<1> HIDE DEF o, a, b, c
<1>7. w \in Words /\ op(w) = o /\ ra(w) = a /\ rb(w) = b /\ rc(w) = c
  BY <1>2, <1>5, PackInstr
<1> HIDE DEF w
<1>8. <<w>> \in Seq(Words) /\ <<w>> # <<>> /\ Len(<<w>>) = 1 /\ <<w>>[1] = w
  BY <1>7
<1>9. Spells(<<w>>, Line)
  BY <1>3, <1>7, <1>8 DEF Spells, o, a, b, c
<1> QED
  BY <1>1, <1>3, <1>6, <1>8, <1>9, SourceEmit

\* A load and its two words.
LEMMA SourceLoad ==
  ASSUME AsmInv, SourceInv, EmitLoad
  PROVE  SourceInv'
<1> DEFINE a == Line.args[1]
           w == pack_instr(OPCODES["load"], a, 0, 0)
           words == <<w, Line.args[2], Line.args[3]>>
<1>1. /\ Reading /\ inFunc /\ isInstr({"load"}) /\ Encodable(Line)
      /\ Becomes(emitted(cur, words))
  BY DEF EmitLoad
<1>2. Line.line = "instr" /\ Line.mnem = "load"
  BY <1>1 DEF isInstr, is
<1>3. Len(Line.args) >= 3 /\ a \in Bytes
  BY <1>1, <1>2 DEF Encodable, Needed, Bytes, BRANCH_OPS
<1>4. Line.args[2] \in Words /\ Line.args[3] \in Words /\ Len(Line.args) \in Nat
  <2>1. /\ Len(Line.args) \in Nat /\ DOMAIN Line.args = 1 .. Len(Line.args)
        /\ \A i \in {2, 3} \cap DOMAIN Line.args : Line.args[i] \in Words
    BY <1>1, <1>2, LineFacts, SourceLines
  <2>2. 2 \in {2, 3} \cap DOMAIN Line.args /\ 3 \in {2, 3} \cap DOMAIN Line.args
    BY <1>3, <2>1
  <2> QED
    BY <2>1, <2>2
<1>5. arg(Line, 1) = a /\ arg(Line, 2) = Line.args[2] /\ arg(Line, 3) = Line.args[3]
  BY <1>2, <1>3, <1>4 DEF arg, Used, Needed, BRANCH_OPS
<1>6. w \in Words /\ op(w) = 5 /\ ra(w) = a
  <2>1. OPCODES["load"] = 5 /\ 5 \in Bytes /\ 0 \in Bytes /\ 0 \in Nat
    BY Encodings, WordFacts
  <2> HIDE DEF a
  <2> QED
    BY <1>3, <2>1, PackInstr
<1> HIDE DEF w, a
<1>7. words \in Seq(Words) /\ words # <<>> /\ Len(words) = 3 /\ words[1] = w
      /\ words[2] = Line.args[2] /\ words[3] = Line.args[3]
  BY <1>4, <1>6
<1> HIDE DEF words
<1>8. "load" \in DOMAIN OPCODES /\ "load" \notin Plain /\ "load" \notin BRANCH_OPS
      /\ OPCODES["load"] = 5
  BY Encodings DEF Plain, BRANCH_OPS
<1>9. Spells(words, Line)
  BY <1>2, <1>5, <1>6, <1>7, <1>8 DEF Spells
<1>10. cost(pos) = 3
  BY <1>1, <1>2, LineFacts DEF cost
<1> QED
  BY <1>1, <1>2, <1>7, <1>8, <1>9, <1>10, SourceEmit

\* An index of three bytes is its fields.
INDEX == BYTE * BYTE * BYTE

\* The indices of a call.
LEMMA IndexBound == INDEX \in Nat /\ INDEX =< WORD
<1>1. CASE BYTE = 128
  BY <1>1 DEF WORD, INDEX
<1>2. CASE BYTE = 256
  BY <1>2 DEF WORD, INDEX
<1> QED
  BY <1>1, <1>2, ImageAssumption

\* A call's index is what its three fields make up.
LEMMA IndexFields ==
  ASSUME NEW i \in Nat, i < INDEX
  PROVE  /\ i \in Words
         /\ (ra(i) * BYTE + rb(i)) * BYTE + rc(i) = i
<1>1. INDEX \in Nat /\ INDEX =< WORD
  BY IndexBound
<1>2. i \in Words
  BY <1>1, WordFacts DEF Words
<1>3. CASE BYTE = 128
  <2>1. i \in Nat /\ i =< 128 * 128 * 128 - 1
    BY <1>1, <1>3 DEF INDEX
  <2>2. i \div (128 * 128) \in 0 .. 127
    BY <2>1
  <2>3. (i \div (128 * 128)) % 128 = i \div (128 * 128)
    BY <2>2
  <2>4. i = 128 * (i \div 128) + (i % 128)
    BY <2>1
  <2>5. i \div 128 = 128 * (i \div (128 * 128)) + ((i \div 128) % 128)
    BY <2>1
  <2>6. ra(i) = i \div (128 * 128) /\ rb(i) = (i \div 128) % 128 /\ rc(i) = i % 128
    BY <1>3, <2>3 DEF ra, rb, rc
  <2> QED
    BY <2>1, <1>2, <1>3, <2>2, <2>4, <2>5, <2>6
<1>4. CASE BYTE = 256
  <2>1. i \in Nat /\ i =< 256 * 256 * 256 - 1
    BY <1>1, <1>4 DEF INDEX
  <2>2. i \div (256 * 256) \in 0 .. 255
    BY <2>1
  <2>3. (i \div (256 * 256)) % 256 = i \div (256 * 256)
    BY <2>2
  <2>4. i = 256 * (i \div 256) + (i % 256)
    BY <2>1
  <2>5. i \div 256 = 256 * (i \div (256 * 256)) + ((i \div 256) % 256)
    BY <2>1
  <2>6. ra(i) = i \div (256 * 256) /\ rb(i) = (i \div 256) % 256 /\ rc(i) = i % 256
    BY <1>4, <2>3 DEF ra, rb, rc
  <2> QED
    BY <2>1, <1>2, <1>4, <2>2, <2>4, <2>5, <2>6
<1> QED
  BY <1>2, <1>3, <1>4, ImageAssumption

\* A call.
LEMMA SourceCall ==
  ASSUME AsmInv, SourceInv, EmitCall
  PROVE  SourceInv'
<1> DEFINE i == Line.args[1]
           w == pack_instr(OPCODES["call"], ra(i), rb(i), rc(i))
<1>1. /\ Reading /\ inFunc /\ isInstr({"call"}) /\ Encodable(Line)
      /\ Becomes(emitted(cur, <<w>>))
  BY DEF EmitCall
<1>2. Line.line = "instr" /\ Line.mnem = "call"
  BY <1>1 DEF isInstr, is
<1>3. i \in Nat /\ i < INDEX
  <2>1. i \in 0 .. INDEX - 1
    BY <1>1 DEF isInstr, Encodable, BRANCH_OPS, INDEX
  <2> QED
    BY <2>1, IndexBound
<1>4. i \in Words /\ (ra(i) * BYTE + rb(i)) * BYTE + rc(i) = i
  <2> HIDE DEF i
  <2> QED
    BY <1>3, IndexFields
<1>5. ra(i) \in Bytes /\ rb(i) \in Bytes /\ rc(i) \in Bytes
  BY <1>4, Fields
<1>6. w \in Words /\ op(w) = 12 /\ ra(w) = ra(i) /\ rb(w) = rb(i) /\ rc(w) = rc(i)
  <2>1. OPCODES["call"] = 12 /\ 12 \in Bytes /\ rc(i) \in Nat
    BY <1>5, Encodings, WordFacts
  <2> DEFINE a == ra(i)
             b == rb(i)
             c == rc(i)
  <2>2. a \in Bytes /\ b \in Bytes /\ c \in Bytes /\ c \in Nat /\ w = pack_instr(12, a, b, c)
    BY <1>5, <2>1
  <2> HIDE DEF a, b, c, w
  <2>3. w \in Words /\ op(w) = 12 /\ ra(w) = a /\ rb(w) = b /\ rc(w) = c
    BY <2>1, <2>2, PackInstr
  <2> QED
    BY <2>3 DEF a, b, c
<1> HIDE DEF w
<1>7. <<w>> \in Seq(Words) /\ <<w>> # <<>> /\ Len(<<w>>) = 1 /\ <<w>>[1] = w
  BY <1>6
<1>8. "call" \in DOMAIN OPCODES /\ "call" \notin Plain /\ "call" \notin BRANCH_OPS
      /\ OPCODES["call"] = 12
  BY Encodings DEF Plain, BRANCH_OPS
<1>9. (ra(w) * BYTE + rb(w)) * BYTE + rc(w) = Line.args[1]
  BY <1>4, <1>6
<1>10. Spells(<<w>>, Line)
  BY <1>2, <1>6, <1>7, <1>8, <1>9 DEF Spells
<1>11. cost(pos) = 1
  BY <1>1, <1>2, <1>8, LineFacts DEF cost
<1> QED
  BY <1>1, <1>2, <1>7, <1>8, <1>10, <1>11, SourceEmit

\* A branch, its target to be patched in.
LEMMA SourceBranch ==
  ASSUME AsmInv, SourceInv, EmitBranch
  PROVE  SourceInv'
<1> DEFINE w == pack_instr(OPCODES[Line.mnem], 0, 0, 0)
           words == <<w, 0>>
           x == Line.args[1]
           patch == [offset |-> offset(cur), label |-> x]
           e == emitted(cur, words)
           f == [e EXCEPT !.patches = Append(@, patch)]
<1>1. /\ Reading /\ inFunc /\ isInstr(BRANCH_OPS) /\ Encodable(Line) /\ Becomes(f)
  BY DEF EmitBranch
<1>2. Line.line = "instr" /\ Line.mnem \in BRANCH_OPS /\ Line.mnem \in DOMAIN OPCODES
  BY <1>1 DEF isInstr, is, Encodable
<1>3. Line.mnem # "load" /\ Line.mnem # "call" /\ Line.mnem \notin Plain
  BY <1>2 DEF BRANCH_OPS, Plain
<1>4. x \in Names
  <2>1. Encodable(Line) /\ Line.mnem \in BRANCH_OPS
    BY <1>1, <1>2
  <2> DEFINE l == Line
  <2>2. Encodable(l) /\ l.mnem \in BRANCH_OPS
        /\ l.mnem # "call" /\ l.mnem # "load" /\ l.mnem # "mov"
    BY <2>1, <1>3 DEF BRANCH_OPS
  <2> HIDE DEF l, w, words, patch, e, f
  <2>3. l.args[1] \in Names
    BY <2>2 DEF Encodable
  <2> QED
    BY <2>3 DEF l
<1>5. w \in Words /\ op(w) = OPCODES[Line.mnem]
  <2>1. OPCODES[Line.mnem] \in 8 .. 11
    BY <1>2, Encodings
  <2>2. OPCODES[Line.mnem] \in Bytes /\ 0 \in Bytes /\ 0 \in Nat
    BY <2>1, WordFacts
  <2> QED
    BY <2>2, PackInstr
<1> HIDE DEF w
<1>6. words \in Seq(Words) /\ words # <<>> /\ Len(words) = 2 /\ words[1] = w
  BY <1>5, WordFacts
<1> HIDE DEF words
<1>7. /\ e \in Func /\ e.raw = cur.raw \o words /\ e.lines = cur.lines \o marked(words)
      /\ e.labels = cur.labels /\ e.patches = cur.patches /\ e.frameSize = cur.frameSize
  BY <1>1, <1>6, EmittedFunction
<1>8. /\ FuncOK(cur) /\ cur \in Func /\ Len(cur.lines) = Len(cur.raw)
      /\ pos \in Nat \ {0} /\ Len(cur.raw) \in Nat
      /\ cur.raw \in Seq(Words) /\ CodeOK(cur) /\ PatchesOK(cur)
      /\ cur.patches \in Seq([offset : Nat, label : Names])
  BY <1>1, CurrentFunction, LineFacts DEF FuncOK, CodeOK
<1>9. patch \in [offset : Nat, label : Names] /\ patch = [offset |-> 4 * Len(cur.raw), label |-> x]
  BY <1>4, <1>8 DEF offset
<1> HIDE DEF e
<1>10. /\ f \in Func /\ f.raw = cur.raw \o words /\ f.lines = cur.lines \o marked(words)
       /\ f.labels = cur.labels /\ f.frameSize = cur.frameSize
       /\ f.patches = Append(cur.patches, [offset |-> 4 * Len(cur.raw), label |-> x])
  <2>1. Append(cur.patches, patch) \in Seq([offset : Nat, label : Names])
    BY <1>8, <1>9
  <2> HIDE DEF patch
  <2> QED
    BY <1>7, <1>9, <2>1 DEF Func
<1> HIDE DEF f, patch
<1>11. Extends(f, cur, words)
  BY <1>6, <1>8, <1>10, GrownCode
\* Earlier patches are for earlier words.
<1>12. ASSUME NEW j \in DOMAIN f.patches, f.patches[j].offset = 4 * Len(cur.raw)
       PROVE  f.patches[j].label = x
  <2> DEFINE s == cur.patches
             p == [offset |-> 4 * Len(cur.raw), label |-> x]
             c == Len(s)
  <2>1. s \in Seq([offset : Nat, label : Names]) /\ c \in Nat /\ DOMAIN s = 1 .. c
    BY <1>8
  <2>2. f.patches = Append(s, p) /\ p.label = x
    BY <1>10
  <2> HIDE DEF s, p
  <2>3. /\ DOMAIN f.patches = 1 .. c + 1
        /\ \A m \in 1 .. c + 1 : f.patches[m] = IF m = c + 1 THEN p ELSE s[m]
    BY <2>1, <2>2
  <2>4. CASE j = c + 1
    BY <2>2, <2>3, <2>4
  <2>5. CASE j # c + 1
    <3>1. j \in DOMAIN s /\ f.patches[j] = s[j]
      BY <2>1, <2>3, <2>5
    <3>2. PICK k \in Nat : InstrAt(cur, k) /\ cur.patches[j].offset = 4 * (k - 1)
      BY <1>8, <3>1 DEF PatchesOK, Patch, s
    <3>3. k \in 1 .. Len(cur.raw)
      BY <3>2 DEF InstrAt
    <3>4. 4 * (k - 1) # 4 * Len(cur.raw)
      BY <1>8, <3>3
    <3> QED
      BY <1>12, <3>1, <3>2, <3>4 DEF s
  <2> QED
    BY <2>4, <2>5
<1>13. Spells(words, Line)
  BY <1>2, <1>3, <1>5, <1>6 DEF Spells
<1>14. Encodes(f, Len(cur.raw) + 1, Line)
  BY <1>6, <1>8, <1>11, <1>12, <1>13, EncodesNew
<1>15. cost(pos) = 2
  BY <1>1, <1>2, <1>3, LineFacts DEF cost
<1> QED
  BY <1>1, <1>2, <1>6, <1>10, <1>14, <1>15, SourceGrown

\* A function begins, behind all others.
LEMMA Begun ==
  ASSUME AsmInv, BeginFunc
  PROVE  /\ Len(functions) \in Nat
         /\ functions' \in Seq(Func) /\ Len(functions)' = Len(functions) + 1
         /\ functions'[Len(functions) + 1] =
              [frameSize |-> Line.frameSize, labels |-> [x \in {} |-> 0], patches |-> <<>>,
               raw |-> <<>>, lines |-> <<>>]
         /\ \A i \in 1 .. Len(functions) : functions'[i] = functions[i]
         /\ \A i \in 1 .. Len(functions) + 1 : rawsBefore(i)' = rawsBefore(i)
         /\ rawsBefore(Len(functions) + 1)' = rawsBefore(Len(functions) + 1)
<1> DEFINE n == Len(functions)
           f == [frameSize |-> Line.frameSize, labels |-> [x \in {} |-> 0], patches |-> <<>>,
                 raw |-> <<>>, lines |-> <<>>]
<1>1. functions' = Append(functions, f) /\ f.raw = <<>>
  BY DEF BeginFunc
<1>2. functions \in Seq(Func) /\ n \in Nat
  BY DEF AsmInv, FuncsOK
<1>3. functions' \in Seq(Func)
  BY BeginFuncStep DEF AsmInv, FuncsOK
<1> HIDE DEF f
<1>4. /\ Len(functions') = n + 1 /\ functions'[n + 1] = f
      /\ \A i \in 1 .. n : functions'[i] = functions[i]
  BY <1>1, <1>2
<1>5. \A i \in 1 .. n + 1 : rawsBefore(i)' = rawsBefore(i)
  <2>1. n =< Len(functions) /\ n =< Len(functions')
    BY <1>2, <1>4
  <2> HIDE DEF n
  <2> QED
    BY <1>2, <1>3, <1>4, <2>1, RawsPrefix
<1>6. rawsBefore(Len(functions) + 1)' = rawsBefore(n + 1)
  <2> DEFINE v == raws'
  <2>1. DOMAIN functions' = 1 .. n + 1
    BY <1>3, <1>4
  <2>2. \A i \in 1 .. n + 1 : v[i] = Len(functions'[i].raw)
    BY <2>1 DEF raws
  <2>3. \A i \in 1 .. n + 1 : functions'[i] \in Func
    BY <1>3, <2>1
  <2>4. \A g \in Func : Len(g.raw) \in Int
    BY DEF Func
  <2>5. \A i \in 1 .. n + 1 : v[i] \in Int
    BY <2>2, <2>3, <2>4
  <2>6. n + 1 \in 1 .. n + 1 /\ (n + 1) - 1 = n
    BY <1>2
  <2>7. v[n + 1] = 0
    BY <1>1, <1>4, <2>2, <2>6
  <2>8. rawsBefore(Len(functions) + 1)' = sumOf(v, n + 1)
    <3>1. Len(functions)' + 1 - 1 = n + 1
      BY <1>2, <1>4
    <3> QED
      BY <3>1 DEF rawsBefore
  <2>9. \A m : rawsBefore(m)' = sumOf(v, m - 1)
    BY DEF rawsBefore
  <2> HIDE DEF v, n
  <2>10. sumOf(v, n + 1) = sumOf(v, n) + v[n + 1] /\ sumOf(v, n) \in Int
    BY <1>2, <2>5, SumNext
  <2>11. \A i \in 1 .. n + 1 : sumOf(v, i - 1) = rawsBefore(i)
    BY <1>5, <2>9
  <2>12. sumOf(v, n) = rawsBefore(n + 1)
    BY <2>6, <2>11
  <2> QED
    BY <2>7, <2>8, <2>10, <2>12
<1> QED
  BY <1>2, <1>3, <1>4, <1>5, <1>6 DEF f

\* A function is opened by its line.
LEMMA SourceBegins ==
  ASSUME AsmInv, SourceInv, BeginFunc
  PROVE  SourceInv'
<1> DEFINE n == Len(functions)
           f == [frameSize |-> Line.frameSize, labels |-> [x \in {} |-> 0], patches |-> <<>>,
                 raw |-> <<>>, lines |-> <<>>]
<1>1. /\ Reading /\ Line.line = "func"
      /\ source' = source /\ pos' = pos + 1 /\ asm' = asm /\ asm = "reading"
  BY DEF BeginFunc, is, Reading
<1>2. /\ n \in Nat /\ Len(functions)' = n + 1
      /\ functions'[n + 1] = f
      /\ \A i \in 1 .. n : functions'[i] = functions[i]
      /\ \A i \in 1 .. n + 1 : rawsBefore(i)' = rawsBefore(i)
      /\ rawsBefore(Len(functions) + 1)' = rawsBefore(n + 1)
  BY Begun
<1>3. /\ source \in Programs \cup {<<>>}
      /\ pos \in 1 .. Len(source) /\ Line = source[pos]
      /\ funcsBefore(pos) = n /\ wordsBefore(pos) = rawsBefore(n + 1)
      /\ funcsBefore(pos + 1) = n + opens(pos)
      /\ wordsBefore(pos + 1) = rawsBefore(n + 1) + cost(pos)
      /\ rawsBefore(n + 1) \in Nat
  BY <1>1, AtLine
<1>4. opens(pos) = 1 /\ cost(pos) = 0
  BY <1>1, <1>3 DEF opens, cost
<1>5. \A m : funcsBefore(m)' = funcsBefore(m) /\ wordsBefore(m)' = wordsBefore(m)
  BY <1>1, SameSource
<1>6. /\ f.frameSize = source[pos].frameSize
      /\ f.raw = <<>> /\ DOMAIN f.labels = {}
  BY <1>3
<1> HIDE DEF n, f
<1>7. funcsBefore(pos)' = Len(functions)' /\ wordsBefore(pos)' = rawsBefore(Len(functions) + 1)'
  <2>1. funcsBefore(pos)' = funcsBefore(pos + 1) /\ wordsBefore(pos)' = wordsBefore(pos + 1)
    BY <1>1, <1>5 DEF funcsBefore, wordsBefore
  <2> QED
    BY <1>2, <1>3, <1>4, <2>1
<1>8. Tells(f, n + 1, rawsBefore(n + 1), pos + 1)
  <2> DEFINE b == rawsBefore(n + 1)
  <2>1. Opened(f, n + 1, b, pos + 1)
    <3>1. pos \in 1 .. (pos + 1) - 1 /\ source[pos].line = "func"
      BY <1>1, <1>3
    <3>2. funcsBefore(pos) = (n + 1) - 1 /\ wordsBefore(pos) = b
      BY <1>2, <1>3
    <3> QED
      BY <1>6, <3>1, <3>2 DEF Opened
  <2>2. \A k : ~InstrAt(f, k)
    BY <1>6 DEF InstrAt
  <2>3. Emitted(f, n + 1, b, pos + 1) /\ Labelled(f, n + 1, b, pos + 1)
    BY <1>6, <2>2 DEF Emitted, Labelled
  <2> QED
    BY <2>1, <2>3 DEF Tells
<1>9. ASSUME NEW i \in 1 .. Len(functions)'
      PROVE  Tells(functions[i], i, rawsBefore(i), pos)'
  <2>1. i \in 1 .. n + 1 /\ rawsBefore(i)' = rawsBefore(i)
    BY <1>2
  <2>2. Tells(functions'[i], i, rawsBefore(i), pos + 1)
    <3>1. CASE i = n + 1
      BY <1>2, <1>8, <3>1
    <3>2. CASE i # n + 1
      <4>1. i \in 1 .. n
        BY <1>2, <2>1, <3>2
      <4>2. Tells(functions[i], i, rawsBefore(i), pos)
        BY <4>1 DEF SourceInv, n
      <4>3. source[pos].line # "label"
        BY <1>1, <1>3
      <4>4. Tells(functions[i], i, rawsBefore(i), pos + 1)
        BY <1>3, <4>2, <4>3, TellsOn
      <4> QED
        BY <1>2, <4>1, <4>4
    <3> QED
      BY <3>1, <3>2
  <2> QED
    BY <1>1, <2>1, <2>2, SameTells
<1>10. ASSUME NEW m \in 1 .. pos' - 1, source'[m].line # "func"
       PROVE  m \in 1 .. pos - 1 /\ source[m].line = source'[m].line
  <2>1. m # pos
    BY <1>1, <1>3, <1>10
  <2> QED
    BY <1>1, <1>3, <2>1
<1>11. ASSUME NEW m \in 1 .. pos' - 1, source'[m].line = "instr"
       PROVE  \E i \in 1 .. Len(functions)' : \E k \in Nat :
                InstrAt(functions'[i], k) /\ functions'[i].lines[k] = m
  <2>1. m \in 1 .. pos - 1 /\ source[m].line = "instr"
    BY <1>10, <1>11
  <2>2. PICK i \in 1 .. n : \E k \in Nat : InstrAt(functions[i], k) /\ functions[i].lines[k] = m
    BY <2>1 DEF SourceInv, n
  <2>3. functions'[i] = functions[i] /\ i \in 1 .. Len(functions)'
    BY <1>2
  <2> QED
    BY <2>2, <2>3
<1>12. ASSUME NEW m \in 1 .. pos' - 1, source'[m].line = "label"
       PROVE  funcsBefore(m)' >= 1
  <2>1. m \in 1 .. pos - 1 /\ source[m].line = "label"
    BY <1>10, <1>12
  <2> QED
    BY <1>5, <2>1 DEF SourceInv
<1> QED
  BY <1>1, <1>7, <1>9, <1>11, <1>12 DEF SourceInv

\* A label takes the place of an earlier one of its name.
LEMMA SourceLabel ==
  ASSUME AsmInv, SourceInv, DefineLabel
  PROVE  SourceInv'
<1> DEFINE n == Len(functions)
           b == rawsBefore(n)
           name == lower(Line.name)
           labels == [x \in DOMAIN cur.labels \cup {name} |->
                        IF x = name THEN offset(cur) ELSE cur.labels[x]]
           f == [cur EXCEPT !.labels = labels]
<1>1. Reading /\ inFunc /\ Line.line = "label" /\ Becomes(f)
  BY DEF DefineLabel, is
<1>2. /\ cur \in Func /\ Len(cur.raw) \in Nat /\ cur.labels \in Labelings
  BY <1>1, CurrentFunction
<1>3. name \in Names
  BY <1>1, LineFacts, SourceLines, AssemblerAssumption
<1>4. offset(cur) = 4 * Len(cur.raw) /\ offset(cur) \in Nat
  BY <1>2 DEF offset
<1>5. /\ source \in Programs \cup {<<>>}
      /\ pos \in 1 .. Len(source) /\ Line = source[pos]
      /\ funcsBefore(pos) = n /\ wordsBefore(pos) = rawsBefore(n + 1)
  BY <1>1, AtLine
<1>6. n \in 1 .. n /\ b \in Nat /\ rawsBefore(n + 1) = b + Len(cur.raw) /\ functions[n] = cur
  <2>1. functions # <<>> /\ functions \in Seq(Func)
    BY <1>1 DEF AsmInv, FuncsOK
  <2>2. n \in 1 .. n /\ functions[n] = cur
    BY <2>1 DEF cur
  <2>3. n \in Nat /\ n \in 1 .. Len(functions) /\ n \in 1 .. Len(functions) + 1
    BY <2>1
  <2>4. rawsBefore(n + 1) = rawsBefore(n) + Len(functions[n].raw) /\ rawsBefore(n) \in Nat
    BY <2>1, <2>3, Bases
  <2> QED
    BY <2>2, <2>4
<1>7. Tells(cur, n, b, pos)
  BY <1>6 DEF SourceInv
<1>8. Labels(pos, n, name) /\ \A x : Labels(pos, n, x) => x = name
  BY <1>1, <1>5 DEF Labels
<1>9. PICK D \in SUBSET Names : cur.labels \in [D -> Nat]
  BY <1>2 DEF Labelings
<1>10. wordsBefore(pos) - b = Len(cur.raw)
  BY <1>2, <1>5, <1>6
<1> HIDE DEF name, n, b
<1>11. labels \in Labelings /\ DOMAIN labels = D \cup {name}
  <2>1. labels \in [D \cup {name} -> Nat] /\ D \cup {name} \in SUBSET Names
    BY <1>3, <1>4, <1>9
  <2> QED
    BY <2>1 DEF Labelings
<1>12. \A x \in D \cup {name} : labels[x] = IF x = name THEN offset(cur) ELSE cur.labels[x]
  BY <1>9
<1> HIDE DEF labels
<1>13. /\ f \in Func /\ f.raw = cur.raw /\ f.lines = cur.lines /\ f.patches = cur.patches
       /\ f.labels = labels /\ f.frameSize = cur.frameSize
  BY <1>2, <1>11 DEF Func
<1> HIDE DEF f
<1>14. \A k : InstrAt(f, k) <=> InstrAt(cur, k)
  BY <1>13 DEF InstrAt
<1>15. \A m \in 1 .. pos - 1 : m \in 1 .. (pos + 1) - 1 /\ m =< pos
  BY <1>5
<1>16. \A m \in 1 .. (pos + 1) - 1 : m \in 1 .. pos - 1 \/ m = pos
  BY <1>5
<1>17. Opened(f, n, b, pos + 1)
  BY <1>7, <1>13, <1>15 DEF Tells, Opened
<1>18. Emitted(f, n, b, pos + 1)
  <2>1. ASSUME NEW k, NEW line, Encodes(cur, k, line) PROVE Encodes(f, k, line)
    BY <1>13, <2>1 DEF Encodes
  <2> QED
    BY <1>7, <1>13, <1>14, <1>15, <2>1 DEF Tells, Emitted
<1>19. Labelled(f, n, b, pos + 1)
  <2> SUFFICES ASSUME NEW x \in DOMAIN labels
               PROVE  \E m \in 1 .. (pos + 1) - 1 :
                        /\ Labels(m, n, x)
                        /\ labels[x] = 4 * (wordsBefore(m) - b)
                        /\ \A l \in 1 .. (pos + 1) - 1 : Labels(l, n, x) => l =< m
    BY <1>13 DEF Labelled
  <2>1. CASE x = name
    <3>1. labels[x] = 4 * (wordsBefore(pos) - b)
      BY <1>4, <1>10, <1>11, <1>12, <2>1
    <3>2. pos \in 1 .. (pos + 1) - 1 /\ \A l \in 1 .. (pos + 1) - 1 : l =< pos
      BY <1>5
    <3> QED
      BY <1>8, <2>1, <3>1, <3>2
  <2>2. CASE x # name
    <3>1. x \in DOMAIN cur.labels /\ labels[x] = cur.labels[x]
      BY <1>9, <1>11, <1>12, <2>2
    <3>2. PICK m \in 1 .. pos - 1 :
            /\ Labels(m, n, x)
            /\ cur.labels[x] = 4 * (wordsBefore(m) - b)
            /\ \A l \in 1 .. pos - 1 : Labels(l, n, x) => l =< m
      BY <1>7, <3>1 DEF Tells, Labelled
    <3>3. \A l \in 1 .. (pos + 1) - 1 : Labels(l, n, x) => l =< m
      BY <1>8, <1>16, <2>2, <3>2
    <3> QED
      BY <1>15, <3>1, <3>2, <3>3
  <2> QED
    BY <2>1, <2>2
<1>20. Tells(f, Len(functions), rawsBefore(Len(functions)), pos + 1)
  BY <1>17, <1>18, <1>19 DEF Tells, n, b
<1>21. Len(f.raw) = Len(cur.raw) + cost(pos)
  <2>1. cost(pos) = 0
    BY <1>1, <1>5 DEF cost
  <2> QED
    BY <1>2, <1>13, <2>1
<1>22. \A k \in Nat : InstrAt(cur, k) => InstrAt(f, k) /\ f.lines[k] = cur.lines[k]
  BY <1>13, <1>14
<1> QED
  BY <1>1, <1>13, <1>20, <1>21, <1>22, SourceReplaced

\* Steps that leave the functions.
LEMMA SourceKept ==
  ASSUME AsmInv, SourceInv, functions' = functions, source' = source,
         pos' = pos \/ (Reading /\ Line.line = "endfunc" /\ pos' = pos + 1),
         asm' = "written" => pos' = Len(source) + 1 /\ (Filed' \/ source = <<>>)
  PROVE  SourceInv'
<1>1. /\ Len(functions)' = Len(functions)
      /\ \A i : rawsBefore(i)' = rawsBefore(i)
      /\ rawsBefore(Len(functions) + 1)' = rawsBefore(Len(functions) + 1)
  <2>1. Len(functions)' = Len(functions) /\ \A i : rawsBefore(i)' = rawsBefore(i)
    BY SameFunctions
  <2> QED
    BY <2>1 DEF rawsBefore, raws
<1>2. \A m : funcsBefore(m)' = funcsBefore(m) /\ wordsBefore(m)' = wordsBefore(m)
  BY SameSource
<1>3. /\ funcsBefore(pos') = funcsBefore(pos) /\ wordsBefore(pos') = wordsBefore(pos)
      /\ \A m \in 1 .. pos' - 1 : m \in 1 .. pos - 1 \/ source[m].line = "endfunc"
      /\ \A i \in 1 .. Len(functions) : Tells(functions[i], i, rawsBefore(i), pos')
  <2>1. CASE pos' = pos
    <3>1. \A i \in 1 .. Len(functions) : Tells(functions[i], i, rawsBefore(i), pos)
      BY DEF SourceInv
    <3> QED
      BY <2>1, <3>1
  <2>2. CASE Reading /\ Line.line = "endfunc" /\ pos' = pos + 1
    <3>1. /\ source \in Programs \cup {<<>>}
          /\ pos \in 1 .. Len(source) /\ source[pos].line = "endfunc"
          /\ funcsBefore(pos) = Len(functions) /\ wordsBefore(pos) = rawsBefore(Len(functions) + 1)
          /\ funcsBefore(pos + 1) = Len(functions) + opens(pos)
          /\ wordsBefore(pos + 1) = rawsBefore(Len(functions) + 1) + cost(pos)
          /\ rawsBefore(Len(functions) + 1) \in Nat /\ Len(functions) \in Nat
      BY <2>2, AtLine
    <3>2. opens(pos) = 0 /\ cost(pos) = 0
      BY <3>1 DEF opens, cost
    <3>3. funcsBefore(pos + 1) = funcsBefore(pos) /\ wordsBefore(pos + 1) = wordsBefore(pos)
      BY <3>1, <3>2
    <3>4. ASSUME NEW i \in 1 .. Len(functions)
          PROVE  Tells(functions[i], i, rawsBefore(i), pos + 1)
      <4>1. Tells(functions[i], i, rawsBefore(i), pos)
        BY DEF SourceInv
      <4>2. source[pos].line # "label"
        BY <3>1
      <4> QED
        BY <3>1, <4>1, <4>2, TellsOn
    <3>5. \A m \in 1 .. pos' - 1 : m \in 1 .. pos - 1 \/ m = pos
      BY <2>2, <3>1
    <3> QED
      BY <2>2, <3>1, <3>3, <3>4, <3>5
  <2> QED
    BY <2>1, <2>2
<1>4. funcsBefore(pos)' = Len(functions)' /\ wordsBefore(pos)' = rawsBefore(Len(functions) + 1)'
  <2>1. funcsBefore(pos)' = funcsBefore(pos') /\ wordsBefore(pos)' = wordsBefore(pos')
    BY <1>2 DEF funcsBefore, wordsBefore
  <2>2. funcsBefore(pos) = Len(functions) /\ wordsBefore(pos) = rawsBefore(Len(functions) + 1)
    BY DEF SourceInv
  <2> QED
    BY <1>1, <1>3, <2>1, <2>2
<1>5. ASSUME NEW i \in 1 .. Len(functions)'
      PROVE  Tells(functions[i], i, rawsBefore(i), pos)'
  <2>1. i \in 1 .. Len(functions) /\ rawsBefore(i)' = rawsBefore(i)
    BY <1>1
  <2>2. Tells(functions'[i], i, rawsBefore(i), pos')
    BY <1>3, <2>1
  <2> QED
    BY <2>1, <2>2, SameTells
<1>6. ASSUME NEW m \in 1 .. pos' - 1, source'[m].line = "instr"
      PROVE  \E i \in 1 .. Len(functions)' : \E k \in Nat :
               InstrAt(functions'[i], k) /\ functions'[i].lines[k] = m
  <2>1. m \in 1 .. pos - 1 /\ source[m].line = "instr"
    BY <1>3, <1>6
  <2> QED
    BY <1>1, <2>1 DEF SourceInv
<1>7. ASSUME NEW m \in 1 .. pos' - 1, source'[m].line = "label"
      PROVE  funcsBefore(m)' >= 1
  <2>1. m \in 1 .. pos - 1 /\ source[m].line = "label"
    BY <1>3, <1>7
  <2> QED
    BY <1>2, <2>1 DEF SourceInv
<1> QED
  BY <1>4, <1>5, <1>6, <1>7 DEF SourceInv

\* Every step of the assembler keeps the counts.
LEMMA SourceStep ==
  ASSUME Clean, AsmInv, SourceInv, AsmNext \/ UNCHANGED asmVars
  PROVE  SourceInv'
<1>1. CASE EndFunc
  <2>1. /\ functions' = functions /\ source' = source /\ asm' = "reading"
        /\ Reading /\ Line.line = "endfunc" /\ pos' = pos + 1
    BY <1>1 DEF EndFunc, is, Reading
  <2> QED
    BY <2>1, SourceKept
<1>2. CASE Reject \/ RejectFile
  <2>1. functions' = functions /\ source' = source /\ asm' = "exited" /\ pos' = pos
    BY <1>2 DEF Reject, RejectFile
  <2> QED
    BY <2>1, SourceKept
<1>3. CASE EmitBinary
  <2>1. /\ functions' = functions /\ source' = source /\ pos' = pos /\ pos > Len(source)
        /\ image' = fileHeader \o funcTable \o code
        /\ \A i \in DOMAIN functions : Defined(functions[i])
    BY <1>3 DEF EmitBinary, AtEnd
  <2>2. fileHeader' = fileHeader /\ funcTable' = funcTable /\ code' = code
    BY <2>1, SameFunctions
  <2>3. \A i \in DOMAIN functions' : Defined(functions'[i])
    BY <2>1
  <2>4. Filed'
    BY <2>1, <2>2, <2>3 DEF Filed
  <2>5. pos = Len(source) + 1
    BY <2>1, SourceLines DEF AsmInv
  <2> QED
    BY <2>1, <2>4, <2>5, SourceKept
<1>4. CASE UNCHANGED asmVars
  <2>1. /\ functions' = functions /\ source' = source /\ pos' = pos /\ asm' = asm
        /\ image' = image
    BY <1>4 DEF asmVars
  <2>2. ASSUME Filed PROVE Filed'
    BY <2>1, <2>2, SameFunctions DEF Filed
  <2>3. asm' = "written" => pos' = Len(source) + 1 /\ (Filed' \/ source = <<>>)
    BY <2>1, <2>2 DEF SourceInv
  <2> QED
    BY <2>1, <2>3, SourceKept
<1> QED
  BY <1>1, <1>2, <1>3, <1>4, SourceBegins, SourceLabel, SourcePlain, SourceLoad, SourceCall,
     SourceBranch DEF AsmNext

\* They hold of nothing read.
LEMMA SourceStart ==
  ASSUME MachineInit
  PROVE  SourceInv
<1>1. functions = <<>> /\ pos = 1 /\ source \in Programs \cup {<<>>}
  BY DEF MachineInit, AsmInit
<1>2. funcsBefore(1) = 0 /\ wordsBefore(1) = 0
  BY <1>1, Counting
<1>3. Len(functions) = 0 /\ rawsBefore(1) = 0
  BY <1>1, Bases
<1>4. asm = "written" => source = <<>> /\ pos = Len(source) + 1
  BY DEF MachineInit, AsmInit
<1> QED
  BY <1>1, <1>2, <1>3, <1>4 DEF SourceInv

\* They hold throughout.
LEMMA MachineTells ==
  ASSUME Clean
  PROVE  MachineSpec => []SourceInv
<1>1. AsmInv /\ SourceInv /\ [MachineNext]_<<asmVars, vmVars>> => SourceInv'
  <2> SUFFICES ASSUME AsmInv, SourceInv, [MachineNext]_<<asmVars, vmVars>> PROVE SourceInv'
    OBVIOUS
  <2>1. AsmNext \/ UNCHANGED asmVars
    BY VmKeepsFile DEF MachineNext, VmNext, Assemble
  <2> QED
    BY <2>1, SourceStep
<1>2. MachineInit => SourceInv
  BY SourceStart
<1> QED
  BY <1>1, <1>2, MachineAsmInv, PTL DEF MachineSpec

(***************************************************************************)
(* The source program's own reckoning, in these counts.                    *)
(***************************************************************************)
\* The greatest of a set is its maximum, here and for the source program.
LEMMA GreatestIs ==
  ASSUME NEW S, S \subseteq Int, NEW m \in S, \A n \in S : n =< m
  PROVE  Max(S) = m /\ Program!Max(S) = m
<1>1. \A x \in S : (\A y \in S : x >= y) => x = m
  <2>1. ASSUME NEW x \in S, \A y \in S : x >= y PROVE x = m
    <3>1. x >= m /\ x =< m /\ x \in Int /\ m \in Int
      BY <2>1
    <3> QED
      BY <3>1
  <2> QED
    BY <2>1
<1>2. \A y \in S : m >= y
  BY DEF Max
<1> QED
  BY <1>1, <1>2 DEF Max, Program!Max

\* The line after a line: it, if it is an instruction, or the one after it.
LEMMA NextLine ==
  ASSUME source \in Programs \cup {<<>>}, NEW n \in 0 .. Len(source)
  PROVE  /\ n = Len(source) => Program!next(n) = Len(source) + 1
         /\ n # Len(source) /\ source[n + 1].line = "instr" => Program!next(n) = n + 1
         /\ n # Len(source) /\ source[n + 1].line # "instr" => Program!next(n) = Program!next(n + 1)
<1> DEFINE N == Len(source)
           S(k) == {m \in Program!Instrs : m > k} \cup {Program!After}
<1>1. N \in Nat /\ DOMAIN source = 1 .. N
  BY SourceLines
<1>2. Program!After = N + 1 /\ Program!Instrs = {m \in 1 .. N : source[m].line = "instr"}
  BY <1>1 DEF Program!After, Program!Instrs
<1>3. \A k : Program!next(k) = Program!Min(S(k))
  BY DEF Program!next
<1> HIDE DEF N
<1>4. \A k : S(k) \subseteq Int
  BY <1>1, <1>2
<1>5. CASE n = N
  <2>1. S(n) = {N + 1}
    BY <1>1, <1>2, <1>5
  <2> HIDE DEF S
  <2>2. Program!Min(S(n)) = N + 1
    BY <1>1, <1>4, <2>1, LeastIs
  <2> QED
    BY <1>3, <1>5, <2>2 DEF N
<1>6. CASE n # N /\ source[n + 1].line = "instr"
  <2>1. n + 1 \in S(n)
    <3>1. n + 1 \in 1 .. N /\ n + 1 > n
      <4>1. n \in 0 .. N /\ n # N /\ N \in Nat
        BY <1>1, <1>6 DEF N
      <4> QED
        BY <4>1
    <3>2. n + 1 \in Program!Instrs
      BY <1>2, <1>6, <3>1
    <3> QED
      BY <3>1, <3>2
  <2>2. \A m \in S(n) : n + 1 =< m
    BY <1>1, <1>2 DEF N
  <2> HIDE DEF S
  <2>3. Program!Min(S(n)) = n + 1
    BY <1>4, <2>1, <2>2, LeastIs
  <2> QED
    BY <1>3, <1>6, <2>3 DEF N
<1>7. CASE n # N /\ source[n + 1].line # "instr"
  <2>1. S(n) = S(n + 1)
    <3>1. \A m \in Program!Instrs : m > n <=> m > n + 1
      <4>1. ASSUME NEW m \in Program!Instrs PROVE m > n <=> m > n + 1
        <5>1. m \in Nat /\ m # n + 1
          BY <1>1, <1>2, <1>7
        <5> QED
          BY <5>1
      <4> QED
        BY <4>1
    <3> QED
      BY <3>1
  <2> HIDE DEF S
  <2> QED
    BY <1>3, <1>7, <2>1 DEF N
<1> QED
  BY <1>5, <1>6, <1>7 DEF N

(***************************************************************************)
(* Where a written file holds the lines of its source.                     *)
(***************************************************************************)
\* The counts on a written file: what the lines say of every function, and
\* every instruction of theirs is in one.
Written == AsmInv /\ SourceInv /\ Filed /\ pos = Len(source) + 1

\* Where the code of line n lies.
address(n) == codeOffset + 4 * wordsBefore(n)

\* The counts in the file.
LEMMA WrittenFacts ==
  ASSUME Written
  PROVE  /\ source \in Programs \cup {<<>>} /\ FuncsOK /\ Filed
         /\ Len(source) \in Nat /\ DOMAIN source = 1 .. Len(source)
         /\ Len(functions) \in Nat
         /\ codeOffset = 32 + 8 * Len(functions)
         /\ funcsBefore(Len(source) + 1) = Len(functions)
         /\ wordsBefore(Len(source) + 1) = rawsBefore(Len(functions) + 1)
         /\ address(Len(source) + 1) = EndOfCode
         /\ \A i \in 1 .. Len(functions) :
              /\ Tells(functions[i], i, rawsBefore(i), Len(source) + 1)
              /\ rawsBefore(i) \in Nat
              /\ base(i) = codeOffset + 4 * rawsBefore(i)
<1>1. source \in Programs \cup {<<>>} /\ FuncsOK /\ Filed
  BY DEF Written, AsmInv
<1>2. Len(source) \in Nat /\ DOMAIN source = 1 .. Len(source)
  BY <1>1, SourceLines
<1>3. /\ Len(functions) \in Nat
      /\ \A i \in 1 .. Len(functions) + 1 :
           rawsBefore(i) \in Nat /\ base(i) = 32 + 8 * Len(functions) + 4 * rawsBefore(i)
  BY <1>1, Bases DEF FuncsOK
<1>4. codeOffset = 32 + 8 * Len(functions)
  BY DEF codeOffset, HEADER_SIZE, FUNC_ENTRY_SIZE
<1>5. /\ funcsBefore(Len(source) + 1) = Len(functions)
      /\ wordsBefore(Len(source) + 1) = rawsBefore(Len(functions) + 1)
  BY DEF Written, SourceInv
<1>6. Len(functions) + 1 \in 1 .. Len(functions) + 1
      /\ \A i \in 1 .. Len(functions) : i \in 1 .. Len(functions) + 1
  BY <1>3
<1>7. address(Len(source) + 1) = EndOfCode
  BY <1>3, <1>4, <1>5, <1>6 DEF address, EndOfCode
<1>8. ASSUME NEW i \in 1 .. Len(functions)
      PROVE  /\ Tells(functions[i], i, rawsBefore(i), Len(source) + 1)
             /\ rawsBefore(i) \in Nat
             /\ base(i) = codeOffset + 4 * rawsBefore(i)
  BY <1>3, <1>4, <1>6 DEF Written, SourceInv
<1> QED
  BY <1>1, <1>2, <1>3, <1>4, <1>5, <1>7, <1>8

\* An instruction in the file and its line.
LEMMA LineOf ==
  ASSUME Written, NEW i \in 1 .. Len(functions), NEW k \in Nat, InstrAt(functions[i], k)
  PROVE  LET n == functions[i].lines[k]
         IN /\ n \in 1 .. Len(source) /\ source[n].line = "instr"
            /\ funcsBefore(n) = i
            /\ wordsBefore(n) = rawsBefore(i) + (k - 1)
            /\ at(i, k) = address(n)
            /\ Encodes(functions[i], k, source[n])
<1> DEFINE n == functions[i].lines[k]
<1>1. Emitted(functions[i], i, rawsBefore(i), Len(source) + 1) /\ Len(source) \in Nat
  BY WrittenFacts DEF Tells
<1>2. /\ n \in 1 .. (Len(source) + 1) - 1 /\ source[n].line = "instr"
      /\ funcsBefore(n) = i
      /\ wordsBefore(n) = rawsBefore(i) + (k - 1)
      /\ Encodes(functions[i], k, source[n])
  BY <1>1 DEF Emitted
<1>3. at(i, k) = address(n)
  <2>1. base(i) = codeOffset + 4 * rawsBefore(i) /\ rawsBefore(i) \in Nat /\ codeOffset \in Nat
    BY WrittenFacts
  <2> HIDE DEF n
  <2> QED
    BY <1>2, <2>1 DEF at, address
<1> QED
  BY <1>1, <1>2, <1>3

\* No two instructions have as many words before them.
LEMMA SameWords ==
  ASSUME source \in Programs \cup {<<>>},
         NEW m \in 1 .. Len(source), source[m].line = "instr",
         NEW n \in 1 .. Len(source), source[n].line = "instr",
         wordsBefore(m) = wordsBefore(n)
  PROVE  m = n
<1>1. Len(source) \in Nat
  BY SourceLines
<1>2. ASSUME NEW j \in 1 .. Len(source), NEW k \in 1 .. Len(source), j < k,
             source[j].line = "instr"
      PROVE  wordsBefore(j) < wordsBefore(k)
  <2>1. j \in 1 .. Len(source) + 1 /\ j + 1 \in 1 .. Len(source) + 1
        /\ k \in 1 .. Len(source) + 1 /\ j + 1 =< k
    BY <1>1, <1>2
  <2>2. /\ wordsBefore(j) \in Nat /\ wordsBefore(k) \in Nat
        /\ wordsBefore(j + 1) = wordsBefore(j) + cost(j)
        /\ wordsBefore(j + 1) =< wordsBefore(k)
    BY <2>1, Counting
  <2>3. cost(j) \in 1 .. 3
    BY <1>2 DEF cost
  <2> QED
    BY <2>2, <2>3
<1>3. m \in Nat /\ n \in Nat /\ wordsBefore(m) \in Nat
  <2>1. m \in 1 .. Len(source) + 1
    BY <1>1
  <2> QED
    BY <1>1, <2>1, Counting
<1>4. ~(m < n) /\ ~(n < m)
  BY <1>2, <1>3
<1> QED
  BY <1>3, <1>4

\* The line of an instruction's address is the one it came from.
LEMMA LineAtInstr ==
  ASSUME Written, NEW i \in 1 .. Len(functions), NEW k \in Nat, InstrAt(functions[i], k)
  PROVE  lineAt(at(i, k)) = functions[i].lines[k]
<1> DEFINE n == functions[i].lines[k]
           S == {0} \cup UNION {{functions[j].lines[m] : m \in
                   {m \in DOMAIN functions[j].raw : base(j) + 4 * (m - 1) = at(i, k)}} :
                   j \in DOMAIN functions}
<1>1. /\ n \in 1 .. Len(source) /\ source[n].line = "instr"
      /\ wordsBefore(n) = rawsBefore(i) + (k - 1)
      /\ at(i, k) = address(n)
  BY LineOf
<1>2. /\ source \in Programs \cup {<<>>} /\ Len(source) \in Nat
      /\ DOMAIN functions = 1 .. Len(functions) /\ FuncsOK /\ Filed
      /\ \A j \in 1 .. Len(functions) : DOMAIN functions[j].raw = 1 .. Len(functions[j].raw)
                                        /\ Len(functions[j].raw) \in Nat
  BY WrittenFacts, Bases DEF FuncsOK
<1>3. at(i, k) # EndOfCode
  <2>1. k \in 1 .. Len(functions[i].raw)
    BY DEF InstrAt
  <2> QED
    BY <1>2, <2>1, WrittenFile
<1>4. lineAt(at(i, k)) = Max(S)
  BY <1>3 DEF lineAt
<1>5. n \in S
  <2>1. k \in DOMAIN functions[i].raw /\ base(i) + 4 * (k - 1) = at(i, k)
    BY <1>2 DEF InstrAt, at
  <2>2. n \in {functions[i].lines[m] : m \in
               {m \in DOMAIN functions[i].raw : base(i) + 4 * (m - 1) = at(i, k)}}
    BY <2>1
  <2>3. i \in DOMAIN functions
    BY <1>2
  <2> HIDE DEF n
  <2> QED
    BY <2>2, <2>3
<1>6. ASSUME NEW x \in S PROVE x \in Int /\ x =< n
  <2>1. CASE x = 0
    BY <1>1, <2>1
  <2>2. CASE x # 0
    <3>0. PICK j \in 1 .. Len(functions) : \E m \in 1 .. Len(functions[j].raw) :
            at(j, m) = at(i, k) /\ x = functions[j].lines[m]
      BY <1>2, <2>2 DEF at
    <3>1. PICK m \in 1 .. Len(functions[j].raw) :
            at(j, m) = at(i, k) /\ x = functions[j].lines[m]
      BY <3>0
    <3>2. InstrAt(functions[j], m) /\ m \in Nat
      <4> DEFINE g == functions[j]
      <4>1. m \in 1 .. Len(g.raw) /\ g.lines[m] # 0
        BY <2>2, <3>1
      <4> HIDE DEF g
      <4>2. InstrAt(g, m) /\ m \in Nat
        BY <4>1, MarkedIsInstr
      <4> QED
        BY <4>2 DEF g
    <3>3. /\ x \in 1 .. Len(source) /\ source[x].line = "instr" /\ at(j, m) = address(x)
      BY <3>1, <3>2, LineOf
    <3>4. wordsBefore(x) = wordsBefore(n)
      <4> HIDE DEF n, S
      <4>1. x \in 1 .. Len(source) + 1 /\ n \in 1 .. Len(source) + 1
        BY <1>1, <1>2, <3>3
      <4>2. wordsBefore(x) \in Nat /\ wordsBefore(n) \in Nat
        BY <1>2, <4>1, Counting
      <4>3. codeOffset \in Nat
        BY WrittenFacts
      <4> QED
        BY <1>1, <3>1, <3>3, <4>2, <4>3 DEF address
    <3>5. x = n
      BY <1>1, <1>2, <3>3, <3>4, SameWords
    <3> QED
      BY <1>1, <3>5
  <2> QED
    BY <2>1, <2>2
<1>7. S \subseteq Int /\ \A x \in S : x =< n
  BY <1>6
<1> HIDE DEF S, n
<1>8. Max(S) = n
  BY <1>5, <1>7, GreatestIs
<1> QED
  BY <1>4, <1>8 DEF n

\* Address 0 is no line's, and the end of the code is one past the last line's.
LEMMA LineAtNothing ==
  ASSUME Written
  PROVE  lineAt(0) = 0 /\ lineAt(EndOfCode) = Len(source) + 1
<1> DEFINE S == {0} \cup UNION {{functions[j].lines[m] : m \in
                   {m \in DOMAIN functions[j].raw : base(j) + 4 * (m - 1) = 0}} :
                   j \in DOMAIN functions}
<1>1. /\ DOMAIN functions = 1 .. Len(functions) /\ Len(functions) \in Nat /\ FuncsOK
      /\ \A j \in 1 .. Len(functions) : DOMAIN functions[j].raw = 1 .. Len(functions[j].raw)
                                        /\ Len(functions[j].raw) \in Nat
  BY WrittenFacts, Bases DEF FuncsOK
<1>2. \A i \in 1 .. Len(functions) + 1 : base(i) \in Nat /\ base(i) >= 32
  <2>1. \A i \in 1 .. Len(functions) + 1 :
          rawsBefore(i) \in Nat /\ base(i) = 32 + 8 * Len(functions) + 4 * rawsBefore(i)
    BY <1>1, Bases DEF FuncsOK
  <2> QED
    BY <1>1, <2>1
<1>3. EndOfCode # 0
  BY <1>1, <1>2 DEF EndOfCode
<1>4. S = {0}
  <2>1. ASSUME NEW j \in 1 .. Len(functions), NEW m \in 1 .. Len(functions[j].raw)
        PROVE  base(j) + 4 * (m - 1) # 0
    <3>1. base(j) \in Nat /\ base(j) >= 32 /\ m \in Nat /\ m >= 1
      BY <1>1, <1>2
    <3> QED
      BY <3>1
  <2> QED
    BY <1>1, <2>1
<1>5. Max(S) = 0
  <2> HIDE DEF S
  <2>1. 0 \in S /\ S \subseteq Int /\ \A x \in S : x =< 0
    BY <1>4
  <2> QED
    BY <2>1, GreatestIs
<1> QED
  BY <1>3, <1>5 DEF lineAt

\* At the address of any line, the next instruction from there on.
LEMMA LineAtAddress ==
  ASSUME Written, NEW n \in 1 .. Len(source) + 1
  PROVE  lineAt(address(n)) = Program!next(n - 1)
<1> DEFINE N == Len(source)
           T == {d \in Nat : d =< N => lineAt(address(N + 1 - d)) = Program!next(N - d)}
<1>1. /\ source \in Programs \cup {<<>>} /\ N \in Nat
      /\ address(N + 1) = EndOfCode
  BY WrittenFacts
<1>2. 0 \in T
  <2>1. lineAt(EndOfCode) = N + 1
    BY LineAtNothing
  <2>2. Program!next(N) = N + 1
    <3>1. N \in 0 .. N
      BY <1>1
    <3> QED
      BY <1>1, <3>1, NextLine
  <2>3. N + 1 - 0 = N + 1 /\ N - 0 = N
    BY <1>1
  <2> QED
    BY <1>1, <2>1, <2>2, <2>3
<1>3. ASSUME NEW d \in Nat, d \in T PROVE d + 1 \in T
  <2>1. SUFFICES ASSUME d + 1 =< N
                 PROVE  lineAt(address(N + 1 - (d + 1))) = Program!next(N - (d + 1))
    OBVIOUS
  <2> DEFINE j == N - d
  <2>2. /\ j \in 1 .. N /\ j - 1 \in 0 .. N /\ (j - 1) + 1 = j /\ j - 1 # N
        /\ N + 1 - (d + 1) = j /\ N - (d + 1) = j - 1 /\ N + 1 - d = j + 1 /\ d =< N
    BY <1>1, <2>1
  <2>3. lineAt(address(j + 1)) = Program!next(j)
    BY <1>3, <2>2
  <2> HIDE DEF j
  <2>4. CASE source[j].line = "instr"
    <3>1. Program!next(j - 1) = j
      BY <1>1, <2>2, <2>4, NextLine
    <3>2. PICK i \in 1 .. Len(functions), k \in Nat :
            InstrAt(functions[i], k) /\ functions[i].lines[k] = j
      <4>1. j \in 1 .. pos - 1
        BY <1>1, <2>2 DEF Written
      <4> QED
        BY <2>4, <4>1 DEF Written, SourceInv
    <3>3. at(i, k) = address(j) /\ lineAt(at(i, k)) = j
      BY <3>2, LineOf, LineAtInstr
    <3> QED
      BY <2>2, <3>1, <3>3
  <2>5. CASE source[j].line # "instr"
    <3>1. Program!next(j - 1) = Program!next(j)
      BY <1>1, <2>2, <2>5, NextLine
    <3>2. address(j + 1) = address(j)
      <4>1. wordsBefore(j + 1) = wordsBefore(j) + cost(j) /\ wordsBefore(j) \in Nat
        <5>1. j \in 1 .. N + 1
          BY <1>1, <2>2
        <5> QED
          BY <1>1, <2>2, <5>1, Counting
      <4>2. cost(j) = 0
        BY <2>5 DEF cost
      <4> QED
        BY <4>1, <4>2 DEF address
    <3> QED
      BY <2>2, <2>3, <3>1, <3>2
  <2> QED
    BY <2>4, <2>5
<1>4. N + 1 - n \in T
  <2>1. N + 1 - n \in Nat
    BY <1>1
  <2> HIDE DEF T
  <2> QED
    BY <1>2, <1>3, <2>1, Induction
<1>5. N + 1 - n =< N /\ N + 1 - (N + 1 - n) = n /\ N - (N + 1 - n) = n - 1
  BY <1>1
<1> QED
  BY <1>4, <1>5

\* Past a line that is no instruction, the next one is the same.
LEMMA NextPast ==
  ASSUME source \in Programs \cup {<<>>}, NEW n \in 1 .. Len(source), source[n].line # "instr"
  PROVE  Program!next(n - 1) = Program!next(n)
<1>1. n - 1 \in 0 .. Len(source) /\ (n - 1) + 1 = n /\ n - 1 # Len(source)
  BY SourceLines
<1> QED
  BY <1>1, NextLine

\* The line that declares the function line n stands in.
LEMMA HomeLine ==
  ASSUME Written, NEW n \in 1 .. Len(source), funcsBefore(n) >= 1
  PROVE  LET d == Program!home(n)
         IN d \in 1 .. Len(source) /\ source[d].line = "func" /\ funcsBefore(d) = funcsBefore(n) - 1
<1> DEFINE N == Len(source)
           i == funcsBefore(n)
           S == {m \in Program!Funcs : m < n}
<1>1. /\ source \in Programs \cup {<<>>} /\ N \in Nat /\ DOMAIN source = 1 .. N
      /\ funcsBefore(N + 1) = Len(functions) /\ Len(functions) \in Nat
  BY WrittenFacts
<1>2. \A m \in 1 .. N + 1 : funcsBefore(m) \in Nat
  BY <1>1, Counting
<1>3. \A l, m \in 1 .. N + 1 : l =< m => funcsBefore(l) =< funcsBefore(m)
  BY <1>1, Counting
<1>4. \A m \in 1 .. N : source[m].line = "func" => funcsBefore(m + 1) = funcsBefore(m) + 1
  BY <1>1, Counting DEF opens
<1>5. \A m \in 1 .. N : m \in 1 .. N + 1 /\ m + 1 \in 1 .. N + 1
  BY <1>1
<1>6. i \in 1 .. Len(functions)
  <2>1. n \in 1 .. N + 1 /\ N + 1 \in 1 .. N + 1 /\ n =< N + 1
    BY <1>1
  <2>2. funcsBefore(n) =< funcsBefore(N + 1) /\ funcsBefore(n) \in Nat
    BY <1>2, <1>3, <2>1
  <2> QED
    BY <1>1, <2>2
<1> HIDE DEF N
<1>7. PICK d \in 1 .. N : source[d].line = "func" /\ funcsBefore(d) = i - 1
  <2>1. Tells(functions[i], i, rawsBefore(i), N + 1)
    BY <1>6, WrittenFacts DEF N
  <2>2. \A m \in 1 .. (N + 1) - 1 : m \in 1 .. N
    BY <1>1
  <2> QED
    BY <2>1, <2>2 DEF Tells, Opened
<1> HIDE DEF i
<1>8. funcsBefore(n) = i
  BY DEF i
<1>9. d < n
  <2>1. funcsBefore(d) < funcsBefore(n)
    BY <1>6, <1>7, <1>8
  <2>2. n \in 1 .. N + 1 /\ d \in 1 .. N + 1 /\ funcsBefore(n) \in Nat /\ funcsBefore(d) \in Nat
    BY <1>2, <1>5 DEF N
  <2>3. ~(n =< d)
    BY <1>3, <2>1, <2>2
  <2> QED
    BY <2>2, <2>3
<1>10. \A m \in Program!Funcs : m \in 1 .. N /\ source[m].line = "func"
  BY <1>1 DEF Program!Funcs
<1>11. d \in S
  BY <1>1, <1>7, <1>9 DEF Program!Funcs
<1>12. ASSUME NEW m \in S PROVE m \in Int /\ m =< d
  <2>1. m \in 1 .. N /\ source[m].line = "func" /\ m < n
    BY <1>10
  <2>2. funcsBefore(m + 1) = funcsBefore(m) + 1 /\ funcsBefore(m + 1) =< i
        /\ funcsBefore(m) \in Nat
    <3>1. m + 1 \in 1 .. N + 1 /\ n \in 1 .. N + 1 /\ m + 1 =< n
      BY <1>5, <2>1 DEF N
    <3> QED
      BY <1>2, <1>3, <1>4, <1>5, <1>8, <2>1, <3>1
  <2>3. ~(d < m)
    <3>1. SUFFICES ASSUME d < m PROVE FALSE
      OBVIOUS
    <3>2. d + 1 \in 1 .. N + 1 /\ m \in 1 .. N + 1 /\ d + 1 =< m
      BY <1>5, <2>1, <3>1
    <3>3. funcsBefore(d + 1) = funcsBefore(d) + 1 /\ funcsBefore(d + 1) =< funcsBefore(m)
      BY <1>3, <1>4, <1>7, <3>2
    <3> QED
      BY <1>6, <1>7, <2>2, <3>3
  <2> QED
    BY <2>1, <2>3
<1>13. Program!home(n) = Program!Max(S)
  BY DEF Program!home
<1>14. S \subseteq Int /\ \A m \in S : m =< d
  BY <1>12
<1> HIDE DEF S
<1>15. Program!home(n) = d
  BY <1>11, <1>13, <1>14, GreatestIs
<1> QED
  BY <1>7, <1>8, <1>15 DEF N

\* No two functions are declared with as many before them.
LEMMA SameFuncs ==
  ASSUME source \in Programs \cup {<<>>},
         NEW m \in 1 .. Len(source), source[m].line = "func",
         NEW n \in 1 .. Len(source), source[n].line = "func",
         funcsBefore(m) = funcsBefore(n)
  PROVE  m = n
<1>1. Len(source) \in Nat
  BY SourceLines
<1>2. ASSUME NEW j \in 1 .. Len(source), NEW k \in 1 .. Len(source), j < k,
             source[j].line = "func"
      PROVE  funcsBefore(j) < funcsBefore(k)
  <2>1. j \in 1 .. Len(source) + 1 /\ j + 1 \in 1 .. Len(source) + 1
        /\ k \in 1 .. Len(source) + 1 /\ j + 1 =< k
    BY <1>1, <1>2
  <2>2. /\ funcsBefore(j) \in Nat /\ funcsBefore(k) \in Nat
        /\ funcsBefore(j + 1) = funcsBefore(j) + opens(j)
        /\ funcsBefore(j + 1) =< funcsBefore(k)
    BY <2>1, Counting
  <2>3. opens(j) = 1
    BY <1>2 DEF opens
  <2> QED
    BY <2>2, <2>3
<1>3. m \in Nat /\ n \in Nat /\ funcsBefore(m) \in Nat
  <2>1. m \in 1 .. Len(source) + 1
    BY <1>1
  <2> QED
    BY <1>1, <2>1, Counting
<1>4. ~(m < n) /\ ~(n < m)
  BY <1>2, <1>3
<1> QED
  BY <1>3, <1>4

\* The source program counts the functions as we do.
LEMMA FuncsCounted ==
  ASSUME source \in Programs \cup {<<>>}, NEW n \in 1 .. Len(source) + 1
  PROVE  Program!Cardinality({m \in Program!Funcs : m < n}) = funcsBefore(n)
<1> DEFINE N == Len(source)
           S(k) == {m \in Program!Funcs : m < k}
           T == {d \in Nat : d =< N => /\ IsFiniteSet(S(d + 1))
                                       /\ Cardinality(S(d + 1)) = funcsBefore(d + 1)}
<1>1. /\ N \in Nat /\ DOMAIN source = 1 .. N
      /\ Program!Funcs = {m \in 1 .. N : source[m].line = "func"}
  BY SourceLines DEF Program!Funcs
<1>2. 0 \in T
  <2>1. S(1) = {} /\ 0 + 1 = 1
    BY <1>1
  <2>2. funcsBefore(1) = 0
    BY Counting
  <2>3. IsFiniteSet(S(0 + 1)) /\ Cardinality(S(0 + 1)) = funcsBefore(0 + 1)
    <3> HIDE DEF S
    <3> QED
      BY <2>1, <2>2, FS_EmptySet
  <2> HIDE DEF S
  <2> QED
    BY <2>3
<1>3. ASSUME NEW d \in Nat, d \in T PROVE d + 1 \in T
  <2>1. SUFFICES ASSUME d + 1 =< N
                 PROVE  IsFiniteSet(S((d + 1) + 1)) /\ Cardinality(S((d + 1) + 1)) = funcsBefore((d + 1) + 1)
    OBVIOUS
  <2> DEFINE k == d + 1
  <2>2. k \in 1 .. N /\ d =< N
    BY <1>1, <2>1
  <2>3. IsFiniteSet(S(k)) /\ Cardinality(S(k)) = funcsBefore(k)
    BY <1>3, <2>2
  <2> HIDE DEF k
  <2>4. funcsBefore(k + 1) = funcsBefore(k) + opens(k) /\ funcsBefore(k) \in Nat
    <3>1. k \in 1 .. N + 1
      BY <1>1, <2>2
    <3> QED
      BY <2>2, <3>1, Counting
  <2>5. CASE source[k].line = "func"
    <3>1. S(k + 1) = S(k) \cup {k} /\ k \notin S(k)
      BY <1>1, <2>2, <2>5
    <3>2. opens(k) = 1
      BY <2>5 DEF opens
    <3> HIDE DEF S
    <3>3. IsFiniteSet(S(k + 1)) /\ Cardinality(S(k + 1)) = Cardinality(S(k)) + 1
      BY <2>3, <3>1, FS_AddElement
    <3> QED
      BY <2>3, <2>4, <3>2, <3>3 DEF k
  <2>6. CASE source[k].line # "func"
    <3>1. S(k + 1) = S(k)
      BY <1>1, <2>2, <2>6
    <3>2. opens(k) = 0
      BY <2>6 DEF opens
    <3> HIDE DEF S
    <3> QED
      BY <2>3, <2>4, <3>1, <3>2 DEF k
  <2> QED
    BY <2>5, <2>6
<1>4. n - 1 \in T
  <2>1. n - 1 \in Nat
    BY <1>1
  <2> HIDE DEF T
  <2> QED
    BY <1>2, <1>3, <2>1, Induction
<1>5. Cardinality(S(n)) = funcsBefore(n)
  <2>1. n - 1 =< N /\ (n - 1) + 1 = n
    BY <1>1
  <2> HIDE DEF S
  <2> QED
    BY <1>4, <2>1
<1>6. Program!Cardinality(S(n)) = Cardinality(S(n))
  <2> HIDE DEF S
  <2> QED
    BY DEF Program!Cardinality, Cardinality
<1> QED
  BY <1>5, <1>6

\* The source declares the functions of the file.
LEMMA FuncsOfSource ==
  ASSUME Written
  PROVE  Program!Cardinality(Program!Funcs) = Len(functions)
<1>1. /\ source \in Programs \cup {<<>>} /\ Len(source) \in Nat
      /\ DOMAIN source = 1 .. Len(source)
      /\ funcsBefore(Len(source) + 1) = Len(functions)
  BY WrittenFacts
<1>2. Len(source) + 1 \in 1 .. Len(source) + 1
  BY <1>1
<1>3. {m \in Program!Funcs : m < Len(source) + 1} = Program!Funcs
  BY <1>1 DEF Program!Funcs
<1>4. Program!Cardinality({m \in Program!Funcs : m < Len(source) + 1}) = Len(functions)
  BY <1>1, <1>2, FuncsCounted
<1> QED
  BY <1>3, <1>4

\* The function a call finds is the one declared under its number.
LEMMA DeclaredLine ==
  ASSUME Written, NEW i \in 1 .. Len(functions)
  PROVE  LET d == Program!declared(i - 1)
         IN /\ d \in 1 .. Len(source) /\ source[d].line = "func"
            /\ base(i) = address(d)
            /\ functions[i].frameSize = source[d].frameSize
<1> DEFINE N == Len(source)
           P(n) == Program!Cardinality({m \in Program!Funcs : m < n}) = i - 1
<1>1. /\ source \in Programs \cup {<<>>} /\ N \in Nat /\ DOMAIN source = 1 .. N
      /\ Tells(functions[i], i, rawsBefore(i), N + 1)
      /\ rawsBefore(i) \in Nat /\ base(i) = codeOffset + 4 * rawsBefore(i)
  BY WrittenFacts
<1>2. PICK d \in 1 .. (N + 1) - 1 :
        /\ source[d].line = "func" /\ funcsBefore(d) = i - 1
        /\ wordsBefore(d) = rawsBefore(i)
        /\ functions[i].frameSize = source[d].frameSize
  BY <1>1 DEF Tells, Opened
<1>3. d \in 1 .. N /\ d \in Program!Funcs
  BY <1>1, <1>2 DEF Program!Funcs
<1>4. \A n \in Program!Funcs : n \in 1 .. N /\ source[n].line = "func"
  BY <1>1 DEF Program!Funcs
<1>5. \A n \in 1 .. N : P(n) <=> funcsBefore(n) = i - 1
  <2>1. \A n \in 1 .. N : n \in 1 .. N + 1
    BY <1>1
  <2> QED
    BY <1>1, <2>1, FuncsCounted
<1>6. Program!declared(i - 1) = CHOOSE n \in Program!Funcs : P(n)
  BY DEF Program!declared
<1> HIDE DEF P
<1>7. P(d) /\ \A n \in Program!Funcs : P(n) => n = d
  BY <1>1, <1>2, <1>3, <1>4, <1>5, SameFuncs
<1>8. Program!declared(i - 1) = d
  BY <1>3, <1>6, <1>7
<1>9. base(i) = address(d)
  BY <1>1, <1>2 DEF address
<1> QED
  BY <1>2, <1>3, <1>8, <1>9

\* The words the file has for a function: where a patch points, a label's
\* address; anywhere else, what was emitted.
LEMMA PatchedWords ==
  ASSUME NEW i \in 1 .. Len(functions), functions[i] \in Func,
         NEW w \in 1 .. Len(functions[i].raw)
  PROVE  LET f == functions[i]
         IN \/ /\ \A j \in DOMAIN f.patches : f.patches[j].offset + 4 # 4 * (w - 1)
               /\ patched(i)[w] = f.raw[w]
            \/ \E j \in DOMAIN f.patches :
                 /\ f.patches[j].offset + 4 = 4 * (w - 1)
                 /\ patched(i)[w] = base(i) + f.labels[f.patches[j].label]
<1> DEFINE f == functions[i]
           T == {k \in DOMAIN f.patches : f.patches[k].offset + 4 = 4 * (w - 1)}
           c == CHOOSE k \in T : TRUE
<1>1. w \in DOMAIN f.raw
  BY DEF Func
<1>2. patched(i)[w] = IF T = {} THEN f.raw[w] ELSE base(i) + f.labels[f.patches[c].label]
  BY <1>1 DEF patched
<1>3. T # {} => c \in T
  OBVIOUS
<1> HIDE DEF c
<1> QED
  BY <1>2, <1>3

\* The label a branch names, counted as the source program counts.
LEMMA TargetLine ==
  ASSUME Written, NEW n \in 1 .. Len(source), NEW i \in 1 .. Len(functions), funcsBefore(n) = i,
         NEW x, NEW m \in 1 .. Len(source), Labels(m, i, x),
         \A l \in 1 .. Len(source) : Labels(l, i, x) => l =< m
  PROVE  Program!target(n, x) = m
<1> DEFINE S == {l \in DOMAIN source : /\ source[l].line = "label"
                                       /\ Program!home(l) = Program!home(n)
                                       /\ lower(source[l].name) = x}
<1>1. /\ source \in Programs \cup {<<>>} /\ Len(source) \in Nat
      /\ DOMAIN source = 1 .. Len(source) /\ i \in Nat /\ i >= 1
  BY WrittenFacts
<1>2. /\ Program!home(n) \in 1 .. Len(source) /\ source[Program!home(n)].line = "func"
      /\ funcsBefore(Program!home(n)) = i - 1
  BY <1>1, HomeLine
<1>3. source[m].line = "label" /\ funcsBefore(m) = i /\ lower(source[m].name) = x
  BY DEF Labels
<1>4. Program!home(m) = Program!home(n)
  <2>1. /\ Program!home(m) \in 1 .. Len(source) /\ source[Program!home(m)].line = "func"
        /\ funcsBefore(Program!home(m)) = i - 1
    BY <1>1, <1>3, HomeLine
  <2> QED
    BY <1>1, <1>2, <2>1, SameFuncs
<1>5. m \in S
  BY <1>1, <1>3, <1>4
<1>6. ASSUME NEW l \in S PROVE l \in Int /\ l =< m
  <2>1. /\ l \in 1 .. Len(source) /\ source[l].line = "label"
        /\ Program!home(l) = Program!home(n) /\ lower(source[l].name) = x
    BY <1>1
  <2>2. l \in Nat /\ l \in 1 .. Len(source) + 1 /\ l \in 1 .. pos - 1
    BY <1>1, <2>1 DEF Written
  <2>3. funcsBefore(l) >= 1
    BY <2>1, <2>2 DEF Written, SourceInv
  <2>4. funcsBefore(l) \in Nat
    BY <1>1, <2>2, Counting
  <2>5. funcsBefore(Program!home(l)) = funcsBefore(l) - 1
    BY <2>1, <2>3, HomeLine
  <2>6. funcsBefore(l) = i
    BY <1>1, <1>2, <2>1, <2>4, <2>5
  <2>7. Labels(l, i, x)
    BY <2>1, <2>6 DEF Labels
  <2> QED
    BY <2>1, <2>2, <2>7
<1>7. S \subseteq Int /\ \A l \in S : l =< m
  BY <1>6
<1>8. Program!target(n, x) = Program!Max(S)
  BY DEF Program!target
<1> HIDE DEF S
<1> QED
  BY <1>5, <1>7, <1>8, GreatestIs

\* A patch is at an offset.
LEMMA PatchTyped ==
  ASSUME NEW f \in Func, NEW j \in DOMAIN f.patches
  PROVE  f.patches[j].offset \in Nat
<1> DEFINE p == f.patches
           T == [offset : Nat, label : Names]
<1>1. p \in Seq(T) /\ j \in DOMAIN p
  BY DEF Func
<1> HIDE DEF p
<1>2. p[j] \in T
  <2> HIDE DEF T
  <2> QED
    BY <1>1
<1>3. p[j].offset \in Nat
  BY <1>2
<1> QED
  BY <1>3 DEF p

\* A branch leads to the first instruction behind its label.
LEMMA BranchLeads ==
  ASSUME Written, NEW i \in 1 .. Len(functions), NEW k \in Nat, InstrAt(functions[i], k),
         NEW n, n = functions[i].lines[k], source[n].mnem \in BRANCH_OPS
  PROVE  /\ Inside(at(i, k) + 4)
         /\ lineAt(word(at(i, k) + 4)) = Program!next(Program!target(n, source[n].args[1]))
<1> DEFINE f == functions[i]
           x == source[n].args[1]
           b == rawsBefore(i)
<1>0. Labelled(f, i, b, Len(source) + 1)
  BY WrittenFacts DEF Tells
<1>1. /\ FuncsOK /\ Filed /\ source \in Programs \cup {<<>>} /\ Len(source) \in Nat
      /\ codeOffset \in Nat /\ b \in Nat /\ base(i) = codeOffset + 4 * b
  BY WrittenFacts
<1>2. /\ n \in 1 .. Len(source) /\ funcsBefore(n) = i /\ Encodes(f, k, source[n])
  BY LineOf
<1>3. /\ \A j \in 1 .. Len(functions) : Defined(functions[j])
      /\ \A j \in DOMAIN functions : Defined(functions[j])
      /\ f \in Func /\ PatchesOK(f) /\ Len(f.raw) \in Nat
  <2>1. DOMAIN functions = 1 .. Len(functions) /\ Len(f.raw) \in Nat
    BY <1>1, Bases DEF FuncsOK
  <2> QED
    BY <1>1, <2>1 DEF Filed, FuncsOK, FuncOK
<1>4. isBranch(f.raw[k])
  BY <1>2, Encodings DEF Encodes, isBranch
<1>5. k + 1 \in 1 .. Len(f.raw)
  BY <1>1, <1>3, <1>4, PatchedCode
<1>6. PICK j \in DOMAIN f.patches :
        f.patches[j].offset = 4 * (k - 1) /\ patched(i)[k + 1] = base(i) + f.labels[f.patches[j].label]
  <2>1. PICK q \in DOMAIN f.patches : Patch(f, q, k)
    BY <1>3, <1>4 DEF PatchesOK
  <2>2. f.patches[q].offset + 4 = 4 * ((k + 1) - 1)
    BY <2>1 DEF Patch
  <2>3. PICK j \in DOMAIN f.patches :
          /\ f.patches[j].offset + 4 = 4 * ((k + 1) - 1)
          /\ patched(i)[k + 1] = base(i) + f.labels[f.patches[j].label]
    BY <1>3, <1>5, <2>2, PatchedWords
  <2>4. f.patches[j].offset \in Nat
    BY <1>3, PatchTyped
  <2>5. f.patches[j].offset = 4 * (k - 1)
    BY <2>3, <2>4
  <2> QED
    BY <2>3, <2>5
<1>7. f.patches[j].label = x /\ x \in DOMAIN f.labels
  <2>1. f.patches[j].label = x
    BY <1>2, <1>6 DEF Encodes
  <2> QED
    BY <1>3, <2>1 DEF Defined
<1>8. PICK m \in 1 .. Len(source) :
        /\ Labels(m, i, x)
        /\ f.labels[x] = 4 * (wordsBefore(m) - b)
        /\ \A l \in 1 .. Len(source) : Labels(l, i, x) => l =< m
  <2>1. (Len(source) + 1) - 1 = Len(source)
    BY <1>1
  <2> QED
    BY <1>0, <1>7, <2>1 DEF Labelled
<1>9. Program!target(n, x) = m
  BY <1>2, <1>8, TargetLine
<1>10. m \in 1 .. Len(source) + 1 /\ wordsBefore(m) \in Nat
  <2>1. m \in 1 .. Len(source) + 1
    BY <1>1
  <2> QED
    BY <1>1, <2>1, Counting
<1>11. patched(i)[k + 1] = address(m)
  <2>1. patched(i)[k + 1] = base(i) + f.labels[x]
    BY <1>6, <1>7
  <2> HIDE DEF f, x, b
  <2> QED
    BY <1>1, <1>8, <1>10, <2>1 DEF address
<1>12. Inside(at(i, k + 1)) /\ word(at(i, k + 1)) = patched(i)[k + 1]
  BY <1>1, <1>5, WrittenWord
<1>13. at(i, k + 1) = at(i, k) + 4
  <2>1. base(i) \in Nat
    BY <1>1
  <2> HIDE DEF f, x, b
  <2> QED
    BY <2>1 DEF at
<1>14. lineAt(address(m)) = Program!next(m - 1)
  BY <1>10, LineAtAddress
<1>15. Program!next(m - 1) = Program!next(m)
  <2>1. source[m].line # "instr"
    BY <1>8 DEF Labels
  <2> QED
    BY <1>1, <2>1, NextPast
<1> QED
  BY <1>9, <1>11, <1>12, <1>13, <1>14, <1>15

\* The two words of a load are in the file as they were emitted.
LEMMA LoadWords ==
  ASSUME Written, NEW i \in 1 .. Len(functions), NEW k \in Nat, InstrAt(functions[i], k),
         NEW n, n = functions[i].lines[k], source[n].mnem = "load"
  PROVE  /\ Inside(at(i, k) + 8)
         /\ word(at(i, k) + 4) = arg(source[n], 2) /\ word(at(i, k) + 8) = arg(source[n], 3)
<1> DEFINE f == functions[i]
<1>1. FuncsOK /\ Filed /\ Encodes(f, k, source[n])
  BY WrittenFacts, LineOf
<1>2. /\ f \in Func /\ PatchesOK(f) /\ CodeOK(f) /\ Len(f.raw) \in Nat
      /\ base(i) \in Nat
  <2>1. /\ DOMAIN functions = 1 .. Len(functions) /\ Len(f.raw) \in Nat
        /\ rawsBefore(i) \in Nat /\ base(i) = codeOffset + 4 * rawsBefore(i) /\ codeOffset \in Nat
    BY <1>1, Bases, WrittenFacts DEF FuncsOK
  <2>2. base(i) \in Nat
    BY <2>1
  <2>3. FuncOK(f)
    BY <1>1, <2>1 DEF FuncsOK
  <2> QED
    BY <2>1, <2>2, <2>3 DEF FuncOK
<1> HIDE DEF f
<1>3. op(f.raw[k]) = 5 /\ width(f.raw[k]) = 3
  BY <1>1, Encodings DEF Encodes, width
<1>4. /\ Boundary(f, k + 3) /\ ~InstrAt(f, k + 1) /\ ~InstrAt(f, k + 2)
  <2>1. k + 1 \in k + 1 .. k + 3 - 1 /\ k + 2 \in k + 1 .. k + 3 - 1
    OBVIOUS
  <2>2. InstrAt(f, k)
    BY DEF f
  <2>3. /\ Boundary(f, k + width(f.raw[k]))
        /\ \A m \in k + 1 .. k + width(f.raw[k]) - 1 : ~InstrAt(f, m)
    BY <1>2, <2>2 DEF CodeOK
  <2> QED
    BY <1>3, <2>1, <2>3
<1>5. k \in 1 .. Len(f.raw) /\ k + 1 \in 1 .. Len(f.raw) /\ k + 2 \in 1 .. Len(f.raw)
  BY <1>2, <1>4 DEF Boundary, InstrAt, f
<1>6. ASSUME NEW j \in DOMAIN f.patches
      PROVE  /\ f.patches[j].offset + 4 # 4 * ((k + 1) - 1)
             /\ f.patches[j].offset + 4 # 4 * ((k + 2) - 1)
  <2>2. PICK m \in Nat : InstrAt(f, m) /\ isBranch(f.raw[m]) /\ f.patches[j].offset = 4 * (m - 1)
    BY <1>2 DEF PatchesOK, Patch
  <2>3. m # k
    BY <1>3, <2>2 DEF isBranch
  <2>4. m # k + 1
    BY <1>4, <2>2
  <2> QED
    BY <2>2, <2>3, <2>4
<1>7. patched(i)[k + 1] = f.raw[k + 1] /\ patched(i)[k + 2] = f.raw[k + 2]
  BY <1>2, <1>5, <1>6, PatchedWords DEF f
<1>9. at(i, k + 1) = at(i, k) + 4 /\ at(i, k + 2) = at(i, k) + 8
  BY <1>2, <1>5 DEF at
<1>10. /\ Inside(at(i, k + 2)) /\ word(at(i, k + 2)) = patched(i)[k + 2]
       /\ word(at(i, k + 1)) = patched(i)[k + 1]
  BY <1>1, <1>5, WrittenWord DEF f
<1> QED
  BY <1>1, <1>7, <1>9, <1>10 DEF Encodes, f

\* The VM's enum is the assembler's table.
LEMMA SameOpcodes == \A m \in DOMAIN OPCODES : Opcode[OPCODES[m] + 1] = m
  BY DEF OPCODES, Opcode

\* The instruction the VM decodes is the one of the line control has reached.
LEMMA FetchedLine ==
  ASSUME Written, ip \in Landing, NEW mnems, Fetched(mnems)
  PROVE  /\ lineAt(ip) \in 1 .. Len(source) /\ lineAt(ip) \in Program!Instrs
         /\ source[lineAt(ip)].line = "instr"
         /\ mnem = source[lineAt(ip)].mnem /\ mnem \in mnems
         /\ ip \in Nat /\ ip # 0
         /\ lineAt(ip + 4 * cost(lineAt(ip))) = Program!next(lineAt(ip))
         /\ \E i \in 1 .. Len(functions), k \in Nat :
              /\ InstrAt(functions[i], k)
              /\ ip = at(i, k) /\ instr = functions[i].raw[k]
              /\ functions[i].lines[k] = lineAt(ip)
              /\ Encodes(functions[i], k, source[lineAt(ip)])
<1>1. /\ FuncsOK /\ Filed /\ source \in Programs \cup {<<>>}
      /\ Len(source) \in Nat /\ DOMAIN source = 1 .. Len(source)
      /\ codeOffset = 32 + 8 * Len(functions) /\ Len(functions) \in Nat
  BY WrittenFacts
<1>2. Inside(ip) /\ op(word(ip)) < Len(Opcode) /\ mnem \in mnems
  BY DEF Fetched, opcode, instr
<1>3. PICK i \in 1 .. Len(functions), k \in Nat :
        InstrAt(functions[i], k) /\ ip = at(i, k) /\ word(ip) = functions[i].raw[k]
  BY <1>1, <1>2, LandsOnInstr
<1> DEFINE n == functions[i].lines[k]
<1>4. lineAt(ip) = n
  BY <1>3, LineAtInstr
<1>5. /\ n \in 1 .. Len(source) /\ source[n].line = "instr"
      /\ ip = address(n)
      /\ Encodes(functions[i], k, source[n])
  BY <1>3, LineOf
<1>6. n \in Program!Instrs
  BY <1>1, <1>5 DEF Program!Instrs
<1>7. mnem = source[n].mnem
  <2>1. op(instr) = OPCODES[source[n].mnem] /\ source[n].mnem \in DOMAIN OPCODES
    BY <1>3, <1>5 DEF Encodes, instr
  <2> QED
    BY <2>1, SameOpcodes DEF mnem, opcode
<1> HIDE DEF n
<1>8. /\ n \in 1 .. Len(source) + 1 /\ n + 1 \in 1 .. Len(source) + 1 /\ (n + 1) - 1 = n
      /\ wordsBefore(n) \in Nat /\ cost(n) \in Nat
      /\ wordsBefore(n + 1) = wordsBefore(n) + cost(n)
  <2>1. n \in 1 .. Len(source) + 1 /\ n + 1 \in 1 .. Len(source) + 1 /\ (n + 1) - 1 = n
    BY <1>1, <1>5
  <2>2. cost(n) \in 0 .. 3 /\ wordsBefore(n + 1) = wordsBefore(n) + cost(n)
    BY <1>1, <1>5, Counting
  <2>3. wordsBefore(n) \in Nat
    BY <1>1, <2>1, Counting
  <2> QED
    BY <2>1, <2>2, <2>3
<1>9. address(n + 1) = ip + 4 * cost(n) /\ ip \in Nat /\ ip # 0
  <2>1. codeOffset \in Nat /\ codeOffset # 0
    BY <1>1
  <2>2. ip = codeOffset + 4 * wordsBefore(n)
    BY <1>5 DEF address
  <2>3. address(n + 1) = codeOffset + 4 * (wordsBefore(n) + cost(n))
    BY <1>8 DEF address
  <2> QED
    BY <1>8, <2>1, <2>2, <2>3
<1>10. lineAt(address(n + 1)) = Program!next((n + 1) - 1)
  BY <1>8, LineAtAddress
<1>11. lineAt(ip + 4 * cost(lineAt(ip))) = Program!next(lineAt(ip))
  BY <1>4, <1>8, <1>9, <1>10
<1>12. \E h \in 1 .. Len(functions), j \in Nat :
         /\ InstrAt(functions[h], j)
         /\ ip = at(h, j) /\ instr = functions[h].raw[j]
         /\ functions[h].lines[j] = lineAt(ip)
         /\ Encodes(functions[h], j, source[lineAt(ip)])
  BY <1>3, <1>4, <1>5 DEF instr, n
<1> QED
  BY <1>2, <1>4, <1>5, <1>6, <1>7, <1>9, <1>11, <1>12

\* With that line's operands, and on to the line behind it.
LEMMA FetchedPlain ==
  ASSUME Written, ip \in Landing, NEW mnems, Fetched(mnems), mnem \in Plain
  PROVE  /\ lineAt(ip + 4) = Program!next(lineAt(ip))
         /\ ra(instr) = arg(source[lineAt(ip)], 1)
         /\ rb(instr) = arg(source[lineAt(ip)], 2)
         /\ rc(instr) = arg(source[lineAt(ip)], 3)
<1> DEFINE n == lineAt(ip)
<1>1. /\ mnem = source[n].mnem /\ source[n].line = "instr"
      /\ lineAt(ip + 4 * cost(n)) = Program!next(n)
  BY FetchedLine
<1>2. PICK i \in 1 .. Len(functions), k \in Nat :
        instr = functions[i].raw[k] /\ Encodes(functions[i], k, source[n])
  BY FetchedLine
<1> HIDE DEF n
<1>3. cost(n) = 1
  BY <1>1 DEF cost, Plain
<1>4. 4 * cost(n) = 4
  BY <1>3
<1> QED
  BY <1>1, <1>2, <1>4 DEF Encodes, n

\* A call leads on and names the index of its line.
LEMMA FetchedCall ==
  ASSUME Written, ip \in Landing, NEW mnems, Fetched(mnems), mnem = "call"
  PROVE  /\ lineAt(ip + 4) = Program!next(lineAt(ip))
         /\ (ra(instr) * BYTE + rb(instr)) * BYTE + rc(instr) = source[lineAt(ip)].args[1]
         /\ source[lineAt(ip)].args[1] \in Nat
<1> DEFINE n == lineAt(ip)
<1>1. /\ mnem = source[n].mnem /\ source[n].line = "instr"
      /\ lineAt(ip + 4 * cost(n)) = Program!next(n)
  BY FetchedLine
<1>2. PICK i \in 1 .. Len(functions), k \in Nat :
        instr = functions[i].raw[k] /\ Encodes(functions[i], k, source[n])
  BY FetchedLine
<1> HIDE DEF n
<1>3. cost(n) = 1
  BY <1>1 DEF cost, BRANCH_OPS
<1>4. 4 * cost(n) = 4
  BY <1>3
<1>5. (ra(instr) * BYTE + rb(instr)) * BYTE + rc(instr) = source[n].args[1]
  BY <1>1, <1>2 DEF Encodes
<1>6. (ra(instr) * BYTE + rb(instr)) * BYTE + rc(instr) \in Nat
  <2>1. instr \in Words
    BY WrittenFacts, FetchedFacts
  <2>2. ra(instr) \in Nat /\ rb(instr) \in Nat /\ rc(instr) \in Nat /\ BYTE \in Nat
    BY <2>1, Fields, WordFacts
  <2>3. \A x, y, z, b \in Nat : (x * b + y) * b + z \in Nat
    OBVIOUS
  <2> QED
    BY <2>2, <2>3
<1> QED
  BY <1>1, <1>4, <1>5, <1>6 DEF n

\* A load is its line's, and leads past its two words.
LEMMA FetchedLoad ==
  ASSUME Written, ip \in Landing, NEW mnems, Fetched(mnems), mnem = "load"
  PROVE  /\ lineAt(ip + 12) = Program!next(lineAt(ip))
         /\ Inside(ip + 8)
         /\ ra(instr) = arg(source[lineAt(ip)], 1)
         /\ word(ip + 4) = arg(source[lineAt(ip)], 2)
         /\ word(ip + 8) = arg(source[lineAt(ip)], 3)
<1> DEFINE n == lineAt(ip)
<1>1. /\ mnem = source[n].mnem /\ source[n].line = "instr"
      /\ lineAt(ip + 4 * cost(n)) = Program!next(n)
  BY FetchedLine
<1>2. PICK i \in 1 .. Len(functions), k \in Nat :
        /\ InstrAt(functions[i], k)
        /\ ip = at(i, k) /\ instr = functions[i].raw[k]
        /\ functions[i].lines[k] = n
        /\ Encodes(functions[i], k, source[n])
  BY FetchedLine
<1> HIDE DEF n
<1>3. cost(n) = 3
  BY <1>1 DEF cost
<1>4. 4 * cost(n) = 12
  BY <1>3
<1>5. /\ Inside(ip + 8)
      /\ word(ip + 4) = arg(source[n], 2) /\ word(ip + 8) = arg(source[n], 3)
  BY <1>1, <1>2, LoadWords
<1> QED
  BY <1>1, <1>2, <1>4, <1>5 DEF Encodes, n

\* The two ways of a branch: the next line, and the line its label says.
LEMMA FetchedBranch ==
  ASSUME Written, ip \in Landing, NEW mnems, Fetched(mnems), mnem \in BRANCH_OPS
  PROVE  /\ lineAt(ip + 8) = Program!next(lineAt(ip))
         /\ Inside(ip + 4)
         /\ lineAt(word(ip + 4)) =
              Program!next(Program!target(lineAt(ip), source[lineAt(ip)].args[1]))
<1> DEFINE n == lineAt(ip)
<1>1. /\ mnem = source[n].mnem /\ source[n].line = "instr"
      /\ lineAt(ip + 4 * cost(n)) = Program!next(n)
  BY FetchedLine
<1>2. PICK i \in 1 .. Len(functions), k \in Nat :
        /\ InstrAt(functions[i], k) /\ ip = at(i, k)
        /\ functions[i].lines[k] = n
  BY FetchedLine
<1> HIDE DEF n
<1>3. cost(n) = 2
  BY <1>1 DEF cost, BRANCH_OPS
<1>4. 4 * cost(n) = 8
  BY <1>3
<1>5. /\ Inside(ip + 4)
      /\ lineAt(word(ip + 4)) = Program!next(Program!target(n, source[n].args[1]))
  BY <1>1, <1>2, BranchLeads
<1> QED
  BY <1>1, <1>4, <1>5 DEF n

\* Where nothing can be fetched, control has reached the end of the code or a
\* function that is not declared.
LEMMA NothingFetched ==
  ASSUME Written, ip \in Landing
  PROVE  /\ ~Inside(ip) => lineAt(ip) = Len(source) + 1
         /\ Inside(ip) /\ opcode >= Len(Opcode) => lineAt(ip) = 0
<1>1. /\ FuncsOK /\ Filed /\ source \in Programs \cup {<<>>}
      /\ ~Inside(EndOfCode) /\ Inside(0)
  BY WrittenFacts, WrittenFile
<1>2. lineAt(0) = 0 /\ lineAt(EndOfCode) = Len(source) + 1
  BY LineAtNothing
<1>3. ASSUME ip \in InstrStarts PROVE Inside(ip) /\ op(word(ip)) \in 0 .. 21
  <2>1. PICK i \in 1 .. Len(functions), k \in Nat : InstrAt(functions[i], k) /\ ip = at(i, k)
    BY <1>1, <1>3, StartIsInstr
  <2>2. k \in 1 .. Len(functions[i].raw)
    BY <2>1 DEF InstrAt
  <2>3. Inside(ip) /\ word(ip) = patched(i)[k]
    BY <1>1, <2>1, <2>2, WrittenWord
  <2>4. patched(i)[k] = functions[i].raw[k]
    BY <1>1, <2>1, PatchedCode DEF Filed
  <2>5. op(functions[i].raw[k]) \in 0 .. 21
    <3>1. Encodes(functions[i], k, source[functions[i].lines[k]])
      BY <2>1, LineOf
    <3> QED
      BY <3>1, Encodings DEF Encodes
  <2> QED
    BY <2>3, <2>4, <2>5
<1>4. Len(Opcode) = 22
  BY DEF Opcode
<1> QED
  BY <1>1, <1>2, <1>3, <1>4 DEF Landing, opcode, instr

(***************************************************************************)
(* Running a written file is running its source.                           *)
(***************************************************************************)
\* What the source program's variables are here.
control    == IF vm = "off" \/ (functions = <<>> /\ ip = 0) THEN 0 ELSE lineAt(ip)
linesOf(s) == [k \in DOMAIN s |-> lineAt(s[k])]

\* The saved lines change as the saved addresses do.
LEMMA LinesOf ==
  ASSUME NEW S, NEW s \in Seq(S), NEW a
  PROVE  /\ linesOf(Append(s, a)) = Append(linesOf(s), lineAt(a))
         /\ s # <<>> => /\ linesOf(s) # <<>>
                        /\ lineAt(Last(s)) = linesOf(s)[Len(linesOf(s))]
                        /\ linesOf(Front(s)) = SubSeq(linesOf(s), 1, Len(linesOf(s)) - 1)
         /\ linesOf(<<>>) = <<>>
<1> DEFINE T == {lineAt(s[k]) : k \in DOMAIN s} \cup {lineAt(a)}
           n == Len(s)
<1>1. n \in Nat /\ DOMAIN s = 1 .. n
  OBVIOUS
<1>2. /\ linesOf(s) \in [1 .. n -> T] /\ \A k \in 1 .. n : linesOf(s)[k] = lineAt(s[k])
  BY <1>1 DEF linesOf
<1>3. linesOf(s) \in Seq(T) /\ Len(linesOf(s)) = n
  <2> HIDE DEF n, T
  <2> QED
    BY <1>1, <1>2, FunctionIsSeq
<1>4. linesOf(Append(s, a)) = Append(linesOf(s), lineAt(a))
  <2> DEFINE u == linesOf(Append(s, a))
             v == Append(linesOf(s), lineAt(a))
  <2>1. DOMAIN Append(s, a) = 1 .. n + 1
        /\ \A k \in 1 .. n + 1 : Append(s, a)[k] = IF k = n + 1 THEN a ELSE s[k]
    BY <1>1
  <2>2. /\ u = [k \in 1 .. n + 1 |-> lineAt(IF k = n + 1 THEN a ELSE s[k])]
    BY <2>1 DEF linesOf
  <2>3. lineAt(a) \in T
    OBVIOUS
  <2>4. /\ v \in Seq(T) /\ Len(v) = n + 1
        /\ \A k \in 1 .. n + 1 : v[k] = IF k = n + 1 THEN lineAt(a) ELSE linesOf(s)[k]
    <3> HIDE DEF T, n
    <3> QED
      BY <1>1, <1>3, <2>3
  <2>5. v = [k \in 1 .. n + 1 |-> v[k]]
    <3>1. v \in Seq(T) /\ Len(v) = n + 1 /\ n + 1 \in Nat
      BY <1>1, <2>4
    <3> HIDE DEF T, n, v
    <3> QED
      BY <3>1
  <2>6. \A k \in 1 .. n + 1 : v[k] = lineAt(IF k = n + 1 THEN a ELSE s[k])
    <3>1. ASSUME NEW k \in 1 .. n + 1 PROVE v[k] = lineAt(IF k = n + 1 THEN a ELSE s[k])
      <4>1. CASE k = n + 1
        BY <2>4, <4>1
      <4>2. CASE k # n + 1
        <5>1. k \in 1 .. n
          BY <1>1, <4>2
        <5> QED
          BY <1>2, <2>4, <4>2, <5>1
      <4> QED
        BY <4>1, <4>2
    <3> QED
      BY <3>1
  <2> HIDE DEF u, v, n
  <2> QED
    BY <2>2, <2>5, <2>6 DEF u, v
<1>5. ASSUME s # <<>>
      PROVE  /\ linesOf(s) # <<>>
             /\ lineAt(Last(s)) = linesOf(s)[Len(linesOf(s))]
             /\ linesOf(Front(s)) = SubSeq(linesOf(s), 1, Len(linesOf(s)) - 1)
  <2>1. n # 0 /\ n \in 1 .. n
    BY <1>1, <1>5
  <2>2. linesOf(s) # <<>>
    BY <1>3, <2>1
  <2>3. lineAt(Last(s)) = linesOf(s)[Len(linesOf(s))]
    BY <1>2, <1>3, <2>1 DEF Last
  <2>4. linesOf(Front(s)) = SubSeq(linesOf(s), 1, Len(linesOf(s)) - 1)
    <3> DEFINE f == SubSeq(s, 1, n - 1)
               g == SubSeq(linesOf(s), 1, n - 1)
    <3>1. f \in Seq(S) /\ Len(f) = n - 1 /\ DOMAIN f = 1 .. n - 1
          /\ \A k \in 1 .. n - 1 : f[k] = s[k]
      BY <1>1, <2>1
    <3>2. g \in Seq(T) /\ Len(g) = n - 1 /\ DOMAIN g = 1 .. n - 1
          /\ \A k \in 1 .. n - 1 : g[k] = linesOf(s)[k]
      <4> HIDE DEF T, n
      <4> QED
        BY <1>1, <1>3, <2>1
    <3>3. \A k \in 1 .. n - 1 : g[k] = lineAt(f[k])
      <4>1. \A k \in 1 .. n - 1 : k \in 1 .. n
        BY <1>1
      <4> QED
        BY <1>2, <3>1, <3>2, <4>1
    <3>4. g = [k \in 1 .. n - 1 |-> g[k]]
      <4> HIDE DEF T, n, g
      <4> QED
        BY <3>2
    <3>5. linesOf(f) = [k \in 1 .. n - 1 |-> lineAt(f[k])]
      BY <3>1 DEF linesOf
    <3> HIDE DEF f, g
    <3>6. linesOf(f) = g
      BY <3>3, <3>4, <3>5
    <3> QED
      BY <1>3, <3>6 DEF f, g, Front
  <2> QED
    BY <2>2, <2>3, <2>4
<1>6. linesOf(<<>>) = <<>>
  BY DEF linesOf
<1> QED
  BY <1>4, <1>5, <1>6

\* The VM leaves every address its line.
LEMMA SameLineAt ==
  ASSUME UNCHANGED asmVars
  PROVE  /\ \A a : lineAt(a)' = lineAt(a)
         /\ \A s : linesOf(s)' = linesOf(s)
<1>1. functions' = functions /\ source' = source
  BY DEF asmVars
<1>2. Len(functions)' = Len(functions) /\ \A i : base(i)' = base(i)
  BY <1>1, SameFunctions
<1>3. EndOfCode' = EndOfCode
  BY <1>1, <1>2 DEF EndOfCode
<1>4. ASSUME NEW a PROVE lineAt(a)' = lineAt(a)
  <2> DEFINE L(i) == {functions[i].lines[k] :
                        k \in {k \in DOMAIN functions[i].raw : base(i) + 4 * (k - 1) = a}}
             L2(i) == {functions'[i].lines[k] :
                        k \in {k \in DOMAIN functions'[i].raw : base(i)' + 4 * (k - 1) = a}}
             U == UNION {L(i) : i \in DOMAIN functions}
             U2 == UNION {L2(i) : i \in DOMAIN functions'}
  <2>1. \A i : L2(i) = L(i)
    BY <1>1, <1>2
  <2>2. lineAt(a) = IF a = EndOfCode THEN Len(source) + 1 ELSE Max({0} \cup U)
    BY DEF lineAt
  <2>3. lineAt(a)' = IF a = EndOfCode' THEN Len(source') + 1 ELSE Max({0} \cup U2)
    BY DEF lineAt
  <2> HIDE DEF L, L2
  <2>4. U2 = U
    BY <1>1, <2>1
  <2> HIDE DEF U, U2
  <2> QED
    BY <1>1, <1>3, <2>2, <2>3, <2>4
<1>5. ASSUME NEW s PROVE linesOf(s)' = linesOf(s)
  BY <1>4 DEF linesOf
<1> QED
  BY <1>4, <1>5

\* Where control is, when a written file runs.
LEMMA Mapped ==
  ASSUME Written, vm # "off"
  PROVE  control = lineAt(ip)
  BY LineAtNothing DEF control

\* And where it goes.
LEMMA MappedNext ==
  ASSUME Written, UNCHANGED asmVars, vm' # "off", NEW a, ip' = a, NEW s, returns' = s
  PROVE  control' = lineAt(a) /\ linesOf(returns)' = linesOf(s)
<1>1. lineAt(ip)' = lineAt(a) /\ linesOf(returns)' = linesOf(s)
  BY SameLineAt
<1>2. control' = lineAt(a)
  BY <1>1, LineAtNothing DEF control
<1> QED
  BY <1>1, <1>2

\* The VM runs a file the assembler wrote.
Runs ==
  /\ Written /\ vm = "running"
  /\ ip \in Landing /\ returns \in Seq(Landing)
  /\ functionTable = loadedTable /\ ~Overflows

\* Arithmetic, stack and heap instructions.
LEMMA ExecuteComputes ==
  ASSUME Runs, Execute
  PROVE  Program!Compute
<1>1. /\ Fetched(DataOps \cup MathOps) /\ Written /\ ip \in Landing
      /\ vm = "running" /\ vm' = vm /\ ip' = ip + 4 /\ returns' = returns
      /\ jmpFlag' = jmpFlag /\ UNCHANGED asmVars /\ source' = source
      /\ did' = [mnem |-> mnem, operands |-> <<ra(instr), rb(instr), rc(instr)>>]
  BY DEF Execute, Done, Keep, Runs, asmVars
<1>2. mnem \in DataOps \cup MathOps
  BY <1>1 DEF Fetched
<1>3. mnem \in Plain /\ mnem \notin BRANCH_OPS \cup {"cmp", "call", "ret", "end"}
  BY <1>2 DEF DataOps, MathOps, Plain, OPCODES, BRANCH_OPS
<1>4. control = lineAt(ip) /\ control' = Program!next(lineAt(ip)) /\ linesOf(returns)' = linesOf(returns)
  BY <1>1, <1>3, FetchedPlain, Mapped, MappedNext
<1>5. /\ lineAt(ip) \in Program!Instrs /\ mnem = source[lineAt(ip)].mnem
      /\ ra(instr) = arg(source[lineAt(ip)], 1)
      /\ rb(instr) = arg(source[lineAt(ip)], 2)
      /\ rc(instr) = arg(source[lineAt(ip)], 3)
  BY <1>1, <1>3, FetchedLine, FetchedPlain
<1> QED
  BY <1>1, <1>3, <1>4, <1>5
     DEF Program!Compute, Program!Executing, Program!here, Program!operand, Program!Did, Program!takes,
         arg, Used, Needed, BRANCH_OPS, control, linesOf

\* A load.
LEMMA LoadComputes ==
  ASSUME Runs, LoadIntoReg
  PROVE  Program!Compute
<1>1. Fetched({"load"}) /\ Written /\ ip \in Landing /\ vm = "running" /\ mnem = "load"
  BY DEF LoadIntoReg, Runs, Fetched
<1>2. /\ lineAt(ip + 12) = Program!next(lineAt(ip))
      /\ Inside(ip + 8)
      /\ ra(instr) = arg(source[lineAt(ip)], 1)
      /\ word(ip + 4) = arg(source[lineAt(ip)], 2)
      /\ word(ip + 8) = arg(source[lineAt(ip)], 3)
      /\ lineAt(ip) \in Program!Instrs /\ mnem = source[lineAt(ip)].mnem
  BY <1>1, FetchedLine, FetchedLoad
<1>3. /\ vm' = vm /\ ip' = ip + 12 /\ returns' = returns
      /\ jmpFlag' = jmpFlag /\ UNCHANGED asmVars /\ source' = source
      /\ did' = [mnem |-> mnem, operands |-> <<ra(instr), word(ip + 4), word(ip + 8)>>]
  BY <1>2 DEF LoadIntoReg, Done, Keep, asmVars
<1>4. mnem \notin BRANCH_OPS \cup {"cmp", "call", "ret", "end"}
  BY <1>1 DEF BRANCH_OPS
<1>5. control = lineAt(ip) /\ control' = Program!next(lineAt(ip)) /\ linesOf(returns)' = linesOf(returns)
  BY <1>1, <1>2, <1>3, Mapped, MappedNext
<1> QED
  BY <1>1, <1>2, <1>3, <1>4, <1>5
     DEF Program!Compute, Program!Executing, Program!here, Program!operand, Program!Did, Program!takes,
         arg, Used, Needed, BRANCH_OPS, control, linesOf

\* A comparison.
LEMMA CompareCompares ==
  ASSUME Runs, Compare
  PROVE  Program!Compare
<1>1. /\ Fetched({"cmp"}) /\ Written /\ ip \in Landing
      /\ vm = "running" /\ vm' = vm /\ ip' = ip + 4 /\ returns' = returns
      /\ jmpFlag' \in {1, -1, 2, 0} /\ UNCHANGED asmVars /\ source' = source
      /\ did' = [mnem |-> mnem, operands |-> <<ra(instr), rb(instr), rc(instr)>>]
  BY DEF Compare, Done, Runs, asmVars
<1>2. mnem = "cmp" /\ mnem \in Plain
  BY <1>1 DEF Fetched, Plain, OPCODES, BRANCH_OPS
<1>3. control = lineAt(ip) /\ control' = Program!next(lineAt(ip)) /\ linesOf(returns)' = linesOf(returns)
  BY <1>1, <1>2, FetchedPlain, Mapped, MappedNext
<1>4. /\ lineAt(ip) \in Program!Instrs /\ mnem = source[lineAt(ip)].mnem
      /\ lineAt(ip) \in 1 .. Len(source) /\ source[lineAt(ip)].line = "instr"
      /\ ra(instr) = arg(source[lineAt(ip)], 1)
      /\ rb(instr) = arg(source[lineAt(ip)], 2)
      /\ rc(instr) = arg(source[lineAt(ip)], 3)
  BY <1>1, <1>2, FetchedLine, FetchedPlain
<1>5. arg(source[lineAt(ip)], 3) = 0
  BY <1>2, <1>4 DEF arg, Used, Needed
<1> QED
  BY <1>1, <1>2, <1>3, <1>4, <1>5
     DEF Program!Compare, Program!Executes, Program!Executing, Program!here, Program!operand,
         Program!Did, Program!takes, arg, Used, Needed, BRANCH_OPS, control, linesOf

\* The flag decides a branch as the source program's does.
LEMMA TakenHolds ==
  ASSUME mnem \in BRANCH_OPS
  PROVE  Taken <=> Program!Holds(mnem)
<1>1. mnem \in {"je", "jne", "jl", "jg"}
  BY DEF BRANCH_OPS
<1> QED
  BY <1>1 DEF Taken, Program!Holds

\* A branch, taken or not.
LEMMA BranchBranches ==
  ASSUME Runs, Jump \/ JumpNot
  PROVE  Program!Branch
<1>1. Fetched(BRANCH_OPS) /\ Written /\ ip \in Landing /\ vm = "running" /\ mnem \in BRANCH_OPS
  BY DEF Jump, JumpNot, Runs, Fetched
<1>2. /\ lineAt(ip + 8) = Program!next(lineAt(ip))
      /\ Inside(ip + 4)
      /\ lineAt(word(ip + 4)) =
           Program!next(Program!target(lineAt(ip), source[lineAt(ip)].args[1]))
      /\ lineAt(ip) \in Program!Instrs /\ mnem = source[lineAt(ip)].mnem
  BY <1>1, FetchedLine, FetchedBranch
<1>3. /\ vm' = vm /\ ip' = (IF Taken THEN word(ip + 4) ELSE ip + 8) /\ returns' = returns
      /\ jmpFlag' = jmpFlag /\ UNCHANGED asmVars /\ source' = source
      /\ did' = [mnem |-> mnem, operands |-> <<>>]
  BY <1>2 DEF Jump, JumpNot, Done, Keep, asmVars
<1> DEFINE t == Taken
<1>4. t <=> Program!Holds(source[lineAt(ip)].mnem)
  BY <1>1, <1>2, TakenHolds
<1> HIDE DEF t
<1>5. control = lineAt(ip) /\ linesOf(returns)' = linesOf(returns)
      /\ control' = IF t THEN Program!next(Program!target(lineAt(ip), source[lineAt(ip)].args[1]))
                    ELSE Program!next(lineAt(ip))
  <2>1. CASE t
    BY <1>1, <1>2, <1>3, <2>1, Mapped, MappedNext DEF t
  <2>2. CASE ~t
    BY <1>1, <1>2, <1>3, <2>2, Mapped, MappedNext DEF t
  <2> QED
    BY <2>1, <2>2
<1>6. control = lineAt(ip) => Program!here = source[lineAt(ip)]
  BY DEF Program!here, control
<1> QED
  BY <1>1, <1>2, <1>3, <1>4, <1>5, <1>6
     DEF Program!Branch, Program!Executes, Program!Executing, Program!Did, control, linesOf

\* A return, with or without a call.
LEMMA ReturnReturns ==
  ASSUME Runs, Ret
  PROVE  Program!Return \/ Program!Astray
<1>1. /\ Fetched({"ret"}) /\ Written /\ ip \in Landing /\ vm = "running" /\ mnem = "ret"
      /\ returns \in Seq(Landing)
  BY DEF Ret, Runs, Fetched
<1>2. lineAt(ip) \in Program!Instrs /\ mnem = source[lineAt(ip)].mnem /\ control = lineAt(ip)
  BY <1>1, FetchedLine, Mapped
<1>3. CASE returns = <<>>
  <2>1. /\ vm' = "wild" /\ ip' = ip /\ returns' = returns /\ did' = did
        /\ jmpFlag' = jmpFlag /\ UNCHANGED asmVars /\ source' = source
    BY <1>3 DEF Ret, Stop, asmVars
  <2>2. control' = control /\ linesOf(returns)' = linesOf(returns) /\ linesOf(returns) = <<>>
    <3>1. linesOf(<<>>) = <<>>
      BY <1>1, LinesOf
    <3> QED
      BY <1>1, <1>2, <1>3, <2>1, <3>1, MappedNext
  <2>3. Program!Astray
    BY <1>1, <1>2, <2>1, <2>2
       DEF Program!Astray, Program!Executes, Program!Executing, Program!here, control, linesOf
  <2> QED
    BY <2>3
<1>4. CASE returns # <<>>
  <2>1. /\ vm' = vm /\ ip' = Last(returns) /\ returns' = Front(returns)
        /\ did' = [mnem |-> mnem, operands |-> <<>>]
        /\ jmpFlag' = jmpFlag /\ UNCHANGED asmVars /\ source' = source
    BY <1>4 DEF Ret, Done, asmVars
  <2>2. control' = lineAt(Last(returns)) /\ linesOf(returns)' = linesOf(Front(returns))
    BY <1>1, <2>1, MappedNext
  <2>3. /\ linesOf(returns) # <<>>
        /\ control' = linesOf(returns)[Len(linesOf(returns))]
        /\ linesOf(returns)' = SubSeq(linesOf(returns), 1, Len(linesOf(returns)) - 1)
    BY <1>1, <1>4, <2>2, LinesOf
  <2>4. Program!Return
    BY <1>1, <1>2, <2>1, <2>3
       DEF Program!Return, Program!Executes, Program!Executing, Program!here, Program!Did, control, linesOf
  <2> QED
    BY <2>4
<1> QED
  BY <1>3, <1>4

\* The table has the address and the frame size of every declared function,
\* and nothing for the others.
LEMMA TableEntries ==
  ASSUME Clean, Written, NEW i \in 0 .. FUNCTION_TABLE_SIZE - 1
  PROVE  /\ i < Len(functions) =>
              /\ lineAt(loadedTable[i].entryIP) = Program!next(Program!declared(i))
              /\ loadedTable[i].frameSize = source[Program!declared(i)].frameSize
         /\ i >= Len(functions) => loadedTable[i].entryIP = 0 /\ loadedTable[i].frameSize = 0
<1>1. /\ FuncsOK /\ Filed /\ source \in Programs \cup {<<>>} /\ Len(functions) \in Nat
      /\ Len(source) \in Nat /\ DOMAIN source = 1 .. Len(source)
      /\ i \in Nat /\ FUNCTION_TABLE_SIZE \in Nat
  BY WrittenFacts, ImageAssumption
<1>2. /\ functionCount = Len(functions) /\ functionOffset = 32
      /\ \A j \in 1 .. Len(functions) :
           word(24 + 8 * j) = base(j) /\ word(28 + 8 * j) = functions[j].frameSize
  BY <1>1, WrittenFile
<1>3. entryAt(i) = 24 + 8 * (i + 1) /\ entryAt(i) + 4 = 28 + 8 * (i + 1)
  BY <1>1, <1>2 DEF entryAt, FUNC_ENTRY_SIZE
<1>4. ASSUME i < Len(functions)
      PROVE  /\ lineAt(loadedTable[i].entryIP) = Program!next(Program!declared(i))
             /\ loadedTable[i].frameSize = source[Program!declared(i)].frameSize
  <2>1. i + 1 \in 1 .. Len(functions) /\ (i + 1) - 1 = i
    BY <1>1, <1>4
  <2> DEFINE d == Program!declared(i)
  <2>2. /\ d \in 1 .. Len(source) /\ source[d].line = "func"
        /\ base(i + 1) = address(d)
        /\ functions[i + 1].frameSize = source[d].frameSize
    BY <2>1, DeclaredLine
  <2>3. loadedTable[i].entryIP = base(i + 1)
        /\ loadedTable[i].frameSize = functions[i + 1].frameSize % (BYTE * BYTE)
    <3>1. loadedTable[i] = [entryIP |-> word(entryAt(i)),
                            frameSize |-> word(entryAt(i) + 4) % (BYTE * BYTE)]
      BY <1>2, <1>4 DEF loadedTable
    <3>2. word(entryAt(i)) = base(i + 1) /\ word(entryAt(i) + 4) = functions[i + 1].frameSize
      BY <1>2, <1>3, <2>1
    <3> QED
      BY <3>1, <3>2
  <2>4. source[d].frameSize % (BYTE * BYTE) = source[d].frameSize
    <3>1. source \in Programs /\ source[d].frameSize \in Words /\ d \in DOMAIN source
      BY <1>1, <2>2, SourceLines
    <3>2. source[d].frameSize \in Nat /\ source[d].frameSize < BYTE * BYTE
      BY <2>2, <3>1, WordFacts DEF Clean
    <3>3. BYTE * BYTE \in Nat
      BY WordFacts
    <3>4. \A x, y \in Nat : x < y => x % y = x
      OBVIOUS
    <3> QED
      BY <3>2, <3>3, <3>4
  <2>5. lineAt(address(d)) = Program!next(d)
    <3>1. d \in 1 .. Len(source) + 1
      BY <1>1, <2>2
    <3>2. source[d].line # "instr"
      BY <2>2
    <3> QED
      BY <1>1, <2>2, <3>1, <3>2, LineAtAddress, NextPast
  <2> QED
    BY <2>2, <2>3, <2>4, <2>5
<1>5. ASSUME i >= Len(functions)
      PROVE  loadedTable[i].entryIP = 0 /\ loadedTable[i].frameSize = 0
  <2>1. ~(i < functionCount)
    BY <1>1, <1>2, <1>5
  <2> QED
    BY <2>1 DEF loadedTable
<1> QED
  BY <1>4, <1>5

\* A call, of a function that is declared or not.
LEMMA CallCalls ==
  ASSUME Clean, Runs, Call
  PROVE  Program!Call \/ Program!CallNothing \/ Program!Astray
<1> DEFINE index == (ra(instr) * BYTE + rb(instr)) * BYTE + rc(instr)
<1>1. /\ Fetched({"call"}) /\ Written /\ ip \in Landing /\ vm = "running" /\ mnem = "call"
      /\ returns \in Seq(Landing)
      /\ IF index >= FUNCTION_TABLE_SIZE THEN Stop("wild")
         ELSE /\ returns' = Append(returns, ip + 4)
              /\ Done(<<index, functionTable[index].frameSize>>, functionTable[index].entryIP)
              /\ UNCHANGED jmpFlag
  BY DEF Call, Runs, Fetched
<1>2. /\ lineAt(ip) \in Program!Instrs /\ mnem = source[lineAt(ip)].mnem /\ control = lineAt(ip)
      /\ lineAt(ip + 4) = Program!next(lineAt(ip))
      /\ index = source[lineAt(ip)].args[1] /\ index \in Nat
  BY <1>1, FetchedLine, FetchedCall, Mapped
<1> HIDE DEF index
<1>3. /\ Program!Cardinality(Program!Funcs) = Len(functions) /\ Len(functions) \in Nat
      /\ FUNCTION_TABLE_SIZE \in Nat /\ Len(functions) =< FUNCTION_TABLE_SIZE
  <2>1. FuncsOK /\ Filed /\ Len(functions) \in Nat
    BY <1>1, WrittenFacts
  <2>2. functionCount = Len(functions)
    BY <2>1, WrittenFile
  <2> QED
    BY <1>1, <2>1, <2>2, FuncsOfSource, ImageAssumption DEF Runs, Overflows
<1>4. CASE index >= FUNCTION_TABLE_SIZE
  <2>1. /\ vm' = "wild" /\ ip' = ip /\ returns' = returns /\ did' = did
        /\ jmpFlag' = jmpFlag /\ UNCHANGED asmVars /\ source' = source
    BY <1>1, <1>4 DEF Stop, asmVars
  <2>2. control' = control /\ linesOf(returns)' = linesOf(returns)
    BY <1>1, <1>2, <2>1, MappedNext
  <2>3. index >= Len(functions)
    BY <1>2, <1>3, <1>4
  <2>4. Program!Astray
    BY <1>1, <1>2, <1>3, <2>1, <2>2, <2>3
       DEF Program!Astray, Program!Executes, Program!Executing, Program!here, control, linesOf
  <2> QED
    BY <2>4
<1>5. CASE ~(index >= FUNCTION_TABLE_SIZE)
  <2> DEFINE entry == loadedTable[index]
  <2>1. /\ vm' = vm /\ ip' = entry.entryIP /\ returns' = Append(returns, ip + 4)
        /\ did' = [mnem |-> mnem, operands |-> <<index, entry.frameSize>>]
        /\ jmpFlag' = jmpFlag /\ UNCHANGED asmVars /\ source' = source
    BY <1>1, <1>5 DEF Done, Runs, asmVars
  <2>2. index \in 0 .. FUNCTION_TABLE_SIZE - 1
    BY <1>2, <1>3, <1>5
  <2>3. control' = lineAt(entry.entryIP) /\ linesOf(returns)' = linesOf(Append(returns, ip + 4))
    BY <1>1, <2>1, MappedNext
  <2>4. linesOf(returns)' = Append(linesOf(returns), Program!next(control))
    BY <1>1, <1>2, <2>3, LinesOf
  <2>5. CASE index < Len(functions)
    <3>1. /\ control' = Program!next(Program!declared(index))
          /\ entry.frameSize = source[Program!declared(index)].frameSize
      BY <1>1, <2>2, <2>3, <2>5, TableEntries
    <3> HIDE DEF entry
    <3>2. Program!Call
      BY <1>1, <1>2, <1>3, <2>1, <2>4, <2>5, <3>1
         DEF Program!Call, Program!Executes, Program!Executing, Program!here, Program!Did, control, linesOf
    <3> QED
      BY <3>2
  <2>6. CASE ~(index < Len(functions))
    <3>1. index >= Len(functions)
      BY <1>2, <1>3, <2>6
    <3>2. entry.entryIP = 0 /\ entry.frameSize = 0
      BY <1>1, <2>2, <3>1, TableEntries
    <3>3. control' = 0
      BY <1>1, <2>3, <3>2, LineAtNothing
    <3> HIDE DEF entry
    <3>4. Program!CallNothing
      BY <1>1, <1>2, <1>3, <2>1, <2>4, <3>1, <3>2, <3>3
         DEF Program!CallNothing, Program!Executes, Program!Executing, Program!here, Program!Did, control, linesOf
    <3> QED
      BY <3>4
  <2> QED
    BY <2>5, <2>6
<1> QED
  BY <1>4, <1>5

\* The steps that end the run.
LEMMA StopStops ==
  ASSUME Runs, Throw \/ End \/ InvalidOpcode \/ RunsOff
  PROVE  Program!Fail \/ Program!Halt \/ Program!Astray
<1>1. /\ Written /\ ip \in Landing /\ vm = "running" /\ returns \in Seq(Landing)
      /\ control = lineAt(ip)
  BY Mapped DEF Runs
<1>2. PICK how \in {"threw", "halted", "wild"} : Stop(how)
  BY DEF Throw, End, InvalidOpcode, RunsOff
<1>3. /\ vm' = how /\ ip' = ip /\ returns' = returns /\ did' = did
      /\ jmpFlag' = jmpFlag /\ UNCHANGED asmVars /\ source' = source
  BY <1>2 DEF Stop, asmVars
<1>4. control' = control /\ linesOf(returns)' = linesOf(returns)
  BY <1>1, <1>3, MappedNext
<1>5. CASE Throw
  <2>1. Fetched(ThrowOps) /\ vm' = "threw"
    BY <1>5 DEF Throw, Stop
  <2>2. lineAt(ip) \in Program!Instrs /\ source[lineAt(ip)].mnem \in ThrowOps
    BY <1>1, <2>1, FetchedLine
  <2>3. Program!Fail
    BY <1>1, <1>3, <1>4, <2>1, <2>2
       DEF Program!Fail, Program!Executes, Program!Executing, Program!here, control, linesOf
  <2> QED
    BY <2>3
<1>6. CASE End
  <2>1. Fetched({"end"}) /\ vm' = "halted"
    BY <1>6 DEF End, Stop
  <2>2. lineAt(ip) \in Program!Instrs /\ source[lineAt(ip)].mnem \in {"end"}
    BY <1>1, <2>1, FetchedLine
  <2>3. Program!Halt
    BY <1>1, <1>3, <1>4, <2>1, <2>2
       DEF Program!Halt, Program!Executes, Program!Executing, Program!here, control, linesOf
  <2> QED
    BY <2>3
<1>7. CASE InvalidOpcode
  <2>1. Inside(ip) /\ opcode >= Len(Opcode) /\ vm' = "threw"
    BY <1>7 DEF InvalidOpcode, Stop
  <2>2. control = 0
    BY <1>1, <2>1, NothingFetched
  <2>3. Program!Fail
    BY <1>1, <1>3, <1>4, <2>1, <2>2 DEF Program!Fail, control, linesOf
  <2> QED
    BY <2>3
<1>8. CASE RunsOff
  <2>1. ~Inside(ip) /\ vm' = "wild"
    BY <1>8 DEF RunsOff, Stop
  <2>2. control = Program!After
    BY <1>1, <2>1, NothingFetched DEF Program!After
  <2>3. Program!Astray
    BY <1>1, <1>3, <1>4, <2>1, <2>2 DEF Program!Astray, control, linesOf
  <2> QED
    BY <2>3
<1> QED
  BY <1>5, <1>6, <1>7, <1>8

\* A written file is accepted.
LEMMA WrittenAccepted ==
  ASSUME Written
  PROVE  /\ GoodHeader /\ GoodTable /\ ~Torn
         /\ functionCount = Len(functions) /\ word(28) = address(1)
<1>1. /\ FuncsOK /\ Filed /\ Len(functions) \in Nat /\ FUNCTION_TABLE_SIZE \in Nat
      /\ source \in Programs \cup {<<>>}
  BY WrittenFacts, ImageAssumption
<1>2. /\ Len(image) = 8 + 2 * Len(functions) + rawsBefore(Len(functions) + 1)
      /\ word(0) = SPROUT_LANG_MAGIC /\ word(4) = SPROUT_LANG_VERSION
      /\ functionCount = Len(functions) /\ functionOffset = 32 /\ word(28) = base(1)
  BY <1>1, WrittenFile
<1>3. rawsBefore(Len(functions) + 1) \in Nat /\ rawsBefore(1) = 0
      /\ base(1) = 32 + 8 * Len(functions) + 4 * rawsBefore(1)
  <2>1. 1 \in 1 .. Len(functions) + 1 /\ Len(functions) + 1 \in 1 .. Len(functions) + 1
    BY <1>1
  <2> QED
    BY <1>1, <2>1, Bases DEF FuncsOK
<1>4. GoodHeader
  BY <1>1, <1>2, <1>3 DEF GoodHeader, HEADER_SIZE
<1>5. GoodTable /\ ~Torn
  <2> DEFINE c == Len(functions) - 1
             least == Min({functionCount - 1, FUNCTION_TABLE_SIZE})
  <2>1. least =< c /\ least \in Int
    <3>1. {functionCount - 1, FUNCTION_TABLE_SIZE} = {FUNCTION_TABLE_SIZE, functionCount - 1}
      OBVIOUS
    <3>2. c \in Int /\ FUNCTION_TABLE_SIZE \in Int /\ functionCount - 1 = c
      BY <1>1, <1>2
    <3>3. CASE c =< FUNCTION_TABLE_SIZE
      BY <3>2, <3>3, MinOfTwo
    <3>4. CASE FUNCTION_TABLE_SIZE =< c
      BY <3>1, <3>2, <3>4, MinOfTwo
    <3> QED
      BY <3>2, <3>3, <3>4
  <2>2. ASSUME NEW i \in 0 .. least
        PROVE  Inside(entryAt(i) + 4) /\ entryAt(i) + 4 < 4 * Len(image)
    <3>1. i \in Nat /\ i < Len(functions)
      <4>1. least \in Int /\ c \in Int /\ least =< c /\ c = Len(functions) - 1
        BY <1>1, <2>1
      <4> HIDE DEF least, c
      <4> QED
        BY <1>1, <4>1
    <3>2. entryAt(i) + 4 = 4 * (9 + 2 * i)
      BY <1>2, <3>1 DEF entryAt, FUNC_ENTRY_SIZE
    <3>3. 9 + 2 * i \in Nat /\ 9 + 2 * i < Len(image)
      BY <1>1, <1>2, <1>3, <3>1
    <3>4. \A a \in Nat : (4 * a) % 4 = 0 /\ (4 * a) \div 4 = a /\ 4 * a >= 0
      OBVIOUS
    <3> DEFINE a == 9 + 2 * i
    <3> HIDE DEF a
    <3>5. entryAt(i) + 4 = 4 * a /\ a \in Nat /\ a < Len(image)
      BY <3>2, <3>3 DEF a
    <3> QED
      BY <1>1, <3>4, <3>5 DEF Inside
  <2> QED
    BY <2>2 DEF GoodTable, Torn, entriesRead
<1>6. word(28) = address(1)
  <2>1. wordsBefore(1) = 0
    BY <1>1, Counting
  <2>2. codeOffset = 32 + 8 * Len(functions)
    BY WrittenFacts
  <2> QED
    BY <1>1, <1>2, <1>3, <2>1, <2>2 DEF address
<1> QED
  BY <1>2, <1>4, <1>5, <1>6

\* The VM takes up a program, or refuses what it promises nothing for.
LEMMA LoadStarts ==
  ASSUME OnlyOurs, AsmInv, SourceInv, LandInv, Accepted, Load \/ RejectImage
  PROVE  Program!Start \/ Program!Refuse
<1>1. /\ vm = "off" /\ asm = "written" /\ returns = <<>> /\ ip = 0
      /\ pos = Len(source) + 1 /\ (Filed \/ source = <<>>)
      /\ Filed \/ Foreign
      /\ UNCHANGED asmVars /\ source' = source /\ functions' = functions
  BY DEF Load, RejectImage, Ready, Stop, LandInv, Accepted, SourceInv, AsmInv, Foreign, asmVars
<1>2. linesOf(returns) = <<>>
  <2>1. <<>> \in Seq({})
    OBVIOUS
  <2> QED
    BY <1>1, <2>1, LinesOf
<1>3. control = 0
  BY <1>1 DEF control
<1>4. CASE Load /\ ~Overflows /\ ~Torn
  <2>1. /\ vm' = "running" /\ ip' = word(28) /\ jmpFlag' = 2 /\ returns' = returns /\ did' = did
        /\ GoodHeader
    BY <1>4 DEF Load
  <2>2. image \notin Files
    <3>1. word(0) = image[1] /\ word(4) = image[2]
      BY DEF word
    <3> QED
      BY <2>1, <3>1 DEF GoodHeader, OnlyOurs
  <2>3. Written
    BY <1>1, <2>2 DEF Written, Foreign
  <2>4. control' = lineAt(word(28)) /\ linesOf(returns)' = linesOf(returns)
    BY <1>1, <2>1, <2>3, MappedNext
  <2>5. lineAt(word(28)) = Program!next(0)
    <3>1. 1 \in 1 .. Len(source) + 1 /\ 1 - 1 = 0
      BY <2>3, WrittenFacts
    <3> QED
      BY <2>3, <3>1, WrittenAccepted, LineAtAddress
  <2>6. (CASE jmpFlag' = 1 -> "EQ" [] jmpFlag' = -1 -> "LT" [] jmpFlag' = 2 -> "GT" [] OTHER -> "NE")
          = "GT"
    BY <2>1
  <2>7. Program!Start
    BY <1>1, <2>1, <2>4, <2>5, <2>6 DEF Program!Start, control, linesOf
  <2> QED
    BY <2>7
<1>5. CASE RejectImage \/ (Load /\ (Overflows \/ Torn))
  <2>1. PICK how \in {"threw", "wild"} : Stop(how)
    BY <1>5 DEF RejectImage, Load
  <2>2. /\ vm' = how /\ ip' = ip /\ returns' = returns /\ did' = did /\ jmpFlag' = jmpFlag
    BY <2>1 DEF Stop
  <2>3. control' = 0 /\ linesOf(returns)' = linesOf(returns)
    <3>1. linesOf(returns)' = linesOf(returns)
      BY <1>1, <2>2, SameLineAt
    <3>2. CASE functions = <<>>
      BY <1>1, <2>2, <3>1, <3>2 DEF control
    <3>3. CASE functions # <<>>
      <4>1. Written
        BY <1>1, <3>3 DEF Written, Foreign
      <4> QED
        BY <1>1, <2>2, <4>1, MappedNext, LineAtNothing
    <3> QED
      BY <3>2, <3>3
  <2>4. source = <<>> \/ Program!Cardinality(Program!Funcs) > FUNCTION_TABLE_SIZE
    <3>1. SUFFICES ASSUME source # <<>>
                   PROVE  Program!Cardinality(Program!Funcs) > FUNCTION_TABLE_SIZE
      OBVIOUS
    <3>2. Written
      BY <1>1, <3>1 DEF Written
    <3>3. GoodHeader /\ GoodTable /\ ~Torn /\ functionCount = Len(functions)
          /\ Program!Cardinality(Program!Funcs) = Len(functions)
      BY <3>2, WrittenAccepted, FuncsOfSource
    <3>4. Overflows
      BY <1>5, <3>3 DEF RejectImage
    <3> QED
      BY <3>3, <3>4 DEF Overflows
  <2>5. Program!Refuse
    BY <1>1, <1>3, <2>2, <2>3, <2>4 DEF Program!Refuse, control, linesOf
  <2> QED
    BY <2>5
<1> QED
  BY <1>4, <1>5

\* The assembler's steps, and the VM's rests.
LEMMA NothingHappens ==
  ASSUME LandInv, Assemble \/ UNCHANGED <<asmVars, vmVars>>
  PROVE  UNCHANGED Program!vars
<1>1. CASE Assemble
  <2>1. asm = "reading" /\ source' = source /\ UNCHANGED vmVars
    BY <1>1 DEF Assemble, AsmNext, BeginFunc, EndFunc, DefineLabel, Becomes, EmitPlain, EmitLoad,
       EmitBranch, EmitCall, Reject, EmitBinary, RejectFile, Reading, AtEnd
  <2>2. /\ vm = "off" /\ returns = <<>> /\ vm' = vm /\ returns' = returns /\ jmpFlag' = jmpFlag
        /\ did' = did
    BY <2>1 DEF LandInv, vmVars
  <2>3. linesOf(returns) = [k \in {} |-> 0] /\ linesOf(returns)' = [k \in {} |-> 0]
    BY <2>2 DEF linesOf
  <2>4. control = 0 /\ control' = 0
    BY <2>2 DEF control
  <2> QED
    BY <2>1, <2>2, <2>3, <2>4 DEF Program!vars, control, linesOf
<1>2. CASE UNCHANGED <<asmVars, vmVars>>
  <2>1. UNCHANGED asmVars /\ UNCHANGED vmVars
    BY <1>2
  <2>2. /\ source' = source /\ functions' = functions /\ vm' = vm /\ ip' = ip
        /\ returns' = returns /\ jmpFlag' = jmpFlag /\ did' = did
    BY <2>1 DEF asmVars, vmVars
  <2>3. lineAt(ip)' = lineAt(ip) /\ linesOf(returns)' = linesOf(returns)
    BY <2>1, <2>2, SameLineAt
  <2>4. control' = control
    BY <2>2, <2>3 DEF control
  <2> QED
    BY <2>2, <2>3, <2>4 DEF Program!vars, control, linesOf
<1> QED
  BY <1>1, <1>2

\* The assembler and the VM together do what the source says: every step of
\* theirs is a step of the source program, or none, for programs whose operands
\* fit where the instruction keeps them.
THEOREM MachineImplementsSource ==
  ASSUME Clean, OnlyOurs
  PROVE  MachineSpec => SourceSpec
<1>1. MachineInit => Program!Init
  <2> SUFFICES ASSUME MachineInit PROVE Program!Init
    OBVIOUS
  <2>1. /\ vm = "off" /\ jmpFlag = 0 /\ returns = <<>>
        /\ did = [mnem |-> "none", operands |-> <<>>]
    BY DEF MachineInit
  <2>2. (CASE jmpFlag = 1 -> "EQ" [] jmpFlag = -1 -> "LT" [] jmpFlag = 2 -> "GT" [] OTHER -> "NE")
          = "NE"
    BY <2>1
  <2>3. linesOf(returns) = <<>>
    <3>1. <<>> \in Seq({})
      OBVIOUS
    <3> QED
      BY <2>1, <3>1, LinesOf
  <2> QED
    BY <2>1, <2>2, <2>3 DEF Program!Init, linesOf
<1>2. AsmInv /\ LandInv /\ SourceInv /\ Accepted /\ [MachineNext]_<<asmVars, vmVars>>
        => [Program!Next]_(Program!vars)
  <2> SUFFICES ASSUME AsmInv, LandInv, SourceInv, Accepted, [MachineNext]_<<asmVars, vmVars>>
               PROVE  Program!Next \/ UNCHANGED Program!vars
    OBVIOUS
  <2>1. ASSUME vm = "running" PROVE Runs
    BY <2>1 DEF Runs, Written, AsmInv, LandInv, SourceInv, Accepted, Foreign
  <2>2. CASE Assemble \/ UNCHANGED <<asmVars, vmVars>>
    BY <2>2, NothingHappens
  <2>3. CASE Load \/ RejectImage
    BY <2>3, LoadStarts DEF Program!Next
  <2>4. CASE Execute \/ LoadIntoReg
    <3>1. Runs
      BY <2>1, <2>4 DEF Execute, LoadIntoReg, Fetched, Running
    <3> QED
      BY <2>4, <3>1, ExecuteComputes, LoadComputes DEF Program!Next
  <2>5. CASE Compare
    <3>1. Runs
      BY <2>1, <2>5 DEF Compare, Fetched, Running
    <3> QED
      BY <2>5, <3>1, CompareCompares DEF Program!Next
  <2>6. CASE Jump \/ JumpNot
    <3>1. Runs
      BY <2>1, <2>6 DEF Jump, JumpNot, Fetched, Running
    <3> QED
      BY <2>6, <3>1, BranchBranches DEF Program!Next
  <2>7. CASE Call
    <3>1. Runs
      BY <2>1, <2>7 DEF Call, Fetched, Running
    <3> QED
      BY <2>7, <3>1, CallCalls DEF Program!Next
  <2>8. CASE Ret
    <3>1. Runs
      BY <2>1, <2>8 DEF Ret, Fetched, Running
    <3> QED
      BY <2>8, <3>1, ReturnReturns DEF Program!Next
  <2>9. CASE Throw \/ End \/ InvalidOpcode \/ RunsOff
    <3>1. Runs
      BY <2>1, <2>9 DEF Throw, End, InvalidOpcode, RunsOff, Fetched, Running
    <3> QED
      BY <2>9, <3>1, StopStops DEF Program!Next
  <2> QED
    BY <2>2, <2>3, <2>4, <2>5, <2>6, <2>7, <2>8, <2>9 DEF MachineNext
<1>3. SourceSpec <=> Program!Init /\ [][Program!Next]_(Program!vars)
  BY DEF SourceSpec, Program!Spec
<1> QED
  BY <1>1, <1>2, <1>3, MachineLands, MachineTells, MachineAccepts, PTL DEF MachineSpec
================================================================================
