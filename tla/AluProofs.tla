------------------------------ MODULE AluProofs ------------------------------
(***************************************************************************)
(* Whatever the width of the payload, the registers, the literals and the  *)
(* doubles: arithmetic never forges a word of another kind, and computing  *)
(* on boxed words implements computing on typed values.                    *)
(***************************************************************************)
EXTENDS AluProps, TLAPS

(***************************************************************************)
(* Division with rest, for a divisor that need not be a literal.           *)
(***************************************************************************)
\* The rest of a division by a positive number.
LEMMA DivMod ==
  ASSUME NEW n \in Int, NEW d \in Nat \ {0}
  PROVE  /\ n \div d \in Int /\ n % d \in 0 .. d - 1
         /\ n = (n \div d) * d + (n % d)
         /\ n \in Nat => n \div d \in Nat
OBVIOUS

\* Quotient and rest are unique.
LEMMA Unique ==
  ASSUME NEW d \in Nat \ {0}, NEW q \in Int, NEW r \in 0 .. d - 1
  PROVE  (q * d + r) \div d = q /\ (q * d + r) % d = r
OBVIOUS

\* The payload of 2^48 values.
LEMMA Beyond == BEYOND \in Nat \ {0} /\ LO \in Nat \ {0} /\ MID \in Nat \ {0}
BY WordsAssumption DEF BEYOND

\* Cutting a number into the two payload fields keeps it modulo 2^48.
LEMMA Payload ==
  ASSUME NEW n \in Int
  PROVE  ((n \div LO) % MID) * LO + (n % LO) = n % BEYOND
<1> DEFINE q == n \div LO
           r == n % LO
           q2 == q \div MID
           m == q % MID
<1>1. LO \in Nat \ {0} /\ MID \in Nat \ {0} /\ BEYOND \in Nat \ {0}
  BY Beyond
<1>2. q \in Int /\ r \in 0 .. LO - 1 /\ n = q * LO + r
  BY <1>1, DivMod
<1>3. q2 \in Int /\ m \in 0 .. MID - 1 /\ q = q2 * MID + m
  BY <1>1, <1>2, DivMod
<1> HIDE DEF q, r, q2, m
<1>4. m * LO + r \in 0 .. BEYOND - 1
  <2>1. m * LO + r \in Nat
    BY <1>1, <1>2, <1>3
  <2>2. m * LO =< (MID - 1) * LO
    BY <1>1, <1>3
  <2>3. (MID - 1) * LO = BEYOND - LO
    BY <1>1 DEF BEYOND
  <2> QED
    BY <1>1, <1>2, <1>3, <2>1, <2>2, <2>3
<1>5. n = q2 * BEYOND + (m * LO + r)
  <2>1. n = (q2 * MID + m) * LO + r
    BY <1>2, <1>3
  <2>2. (q2 * MID + m) * LO = q2 * (MID * LO) + m * LO
    BY <1>1, <1>3
  <2> QED
    BY <1>1, <1>2, <1>3, <2>1, <2>2 DEF BEYOND
<1>6. n % BEYOND = m * LO + r
  BY <1>1, <1>3, <1>4, <1>5, Unique
<1> QED
  BY <1>6 DEF m, q, r

(***************************************************************************)
(* The words registers can hold, kind by kind.                             *)
(***************************************************************************)
\* Values of a 48-bit integer.
Int48 == {n \in Int : -BEYOND =< 2 * n /\ 2 * n < BEYOND}

Doubles  == {encodeDouble(n) : n \in Places}
Ints     == {encodeInt(n) : n \in Int}
Pointers == {encodePointer(a) : a \in Arrays}
Bools    == {encodeBool(b) : b \in BOOLEAN}
Char6s   == {encode(TAG_CHAR6, n) : n \in 0 .. BEYOND - 1}
Nulls    == {encode(TAG_NULL, 0)}

Boxed == Doubles \cup Ints \cup Pointers \cup Bools \cup Char6s \cup Nulls

\* A boxed word is no double, and its tag and payload are what was put in.
LEMMA EncodeFacts ==
  ASSUME NEW tag \in 0 .. 5, NEW n \in Int
  PROVE  /\ encode(tag, n) \in Word
         /\ ~isDouble(encode(tag, n))
         /\ getTag(encode(tag, n)) = tag
         /\ payload(encode(tag, n)) = n % BEYOND
         /\ encode(tag, n).lo = n % LO
<1>1. LO \in Nat \ {0} /\ MID \in Nat \ {0} /\ BEYOND \in Nat \ {0}
  BY Beyond
<1>2. n \div LO \in Int /\ n % LO \in Nat
  BY <1>1, DivMod
<1>3. (n \div LO) % MID \in Nat
  BY <1>1, <1>2, DivMod
<1>4. encode(tag, n) = [hi |-> 32752 + tag, mid |-> (n \div LO) % MID, lo |-> n % LO]
  BY DEF encode, W, NAN_BASE
<1>5. encode(tag, n) \in Word
  BY <1>2, <1>3, <1>4 DEF Word
<1>6. ((32752 + tag) \div 16) % 2048 = 2047 /\ (32752 + tag) % 16 = tag
  OBVIOUS
<1>7. payload(encode(tag, n)) = n % BEYOND
  BY <1>4, Payload DEF payload
<1> QED
  BY <1>4, <1>5, <1>6, <1>7 DEF isDouble, getTag

\* What an integer comes back as: itself up to a multiple of 2^48, and itself
\* if it has 48 bits.
LEMMA IntRoundTrip ==
  ASSUME NEW n \in Int
  PROVE  /\ decodeInt(encodeInt(n)) \in Int48
         /\ (decodeInt(encodeInt(n)) - n) % BEYOND = 0
         /\ n \in Int48 => decodeInt(encodeInt(n)) = n
<1> DEFINE p == n % BEYOND
           q == n \div BEYOND
<1>1. BEYOND \in Nat \ {0}
  BY Beyond
<1>2. p \in 0 .. BEYOND - 1 /\ q \in Int /\ n = q * BEYOND + p
  BY <1>1, DivMod
<1>3. payload(encodeInt(n)) = p
  BY EncodeFacts DEF encodeInt, TAG_INT48
<1>4. decodeInt(encodeInt(n)) = IF 2 * p >= BEYOND THEN p - BEYOND ELSE p
  BY <1>3 DEF decodeInt
<1> HIDE DEF p, q
<1>5. CASE 2 * p >= BEYOND
  <2>1. decodeInt(encodeInt(n)) = p - BEYOND
    BY <1>4, <1>5
  <2>2. p - BEYOND \in Int48
    BY <1>1, <1>2, <1>5 DEF Int48
  <2>3. (p - BEYOND) - n = (-q - 1) * BEYOND + 0
    <3>1. (-q - 1) * BEYOND = -(q * BEYOND) - BEYOND
      BY <1>1, <1>2
    <3> QED
      BY <1>1, <1>2, <3>1
  <2>4. ((p - BEYOND) - n) % BEYOND = 0
    BY <1>1, <1>2, <2>3, Unique
  <2>5. n \in Int48 => p - BEYOND = n
    <3>1. SUFFICES ASSUME n \in Int48 PROVE q = -1
      <4>1. q = -1 => q * BEYOND = -BEYOND
        BY <1>1
      <4> QED
        BY <1>1, <1>2, <4>1
    <3>2. q >= 0 => q * BEYOND >= 0
      BY <1>1, <1>2
    <3>3. q =< -2 => q * BEYOND =< -2 * BEYOND
      BY <1>1, <1>2
    <3> QED
      BY <1>1, <1>2, <1>5, <3>1, <3>2, <3>3 DEF Int48
  <2> QED
    BY <2>1, <2>2, <2>4, <2>5
<1>6. CASE ~(2 * p >= BEYOND)
  <2>1. decodeInt(encodeInt(n)) = p
    BY <1>4, <1>6
  <2>2. p \in Int48
    BY <1>1, <1>2, <1>6 DEF Int48
  <2>3. p - n = (-q) * BEYOND + 0
    <3>1. (-q) * BEYOND = -(q * BEYOND)
      BY <1>1, <1>2
    <3> QED
      BY <1>1, <1>2, <3>1
  <2>4. (p - n) % BEYOND = 0
    BY <1>1, <1>2, <2>3, Unique
  <2>5. n \in Int48 => p = n
    <3>1. SUFFICES ASSUME n \in Int48 PROVE q = 0
      BY <1>1, <1>2
    <3>2. q >= 1 => q * BEYOND >= BEYOND
      BY <1>1, <1>2
    <3>3. q =< -1 => q * BEYOND =< -BEYOND
      BY <1>1, <1>2
    <3> QED
      BY <1>1, <1>2, <1>6, <3>1, <3>2, <3>3 DEF Int48
  <2> QED
    BY <2>1, <2>2, <2>4, <2>5
<1> QED
  BY <1>5, <1>6

\* The bits of a double: its place comes back, and it passes for a double
\* exactly if it is finite; otherwise it has no tag the VM knows.
LEMMA DoubleFacts ==
  ASSUME NEW n \in Places
  PROVE  /\ encodeDouble(n) \in Word
         /\ decodeDouble(encodeDouble(n)) = n
         /\ isDouble(encodeDouble(n)) <=> -INFINITY < n /\ n < INFINITY
         /\ ~isDouble(encodeDouble(n)) => getTag(encodeDouble(n)) \notin 1 .. 5
<1> DEFINE a == abs(n)
           q == a \div BEYOND
           p == a % BEYOND
           s == IF n < 0 THEN SIGN ELSE 0
           w == encodeDouble(n)
<1>1. LO \in Nat \ {0} /\ MID \in Nat \ {0} /\ BEYOND \in Nat \ {0}
  BY Beyond
<1>2. INFINITY = 32752 * BEYOND /\ NOT_A_NUMBER = 32760 * BEYOND
  BY DEF INFINITY, NOT_A_NUMBER, NAN_BASE
<1>3. n \in Int /\ a \in Nat /\ a =< 32760 * BEYOND
      /\ (a < INFINITY \/ a = 32752 * BEYOND \/ a = 32760 * BEYOND)
  BY <1>1, <1>2 DEF Places, abs
<1> HIDE DEF a
<1>4. a \div LO \in Int /\ a % LO \in Nat /\ (a \div LO) % MID \in Nat
  BY <1>1, <1>3, DivMod
<1>5. q \in Nat /\ p \in 0 .. BEYOND - 1 /\ a = q * BEYOND + p
  <2>1. a \in Nat /\ a \in Int /\ BEYOND \in Nat \ {0}
    BY <1>1, <1>3
  <2> QED
    BY <2>1, DivMod
<1>6. w = [hi |-> q + s, mid |-> (a \div LO) % MID, lo |-> a % LO]
  BY DEF encodeDouble, W, a
<1>7. payload(w) = p
  BY <1>3, <1>6, Payload DEF payload
<1>8. n < 0 <=> a # n
  BY <1>3 DEF abs, a
<1>9. n = IF n < 0 THEN -a ELSE a
  BY <1>3 DEF abs, a
<1> HIDE DEF q, p, w
<1>10. q =< 32760 /\ (q = 32760 => p = 0)
  <2>1. q >= 32761 => q * BEYOND >= 32761 * BEYOND
    BY <1>1, <1>5
  <2> QED
    BY <1>1, <1>3, <1>5, <2>1
<1>11. w \in Word
  BY <1>4, <1>5, <1>6 DEF Word, SIGN
<1>12. w.hi % SIGN = q /\ (w.hi >= SIGN <=> n < 0)
  BY <1>5, <1>6, <1>10 DEF SIGN
<1>13. decodeDouble(w) = n
  BY <1>5, <1>7, <1>9, <1>12 DEF decodeDouble
<1>14. q < 32752 <=> a < INFINITY
  <2>1. q >= 32752 => q * BEYOND >= 32752 * BEYOND
    BY <1>1, <1>5
  <2>2. q =< 32751 => q * BEYOND =< 32751 * BEYOND
    BY <1>1, <1>5
  <2> QED
    BY <1>1, <1>2, <1>5, <2>1, <2>2
<1>15. isDouble(w) <=> q < 32752
  <2>1. w.hi = q + s
    BY <1>6
  <2>2. (w.hi \div 16) % 2048 = q \div 16
    BY <1>5, <1>10, <2>1 DEF SIGN
  <2> QED
    BY <1>5, <1>10, <2>2 DEF isDouble
<1>16. ~isDouble(w) => getTag(w) \in {0, 8}
  <2>1. q = 32752 \/ q = 32760 \/ q < 32752
    <3>1. a = 32752 * BEYOND => q = 32752
      BY <1>1, Unique DEF q
    <3>2. a = 32760 * BEYOND => q = 32760
      BY <1>1, Unique DEF q
    <3> QED
      BY <1>3, <1>14, <3>1, <3>2
  <2>2. w.hi = q + s /\ s \in {0, 32768}
    BY <1>6 DEF SIGN
  <2> QED
    BY <1>15, <2>1, <2>2 DEF getTag
<1>17. a < INFINITY <=> -INFINITY < n /\ n < INFINITY
  BY <1>1, <1>2, <1>3, <1>9
<1> QED
  BY <1>11, <1>13, <1>14, <1>15, <1>16, <1>17 DEF w

\* Every kind of word passes the tests for its own type and no other, and its
\* value is the one that was encoded.
Kind(w, t) ==
  /\ isDouble(w) <=> t = "double"
  /\ isInt(w) <=> t = "int"
  /\ isPointer(w) <=> t = "pointer"
  /\ isBool(w) <=> t = "boolean"
  /\ isChar6(w) <=> t = "char6"

Typing(t, n) == [type |-> t, n |-> n]

\* A tag decides the kind.
LEMMA TagKind ==
  ASSUME NEW tag \in 1 .. 5, NEW n \in Int
  PROVE  Kind(encode(tag, n), CASE tag = 1 -> "int" [] tag = 2 -> "pointer"
                                [] tag = 3 -> "boolean" [] tag = 4 -> "char6" [] tag = 5 -> "none")
<1>1. ~isDouble(encode(tag, n)) /\ getTag(encode(tag, n)) = tag
  BY EncodeFacts
<1> QED
  BY <1>1 DEF Kind, isInt, isPointer, isBool, isChar6, TAG_INT48, TAG_POINTER, TAG_BOOL, TAG_CHAR6

LEMMA IntWord ==
  ASSUME NEW n \in Int
  PROVE  /\ encodeInt(n) \in Word
         /\ Kind(encodeInt(n), "int")
         /\ valueOf(encodeInt(n)) = Typing("int", decodeInt(encodeInt(n)))
<1>1. Kind(encodeInt(n), "int")
  BY TagKind DEF encodeInt, TAG_INT48
<1>2. encodeInt(n) \in Word
  BY EncodeFacts DEF encodeInt, TAG_INT48
<1> QED
  BY <1>1, <1>2 DEF Kind, valueOf, Typing

LEMMA DoubleWord ==
  ASSUME NEW n \in Places
  PROVE  LET finite == -INFINITY < n /\ n < INFINITY
         IN /\ encodeDouble(n) \in Word
            /\ Kind(encodeDouble(n), IF finite THEN "double" ELSE "none")
            /\ decodeDouble(encodeDouble(n)) = n
            /\ valueOf(encodeDouble(n)) = IF finite THEN Typing("double", n) ELSE Typing("none", 0)
<1> DEFINE w == encodeDouble(n)
           finite == -INFINITY < n /\ n < INFINITY
<1>1. /\ w \in Word
      /\ decodeDouble(w) = n
      /\ isDouble(w) <=> finite
      /\ ~isDouble(w) => getTag(w) \notin 1 .. 5
  BY DoubleFacts
<1> HIDE DEF w, finite
<1>2. Kind(w, IF finite THEN "double" ELSE "none")
  BY <1>1 DEF Kind, isInt, isPointer, isBool, isChar6, TAG_INT48, TAG_POINTER, TAG_BOOL, TAG_CHAR6
<1>3. valueOf(w) = IF finite THEN Typing("double", n) ELSE Typing("none", 0)
  BY <1>1, <1>2 DEF Kind, valueOf, Typing
<1> QED
  BY <1>1, <1>2, <1>3 DEF w, finite

LEMMA PointerWord ==
  ASSUME NEW a \in Arrays
  PROVE  /\ encodePointer(a) \in Word
         /\ Kind(encodePointer(a), "pointer")
         /\ decodePointer(encodePointer(a)) = a
         /\ valueOf(encodePointer(a)) = Typing("pointer", a)
<1>1. BEYOND \in Nat \ {0} /\ a \in 0 .. BEYOND - 1 /\ a \in Int
  BY Beyond, AluAssumption
<1>2. Kind(encodePointer(a), "pointer") /\ encodePointer(a) \in Word
  BY <1>1, TagKind, EncodeFacts DEF encodePointer, TAG_POINTER
<1>3. payload(encodePointer(a)) = a % BEYOND
  BY <1>1, EncodeFacts DEF encodePointer, TAG_POINTER
<1>4. a % BEYOND = a
  BY <1>1, Unique
<1>5. decodePointer(encodePointer(a)) = a
  BY <1>3, <1>4 DEF decodePointer, payload
<1> QED
  BY <1>2, <1>5 DEF Kind, valueOf, Typing

LEMMA BoolWord ==
  ASSUME NEW b \in BOOLEAN
  PROVE  /\ encodeBool(b) \in Word
         /\ Kind(encodeBool(b), "boolean")
         /\ decodeBool(encodeBool(b)) <=> b
         /\ valueOf(encodeBool(b)) = Typing("boolean", IF b THEN 1 ELSE 0)
<1> DEFINE n == IF b THEN 1 ELSE 0
<1>1. LO \in Nat /\ LO > 1
  BY Beyond, NumbersAssumption
<1>2. Kind(encodeBool(b), "boolean") /\ encodeBool(b) \in Word
  BY TagKind, EncodeFacts DEF encodeBool, TAG_BOOL
<1>3. encodeBool(b).lo = n % LO
  BY EncodeFacts DEF encodeBool, TAG_BOOL
<1>4. n % LO = n
  BY <1>1
<1>5. decodeBool(encodeBool(b)) <=> b
  BY <1>3, <1>4 DEF decodeBool
<1> QED
  BY <1>2, <1>5 DEF Kind, valueOf, Typing

LEMMA Char6Word ==
  ASSUME NEW n \in 0 .. BEYOND - 1
  PROVE  LET w == encode(TAG_CHAR6, n)
         IN w \in Word /\ Kind(w, "char6") /\ payload(w) = n /\ valueOf(w) = Typing("char6", n)
<1> DEFINE w == encode(TAG_CHAR6, n)
<1>1. BEYOND \in Nat \ {0} /\ n \in Int
  BY Beyond
<1>2. Kind(w, "char6") /\ w \in Word
  BY TagKind, EncodeFacts DEF TAG_CHAR6
<1>3. payload(w) = n % BEYOND
  BY EncodeFacts DEF TAG_CHAR6
<1>4. n % BEYOND = n
  BY <1>1, Unique
<1> HIDE DEF w
<1>5. valueOf(w) = Typing("char6", n)
  BY <1>2, <1>3, <1>4 DEF Kind, valueOf, Typing
<1> QED
  BY <1>2, <1>3, <1>4, <1>5 DEF w

LEMMA NullWord ==
  LET w == encode(TAG_NULL, 0)
  IN w \in Word /\ Kind(w, "none") /\ valueOf(w) = Typing("none", 0)
<1> DEFINE w == encode(TAG_NULL, 0)
<1>1. Kind(w, "none") /\ w \in Word
  BY TagKind, EncodeFacts DEF TAG_NULL
<1> HIDE DEF w
<1>2. valueOf(w) = Typing("none", 0)
  BY <1>1 DEF Kind, valueOf, Typing
<1> QED
  BY <1>1, <1>2 DEF w

(***************************************************************************)
(* What can be told of any word in a register.                             *)
(***************************************************************************)
\* A register's word is of one kind, and the number in it is one of that kind.
LEMMA BoxedFacts ==
  ASSUME NEW w \in Boxed
  PROVE  /\ w \in Word
         /\ isDouble(w) => /\ decodeDouble(w) \in Int
                           /\ -INFINITY < decodeDouble(w) /\ decodeDouble(w) < INFINITY
         /\ isInt(w) => decodeInt(w) \in Int48
         /\ isPointer(w) => decodePointer(w) \in Arrays
         /\ isBool(w) => \E b \in BOOLEAN : w = encodeBool(b)
         /\ isChar6(w) => payload(w) \in Int
<1>1. CASE w \in Doubles
  <2>1. PICK n \in Places : w = encodeDouble(n)
    BY <1>1 DEF Doubles
  <2>2. n \in Int
    BY Beyond DEF Places, INFINITY, NOT_A_NUMBER, NAN_BASE
  <2> QED
    BY <2>1, <2>2, DoubleWord DEF Kind
<1>2. CASE w \in Ints
  <2>1. PICK n \in Int : w = encodeInt(n)
    BY <1>2 DEF Ints
  <2> QED
    BY <2>1, IntWord, IntRoundTrip DEF Kind
<1>3. CASE w \in Pointers
  <2>1. PICK a \in Arrays : w = encodePointer(a)
    BY <1>3 DEF Pointers
  <2> QED
    BY <2>1, PointerWord DEF Kind
<1>4. CASE w \in Bools
  BY <1>4, BoolWord DEF Bools, Kind
<1>5. CASE w \in Char6s
  <2>1. PICK n \in 0 .. BEYOND - 1 : w = encode(TAG_CHAR6, n)
    BY <1>5 DEF Char6s
  <2> QED
    BY <2>1, Beyond, Char6Word DEF Kind
<1>6. CASE w \in Nulls
  BY <1>6, NullWord DEF Nulls, Kind
<1> QED
  BY <1>1, <1>2, <1>3, <1>4, <1>5, <1>6 DEF Boxed

\* The word of 0.0.
LEMMA ZeroWord == ZERO \in Boxed /\ valueOf(ZERO) = Typing("double", 0)
<1>1. BEYOND \in Nat \ {0} /\ LO \in Nat \ {0} /\ MID \in Nat \ {0}
  BY Beyond
<1>2. 0 \in Places /\ -INFINITY < 0 /\ 0 < INFINITY
  BY <1>1 DEF Places, INFINITY, NAN_BASE
<1>3. encodeDouble(0) = ZERO
  <2>1. 0 \div BEYOND = 0 /\ 0 \div LO = 0 /\ 0 % LO = 0 /\ 0 % MID = 0
    BY <1>1
  <2> QED
    BY <2>1 DEF encodeDouble, ZERO, abs, W
<1> QED
  BY <1>2, <1>3, DoubleWord DEF Boxed, Doubles

\* A literal's word has the literal's value: an integer up to a multiple of
\* 2^48, anything else exactly, an infinity and null no value.
LEMMA LiteralWord ==
  ASSUME NEW l \in Literals
  PROVE  LET w == encode_value(l)
         IN /\ w \in Boxed
            /\ l.type = "int" => Typed!Wraps(valueOf(w), l.n)
            /\ l.type = "double" => valueOf(w) = IF Typed!Finite(l.n) THEN l ELSE Typing("none", 0)
            /\ l.type = "null" => valueOf(w) = Typing("none", 0)
            /\ l.type \in {"boolean", "char6"} => valueOf(w) = l
<1> DEFINE w == encode_value(l)
<1>1. CASE l \in [type : {"int"}, n : Int]
  <2>1. w = encodeInt(l.n) /\ l.n \in Int /\ l.type = "int"
    BY <1>1 DEF encode_value
  <2>2. Typed!Wraps(valueOf(w), l.n)
    BY <2>1, IntWord, IntRoundTrip DEF Typed!Wraps, Int48, Typing
  <2> QED
    BY <2>1, <2>2 DEF Boxed, Ints
<1>2. CASE l \in [type : {"double"}, n : Places]
  <2>1. w = encodeDouble(l.n) /\ l.n \in Places /\ l.type = "double" /\ l = Typing("double", l.n)
    BY <1>2 DEF encode_value, Typing
  <2>2. l.n \in Int /\ INFINITY \in Int
    BY <2>1, Beyond DEF Places, INFINITY, NOT_A_NUMBER, NAN_BASE
  <2>3. Typed!Finite(l.n) <=> -INFINITY < l.n /\ l.n < INFINITY
    BY <2>2 DEF Typed!Finite, Typed!magnitude
  <2>4. valueOf(w) = IF Typed!Finite(l.n) THEN l ELSE Typing("none", 0)
    BY <2>1, <2>3, DoubleWord
  <2> QED
    BY <2>1, <2>4 DEF Boxed, Doubles
<1>3. CASE l \in [type : {"boolean"}, n : {0, 1}]
  <2>1. w = encodeBool(l.n = 1) /\ (l.n = 1) \in BOOLEAN
    BY <1>3 DEF encode_value
  <2>2. l.type = "boolean" /\ l = Typing("boolean", IF l.n = 1 THEN 1 ELSE 0)
    BY <1>3 DEF Typing
  <2>3. valueOf(w) = l
    BY <2>1, <2>2, BoolWord
  <2> QED
    BY <2>1, <2>2, <2>3 DEF Boxed, Bools
<1>4. CASE l \in [type : {"char6"}, n : 0 .. BEYOND - 1]
  <2>1. w = encode(TAG_CHAR6, l.n) /\ l.n \in 0 .. BEYOND - 1
    BY <1>4 DEF encode_value
  <2>2. l.type = "char6" /\ l = Typing("char6", l.n)
    BY <1>4 DEF Typing
  <2>3. valueOf(w) = l
    BY <2>1, <2>2, Char6Word
  <2> QED
    BY <2>1, <2>2, <2>3 DEF Boxed, Char6s
<1>5. CASE l \in [type : {"null"}, n : {0}]
  <2>1. w = encode(TAG_NULL, 0) /\ l.type = "null"
    BY <1>5 DEF encode_value
  <2> QED
    BY <2>1, NullWord DEF Boxed, Nulls
<1> QED
  BY <1>1, <1>2, <1>3, <1>4, <1>5, AluAssumption

(***************************************************************************)
(* Arithmetic.                                                             *)
(***************************************************************************)
\* Integer division cuts the fraction off, whatever the signs.
LEMMA QuotientTruncates ==
  ASSUME NEW m \in Int, NEW n \in Int \ {0}
  PROVE  /\ quotient(m, n) \in -Typed!magnitude(m) .. Typed!magnitude(m)
         /\ Typed!Truncates(m, n, quotient(m, n))
<1> DEFINE a == abs(m)
           b == abs(n)
           q == a \div b
           r == a % b
           s == IF (m < 0) = (n < 0) THEN q ELSE -q
<1>1. a \in Nat /\ b \in Nat \ {0} /\ (m = a \/ m = -a) /\ (n = b \/ n = -b)
      /\ (m < 0 => m = -a) /\ (m >= 0 => m = a) /\ (n < 0 => n = -b) /\ (n >= 0 => n = b)
  BY DEF abs
<1>2. a = Typed!magnitude(m) /\ b = Typed!magnitude(n)
  BY DEF abs, Typed!magnitude
<1>3. quotient(m, n) = s
  BY DEF quotient
<1> HIDE DEF a, b
<1>4. q \in Nat /\ r \in 0 .. b - 1 /\ a = q * b + r
  <2>1. a \in Int /\ a \in Nat /\ b \in Nat \ {0}
    BY <1>1
  <2> QED
    BY <2>1, DivMod
<1> HIDE DEF q, r
<1>5. q =< a
  <2>1. q * b >= q
    BY <1>1, <1>4
  <2> QED
    BY <1>1, <1>4, <2>1
<1>6. s * n = IF m < 0 THEN -(q * b) ELSE q * b
  <2>1. CASE m < 0 /\ n < 0
    <3>1. s = q /\ n = -b
      BY <1>1, <2>1
    <3>2. q * (-b) = -(q * b)
      BY <1>1, <1>4
    <3> QED
      BY <2>1, <3>1, <3>2
  <2>2. CASE m < 0 /\ ~(n < 0)
    <3>1. s = -q /\ n = b
      BY <1>1, <2>2
    <3>2. (-q) * b = -(q * b)
      BY <1>1, <1>4
    <3> QED
      BY <2>2, <3>1, <3>2
  <2>3. CASE ~(m < 0) /\ n < 0
    <3>1. s = -q /\ n = -b
      BY <1>1, <2>3
    <3>2. (-q) * (-b) = q * b
      BY <1>1, <1>4
    <3> QED
      BY <2>3, <3>1, <3>2
  <2>4. CASE ~(m < 0) /\ ~(n < 0)
    BY <1>1, <2>4
  <2> QED
    BY <2>1, <2>2, <2>3, <2>4
<1>7. s \in -a .. a
  BY <1>1, <1>4, <1>5
<1> HIDE DEF s
<1>8. q * b \in Nat
  BY <1>1, <1>4
<1>9. m - s * n = IF m < 0 THEN -r ELSE r
  BY <1>1, <1>4, <1>6, <1>8
<1>10. Typed!magnitude(m - s * n) = r
  BY <1>4, <1>9 DEF Typed!magnitude
<1>11. Typed!Truncates(m, n, s)
  BY <1>1, <1>2, <1>4, <1>9, <1>10 DEF Typed!Truncates
<1> QED
  BY <1>2, <1>3, <1>7, <1>11

\* An arithmetic instruction puts a boxed word of the operands' type into the
\* register, and the value in it is the one typed values compute.
LEMMA ResultWord ==
  ASSUME NEW a \in Boxed, NEW b \in Boxed, NEW op \in MathOps,
         bothDoubles(a, b) \/ bothInts(a, b),
         ~DividesByZero(op, a, b),
         NEW w \in results(op, a, b)
  PROVE  /\ w \in Boxed
         /\ bothInts(a, b) => Typed!Computes(op, decodeInt(a), decodeInt(b), valueOf(w))
         /\ bothDoubles(a, b) =>
              \/ valueOf(w) = Typing("none", 0)
              \/ /\ valueOf(w).type = "double" /\ Typed!Finite(valueOf(w).n)
                 /\ op = "div" => decodeDouble(b) # 0
<1>1. CASE bothDoubles(a, b)
  <2>1. PICK d \in ieee(op, decodeDouble(a), decodeDouble(b)) : w = encodeDouble(d)
    BY <1>1 DEF results
  <2>2. INFINITY \in Nat \ {0} /\ NOT_A_NUMBER \in Nat /\ INFINITY < NOT_A_NUMBER
    BY Beyond DEF INFINITY, NOT_A_NUMBER, NAN_BASE
  <2>3. d \in Places /\ d \in Int
    BY <2>1, <2>2, NumbersAssumption DEF ieee, Places
  <2>4. ~isInt(a)
    BY <1>1 DEF bothDoubles, isInt
  <2>5. -INFINITY < d /\ d < INFINITY => Typed!Finite(d) /\ (op = "div" => decodeDouble(b) # 0)
    BY <2>1, <2>2, <2>3 DEF ieee, Typed!Finite, Typed!magnitude
  <2>6. \/ valueOf(w) = Typing("none", 0)
        \/ valueOf(w) = Typing("double", d) /\ -INFINITY < d /\ d < INFINITY
    BY <2>1, <2>3, DoubleWord
  <2>7. Typing("double", d).type = "double" /\ Typing("double", d).n = d
    BY DEF Typing
  <2> QED
    BY <2>1, <2>3, <2>4, <2>5, <2>6, <2>7 DEF Boxed, Doubles, bothInts
<1>2. CASE bothInts(a, b)
  <2> DEFINE m == decodeInt(a)
             n == decodeInt(b)
  <2>1. ~isDouble(a)
    BY <1>2 DEF bothInts, isInt
  <2>2. w = encodeInt(exact(op, m, n))
    BY <1>2, <2>1 DEF results, bothDoubles
  <2>3. m \in Int /\ n \in Int
    BY <1>2, BoxedFacts DEF bothInts, Int48
  <2>4. op = "div" => n # 0
    BY <1>2 DEF DividesByZero
  <2> HIDE DEF m, n
  <2>5. exact(op, m, n) \in Int
    <3>1. op = "div" => quotient(m, n) \in Int
      <4>1. op = "div" => Typed!magnitude(m) \in Int
        BY <2>3 DEF Typed!magnitude
      <4> QED
        BY <2>3, <2>4, <4>1, QuotientTruncates
    <3> QED
      BY <2>3, <3>1 DEF exact, MathOps
  <2>6. Typed!Wraps(valueOf(w), exact(op, m, n))
    BY <2>2, <2>5, IntWord, IntRoundTrip DEF Typed!Wraps, Int48, Typing
  <2>7. Typed!Computes(op, m, n, valueOf(w))
    <3>1. CASE op = "div"
      <4>1. exact(op, m, n) = quotient(m, n)
        BY <3>1 DEF exact
      <4> QED
        BY <2>3, <2>4, <2>6, <3>1, <4>1, QuotientTruncates DEF Typed!Computes
    <3>2. CASE op # "div"
      BY <2>6, <3>2 DEF Typed!Computes, exact, MathOps
    <3> QED
      BY <3>1, <3>2
  <2> QED
    BY <2>1, <2>2, <2>5, <2>7 DEF m, n, Boxed, Ints, bothDoubles
<1> QED
  BY <1>1, <1>2

(***************************************************************************)
(* The invariant: every register holds a word that encodes something.      *)
(***************************************************************************)
IInv ==
  /\ reg \in [Regs -> Boxed]
  /\ jmpFlag \in {-1, 0, 1, 2}
  /\ status \in {"running", "halted", "threw", "trapped", "faulted", "wild"}
  /\ out \in [type : {"int", "double", "char6", "none"}, n : Int]

\* What end and dbgret print is a value of a type that is printed.
LEMMA PrintedValue ==
  ASSUME NEW w \in Boxed, end(w)
  PROVE  /\ out' \in [type : {"int", "double", "char6", "none"}, n : Int]
         /\ out' = IF valueOf(w).type \in {"int", "double", "char6"} THEN valueOf(w)
                   ELSE Typing("none", 0)
<1>1. isDouble(w) => decodeDouble(w) \in Int
  BY BoxedFacts
<1>2. isInt(w) => decodeInt(w) \in Int
  BY BoxedFacts DEF Int48
<1>3. isChar6(w) => payload(w) \in Int
  BY BoxedFacts
<1>4. CASE isDouble(w)
  <2>1. ~isInt(w) /\ ~isChar6(w) /\ ~isPointer(w) /\ ~isBool(w)
    BY <1>4 DEF isInt, isChar6, isPointer, isBool
  <2>2. out' = Typing("double", decodeDouble(w)) /\ valueOf(w) = Typing("double", decodeDouble(w))
    BY <1>4, <2>1 DEF end, valueOf, Typing
  <2> QED
    BY <1>1, <1>4, <2>2 DEF Typing
<1>5. CASE isInt(w)
  <2>1. ~isDouble(w) /\ ~isChar6(w) /\ ~isPointer(w) /\ ~isBool(w)
    BY <1>5 DEF isInt, isChar6, isPointer, isBool, TAG_CHAR6, TAG_INT48, TAG_POINTER, TAG_BOOL
  <2>2. out' = Typing("int", decodeInt(w)) /\ valueOf(w) = Typing("int", decodeInt(w))
    BY <1>5, <2>1 DEF end, valueOf, Typing
  <2> QED
    BY <1>2, <1>5, <2>2 DEF Typing
<1>6. CASE isChar6(w)
  <2>1. ~isDouble(w) /\ ~isInt(w) /\ ~isPointer(w) /\ ~isBool(w)
    BY <1>6 DEF isChar6, isInt, isPointer, isBool, TAG_CHAR6, TAG_INT48, TAG_POINTER, TAG_BOOL
  <2>2. out' = Typing("char6", payload(w)) /\ valueOf(w) = Typing("char6", payload(w))
    BY <1>6, <2>1 DEF end, valueOf, Typing
  <2> QED
    BY <1>3, <1>6, <2>2 DEF Typing
<1>7. CASE ~isDouble(w) /\ ~isInt(w) /\ ~isChar6(w)
  <2>1. out' = Typing("none", 0)
    BY <1>7 DEF end, Nothing, Typing
  <2>2. valueOf(w).type \in {"pointer", "boolean", "none"}
    BY <1>7 DEF valueOf
  <2> QED
    BY <2>1, <2>2 DEF Typing
<1> QED
  BY <1>4, <1>5, <1>6, <1>7

LEMMA InitBoxed == AluInit => IInv
BY ZeroWord DEF AluInit, IInv, Nothing

\* Comparing two values of one type sets one of the four flags.
LEMMA CompareFlag ==
  ASSUME NEW a, NEW b, Comparable(a, b)
  PROVE  compare(a, b) \in {-1, 0, 1, 2}
BY DEF Comparable, compare, order, bothDoubles, bothInts, bothBools, isInt, isBool,
       TAG_INT48, TAG_BOOL

LEMMA PutBoxed ==
  ASSUME IInv, NEW r \in Regs, NEW w \in Boxed, Put(r, w)
  PROVE  IInv'
BY DEF IInv, Put, Silent, Nothing

LEMMA StepBoxed == IInv /\ [AluNext]_aluVars => IInv'
<1> SUFFICES ASSUME IInv, [AluNext]_aluVars PROVE IInv'
  OBVIOUS
<1>1. \A r \in Regs : reg[r] \in Boxed
  BY DEF IInv
<1>2. ASSUME NEW r \in Regs, NEW l \in Literals, Load(r, l)
      PROVE  IInv'
  <2>1. encode_value(l) \in Boxed
    BY LiteralWord
  <2> QED
    BY <1>2, <2>1, PutBoxed DEF Load
<1>3. ASSUME NEW r \in Regs, ArrayInto(r)
      PROVE  IInv'
  <2>1. PICK a \in Arrays : Put(r, encodePointer(a))
    BY <1>3 DEF ArrayInto
  <2>2. encodePointer(a) \in Boxed
    BY DEF Boxed, Pointers
  <2> QED
    BY <2>1, <2>2, PutBoxed
<1>4. ASSUME NEW r \in Regs, DebugReturn(r) \/ End(r)
      PROVE  IInv'
  <2>1. end(reg[r])
    BY <1>4 DEF DebugReturn, End
  <2>2. out' \in [type : {"int", "double", "char6", "none"}, n : Int]
    BY <1>1, <2>1, PrintedValue
  <2> QED
    BY <1>4, <2>2 DEF DebugReturn, End, IInv
<1>5. ASSUME NEW a \in Regs, NEW b \in Regs, Mov(a, b)
      PROVE  IInv'
  BY <1>1, <1>5, PutBoxed DEF Mov
<1>6. ASSUME NEW a \in Regs, NEW b \in Regs, MathThrows(a, b) \/ CompareThrows(a, b)
      PROVE  IInv'
  BY <1>6 DEF MathThrows, CompareThrows, Die, Silent, Nothing, IInv
<1>7. ASSUME NEW a \in Regs, NEW b \in Regs, Compare(a, b)
      PROVE  IInv'
  <2>1. jmpFlag' \in {-1, 0, 1, 2}
    BY <1>7, CompareFlag DEF Compare
  <2> QED
    BY <1>7, <2>1 DEF Compare, Silent, Nothing, IInv
<1>8. ASSUME NEW op \in MathOps, NEW a \in Regs, NEW b \in Regs, MathTraps(op, a, b)
      PROVE  IInv'
  BY <1>8 DEF MathTraps, Die, Silent, Nothing, IInv
<1>9. ASSUME NEW op \in MathOps, NEW d \in Regs, NEW a \in Regs, NEW b \in Regs, Math(op, d, a, b)
      PROVE  IInv'
  <2>1. PICK w \in results(op, reg[a], reg[b]) : Put(d, w)
    BY <1>9 DEF Math
  <2>2. w \in Boxed
    BY <1>1, <1>9, ResultWord DEF Math
  <2> QED
    BY <2>1, <2>2, PutBoxed
<1>10. ASSUME NEW f \in 1 .. 3, NEW d \in Regs, NEW s \in Regs, MovThrough(f, d, s)
       PROVE  IInv'
  BY <1>10 DEF MovThrough, Die, Silent, Nothing, IInv
<1>11. CASE UNCHANGED aluVars
  BY <1>11 DEF aluVars, IInv
<1> QED
  BY <1>2, <1>3, <1>4, <1>5, <1>6, <1>7, <1>8, <1>9, <1>10, <1>11 DEF AluNext

LEMMA AlwaysBoxed == AluSpec => []IInv
<1> QED
  BY InitBoxed, StepBoxed, PTL DEF AluSpec

\* The registers hold words, the flag is one the jumps know, and what is
\* printed has a type that is printed.
THEOREM AluTypeOK == AluSpec => []TypeOK
<1>1. IInv => TypeOK
  BY BoxedFacts DEF IInv, TypeOK
<1> QED
  BY <1>1, AlwaysBoxed, PTL

\* No sequence of arithmetic forges a pointer or a boolean, for every width of
\* the payload, whatever the doubles and however often integers overflow.
THEOREM AluNoForgery == AluSpec => []NoForgery
<1>1. IInv => NoForgery
  BY BoxedFacts DEF IInv, NoForgery
<1> QED
  BY <1>1, AlwaysBoxed, PTL

(***************************************************************************)
(* The refinement.                                                         *)
(***************************************************************************)
Vals == [r \in Regs |-> valueOf(reg[r])]
Flag == CASE jmpFlag = 1 -> "EQ" [] jmpFlag = -1 -> "LT" [] jmpFlag = 2 -> "GT" [] OTHER -> "NE"
State == IF status \in {"threw", "trapped"} THEN "failed" ELSE status

\* An instruction that writes one register changes one value.
LEMMA PutRefines ==
  ASSUME IInv, NEW r \in Regs, NEW w, Put(r, w)
  PROVE  Typed!Only(r) /\ Vals'[r] = valueOf(w)
<1>1. reg' = [reg EXCEPT ![r] = w] /\ DOMAIN reg = Regs
  BY DEF IInv, Put
<1>2. \A s \in Regs : reg'[s] = IF s = r THEN w ELSE reg[s]
  BY <1>1
<1>3. \A s \in Regs : Vals'[s] = IF s = r THEN valueOf(w) ELSE Vals[s]
  BY <1>2 DEF Vals
<1> QED
  BY <1>3 DEF Put, Silent, Nothing, Vals, Typed!Only, Typed!None, Typed!typed

LEMMA InitRefines == AluInit => Typed!Init
<1> SUFFICES ASSUME AluInit PROVE Typed!Init
  OBVIOUS
<1>1. Vals = [r \in Regs |-> Typing("double", 0)]
  BY ZeroWord DEF AluInit, Vals
<1>2. Flag = "GT" /\ State = "running" /\ out = Typing("none", 0)
  BY DEF AluInit, Flag, State, Nothing, Typing
<1> QED
  BY <1>1, <1>2 DEF Vals, Flag, State, Typing, Typed!Init, Typed!typed, Typed!None

\* The kinds the instructions test are the types of the values.
LEMMA Kinds ==
  ASSUME IInv, NEW r \in Regs
  PROVE  /\ isDouble(reg[r]) <=> Vals[r].type = "double"
         /\ isInt(reg[r]) <=> Vals[r].type = "int"
         /\ isBool(reg[r]) <=> Vals[r].type = "boolean"
         /\ isDouble(reg[r]) => Vals[r].n = decodeDouble(reg[r])
         /\ isInt(reg[r]) => Vals[r].n = decodeInt(reg[r])
         /\ isBool(reg[r]) => Vals[r].n = IF decodeBool(reg[r]) THEN 1 ELSE 0
<1> DEFINE w == reg[r]
<1>1. Vals[r] = valueOf(w)
  BY DEF Vals
<1> HIDE DEF w
<1>2. isInt(w) => ~isDouble(w) /\ ~isPointer(w) /\ ~isBool(w) /\ ~isChar6(w)
  BY DEF isInt, isPointer, isBool, isChar6, TAG_CHAR6, TAG_INT48, TAG_POINTER, TAG_BOOL
<1>3. isBool(w) => ~isDouble(w) /\ ~isPointer(w) /\ ~isInt(w) /\ ~isChar6(w)
  BY DEF isInt, isPointer, isBool, isChar6, TAG_CHAR6, TAG_INT48, TAG_POINTER, TAG_BOOL
<1>4. isDouble(w) => ~isInt(w) /\ ~isPointer(w) /\ ~isBool(w) /\ ~isChar6(w)
  BY DEF isInt, isPointer, isBool, isChar6
<1>5. CASE isDouble(w)
  BY <1>1, <1>4, <1>5 DEF valueOf, w
<1>6. CASE isInt(w)
  BY <1>1, <1>2, <1>6 DEF valueOf, w
<1>7. CASE isBool(w)
  BY <1>1, <1>3, <1>7 DEF valueOf, w
<1>8. CASE ~isDouble(w) /\ ~isInt(w) /\ ~isBool(w)
  <2>1. valueOf(w).type \in {"pointer", "char6", "none"}
    BY <1>8 DEF valueOf
  <2> QED
    BY <1>1, <1>8, <2>1 DEF w
<1> QED
  BY <1>5, <1>6, <1>7, <1>8

LEMMA CompareRefines ==
  ASSUME IInv, NEW a \in Regs, NEW b \in Regs, Compare(a, b)
  PROVE  Typed!Compare(a, b)
<1> DEFINE x == reg[a]
           y == reg[b]
<1>1. UNCHANGED <<Vals, State>> /\ out' = Typing("none", 0) /\ State = "running"
  BY DEF Compare, Silent, Nothing, Typing, Vals, State, Running
<1>2. jmpFlag' = compare(x, y)
  BY DEF Compare
<1>3. CASE bothDoubles(x, y)
  <2> DEFINE m == decodeDouble(x)
             n == decodeDouble(y)
  <2>1. m \in Int /\ n \in Int
    BY <1>3, BoxedFacts DEF IInv, bothDoubles
  <2>2. ~bothInts(x, y) /\ ~bothBools(x, y)
    BY <1>3 DEF bothDoubles, bothInts, bothBools, isInt, isBool
  <2>3. jmpFlag' = order(m, n)
    BY <1>2, <1>3, <2>2 DEF compare
  <2>4. /\ Vals[a].type = "double" /\ Vals[b].type = "double"
        /\ Vals[a].n = m /\ Vals[b].n = n
    BY <1>3, Kinds DEF bothDoubles
  <2> HIDE DEF m, n
  <2>5. Flag' = IF m = n THEN "EQ" ELSE IF m < n THEN "LT" ELSE "GT"
    BY <2>1, <2>3 DEF Flag, order
  <2>6. Flag' = CASE m = n -> "EQ" [] m < n -> "LT" [] m > n -> "GT"
    BY <2>1, <2>5
  <2> QED
    BY <1>1, <2>4, <2>6 DEF Typed!Compare, Typed!Types, Typed!Running, Typed!None, Typed!typed,
                          Typing, Vals, Flag, State
<1>4. CASE bothInts(x, y)
  <2> DEFINE m == decodeInt(x)
             n == decodeInt(y)
  <2>1. m \in Int /\ n \in Int
    BY <1>4, BoxedFacts DEF IInv, bothInts, Int48
  <2>2. ~bothDoubles(x, y) /\ ~bothBools(x, y)
    BY <1>4 DEF bothDoubles, bothInts, bothBools, isInt, isBool, TAG_INT48, TAG_BOOL
  <2>3. jmpFlag' = order(m, n)
    BY <1>2, <1>4, <2>2 DEF compare
  <2>4. /\ Vals[a].type = "int" /\ Vals[b].type = "int"
        /\ Vals[a].n = m /\ Vals[b].n = n
    BY <1>4, Kinds DEF bothInts
  <2> HIDE DEF m, n
  <2>5. Flag' = IF m = n THEN "EQ" ELSE IF m < n THEN "LT" ELSE "GT"
    BY <2>1, <2>3 DEF Flag, order
  <2>6. Flag' = CASE m = n -> "EQ" [] m < n -> "LT" [] m > n -> "GT"
    BY <2>1, <2>5
  <2> QED
    BY <1>1, <2>4, <2>6 DEF Typed!Compare, Typed!Types, Typed!Running, Typed!None, Typed!typed,
                          Typing, Vals, Flag, State
<1>5. CASE bothBools(x, y)
  <2>1. ~bothDoubles(x, y) /\ ~bothInts(x, y)
    BY <1>5 DEF bothDoubles, bothInts, bothBools, isInt, isBool, TAG_INT48, TAG_BOOL
  <2>2. jmpFlag' = IF decodeBool(x) = decodeBool(y) THEN 1 ELSE 0
    BY <1>2, <1>5, <2>1 DEF compare
  <2>3. decodeBool(x) \in BOOLEAN /\ decodeBool(y) \in BOOLEAN
    BY DEF decodeBool
  <2>4. /\ Vals[a].type = "boolean" /\ Vals[b].type = "boolean"
        /\ Vals[a].n = (IF decodeBool(x) THEN 1 ELSE 0)
        /\ Vals[b].n = (IF decodeBool(y) THEN 1 ELSE 0)
    BY <1>5, Kinds DEF bothBools
  <2>5. Flag' = IF Vals[a].n = Vals[b].n THEN "EQ" ELSE "NE"
    <3>1. CASE decodeBool(x) = decodeBool(y)
      BY <2>2, <2>3, <2>4, <3>1 DEF Flag
    <3>2. CASE decodeBool(x) # decodeBool(y)
      <4>1. jmpFlag' = 0
        BY <2>2, <3>2
      <4>2. Flag' = "NE"
        BY <4>1 DEF Flag
      <4>3. Vals[a].n # Vals[b].n
        BY <2>3, <2>4, <3>2
      <4> QED
        BY <4>2, <4>3
    <3> QED
      BY <3>1, <3>2
  <2> QED
    BY <1>1, <2>4, <2>5 DEF Typed!Compare, Typed!Types, Typed!Running, Typed!None, Typed!typed,
                          Typing, Vals, Flag, State
<1> QED
  BY <1>3, <1>4, <1>5 DEF Compare, Comparable

LEMMA LoadRefines ==
  ASSUME IInv, NEW r \in Regs, NEW l \in Literals, Load(r, l)
  PROVE  Typed!Load(r, l)
<1> DEFINE w == encode_value(l)
<1>1. Put(r, w) /\ State = "running"
  BY DEF Load, Running, State
<1>2. Typed!Only(r) /\ Vals'[r] = valueOf(w)
  BY <1>1, PutRefines
<1>3. /\ l.type = "int" => Typed!Wraps(Vals'[r], l.n)
      /\ l.type = "double" => Vals'[r] = IF Typed!Finite(l.n) THEN l ELSE Typing("none", 0)
      /\ l.type = "null" => Vals'[r] = Typing("none", 0)
      /\ l.type \in {"boolean", "char6"} => Vals'[r] = l
  BY <1>2, LiteralWord
<1>4. l.type \in {"int", "double", "null", "boolean", "char6"}
  BY AluAssumption
<1>5. CASE l.type = "int"
  BY <1>1, <1>2, <1>3, <1>5 DEF Typed!Load, Typed!Running, State, Vals
<1>6. CASE l.type = "double"
  BY <1>1, <1>2, <1>3, <1>6 DEF Typed!Load, Typed!Running, Typed!None, Typed!typed, Typing, State, Vals
<1>7. CASE l.type = "null"
  BY <1>1, <1>2, <1>3, <1>7 DEF Typed!Load, Typed!Running, Typed!None, Typed!typed, Typing, State, Vals
<1>8. CASE l.type \in {"boolean", "char6"}
  BY <1>1, <1>2, <1>3, <1>8 DEF Typed!Load, Typed!Running, State, Vals
<1> QED
  BY <1>4, <1>5, <1>6, <1>7, <1>8

LEMMA MathRefines ==
  ASSUME IInv, NEW op \in MathOps, NEW d \in Regs, NEW a \in Regs, NEW b \in Regs,
         Math(op, d, a, b)
  PROVE  Typed!Compute(op, d, a, b)
<1> DEFINE x == reg[a]
           y == reg[b]
<1>1. x \in Boxed /\ y \in Boxed
  BY DEF IInv
<1>2. PICK w \in results(op, x, y) : Put(d, w)
  BY DEF Math
<1>3. bothDoubles(x, y) \/ bothInts(x, y)
  BY DEF Math
<1>4. ~DividesByZero(op, x, y) /\ State = "running"
  BY DEF Math, Running, State
<1>5. Typed!Only(d) /\ Vals'[d] = valueOf(w)
  BY <1>2, PutRefines
<1>6. CASE bothInts(x, y)
  <2>1. Typed!Computes(op, decodeInt(x), decodeInt(y), valueOf(w))
    BY <1>1, <1>2, <1>4, <1>6, ResultWord
  <2>2. /\ Vals[a].type = "int" /\ Vals[b].type = "int"
        /\ Vals[a].n = decodeInt(x) /\ Vals[b].n = decodeInt(y)
    BY <1>6, Kinds DEF bothInts
  <2>3. op = "div" => Vals[b].n # 0
    BY <1>4, <1>6, <2>2 DEF DividesByZero
  <2>4. Typed!Types(a, b, "int") /\ ~Typed!ByZero(op, a, b)
    BY <2>2, <2>3 DEF Typed!Types, Typed!ByZero, Vals
  <2>5. Typed!Computes(op, Vals[a].n, Vals[b].n, Vals'[d])
    BY <1>5, <2>1, <2>2
  <2> QED
    BY <1>4, <1>5, <2>4, <2>5 DEF Typed!Compute, Typed!Running, Vals, State
<1>7. CASE bothDoubles(x, y)
  <2>1. \/ valueOf(w) = Typing("none", 0)
        \/ /\ valueOf(w).type = "double" /\ Typed!Finite(valueOf(w).n)
           /\ op = "div" => decodeDouble(y) # 0
    BY <1>1, <1>2, <1>4, <1>7, ResultWord
  <2>2. /\ Vals[a].type = "double" /\ Vals[b].type = "double"
        /\ Vals[b].n = decodeDouble(y)
    BY <1>7, Kinds DEF bothDoubles
  <2>3. Typed!Types(a, b, "double")
    BY <2>2 DEF Typed!Types, Vals
  <2>4. \/ Vals'[d] = Typed!None
        \/ Vals'[d].type = "double" /\ Typed!Finite(Vals'[d].n) /\ (op = "div" => Vals[b].n # 0)
    BY <1>5, <2>1, <2>2 DEF Typed!None, Typed!typed, Typing
  <2> QED
    BY <1>4, <1>5, <2>3, <2>4 DEF Typed!Compute, Typed!Running, Vals, State
<1> QED
  BY <1>3, <1>6, <1>7

LEMMA FailRefines ==
  ASSUME IInv, NEW a \in Regs, NEW b \in Regs, NEW op \in MathOps,
         MathThrows(a, b) \/ CompareThrows(a, b) \/ MathTraps(op, a, b)
  PROVE  Typed!Fail(a, b)
<1>1. State = "running" /\ State' = "failed" /\ out' = Typing("none", 0) /\ UNCHANGED <<Vals, Flag>>
  BY DEF MathThrows, CompareThrows, MathTraps, Die, Silent, Nothing, Typing, Running, State, Vals, Flag
<1>2. \/ ~bothDoubles(reg[a], reg[b]) /\ ~bothInts(reg[a], reg[b])
      \/ bothInts(reg[a], reg[b]) /\ decodeInt(reg[b]) = 0
  BY DEF MathThrows, CompareThrows, MathTraps, Comparable, DividesByZero
<1>3. \/ \A t \in {"int", "double"} : ~(Vals[a].type = t /\ Vals[b].type = t)
      \/ Vals[a].type = "int" /\ Vals[b].type = "int" /\ Vals[b].n = 0
  BY <1>2, Kinds DEF bothDoubles, bothInts
<1> QED
  BY <1>1, <1>3 DEF Typed!Fail, Typed!Running, Typed!Types, Typed!ByZero, Typed!None, Typed!typed,
                    Typing, State, Vals, Flag

LEMMA PrintRefines ==
  ASSUME IInv, NEW r \in Regs, DebugReturn(r) \/ End(r)
  PROVE  Typed!Show(r)
<1>1. end(reg[r]) /\ reg[r] \in Boxed /\ Vals[r] = valueOf(reg[r])
  BY DEF DebugReturn, End, IInv, Vals
<1>2. out' = IF Vals[r].type \in {"int", "double", "char6"} THEN Vals[r] ELSE Typing("none", 0)
  BY <1>1, PrintedValue
<1>3. State = "running" /\ State' \in {"running", "halted"} /\ UNCHANGED <<Vals, Flag>>
  BY DEF DebugReturn, End, Running, State, Vals, Flag
<1> QED
  BY <1>2, <1>3 DEF Typed!Show, Typed!Running, Typed!None, Typed!typed, Typing, State, Vals, Flag

LEMMA FollowRefines ==
  ASSUME IInv, NEW f \in 1 .. 3, NEW d \in Regs, NEW s \in Regs, MovThrough(f, d, s)
  PROVE  Typed!Follow
<1>1. State = "running" /\ State' = status' /\ out' = Typing("none", 0) /\ UNCHANGED <<Vals, Flag>>
  BY DEF MovThrough, Die, Silent, Nothing, Typing, Running, State, Vals, Flag
<1>2. status' \in {"faulted", "wild"}
  BY DEF MovThrough, Die
<1> QED
  BY <1>1, <1>2 DEF Typed!Follow, Typed!Running, Typed!None, Typed!typed, Typing, State, Vals, Flag

LEMMA StepRefines == IInv /\ [AluNext]_aluVars => [Typed!Next]_(Typed!vars)
<1> SUFFICES ASSUME IInv, [AluNext]_aluVars PROVE [Typed!Next]_(Typed!vars)
  OBVIOUS
<1>1. ASSUME NEW r \in Regs, NEW l \in Literals, Load(r, l)
      PROVE  Typed!Next
  BY <1>1, LoadRefines DEF Typed!Next
<1>2. ASSUME NEW r \in Regs, ArrayInto(r)
      PROVE  Typed!Next
  <2>1. PICK a \in Arrays : Put(r, encodePointer(a))
    BY <1>2 DEF ArrayInto
  <2>2. Typed!Only(r) /\ Vals'[r] = Typing("pointer", a)
    BY <2>1, PutRefines, PointerWord
  <2>3. Typed!NewArray(r)
    BY <1>2, <2>1, <2>2 DEF ArrayInto, Running, Typed!NewArray, Typed!Running, Typed!typed, Typing, State, Vals
  <2> QED
    BY <2>3 DEF Typed!Next
<1>3. ASSUME NEW r \in Regs, DebugReturn(r) \/ End(r)
      PROVE  Typed!Next
  BY <1>3, PrintRefines DEF Typed!Next
<1>4. ASSUME NEW a \in Regs, NEW b \in Regs, Mov(a, b)
      PROVE  Typed!Next
  <2>1. Typed!Only(a) /\ Vals'[a] = Vals[b]
    BY <1>4, PutRefines DEF Mov, Vals
  <2>2. Typed!Copy(a, b)
    BY <1>4, <2>1 DEF Mov, Running, Typed!Copy, Typed!Running, State, Vals
  <2> QED
    BY <2>2 DEF Typed!Next
<1>5. ASSUME NEW a \in Regs, NEW b \in Regs, Compare(a, b)
      PROVE  Typed!Next
  BY <1>5, CompareRefines DEF Typed!Next
<1>6. ASSUME NEW a \in Regs, NEW b \in Regs, NEW op \in MathOps,
             MathThrows(a, b) \/ CompareThrows(a, b) \/ MathTraps(op, a, b)
      PROVE  Typed!Next
  BY <1>6, FailRefines DEF Typed!Next
<1>7. ASSUME NEW op \in MathOps, NEW d \in Regs, NEW a \in Regs, NEW b \in Regs, Math(op, d, a, b)
      PROVE  Typed!Next
  BY <1>7, MathRefines DEF Typed!Next, MathOps
<1>8. CASE UNCHANGED aluVars
  BY <1>8 DEF aluVars, Typed!vars
<1>9. "add" \in MathOps
  BY DEF MathOps
<1>10. ASSUME NEW f \in 1 .. 3, NEW d \in Regs, NEW s \in Regs, MovThrough(f, d, s)
       PROVE  Typed!Next
  BY <1>10, FollowRefines DEF Typed!Next
<1> QED
  BY <1>1, <1>2, <1>3, <1>4, <1>5, <1>6, <1>7, <1>8, <1>9, <1>10 DEF AluNext

\* Registers of boxed words implement registers of typed values: what the code
\* computes, compares and refuses is what the values say, and so is a number or
\* text it prints, for every width of the payload and every set of doubles.
THEOREM TypedRefinement == AluSpec => TypedSpec
<1> QED
  BY InitRefines, StepRefines, AlwaysBoxed, PTL DEF AluSpec, TypedSpec, Typed!Spec
==============================================================================
