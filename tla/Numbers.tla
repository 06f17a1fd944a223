------------------------------- MODULE Numbers -------------------------------
(***************************************************************************)
(* The numbers in NaN-boxed words and what add, sub, mul, div and cmp make *)
(* of two words.  An integer keeps the bits of two's complement that fit   *)
(* its payload.  A double is its word; it is named here by its place in    *)
(* the order of all doubles, which the bits give by sign and magnitude     *)
(* (-0.0 is taken for 0.0, nothing below tells them apart).                *)
(***************************************************************************)
EXTENDS Words

CONSTANT Floats    \* places of the finite doubles that results are rounded to

isInt(w)   == ~isDouble(w) /\ getTag(w) = TAG_INT48
isBool(w)  == ~isDouble(w) /\ getTag(w) = TAG_BOOL
isChar6(w) == ~isDouble(w) /\ getTag(w) = TAG_CHAR6

payload(w) == w.mid * LO + w.lo

\* Mutant of decodeInt: the sign bit is not extended.
decodeIntUnsigned(w) == payload(w)

\* The top bit of the payload is the sign.
decodeInt(w) ==
  IF 2 * payload(w) >= BEYOND THEN payload(w) - BEYOND ELSE payload(w)

encodeBool(b) == encode(TAG_BOOL, IF b THEN 1 ELSE 0)
decodeBool(w) == w.lo % 2 = 1

(***************************************************************************)
(* Doubles.  The arithmetic is the processor's: a finite result is some    *)
(* double, an overflow an infinity, and only 0/0 of finite operands is no  *)
(* number.  Infinity and NaN have the exponent bits of a boxed word.       *)
(***************************************************************************)
SIGN     == 32768
INFINITY == NAN_BASE * BEYOND
NOT_A_NUMBER == (NAN_BASE + 8) * BEYOND

\* The doubles that literals and arithmetic come to: no NaN but the one of 0/0.
Places ==
  {n \in Int : \/ -INFINITY < n /\ n < INFINITY
              \/ n \in {INFINITY, -INFINITY, NOT_A_NUMBER, -NOT_A_NUMBER}}

ASSUME NumbersAssumption ==
  /\ LO > 1          \* a boolean's bit is in the low field
  /\ Floats \subseteq 1 - INFINITY .. INFINITY - 1

abs(n) == IF n < 0 THEN -n ELSE n

encodeDouble(n) ==
  W(abs(n) \div BEYOND + (IF n < 0 THEN SIGN ELSE 0), (abs(n) \div LO) % MID, abs(n) % LO)

decodeDouble(w) ==
  LET magnitude == (w.hi % SIGN) * BEYOND + payload(w)
  IN IF w.hi >= SIGN THEN -magnitude ELSE magnitude

ieee(op, m, n) ==
  IF op = "div" /\ n = 0
  THEN IF m = 0 THEN {NOT_A_NUMBER, -NOT_A_NUMBER} ELSE {INFINITY, -INFINITY}
  ELSE Floats \cup {INFINITY, -INFINITY}

(***************************************************************************)
(* Integers.  Sums and products may exceed int64 in the code; the payload  *)
(* keeps the low 48 bits, which that does not change.                      *)
(***************************************************************************)
\* Division of the C++ kind: towards zero.
quotient(m, n) ==
  LET q == abs(m) \div abs(n) IN IF (m < 0) = (n < 0) THEN q ELSE -q

exact(op, m, n) ==
  CASE op = "add" -> m + n
    [] op = "sub" -> m - n
    [] op = "mul" -> m * n
    [] op = "div" -> quotient(m, n)

(***************************************************************************)
(* The instructions.                                                       *)
(***************************************************************************)
bothDoubles(a, b) == isDouble(a) /\ isDouble(b)
bothInts(a, b)    == isInt(a) /\ isInt(b)
bothBools(a, b)   == isBool(a) /\ isBool(b)

\* Mutant of results: what exceeds the payload is added to the tag.
resultsWithCarry(op, a, b) ==
  IF bothDoubles(a, b)
  THEN {encodeDouble(d) : d \in ieee(op, decodeDouble(a), decodeDouble(b))}
  ELSE LET n == exact(op, decodeInt(a), decodeInt(b))
       IN {encode(TAG_INT48 + abs(n) \div BEYOND, n)}

results(op, a, b) ==
  IF bothDoubles(a, b)
  THEN {encodeDouble(d) : d \in ieee(op, decodeDouble(a), decodeDouble(b))}
  ELSE {encodeInt(exact(op, decodeInt(a), decodeInt(b)))}

\* Mutant of order: the flag is the difference.
orderByDifference(m, n) == m - n

order(m, n) == IF m = n THEN 1 ELSE IF m < n THEN -1 ELSE 2

compare(a, b) ==
  CASE bothDoubles(a, b) -> order(decodeDouble(a), decodeDouble(b))
    [] bothInts(a, b)    -> order(decodeInt(a), decodeInt(b))
    [] bothBools(a, b)   -> IF decodeBool(a) = decodeBool(b) THEN 1 ELSE 0
==============================================================================
