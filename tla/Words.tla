-------------------------------- MODULE Words --------------------------------
(***************************************************************************)
(* The 64-bit words every register, stack slot and heap cell holds, and    *)
(* the ways the VM looks at one word.  A word is cut where the code's      *)
(* structs and masks cut it: `hi' is bits 63..48, `mid' bits 47..32 and    *)
(* `lo' bits 31..0.  Nothing in the heap says which view a word was        *)
(* written with, so the views are functions of the same three fields:      *)
(*   NaN-boxed value   hi = NAN_BASE + tag, payload in mid and lo          *)
(*   objHeader, word 0 size = lo, type = mid, flags = hi                   *)
(*   objHeader, word 1 the forwarding address, itself a boxed pointer      *)
(*   arrayObj, word 2  type = lo, length = hi and mid                      *)
(* LO and MID are 2^32 and 2^16 in the code and smaller for TLC.           *)
(***************************************************************************)
EXTENDS Integers

CONSTANTS
  LO,   \* number of values of the low 32-bit field
  MID   \* number of values of a 16-bit field below the tag

ASSUME WordsAssumption ==
  /\ LO \in Nat \ {0}
  /\ MID \in Nat \ {0}

Word == [hi : Nat, mid : Nat, lo : Nat]

W(h, m, l) == [hi |-> h, mid |-> m, lo |-> l]

\* A fresh page, a memset cell, and the double 0.0.
ZERO == W(0, 0, 0)

(***************************************************************************)
(* NaN-boxing.                                                             *)
(***************************************************************************)
NAN_BASE    == 32752          \* 0x7FF0, the top 16 bits of 0x7FF0 << 48
TAG_DOUBLE  == 0
TAG_INT48   == 1
TAG_POINTER == 2
TAG_BOOL    == 3
TAG_CHAR6   == 4
TAG_NULL    == 5

\* Every word whose exponent bits (hi bits 14..4) are not all ones.
isDouble(w) == (w.hi \div 16) % 2048 # 2047

getTag(w) == w.hi % 16

isPointer(w) == ~isDouble(w) /\ getTag(w) = TAG_POINTER

encode(tag, payload) == W(NAN_BASE + tag, (payload \div LO) % MID, payload % LO)

encodeInt(n)     == encode(TAG_INT48, n)
encodePointer(a) == encode(TAG_POINTER, a)

\* decodePointer masks the payload and asks nothing about the tag.
decodePointer(w) == w.mid * LO + w.lo

(***************************************************************************)
(* Numbers the VM keeps in a slot without boxing them (the saved FP and    *)
(* IP).  A boxed word read back as such a number is at least 2^48: BEYOND  *)
(* stands for all of those, they exceed every index the VM has.            *)
(***************************************************************************)
BEYOND   == MID * LO
raw64(n) == W(0, n \div LO, n % LO)
asU64(w) == IF w.hi = 0 THEN w.mid * LO + w.lo ELSE BEYOND

(***************************************************************************)
(* objHeader and arrayObj.                                                 *)
(***************************************************************************)
OBJ_HEADER  == 16             \* sizeof(objHeader)
ARRAY_OBJ   == 24             \* sizeof(arrayObj): its own header, type, length
OBJ_STRING  == 0
OBJ_ARRAY   == 1
FLAG_MARKED == 1

header(size, type)      == W(0, type, size)
sizeOf(h)               == h.lo
typeOf(h)               == h.mid
flagsOf(h)              == h.hi
marked(h)               == [h EXCEPT !.hi = IF @ % 2 = 0 THEN @ + 1 ELSE @]
arrayInfo(type, length) == W(length \div MID, length % MID, type)
elemType(w)             == w.lo
lengthOf(w)             == w.hi * MID + w.mid
==============================================================================
