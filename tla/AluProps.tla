------------------------------- MODULE AluProps -------------------------------
(***************************************************************************)
(* Properties of computing on NaN-boxed words.                             *)
(***************************************************************************)
EXTENDS Alu

\* Registers hold words, the flag is one of the four the jumps know, and what
\* was printed has a type that is printed.
TypeOK ==
  /\ reg \in [Regs -> Word]
  /\ jmpFlag \in {-1, 0, 1, 2}
  /\ status \in {"running", "halted", "threw", "trapped", "faulted", "wild"}
  /\ out \in [type : {"int", "double", "char6", "none"}, n : Int]

\* No sequence of arithmetic forges a word of another kind: what passes for a
\* pointer, and so is followed and patched by the collector, is the address of
\* an array, and what passes for a boolean is true or false.  An overflow, an
\* infinity and a NaN all have to miss the tags.
NoForgery ==
  \A r \in Regs :
    /\ isPointer(reg[r]) => decodePointer(reg[r]) \in Arrays
    /\ isBool(reg[r]) => \E b \in BOOLEAN : reg[r] = encodeBool(b)

\* The value a word stands for.
valueOf(w) ==
  CASE isDouble(w)  -> [type |-> "double", n |-> decodeDouble(w)]
    [] isInt(w)     -> [type |-> "int", n |-> decodeInt(w)]
    [] isPointer(w) -> [type |-> "pointer", n |-> decodePointer(w)]
    [] isBool(w)    -> [type |-> "boolean", n |-> IF decodeBool(w) THEN 1 ELSE 0]
    [] isChar6(w)   -> [type |-> "char6", n |-> payload(w)]
    [] OTHER        -> [type |-> "none", n |-> 0]

\* Boxed words compute what typed values do: literals keep their meaning,
\* integers wrap at 48 bits and nowhere else, division goes towards zero,
\* every pair of operands is computed, refused or trapped as its types say,
\* the flag is that of the values, and so is a number or text printed.
Typed ==
  INSTANCE TypedValues WITH
    FULL    <- BEYOND,
    TOO_BIG <- INFINITY,
    val     <- [r \in Regs |-> valueOf(reg[r])],
    flag    <- CASE jmpFlag = 1 -> "EQ" [] jmpFlag = -1 -> "LT"
                 [] jmpFlag = 2 -> "GT" [] OTHER -> "NE",
    state   <- IF status \in {"threw", "trapped"} THEN "failed" ELSE status

TypedSpec == Typed!Spec

\* README.md: "reg[dst] = *reg[src] (load through pointer)" and the like for
\* stores: no mov faults in a program whose registers all hold arrays.
PointersFollowed == status = "faulted" => \E r \in Regs : ~isPointer(reg[r])
==============================================================================
