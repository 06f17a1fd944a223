-------------------------------- MODULE MCAlu --------------------------------
(***************************************************************************)
(* Two registers, integers of four bits, three finite doubles and every    *)
(* kind of literal: integers at both ends of the range and beyond, and a   *)
(* double whose bits are the address of the array.                         *)
(***************************************************************************)
EXTENDS AluProps

literal(t, n) == [type |-> t, n |-> n]

MCFloats   == {-1, 0, INFINITY - 1}
MCLiterals ==
  {literal("int", n) : n \in {-9, -8, -1, 0, 1, 3, 16}}
  \cup {literal("double", n) : n \in {-1, 5, INFINITY, -NOT_A_NUMBER}}
  \cup {literal("boolean", 0), literal("boolean", 1), literal("char6", 9), literal("null", 0)}
==============================================================================
