-------------------------------- MODULE Image --------------------------------
(***************************************************************************)
(* The .spbt file as the assembler writes it and the VM reads it: eight    *)
(* header words, two words per function, and the code, all big-endian      *)
(* 32-bit words.  An address is a byte offset in the file; every item is a *)
(* whole number of words.  BYTE is 256 in the code; with 128 a word fits   *)
(* TLC's integers and the magic number keeps its bytes.                    *)
(***************************************************************************)
EXTENDS Integers, FiniteSetsExt, SequencesExt

CONSTANTS
  BYTE,                  \* number of values of one byte
  FUNCTION_TABLE_SIZE    \* entries of vm.functionTable

ASSUME ImageAssumption == BYTE \in {128, 256} /\ FUNCTION_TABLE_SIZE \in Nat

\* Number of values of one word.
WORD == BYTE * BYTE * BYTE * BYTE

\* 'S', 'P', 'R', 'T'
SPROUT_LANG_MAGIC   == ((83 * BYTE + 80) * BYTE + 82) * BYTE + 84
SPROUT_LANG_VERSION == 1

HEADER_SIZE     == 32
FUNC_ENTRY_SIZE == 8

\* The assembler's table of opcodes ...
OPCODES ==
  [add |-> 0, sub |-> 1, mul |-> 2, div |-> 3, end |-> 4, load |-> 5, cmp |-> 6,
   dbgret |-> 7, je |-> 8, jne |-> 9, jl |-> 10, jg |-> 11, call |-> 12, ret |-> 13,
   push |-> 14, pop |-> 15, ins |-> 16, read |-> 17, mov |-> 18, arr |-> 19,
   arrins |-> 20, arrread |-> 21]

\* ... and the order of the VM's enum.
Opcode ==
  <<"add", "sub", "mul", "div", "end", "load", "cmp", "dbgret", "je", "jne", "jl",
    "jg", "call", "ret", "push", "pop", "ins", "read", "mov", "arr", "arrins",
    "arrread">>

BRANCH_OPS == {"je", "jne", "jl", "jg"}

\* x | y on bytes
or(x, y) ==
  LET bit(w) == IF (x \div w) % 2 = 1 \/ (y \div w) % 2 = 1 THEN w ELSE 0
  IN bit(1) + bit(2) + bit(4) + bit(8) + bit(16) + bit(32) + bit(64) + bit(128)

\* The fields are or-ed into one word; an rc past a byte reaches the others.
pack_instr(op, ra, rb, rc) ==
  LET carry1 == (rc \div BYTE) % BYTE
      carry2 == (rc \div (BYTE * BYTE)) % BYTE
      carry3 == (rc \div (BYTE * BYTE * BYTE)) % BYTE
  IN ((or(op, carry3) * BYTE + or(ra, carry2)) * BYTE + or(rb, carry1)) * BYTE
       + (rc % BYTE)

\* decode::op, ra, rb, rc
op(w) == w \div (BYTE * BYTE * BYTE)
ra(w) == (w \div (BYTE * BYTE)) % BYTE
rb(w) == (w \div BYTE) % BYTE
rc(w) == w % BYTE
==============================================================================
