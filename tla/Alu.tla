--------------------------------- MODULE Alu ---------------------------------
(***************************************************************************)
(* Registers as the instructions that compute, compare, copy and print see *)
(* them: any sequence of load, mov, add, sub, mul, div, cmp, dbgret        *)
(* and end.  A load is the assembler's encoding of a literal; the pointers *)
(* in registers come from arr (SproutHeap).                                *)
(***************************************************************************)
EXTENDS Numbers

CONSTANTS
  Regs,            \* register numbers
  Literals,        \* literals of the programs: [type, n]
  Arrays           \* addresses of arrays

ASSUME AluAssumption ==
  /\ Arrays \subseteq 0 .. BEYOND - 1
  /\ Literals \subseteq [type : {"int"}, n : Int]
                  \cup [type : {"double"}, n : Places]
                  \cup [type : {"boolean"}, n : {0, 1}]
                  \cup [type : {"char6"}, n : 0 .. BEYOND - 1]
                  \cup [type : {"null"}, n : {0}]

VARIABLES
  reg, jmpFlag,
  status,          \* "running", "halted", "threw", "trapped", "faulted" or "wild"
  out              \* what the last instruction printed

aluVars == <<reg, jmpFlag, status, out>>

MathOps == {"add", "sub", "mul", "div"}

encode_value(l) ==
  CASE l.type = "int"     -> encodeInt(l.n)
    [] l.type = "double"  -> encodeDouble(l.n)
    [] l.type = "boolean" -> encodeBool(l.n = 1)
    [] l.type = "char6"   -> encode(TAG_CHAR6, l.n)
    [] l.type = "null"    -> encode(TAG_NULL, 0)

Running   == status = "running"
Nothing   == [type |-> "none", n |-> 0]
Silent    == out' = Nothing
Put(r, w) == reg' = [reg EXCEPT ![r] = w] /\ Silent /\ UNCHANGED <<jmpFlag, status>>
Die(how)  == status' = how /\ Silent /\ UNCHANGED <<reg, jmpFlag>>

Load(r, l)     == Running /\ Put(r, encode_value(l))
Mov(d, s)      == Running /\ Put(d, reg[s])
ArrayInto(r)   == Running /\ \E a \in Arrays : Put(r, encodePointer(a))

\* Where a word that is followed as it stands, tag and all, is no address.
Faults(w) == w.hi # 0 \/ w = ZERO

\* mov with another flag: 1 follows src, 2 dst, 3 both.  A boxed pointer has its
\* tag in the top bits.  A word that is an address is one of a place no
\* instruction gave, and nothing is claimed then.
MovThrough(flag, d, s) ==
  LET followed == CASE flag = 1 -> {s} [] flag = 2 -> {d} [] flag = 3 -> {d, s}
  IN Running /\ Die(IF \E r \in followed : Faults(reg[r]) THEN "faulted" ELSE "wild")

DividesByZero(op, a, b) == bothInts(a, b) /\ op = "div" /\ decodeInt(b) = 0

\* The destination may be one of the operands.
Math(op, d, a, b) ==
  /\ Running
  /\ bothDoubles(reg[a], reg[b]) \/ bothInts(reg[a], reg[b])
  /\ ~DividesByZero(op, reg[a], reg[b])
  /\ \E w \in results(op, reg[a], reg[b]) : Put(d, w)

\* An exception nothing catches; dst keeps its value.
MathThrows(a, b) ==
  /\ Running
  /\ ~bothDoubles(reg[a], reg[b]) /\ ~bothInts(reg[a], reg[b])
  /\ Die("threw")

\* SIGFPE
MathTraps(op, a, b) == Running /\ DividesByZero(op, reg[a], reg[b]) /\ Die("trapped")

Comparable(a, b) == bothDoubles(a, b) \/ bothInts(a, b) \/ bothBools(a, b)

Compare(a, b) ==
  /\ Running
  /\ Comparable(reg[a], reg[b])
  /\ jmpFlag' = compare(reg[a], reg[b])
  /\ Silent
  /\ UNCHANGED <<reg, status>>

CompareThrows(a, b) == Running /\ ~Comparable(reg[a], reg[b]) /\ Die("threw")

\* A boolean, a pointer, null and an infinity print nothing, not even a line.
end(w) ==
  out' = CASE isInt(w)    -> [type |-> "int", n |-> decodeInt(w)]
           [] isDouble(w) -> [type |-> "double", n |-> decodeDouble(w)]
           [] isChar6(w)  -> [type |-> "char6", n |-> payload(w)]
           [] OTHER       -> Nothing

DebugReturn(r) == Running /\ end(reg[r]) /\ UNCHANGED <<reg, jmpFlag, status>>
End(r)         == Running /\ end(reg[r]) /\ status' = "halted" /\ UNCHANGED <<reg, jmpFlag>>

\* The VM is a global: its registers are zero.
AluInit ==
  /\ reg = [r \in Regs |-> ZERO]
  /\ jmpFlag = 2
  /\ status = "running"
  /\ out = Nothing

AluNext ==
  \/ \E r \in Regs : (\E l \in Literals : Load(r, l)) \/ ArrayInto(r) \/ DebugReturn(r) \/ End(r)
  \/ \E a, b \in Regs : Mov(a, b) \/ MathThrows(a, b) \/ Compare(a, b) \/ CompareThrows(a, b)
  \/ \E flag \in 1 .. 3, d, s \in Regs : MovThrough(flag, d, s)
  \/ \E op \in MathOps, a, b \in Regs : MathTraps(op, a, b) \/ (\E d \in Regs : Math(op, d, a, b))

AluSpec == AluInit /\ [][AluNext]_aluVars
==============================================================================
