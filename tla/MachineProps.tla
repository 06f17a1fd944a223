----------------------------- MODULE MachineProps ----------------------------
(***************************************************************************)
(* Properties of assembling a program, loading it and running it.          *)
(***************************************************************************)
EXTENDS Machine

\* The file is a list of 32-bit words, and the assembler and the VM are in one
\* of their states.
TypeOK ==
  /\ asm \in {"reading", "exited", "written"}
  /\ vm \in {"off", "running", "halted", "threw", "wild"}
  /\ pos \in 1 .. Len(source) + 1
  /\ image \in Seq(0 .. WORD - 1)
  /\ ip \in Nat /\ jmpFlag \in {-1, 0, 1, 2} /\ returns \in Seq(Nat)

Starts(i) == {base(i) + 4 * (k - 1) : k \in {k \in DOMAIN functions[i].raw :
                                               functions[i].lines[k] # 0}}
InstrStarts == UNION {Starts(i) : i \in DOMAIN functions}
EndOfCode   == base(Len(functions) + 1)

\* The instruction pointer, and every IP a pending call saved, is the address
\* of an instruction the assembler emitted, never of an operand: it is so
\* after a branch that is not taken, a load and a return.  (0 is where a call
\* of an undeclared function goes.)
NeverInOperand ==
  vm = "running" =>
    {ip} \cup {returns[k] : k \in DOMAIN returns}
      \subseteq InstrStarts \cup {EndOfCode, 0}

\* Labels are local: every branch of a written file leads into the code of its
\* own function, or to its end.
BranchesStayInside ==
  asm = "written" => \A i \in DOMAIN functions : \A k \in DOMAIN functions[i].patches :
    LET at == base(i) + functions[i].patches[k].offset + 4
    IN word(at) \in {a \in Starts(i) \cup {base(i + 1)} : a >= base(i)}

\* The line of the instruction at an address.
lineAt(a) ==
  IF a = EndOfCode THEN Len(source) + 1
  ELSE Max({0} \cup UNION {{functions[i].lines[k] : k \in
              {k \in DOMAIN functions[i].raw : base(i) + 4 * (k - 1) = a}} :
              i \in DOMAIN functions})

\* The assembler and the VM together implement the source program: every
\* instruction the VM executes is the one of the line control has reached,
\* with that line's operands, and every call finds the function declared
\* under its number, with its frame size.
Program ==
  INSTANCE SourceProgram WITH
    Branches <- BRANCH_OPS,
    Throwing <- ThrowOps,
    MostFuncs <- FUNCTION_TABLE_SIZE,
    state    <- IF vm = "off" THEN "ready" ELSE vm,
    at       <- IF vm = "off" \/ (functions = <<>> /\ ip = 0) THEN 0 ELSE lineAt(ip),
    flag     <- CASE jmpFlag = 1 -> "EQ" [] jmpFlag = -1 -> "LT"
                  [] jmpFlag = 2 -> "GT" [] OTHER -> "NE",
    pending  <- [k \in DOMAIN returns |-> lineAt(returns[k])]

SourceSpec == Program!Spec
==============================================================================
