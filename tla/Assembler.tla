------------------------------ MODULE Assembler ------------------------------
(***************************************************************************)
(* tools/assembler/assembler.py, from the tokens of each line to the file. *)
(* A line is one of                                                        *)
(*   [line |-> "func", frameSize |-> n]     [line |-> "endfunc"]           *)
(*   [line |-> "label", name |-> x]                                        *)
(*   [line |-> "instr", mnem |-> m, args |-> <<...>>]                      *)
(* where args are the register numbers (and the flag of mov), the label of *)
(* a branch, the index of a call, or the register and the two halves of    *)
(* the word of a load.  A register out of range stands for every token     *)
(* that is no register.  Splitting a line into tokens and encoding a       *)
(* literal are left out.                                                   *)
(***************************************************************************)
EXTENDS Image, Sums

CONSTANTS
  Programs,    \* sources: sequences of lines
  Names,       \* labels as written
  lower(_)     \* str.lower on them

\* Frame sizes and the halves of a literal are written as 32-bit words.
ASSUME AssemblerAssumption ==
  /\ \A x \in Names : lower(x) \in Names
  /\ \A p \in Programs :
       /\ p \in Seq(Range(p))
       /\ \A n \in DOMAIN p :
            /\ p[n].line = "func" => p[n].frameSize \in 0 .. WORD - 1
            /\ p[n].line = "label" => p[n].name \in Names
            /\ p[n].line = "instr" => p[n].args \in Seq(Range(p[n].args))
            /\ p[n].line = "instr" /\ p[n].mnem = "load" =>
                 \A i \in {2, 3} \cap DOMAIN p[n].args : p[n].args[i] \in 0 .. WORD - 1

VARIABLES
  source,      \* lines of the .asm file
  pos,         \* line _pass1 is at
  functions,   \* [frameSize, labels, patches, raw, lines] per .func block
  inFunc,
  asm,         \* "reading", "exited" (also by an exception) or "written"
  image        \* words of the .spbt file

asmVars == <<source, pos, functions, inFunc, asm, image>>

Line    == source[pos]
Reading == asm = "reading" /\ pos =< Len(source)
cur     == functions[Len(functions)]

is(kind)      == Line.line = kind
isInstr(mnem) == is("instr") /\ Line.mnem \in mnem
offset(f)     == 4 * Len(f.raw)      \* len(raw), in bytes

Plain == DOMAIN OPCODES \ (BRANCH_OPS \cup {"load", "call"})

\* Operands an instruction cannot do without; a mov may do without its flag, and
\* a load's literal is two words.
Needed(mnem) ==
  CASE mnem = "ret" -> 0
    [] mnem \in BRANCH_OPS \cup {"call", "push", "pop", "end", "dbgret"} -> 1
    [] mnem \in {"cmp", "mov"} -> 2
    [] OTHER -> 3

\* The i-th operand _handle_tokens reads: those beyond are ignored, and a flag
\* that is left out is 0.
Used(mnem) == IF mnem = "mov" THEN 3 ELSE Needed(mnem)
arg(l, i)  == IF i =< Len(l.args) /\ i =< Used(l.mnem) THEN l.args[i] ELSE 0

\* Lines that _handle_tokens accepts: a known mnemonic, no operand missing,
\* registers, a target that is a reference to a label, and an index in range.
\* The flag of a mov only has to leave a word.
Encodable(l) ==
  /\ l.mnem \in DOMAIN OPCODES
  /\ Len(l.args) >= Needed(l.mnem)
  /\ CASE l.mnem \in BRANCH_OPS -> l.args[1] \in Names
       [] l.mnem = "call" -> l.args[1] \in 0 .. BYTE * BYTE * BYTE - 1
       [] l.mnem = "load" -> l.args[1] \in 0 .. BYTE - 1
       [] l.mnem = "mov"  -> /\ l.args[1] \in 0 .. BYTE - 1 /\ l.args[2] \in 0 .. BYTE - 1
                             /\ arg(l, 3) \in 0 .. WORD - 1
       [] OTHER           -> \A i \in 1 .. Needed(l.mnem) : l.args[i] \in 0 .. BYTE - 1

\* The open function becomes f, and the next line is read.
Becomes(f) ==
  /\ functions' = [functions EXCEPT ![Len(functions)] = f]
  /\ pos' = pos + 1
  /\ UNCHANGED <<source, inFunc, asm, image>>

\* f with these words appended; `lines' is history: the line of an instruction
\* at its first word.
emitted(f, words) ==
  [f EXCEPT !.raw = @ \o words,
            !.lines = @ \o [i \in DOMAIN words |-> IF i = 1 THEN pos ELSE 0]]

BeginFunc ==
  /\ Reading
  /\ is("func")
  /\ ~inFunc
  /\ functions' = Append(functions, [frameSize |-> Line.frameSize,
                                     labels |-> [x \in {} |-> 0], patches |-> <<>>,
                                     raw |-> <<>>, lines |-> <<>>])
  /\ inFunc' = TRUE
  /\ pos' = pos + 1
  /\ UNCHANGED <<source, asm, image>>

EndFunc ==
  /\ Reading
  /\ is("endfunc")
  /\ inFunc
  /\ inFunc' = FALSE
  /\ pos' = pos + 1
  /\ UNCHANGED <<source, functions, asm, image>>

\* labels[name] = offset; a second definition replaces the first.
DefineLabel ==
  /\ Reading
  /\ is("label")
  /\ inFunc
  /\ LET name == lower(Line.name)
     IN Becomes([cur EXCEPT !.labels =
          [x \in DOMAIN @ \cup {name} |-> IF x = name THEN offset(cur) ELSE @[x]]])

EmitPlain ==
  /\ Reading
  /\ inFunc
  /\ isInstr(Plain)
  /\ Encodable(Line)
  /\ Becomes(emitted(cur,
       <<pack_instr(OPCODES[Line.mnem], arg(Line, 1), arg(Line, 2), arg(Line, 3))>>))

EmitLoad ==
  /\ Reading
  /\ inFunc
  /\ isInstr({"load"})
  /\ Encodable(Line)
  /\ Becomes(emitted(cur,
       <<pack_instr(OPCODES["load"], Line.args[1], 0, 0), Line.args[2], Line.args[3]>>))

\* The target is patched in when the file is written.
EmitBranch ==
  /\ Reading
  /\ inFunc
  /\ isInstr(BRANCH_OPS)
  /\ Encodable(Line)
  /\ LET patch == [offset |-> offset(cur), label |-> Line.args[1]]
     IN Becomes([emitted(cur, <<pack_instr(OPCODES[Line.mnem], 0, 0, 0), 0>>)
                   EXCEPT !.patches = Append(@, patch)])

EmitCall ==
  /\ Reading
  /\ inFunc
  /\ isInstr({"call"})
  /\ Encodable(Line)
  /\ LET index == Line.args[1]
     IN Becomes(emitted(cur,
          <<pack_instr(OPCODES["call"], ra(index), rb(index), rc(index))>>))

\* The errors _handle_tokens raises; no operand where one is needed, and a flag
\* that does not fit, are exceptions that _pass1 does not catch.
Reject ==
  /\ Reading
  /\ \/ is("func") /\ inFunc
     \/ ~is("func") /\ ~inFunc
     \/ is("instr") /\ ~Encodable(Line)
  /\ asm' = "exited"
  /\ UNCHANGED <<source, pos, functions, inFunc, image>>

(***************************************************************************)
(* _emit_binary.                                                           *)
(***************************************************************************)
codeOffset == HEADER_SIZE + FUNC_ENTRY_SIZE * Len(functions)

\* Where the code of function i begins (i = Len(functions) + 1: where all ends).
base(i) == codeOffset + sumOf([k \in DOMAIN functions |-> offset(functions[k])], i - 1)

Defined(f) == \A k \in DOMAIN f.patches : f.patches[k].label \in DOMAIN f.labels

\* Labels taken from the start of the code, not of the function.
patchedFromCode(i) ==
  LET f == functions[i]
      target(w) == {k \in DOMAIN f.patches : f.patches[k].offset + 4 = 4 * (w - 1)}
  IN [w \in DOMAIN f.raw |->
        IF target(w) = {} THEN f.raw[w]
        ELSE codeOffset + f.labels[f.patches[CHOOSE k \in target(w) : TRUE].label]]

\* raw of function i with label_abs written behind each branch instruction.
patched(i) ==
  LET f == functions[i]
      target(w) == {k \in DOMAIN f.patches : f.patches[k].offset + 4 = 4 * (w - 1)}
  IN [w \in DOMAIN f.raw |->
        IF target(w) = {} THEN f.raw[w]
        ELSE base(i) + f.labels[f.patches[CHOOSE k \in target(w) : TRUE].label]]

fileHeader ==
  <<SPROUT_LANG_MAGIC, SPROUT_LANG_VERSION, 0, 0, Len(functions), HEADER_SIZE,
    HEADER_SIZE, codeOffset>>
funcTable ==
  FlattenSeq([i \in DOMAIN functions |-> <<base(i), functions[i].frameSize>>])
code == FlattenSeq([i \in DOMAIN functions |-> patched(i)])

AtEnd == asm = "reading" /\ pos > Len(source)

EmitBinary ==
  /\ AtEnd
  /\ ~inFunc
  /\ \A i \in DOMAIN functions : Defined(functions[i])
  /\ image' = fileHeader \o funcTable \o code
  /\ asm' = "written"
  /\ UNCHANGED <<source, pos, functions, inFunc>>

\* An open function at the end of the file, or a label that is not defined.
RejectFile ==
  /\ AtEnd
  /\ inFunc \/ \E i \in DOMAIN functions : ~Defined(functions[i])
  /\ asm' = "exited"
  /\ UNCHANGED <<source, pos, functions, inFunc, image>>

AsmInit ==
  /\ source \in Programs
  /\ pos = 1
  /\ functions = <<>>
  /\ inFunc = FALSE
  /\ asm = "reading"
  /\ image = <<>>

AsmNext ==
  \/ BeginFunc \/ EndFunc \/ DefineLabel
  \/ EmitPlain \/ EmitLoad \/ EmitBranch \/ EmitCall
  \/ Reject \/ EmitBinary \/ RejectFile
==============================================================================
