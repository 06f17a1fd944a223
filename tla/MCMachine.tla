------------------------------ MODULE MCMachine ------------------------------
(***************************************************************************)
(* MachineProps on every program of two functions of up to three lines     *)
(* each, out of a few lines that meet each case of the assembler and of    *)
(* the VM's control flow; and on every file of up to three lines that are  *)
(* out of order.                                                           *)
(***************************************************************************)
EXTENDS MachineProps, TLC

func(n)    == [line |-> "func", frameSize |-> n]
endfunc    == [line |-> "endfunc"]
label(x)   == [line |-> "label", name |-> x]
ins(m, as) == [line |-> "instr", mnem |-> m, args |-> as]

Bodies(lines, n) == UNION {[1 .. k -> lines] : k \in 0 .. n}

MainLines ==
  {label("a"), ins("jne", <<"a">>), ins("jl", <<"a">>), ins("call", <<1>>),
   ins("load", <<1, 7, 9>>), ins("cmp", <<1, 2>>), ins("end", <<1>>)}
OtherLines ==
  {label("A"), ins("je", <<"a">>), ins("jg", <<"a">>), ins("ret", <<>>),
   ins("add", <<1, 2, 3>>)}
Ordered ==
  {<<func(0)>> \o m \o <<endfunc, func(3)>> \o o \o <<endfunc>> :
     m \in Bodies(MainLines, 3), o \in Bodies(OtherLines, 3)}

LooseLines ==
  {func(1), endfunc, label("a"), ins("jl", <<"a">>), ins("arr", <<1, 2, 3>>),
   ins("mov", <<1, 2>>), ins("cmp", <<1>>), ins("cmp", <<1, 2, BYTE>>),
   ins("nop", <<>>), ins("je", <<"1">>), ins("mov", <<1, BYTE>>), ins("call", <<2>>), ins("call", <<3>>)}

\* One function more than the table holds.
Crowded == FlattenSeq([i \in 1 .. FUNCTION_TABLE_SIZE + 1 |-> <<func(0), endfunc>>])

MCPrograms == Ordered \cup Bodies(LooseLines, 3) \cup {Crowded}
MCNames    == {"a", "A"}
MCLower(x) == "a"

\* No file, one too short, the wrong magic number, the wrong version, a table
\* that ends with the file, one longer than the VM's, two that do not start at
\* a whole word, the second of them torn, and an instruction cut from its
\* operand.
MCFiles ==
  {<<>>, <<1>>, <<1, 1, 0, 0, 0, 32, 32, 32>>, <<SPROUT_LANG_MAGIC, 2, 0, 0, 0, 32, 32, 32>>,
   <<SPROUT_LANG_MAGIC, 1, 0, 0, 1, 32, 32, 32>>,
   <<SPROUT_LANG_MAGIC, 1, 0, 0, FUNCTION_TABLE_SIZE + 1, 0, 0, 32>>,
   <<SPROUT_LANG_MAGIC, 1, 0, 0, 1, 0, 22, 32>>, <<SPROUT_LANG_MAGIC, 1, 0, 0, 1, 0, 25, 32>>}
  \cup {<<SPROUT_LANG_MAGIC, 1, 0, 0, 0, 32, 32, 32, pack_instr(OPCODES[m], 1, 0, 0)>> :
          m \in {"load", "jg"}}
==============================================================================
