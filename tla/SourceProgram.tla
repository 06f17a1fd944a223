---------------------------- MODULE SourceProgram ----------------------------
(***************************************************************************)
(* What an assembly program means, line by line: no addresses, no table,   *)
(* no file.  Labels belong to the function they stand in, functions are    *)
(* numbered in the order of declaration, the first one is where the        *)
(* program starts, and control that reaches a function's end goes on with  *)
(* the next function's first instruction.  `at' is the line of the next    *)
(* instruction, or one past the last line.                                 *)
(***************************************************************************)
EXTENDS Integers, Sequences, FiniteSetsExt

CONSTANTS Branches, Throwing, lower(_), MostFuncs

VARIABLES source, state, at, flag, pending, did

vars == <<source, state, at, flag, pending, did>>

After    == Len(source) + 1
Instrs   == {n \in DOMAIN source : source[n].line = "instr"}
Funcs    == {n \in DOMAIN source : source[n].line = "func"}
next(n)  == Min({m \in Instrs : m > n} \cup {After})
home(n)  == Max({m \in Funcs : m < n})
\* The last definition of a label in a function is the one that counts.
target(n, name) ==
  Max({m \in DOMAIN source : /\ source[m].line = "label"
                             /\ home(m) = home(n)
                             /\ lower(source[m].name) = name})
\* The line that declares function i, counted from 0.
declared(i) == CHOOSE n \in Funcs : Cardinality({m \in Funcs : m < n}) = i

here     == source[at]
\* Operands an instruction reads; more are ignored.
takes(mnem) ==
  CASE mnem = "ret" -> 0 [] mnem \in {"push", "pop", "end", "dbgret"} -> 1
    [] mnem = "cmp" -> 2 [] OTHER -> 3
operand(i) == IF i =< Len(here.args) /\ i =< takes(here.mnem) THEN here.args[i] ELSE 0
Executing       == state = "running" /\ at \in Instrs
Executes(mnems) == Executing /\ here.mnem \in mnems
Did(mnem, operands) == did' = [mnem |-> mnem, operands |-> operands]

Start ==
  /\ state = "ready"
  /\ state' = "running"
  /\ at' = next(0)
  /\ flag' = "GT"
  /\ UNCHANGED <<source, pending, did>>

Holds(mnem) ==
  CASE mnem = "je" -> flag = "EQ" [] mnem = "jne" -> flag # "EQ"
    [] mnem = "jl" -> flag = "LT" [] mnem = "jg" -> flag = "GT"

Branch ==
  /\ Executes(Branches)
  /\ at' = IF Holds(here.mnem) THEN next(target(at, here.args[1])) ELSE next(at)
  /\ Did(here.mnem, <<>>)
  /\ UNCHANGED <<source, state, flag, pending>>

Compare ==
  /\ Executes({"cmp"})
  /\ flag' \in {"EQ", "LT", "GT", "NE"}
  /\ at' = next(at)
  /\ Did("cmp", <<operand(1), operand(2), 0>>)
  /\ UNCHANGED <<source, state, pending>>

Compute ==
  /\ Executing
  /\ here.mnem \notin Branches \cup {"cmp", "call", "ret", "end"}
  /\ at' = next(at)
  /\ Did(here.mnem, <<operand(1), operand(2), operand(3)>>)
  /\ UNCHANGED <<source, state, flag, pending>>

Call ==
  /\ Executes({"call"})
  /\ here.args[1] < Cardinality(Funcs)
  /\ LET f == declared(here.args[1])
     IN at' = next(f) /\ Did("call", <<here.args[1], source[f].frameSize>>)
  /\ pending' = Append(pending, next(at))
  /\ UNCHANGED <<source, state, flag>>

\* A function that is not declared: an error, and no instruction runs.
CallNothing ==
  /\ Executes({"call"})
  /\ here.args[1] >= Cardinality(Funcs)
  /\ at' = 0
  /\ pending' = Append(pending, next(at))
  /\ Did("call", <<here.args[1], 0>>)
  /\ UNCHANGED <<source, state, flag>>

Return ==
  /\ Executes({"ret"})
  /\ pending # <<>>
  /\ at' = pending[Len(pending)]
  /\ pending' = SubSeq(pending, 1, Len(pending) - 1)
  /\ Did("ret", <<>>)
  /\ UNCHANGED <<source, state, flag>>

Halt == Executes({"end"}) /\ state' = "halted" /\ UNCHANGED <<source, at, flag, pending, did>>

\* Operands the instruction refuses, or a call of nothing.
Fail ==
  /\ Executes(Throwing) \/ (state = "running" /\ at = 0)
  /\ state' = "threw"
  /\ UNCHANGED <<source, at, flag, pending, did>>

\* Nothing is promised without a program, or for more functions than there
\* may be.
Refuse ==
  /\ state = "ready"
  /\ source = <<>> \/ Cardinality(Funcs) > MostFuncs
  /\ state' \in {"threw", "wild"}
  /\ UNCHANGED <<source, at, flag, pending, did>>

\* Nothing is promised for a ret without a call, past the last line, or for a
\* number no function can have.
Astray ==
  /\ state = "running"
  /\ \/ at = After
     \/ Executes({"ret"}) /\ pending = <<>>
     \/ Executes({"call"}) /\ here.args[1] >= Cardinality(Funcs)
  /\ state' = "wild"
  /\ UNCHANGED <<source, at, flag, pending, did>>

Init ==
  /\ state = "ready" /\ at = 0 /\ flag = "NE" /\ pending = <<>>
  /\ did = [mnem |-> "none", operands |-> <<>>]

Next == Start \/ Branch \/ Compare \/ Compute \/ Call \/ CallNothing \/ Return \/ Halt \/ Fail
        \/ Refuse \/ Astray

Spec == Init /\ [][Next]_vars
==============================================================================
