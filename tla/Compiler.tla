------------------------------- MODULE Compiler -------------------------------
(***************************************************************************)
(* The compiler's main: join the arguments, tokenise, parse, print the     *)
(* tree and free the arena.  `out' is the listing, one line per node.      *)
(***************************************************************************)
EXTENDS Parser, SequencesExt

CONSTANT Arguments     \* what the program can be called with: sequences of texts

VARIABLE out

lexerVars    == <<src, at, tokens, spans>>
compilerVars == <<lexerVars, phase, parserVars, out>>

CodeStr(args) ==
  FoldLeft(LAMBDA code, arg : IF code = <<>> THEN arg ELSE code \o <<" ">> \o arg, <<>>, args)

\* The arguments are C strings: none has a NUL inside.
ASSUME ArgumentsAssumption ==
  \A args \in Arguments :
    LET code == CodeStr(args) IN code \in Seq(values(code)) /\ NUL \notin values(code)

\* The operators a listing knows; the others are shown as "?".
tokenTypeName(op) ==
  IF op \in {"PLUS", "MINUS", "STAR", "SLASH", "EQEQ", "NOT_EQ", "LOWER", "GREATER"} THEN op ELSE "?"

line(node, indent) ==
  [indent |-> indent, type |-> node.type, name |-> node.name, number |-> node.number,
   op |-> IF node.op = NONE THEN NONE ELSE tokenTypeName(node.op)]

\* The lines of node n and what is below it.
listing[n \in Nat, indent \in Nat] ==
  <<line(nodes[n], indent)>>
  \o FlattenSeq([k \in DOMAIN nodes[n].kids |-> listing[nodes[n].kids[k], indent + 1]])

printAST ==
  /\ phase = "parsed"
  /\ out' = listing[ret, 1]
  /\ phase' = "printed"
  /\ UNCHANGED <<lexerVars, parserVars>>

freeMemory ==
  /\ phase = "printed"
  /\ phase' = "freed"
  /\ nodes' = <<>>
  /\ ret' = 0
  /\ UNCHANGED <<lexerVars, pos, frames, skipped, out>>

CompilerInit ==
  /\ \E args \in Arguments : src = CodeStr(args)
  /\ LexerInit
  /\ ParserInit
  /\ out = <<>>

CompilerNext ==
  \/ Tokenize /\ UNCHANGED <<parserVars, out>>
  \/ Parse /\ UNCHANGED <<lexerVars, out>>
  \/ printAST
  \/ freeMemory

\* One process that never waits.
CompilerSpec == CompilerInit /\ [][CompilerNext]_compilerVars /\ WF_compilerVars(CompilerNext)
==============================================================================
