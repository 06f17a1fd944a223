----------------------------- MODULE CompilerProps -----------------------------
(***************************************************************************)
(* Properties of the compiler's front end that hold for any text, in the   *)
(* language or not.                                                        *)
(***************************************************************************)
EXTENDS Compiler

(***************************************************************************)
(* Types.                                                                  *)
(***************************************************************************)
\* A name in the tree is the content of a token.
Names == {<<>>} \cup {tokens[i].content : i \in DOMAIN tokens}

Calculating == (UNION values(Operators)) \cup {"NOT"}

\* What printAST takes for granted of a node: as many parts as its type has,
\* and an operator where one is printed.
WellFormed(n) ==
  /\ n.type \in {"Program", "Block", "FuncCall", "VarDecl", "VarAssign", "If",
                 "BinaryOp", "UnaryOp", "Ident", "IntLiteral"}
  /\ n.name \in Names
  /\ n.number =< MAX_INT64
  /\ n.type \in {"Ident", "IntLiteral"} => n.kids = <<>>
  /\ n.type \in {"VarDecl", "VarAssign", "UnaryOp"} => Len(n.kids) = 1
  /\ n.type = "BinaryOp" => Len(n.kids) = 2
  /\ n.type = "If" => Len(n.kids) \in {2, 3}
  /\ n.op \in IF n.type \in {"BinaryOp", "UnaryOp"} THEN Calculating ELSE {NONE}

\* The parser stays within the tokens, whatever it looks ahead; every node can be
\* printed; and a finished program is a program node with no call left.
TypeOK ==
  /\ phase \in {"lexing", "parsing", "parsed", "printed", "freed", "threw"}
  /\ pos \in 1 .. Len(tokens) + 1
  /\ ret \in 0 .. Len(nodes)
  /\ \A n \in DOMAIN nodes : WellFormed(nodes[n])
  /\ phase = "parsing" => frames # <<>> /\ frames[1].fn = "program"
  /\ phase \in {"parsed", "printed"} => frames = <<>> /\ ret # 0 /\ nodes[ret].type = "Program"

(***************************************************************************)
(* The tree.                                                               *)
(***************************************************************************)
\* A part is in the arena before what it is a part of: no node is below itself.
PartsFirst ==
  \A n \in DOMAIN nodes : \A k \in DOMAIN nodes[n].kids : nodes[n].kids[k] \in 1 .. n - 1

\* A local is a node, and is not the one that is returned.
LocalsHeld ==
  \A f \in DOMAIN frames : \A k \in DOMAIN frames[f].kids :
    frames[f].kids[k] \in DOMAIN nodes \ {ret}

\* Nothing is part of two nodes, in two locals or in both.
NoSharing ==
  \A n, m \in DOMAIN nodes : \A k \in DOMAIN nodes[n].kids : \A l \in DOMAIN nodes[m].kids :
    nodes[n].kids[k] = nodes[m].kids[l] => n = m /\ k = l

NoSharedLocal ==
  /\ \A f, g \in DOMAIN frames : \A k \in DOMAIN frames[f].kids : \A l \in DOMAIN frames[g].kids :
       frames[f].kids[k] = frames[g].kids[l] => f = g /\ k = l
  /\ \A n \in DOMAIN nodes : \A k \in DOMAIN nodes[n].kids :
       /\ nodes[n].kids[k] # ret
       /\ \A f \in DOMAIN frames : \A l \in DOMAIN frames[f].kids :
            nodes[n].kids[k] # frames[f].kids[l]

\* Nothing is forgotten.
NoOrphan ==
  \A i \in DOMAIN nodes :
    \/ i = ret
    \/ \E n \in DOMAIN nodes : \E k \in DOMAIN nodes[n].kids : nodes[n].kids[k] = i
    \/ \E f \in DOMAIN frames : \E k \in DOMAIN frames[f].kids : frames[f].kids[k] = i

\* Every node in the arena has exactly one owner: a node it is part of, a local
\* of a call in progress, or the call that is just returning it.  When the
\* program node is returned the arena therefore holds one tree and nothing else.
OneOwner == PartsFirst /\ LocalsHeld /\ NoSharing /\ NoSharedLocal /\ NoOrphan

(***************************************************************************)
(* The tokens.                                                             *)
(***************************************************************************)
\* Places i to j - 1 of the text.
All(i, j, C)   == \A p \in i .. j - 1 : src[p] \in C
Comments(i, p) == \E c \in i .. p : src[c] = "/" /\ peek(c + 1) = "/" /\ \A q \in c .. p : src[q] # "\n"
Blank(i, j) ==
  /\ \A p \in i .. j - 1 : src[p] \in Space \/ Comments(i, p)
  /\ i < j /\ Comments(i, j - 1) => peek(j) \in {NUL, "\n"}

IsLexeme(i, j) ==
  \/ src[i] \in Letters /\ All(i, j, Alnum)
  \/ src[i] \in Digits /\ All(i, j, Digits)
  \/ \E p \in i + 1 .. j - 2 : src[p] = "." /\ All(i, p, Digits) /\ All(p + 1, j, Digits)
  \/ src[i] \notin Alnum \cup Space /\ j = i + 1
  \/ j = i + 2 /\ SubSeq(src, i, i + 1) \in DOMAIN TwoCharacters
  \/ src[i] = "#" /\ \E a \in i + 1 .. j : \E b \in a .. j :
       All(i + 1, a, Letters) /\ Blank(a, b) /\ All(b, j, Letters)

\* Each token is the longest lexeme at its place, with nothing but blanks and
\* comments before it; a keyword is a word of its own; and at the end only
\* blanks and comments are left, unless a directive of unset type ended early.
MaximalMunch ==
  /\ phase = "lexing" => \A n \in DOMAIN spans :
       LET i == spans[n].from
           j == spans[n].to
           before == IF n = 1 THEN 1 ELSE spans[n - 1].to
       IN /\ Blank(before, i) /\ ~Blank(before, i + 1)
          /\ src[i] = "/" => peek(i + 1) # "/"
          /\ IsLexeme(i, j)
          /\ \A longer \in j + 1 .. Len(src) + 1 : ~IsLexeme(i, longer)
          /\ src[i] # "#" => tokens[n].content = SubSeq(src, i, j - 1)
          /\ src[i] \in Letters =>
               tokens[n].type = IF j = i + 1 /\ src[i] \in DOMAIN Keyword THEN Keyword[src[i]] ELSE "IDENT"
  /\ phase = "parsing" /\ "#" \notin values(src) =>
       Blank(IF spans = <<>> THEN 1 ELSE spans[Len(spans)].to, Len(src) + 1)

(***************************************************************************)
(* From the tokens to the tree.                                            *)
(***************************************************************************)
Telling(t)  == t.type \in {"IDENT", "NUMBER"} \cup Calculating
read(t)     == [type |-> t.type, name |-> IF t.type = "IDENT" THEN t.content ELSE <<>>]

\* What a node says, read from left to right, when its parts say kids.
saying(node, kids) ==
  LET op == <<[type |-> node.op, name |-> <<>>]>>
  IN CASE node.type = "BinaryOp"   -> kids[1] \o op \o kids[2]
       [] node.type = "UnaryOp"    -> op \o kids[1]
       [] node.type = "IntLiteral" -> <<[type |-> "NUMBER", name |-> <<>>]>>
       [] node.type \in {"Program", "Block", "If"} -> FlattenSeq(kids)
       [] OTHER -> <<[type |-> "IDENT", name |-> node.name]>> \o FlattenSeq(kids)

reading[n \in DOMAIN nodes] ==
  saying(nodes[n], [k \in DOMAIN nodes[n].kids |-> reading[nodes[n].kids[k]]])

\* What token i says.
says(i) == IF i \in skipped \/ ~Telling(tokens[i]) THEN <<>> ELSE <<read(tokens[i])>>

\* Every name, number and operator that the parser did not skip is in the tree,
\* once and in the order of the text.
NothingLost == phase = "parsed" => reading[ret] = FlattenSeq([i \in DOMAIN tokens |-> says(i)])

(***************************************************************************)
(* Progress.                                                               *)
(***************************************************************************)
Count(c) == IF c THEN 1 ELSE 0

\* The running call is to read an argument: it calls a function and reads no token.
Asks == ret = 0 /\ Top.fn = "call" /\ ~is("SEMICOLON")

\* What is left to do, in steps and at most: 12 for each piece of the text, 11 of
\* them for the token it may become; what the calls in progress need to return; and
\* to print the tree and free it.
Left ==
  CASE phase = "lexing"  -> 12 * (Len(src) + 1 - at) + 11 * Len(tokens) + 6
    [] phase = "parsing" ->
         11 * (Len(tokens) + 1 - pos) + 9 * Count(Asks)
         + 2 * Len(frames) + Count(Top.op # NONE) + Count(ret # 0) + 3
    [] phase = "parsed"  -> 2
    [] phase = "printed" -> 1
    [] OTHER -> 0

\* No step is for nothing: each leaves less to do.  Nowhere does a function call
\* another, turn in its loop or return again and again without reading on, so that
\* a text of n pieces takes 12 * n + 6 steps at most.
Shrinks == [][Left' \in Nat /\ Left' < Left]_compilerVars

\* Every text is dealt with: the compiler prints a tree and frees the arena, or
\* it throws.
Terminates == <>(phase \in {"freed", "threw"})
==============================================================================
