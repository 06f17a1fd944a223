------------------------------- MODULE Grammar -------------------------------
(***************************************************************************)
(* The part of Sprout_lang.ebnf that the parser implements, as the trees   *)
(* that can be derived for a stretch of the tokens: none if it is not      *)
(* well-formed, several if the grammar is ambiguous.  What the parser      *)
(* builds by looking one or two tokens ahead is compared with it.          *)
(***************************************************************************)
EXTENDS CompilerProps

(***************************************************************************)
(* A symbol derives a set of sequences of trees.                           *)
(***************************************************************************)
then(A, B) == IF A = {} THEN {} ELSE {a \o b : a \in A, b \in B}
tree(type, name, op, number, Parts) ==
  {<<[type |-> type, name |-> name, op |-> op, number |-> number, kids |-> kids]>> : kids \in Parts}

typeAt(i)    == token(i).type
nameAt(i)    == token(i).content
At(t, i, j)  == {m \in i .. j : typeAt(m) \in t}
Where(c, A)  == IF c THEN A ELSE {}
TypeNames    == {"INT", "FLOAT", "BOOL", "CHAR6"}
looser       == [k \in {Levels[n] : n \in 1 .. 4} |-> CHOOSE n \in 1 .. 4 : Levels[n] = k]
tighter(s)   == (Levels \o <<"unary">>)[looser[s] + 1]

\* What tokens i to j - 1 are as symbol s.
derive[s \in STRING, i \in Nat, j \in Nat] ==
  LET list(item, separator) ==
        derive[item, i, j]
        \cup UNION {then(derive[item, i, m], derive[s, m + 1, j]) : m \in At({separator}, i, j - 1)}
  IN
  CASE s \in DOMAIN looser ->
         derive[tighter(s), i, j]
         \cup UNION {tree("BinaryOp", <<>>, typeAt(m), 0, then(derive[s, i, m], derive[tighter(s), m + 1, j]))
                     : m \in At(Operators[looser[s]], i, j - 1)}
    [] s = "unary" ->
         derive["primary", i, j]
         \cup Where(typeAt(i) \in {"NOT", "MINUS"} /\ i < j,
                    tree("UnaryOp", <<>>, typeAt(i), 0, derive["simple_primary", i + 1, j]))
    [] s = "primary" ->
         derive["simple_primary", i, j] \cup derive["func_call", i, j]
         \cup Where(typeAt(i) = "L_PAREN" /\ typeAt(j - 1) = "R_PAREN" /\ i + 1 < j,
                    derive["logical", i + 1, j - 1])
    [] s = "simple_primary" ->
         Where(j = i + 1 /\ typeAt(i) = "IDENT", tree("Ident", nameAt(i), NONE, 0, {<<>>}))
         \cup Where(j = i + 1 /\ typeAt(i) = "NUMBER" /\ "." \notin values(nameAt(i)) /\ value(nameAt(i)) =< MAX_INT64,
                    tree("IntLiteral", <<>>, NONE, value(nameAt(i)), {<<>>}))
    [] s = "func_call" ->
         Where(i + 2 < j /\ typeAt(i) = "IDENT" /\ typeAt(i + 1) = "COLON" /\ typeAt(j - 1) = "SEMICOLON",
               tree("FuncCall", nameAt(i), NONE, 0,
                    Where(i + 3 = j, {<<>>}) \cup derive["positional_arg_list", i + 2, j - 1]
                                             \cup derive["named_arg_list", i + 2, j - 1]))
    [] s = "positional_arg_list" -> list("logical", "COMMA")
    [] s = "named_arg_list"      -> list("assignment", "COMMA")
    [] s = "assignment" ->
         Where(i + 2 < j /\ typeAt(i) = "IDENT" /\ typeAt(i + 1) = "EQ",
               tree("VarAssign", nameAt(i), NONE, 0, derive["logical", i + 2, j]))
    [] s = "var_decl" ->
         Where(i + 3 < j /\ typeAt(i) = "VAR" /\ typeAt(i + 1) = "IDENT",
               UNION {tree("VarDecl", nameAt(i + 1), NONE, 0, derive["logical", eq + 1, j]) :
                        eq \in {eq \in {i + 2, i + 4} :
                                  /\ eq < j /\ typeAt(eq) = "EQ"
                                  /\ eq = i + 4 => typeAt(i + 2) = "ARR_RIGHT" /\ typeAt(i + 3) \in TypeNames}})
    [] s = "if_stmt" ->
         Where(typeAt(i) = "IF" /\ typeAt(i + 1) = "L_PAREN",
               UNION {tree("If", <<>>, NONE, 0,
                           then(derive["logical", i + 2, m],
                                derive["braces", m + 1, j]
                                \cup UNION {then(derive["braces", m + 1, e], derive["braces", e + 1, j]) :
                                              e \in At({"ELSE"}, m + 1, j - 1)})) :
                        m \in At({"R_PAREN"}, i + 2, j - 1)})
    [] s = "braces" ->
         Where(i + 1 < j /\ typeAt(i) = "L_CURL_BRKT" /\ typeAt(j - 1) = "R_CURL_BRKT",
               tree("Block", <<>>, NONE, 0, derive["block", i + 1, j - 1]))
    [] s = "statement" ->
         derive["var_decl", i, j] \cup derive["assignment", i, j]
         \cup derive["if_stmt", i, j] \cup derive["func_call", i, j]
    [] s = "block" ->
         Where(i = j, {<<>>})
         \cup UNION {then(derive["statement", i, m], derive["block", m, j]) : m \in i + 1 .. j}

(***************************************************************************)
(* The tree in the arena and its listing.                                  *)
(***************************************************************************)
held[n \in Nat] == [nodes[n] EXCEPT !.kids = [k \in DOMAIN @ |-> held[@[k]]]]

RECURSIVE Lines(_, _)
Lines(t, indent) == <<line(t, indent)>> \o FlattenSeq([k \in DOMAIN t.kids |-> Lines(t.kids[k], indent + 1)])

==============================================================================
