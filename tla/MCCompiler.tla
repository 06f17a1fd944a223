------------------------------ MODULE MCCompiler ------------------------------
(***************************************************************************)
(* Texts for the front end: every short text over an alphabet with all the *)
(* hazards of tokenising; every short sequence of tokens, at the top and   *)
(* inside a block or a call; and programs of the grammar, with all four    *)
(* levels of operators against each other.                                 *)
(***************************************************************************)
EXTENDS Grammar

MCLetters == {"x", "y", "f", "var", "int", "if", "else", "import", "while"}

UpTo(n, C) == UNION {[1 .. k -> C] : k \in 0 .. n}
Join(parts) == FlattenSeq(parts)

Short == {s \in UpTo(3, {"x", "if", "1", ".", "-", ">", "=", "/", "#", "import", " ", "\n"}) :
            Cardinality({i \in DOMAIN s : s[i] = "#"}) < 2}

Soup ==
  {before \o s : before \in {<<>>, <<"{">>, <<"f", ":">>, <<"x", "=", "(">>},
                 s \in UpTo(3, {"x", "1", "-", "=", ":", ",", ";", "(", ")", "{", "}"})
                       \cup UpTo(4, {"x", "=", ":", ",", ";", ")", "}"})}

Ops == {<<"+">>, <<"-">>, <<"*">>, <<"/">>, <<"=", "=">>, <<"<">>, <<"&", "&">>, <<"|", "|">>}
x == <<"x">>
Chains   == {x \o a \o <<"1">> \o b \o x \o c \o <<"y">> : a, b, c \in Ops}
Operands == {x, <<"1", "2">>, <<"-", "1">>, <<"!", "x">>, <<"-", "!", "x">>, <<"(", "x", "-", "y", ")">>, <<"f", ":", ";">>,
             <<"f", ":", "1", ",", "x", "+", "y", ";">>, <<"f", ":", "x", "=", "1", ",", "y", "=", "-", "x", ";">>}
Pairs    == {a \o op \o b : a, b \in Operands, op \in {<<"-">>, <<"*">>, <<"!", "=">>}}
Assigned == {<<"y", "=">> \o e : e \in Chains \cup Pairs}

Stmts ==
  {<<"var", " ", "x", "=">> \o e : e \in Operands}
  \cup {<<"var", " ", "x", "-", ">", "int", "=", "1">>, <<"x", "=", "f", ":", "1", ";">>,
        <<"f", ":", "x", ";">>, <<"f", ":", ";">>}
Braced == {<<"{">> \o s \o <<"}">> : s \in {<<>>} \cup {s \in Stmts : Len(s) < 6}}
Ifs ==
  {<<"if", "(">> \o x \o <<")">> \o b \o e : b \in Braced,
     e \in {<<>>} \cup {<<"else">> \o b2 : b2 \in Braced}}
Nested == {<<"if", "(", "1", ")", "{">> \o i \o <<"}">> \o e : i \in {i \in Ifs : Len(i) < 12}, e \in {<<>>, <<"else", "{", "}">>}}
Two == {a \o <<" ">> \o b : a, b \in Stmts \cup {<<"if", "(", "x", ")", "{", "}">>}}

Odd == {<<"if", "(", "x", ")", "{", "}", "else", " ", "if", "(", "y", ")", "{", "}">>, <<"9", "9", "9">>, <<"x", "=", "9", "9">>, <<"#", "import", " ", "x", ":", ":", "y">>,
        <<"while", "(", "x", ")", "{", "x", "=", "1", "}">>}

MCTexts == Short \cup Soup \cup Assigned \cup Stmts \cup Ifs \cup Nested \cup Two \cup Odd
MCArguments == {<<t>> : t \in MCTexts} \cup {<<<<"x", "=", "1">>, <<"/", "/">>, <<"y", "=", "1">>>>, <<<<>>, x>>}
==============================================================================
