-------------------------------- MODULE Lexer --------------------------------
(***************************************************************************)
(* The tokeniser.  A text is a sequence of pieces: a letter or a run of    *)
(* letters, a digit, or one other character; what matters about letters is *)
(* whether a whole word is a keyword, and no two pieces together are one.  *)
(* `spans' is history: the places of the text each token was made from.    *)
(***************************************************************************)
EXTENDS Integers, Sequences, FiniteSetsExt, TLC

CONSTANT Letters      \* the pieces that are letters

VARIABLES
  src, at,      \* Source: src and pos
  tokens, spans,
  phase         \* "lexing", "parsing", "parsed", "printed", "freed" or "threw"

Keyword ==
  [var |-> "VAR", array |-> "ARRAY", int |-> "INT", double |-> "FLOAT", boolean |-> "BOOL",
   char6 |-> "CHAR6", print |-> "PRINT", if |-> "IF", else |-> "ELSE", while |-> "WHILE",
   func |-> "FUNC", return |-> "RET"]

\* The function that a set of pairs is.
table(pairs) == [x \in {p[1] : p \in pairs} |-> (CHOOSE p \in pairs : p[1] = x)[2]]

OneCharacter == table(
  {<<"+", "PLUS">>, <<"-", "MINUS">>, <<"*", "STAR">>, <<"/", "SLASH">>, <<"=", "EQ">>, <<">", "GREATER">>,
   <<"<", "LOWER">>, <<":", "COLON">>, <<",", "COMMA">>, <<";", "SEMICOLON">>, <<"!", "NOT">>,
   <<"(", "L_PAREN">>, <<")", "R_PAREN">>, <<"[", "L_SQR_BRKT">>, <<"]", "R_SQR_BRKT">>,
   <<"{", "L_CURL_BRKT">>, <<"}", "R_CURL_BRKT">>})

TwoCharacters == table(
  {<<<<"-", ">">>, "ARR_RIGHT">>, <<<<"=", "=">>, "EQEQ">>, <<<<":", ":">>, "DOUBLECOLON">>,
   <<<<"!", "=">>, "NOT_EQ">>, <<<<"&", "&">>, "DOUBLE_AND">>, <<<<"|", "|">>, "DOUBLE_VBAR">>,
   <<<<"<", "=">>, "LOWER_EQ">>, <<<<">", "=">>, "GREATER_EQ">>})

values(f) == {f[x] : x \in DOMAIN f}
TokenType ==
  values(Keyword) \cup values(OneCharacter) \cup values(TwoCharacters)
  \cup {"IMPORT", "NUMBER", "IDENT", "UNKNOWN", "END_OF_FILE"}

Digits   == {"0", "1", "2", "3", "4", "5", "6", "7", "8", "9"}
Alnum    == Letters \cup Digits
Space    == {" ", "\n"}
NUL      == ""

\* No letter is another character that the tokeniser looks for.
ASSUME LettersAssumption ==
  Letters \cap (Digits \cup Space \cup {NUL, ".", "#", "/"} \cup {chars[1] : chars \in DOMAIN TwoCharacters}) = {}

peek(i) == IF i \in DOMAIN src THEN src[i] ELSE NUL

\* The first place from i on that holds no piece of class C.
past(i, C) == Min({j \in i .. Len(src) + 1 : peek(j) \notin C})

skipWhiteSpace[i \in Nat] ==
  IF peek(i) \in Space THEN skipWhiteSpace[i + 1]
  ELSE IF peek(i) = "/" /\ peek(i + 1) = "/"
  THEN skipWhiteSpace[past(i, values(src) \ {"\n"})]
  ELSE i

\* Mutant of numberEnd: a point belongs to the number whatever follows.
numberEndAtPoint(i) ==
  LET point == past(i, Digits) IN IF peek(point) = "." THEN past(point + 1, Digits) ELSE point

numberEnd(i) ==
  LET point == past(i, Digits)
  IN IF peek(point) = "." /\ peek(point + 1) \in Digits THEN past(point + 1, Digits) ELSE point

\* Where the word after '#' and the blanks behind it end.
directiveEnd(i) == skipWhiteSpace[past(i + 1, Letters)]

\* One token: its type, the pieces of its content, and where the next begins.
lexeme(type, from, to) == [type |-> type, content |-> SubSeq(src, from, to - 1), next |-> to]

\* The tokens nextToken can return at place i, which is no blank.  After '#' and
\* another word than import the type is never set: it is whatever was in memory.
nextToken(i) ==
  IF peek(i) = NUL THEN {lexeme("END_OF_FILE", i, i)}
  ELSE IF peek(i) \in Letters
  THEN LET to   == past(i, Alnum)
           word == SubSeq(src, i, to - 1)
       IN {lexeme(IF Len(word) = 1 /\ word[1] \in DOMAIN Keyword THEN Keyword[word[1]] ELSE "IDENT",
                  i, to)}
  ELSE IF peek(i) \in Digits THEN {lexeme("NUMBER", i, numberEnd(i))}
  ELSE IF peek(i) = "#"
  THEN LET word == SubSeq(src, i + 1, past(i + 1, Letters) - 1)
           from == directiveEnd(i)
       IN {lexeme(type, from, past(from, Letters)) :
             type \in IF word = <<"import">> THEN {"IMPORT"} ELSE TokenType}
  ELSE IF <<peek(i), peek(i + 1)>> \in DOMAIN TwoCharacters
  THEN {lexeme(TwoCharacters[<<peek(i), peek(i + 1)>>], i, i + 2)}
  ELSE {lexeme(IF peek(i) \in DOMAIN OneCharacter THEN OneCharacter[peek(i)] ELSE "UNKNOWN",
               i, i + 1)}

\* One turn of tokenize's loop.
Tokenize ==
  LET from == skipWhiteSpace[at]
  IN /\ phase = "lexing"
     /\ \E t \in nextToken(from) :
          /\ at' = t.next
          /\ IF t.type = "END_OF_FILE"
             THEN phase' = "parsing" /\ UNCHANGED <<tokens, spans>>
             ELSE /\ tokens' = Append(tokens, [type |-> t.type, content |-> t.content])
                  /\ spans' = Append(spans, [from |-> from, to |-> t.next])
                  /\ UNCHANGED phase
     /\ UNCHANGED src

LexerInit ==
  /\ at = 1
  /\ tokens = <<>> /\ spans = <<>>
  /\ phase = "lexing"
==============================================================================
