-------------------------------- MODULE Parser --------------------------------
(***************************************************************************)
(* The recursive-descent parser as a machine with an explicit stack: a     *)
(* frame is a call of a parse function that has not returned, with the     *)
(* nodes its locals hold; `ret' is the node a call has just returned.  A   *)
(* node's number is its turn in the arena.  A step runs a function up to   *)
(* the next call, return or turn of a loop.  `skipped' is history: the     *)
(* tokens that were passed over without a look.                            *)
(***************************************************************************)
EXTENDS Lexer

CONSTANT MAX_INT64     \* the largest literal std::stoll takes

ASSUME ParserAssumption == MAX_INT64 \in Nat

VARIABLES pos, nodes, frames, ret, skipped

parserVars == <<pos, nodes, frames, ret, skipped>>

NONE == "none"

\* The functions that parse binary operators, loosest first, and their operators.
Levels == <<"logical", "comparison", "additive", "multiplicative">>
Operators ==
  <<{"DOUBLE_AND", "DOUBLE_VBAR"}, {"EQEQ", "NOT_EQ", "GREATER", "LOWER"},
    {"PLUS", "MINUS"}, {"STAR", "SLASH"}>>

frame(fn, name, op) == [fn |-> fn, name |-> name, op |-> op, kids |-> <<>>]
call(fn)            == <<frame(fn, <<>>, NONE)>>
callWith(fn, name)  == <<frame(fn, name, NONE)>>

\* A call of the function of level k calls the next level's first.
parseFrom(k)    == [j \in 1 .. 5 - k |-> frame(Levels[k + j - 1], <<>>, NONE)]
parseExpression == parseFrom(1)

token(i) == IF i \in DOMAIN tokens THEN tokens[i] ELSE [type |-> "END_OF_FILE", content |-> <<>>]
is(t)    == token(pos).type = t
next(t)  == token(pos + 1).type = t

Top    == frames[Len(frames)]
Below  == SubSeq(frames, 1, Len(frames) - 1)
In(fn) == phase = "parsing" /\ Top.fn \in fn

(***************************************************************************)
(* What the steps are made of.                                             *)
(***************************************************************************)
\* The functions fs are called with the input at token p.
Enter(fs, p) == frames' = frames \o fs /\ pos' = p /\ UNCHANGED <<nodes, ret, phase>>
Call(fs, p)  == Enter(fs, p) /\ UNCHANGED skipped

\* The node returned becomes a local of its caller, now as top, which calls fs.
Keep(top, fs, p) ==
  /\ frames' = Append(Below, [top EXCEPT !.kids = Append(@, ret)]) \o fs
  /\ ret' = 0
  /\ pos' = p
  /\ UNCHANGED <<nodes, phase, skipped>>

\* allocateMemory and the constructor.
Allocate(type, name, op, number, kids) ==
  /\ nodes' = Append(nodes, [type |-> type, name |-> name, op |-> op, number |-> number, kids |-> kids])
  /\ ret' = Len(nodes) + 1
  /\ UNCHANGED skipped

Leaf(type, name, number) ==
  /\ Allocate(type, name, NONE, number, <<>>)
  /\ pos' = pos + 1
  /\ UNCHANGED <<frames, phase>>

\* The running function makes a node of its locals.
Build(type, p) ==
  /\ Allocate(type, Top.name, Top.op, 0, Top.kids \o IF ret = 0 THEN <<>> ELSE <<ret>>)
  /\ pos' = p

\* It returns.
Return == frames' = Below /\ UNCHANGED phase

\* It returns the node it was given.
Pass(p) == Return /\ pos' = p /\ UNCHANGED <<nodes, ret, skipped>>

\* An exception nothing catches.
Throw == phase' = "threw" /\ UNCHANGED parserVars

(***************************************************************************)
(* parseProgram and parseBlock: a loop over statements.                    *)
(***************************************************************************)
Statement == ret = 0 /\ In({"program", "block"})

\* Mutant of EndsInside: the end of the text is one more token to skip.
EndsInsideUnchecked == FALSE

EndsInside  == Top.fn = "block" /\ is("END_OF_FILE")
EndsBlock   == Top.fn = "block" /\ is("R_CURL_BRKT")
EndsProgram == Top.fn = "program" /\ is("END_OF_FILE")

BlockUnfinished == Statement /\ EndsInside /\ Throw

BlockDone == Statement /\ EndsBlock /\ Build("Block", pos + 1) /\ Return

ProgramDone ==
  Statement /\ EndsProgram /\ Build("Program", pos) /\ frames' = Below /\ phase' = "parsed"

NestedBlock == Statement /\ is("L_CURL_BRKT") /\ Call(call("block"), pos + 1)

\* Whatever token follows `->' is the type, and is dropped.
parseVarDecl ==
  LET typed == token(pos + 2).type = "ARR_RIGHT"
      eq    == pos + IF typed THEN 4 ELSE 2
  IN /\ Statement /\ is("VAR")
     /\ IF next("IDENT") /\ token(eq).type = "EQ"
        THEN /\ Enter(callWith("varDecl", token(pos + 1).content) \o parseExpression, eq + 1)
             /\ skipped' = IF typed THEN skipped \cup {pos + 3} ELSE skipped
        ELSE Throw

parseIfStmt ==
  /\ Statement /\ is("IF")
  /\ IF next("L_PAREN") THEN Call(call("if") \o parseExpression, pos + 2) ELSE Throw

\* advance() does not go beyond the end.
Skip ==
  /\ Statement
  /\ token(pos).type \notin {"VAR", "L_CURL_BRKT", "IF", "IDENT"}
  /\ ~EndsInside /\ ~EndsBlock /\ ~EndsProgram
  /\ pos' = IF pos \in DOMAIN tokens THEN pos + 1 ELSE pos
  /\ skipped' = skipped \cup {pos}
  /\ UNCHANGED <<nodes, frames, ret, phase>>

StatementKept == ret # 0 /\ In({"program", "block"}) /\ Keep(Top, <<>>, pos)

(***************************************************************************)
(* parseUnary and parsePrimary.                                            *)
(***************************************************************************)
Operand == ret = 0 /\ In({"unary", "multiplicative"})

\* Mutant of parseUnary: an operator after an operator makes no call.
parseUnaryOnce ==
  /\ Operand
  /\ \E op \in {"MINUS", "NOT"} :
       is(op) /\ Call(IF Top.fn = "unary" THEN <<>> ELSE <<frame("unary", <<>>, op)>>, pos + 1)

\* Mutant of parseUnary: the operator is not taken.
parseUnaryStays ==
  /\ Operand
  /\ \E op \in {"MINUS", "NOT"} : is(op) /\ Call(<<frame("unary", <<>>, op)>>, pos)

parseUnary ==
  /\ Operand
  /\ \E op \in {"MINUS", "NOT"} : is(op) /\ Call(<<frame("unary", <<>>, op)>>, pos + 1)

UnaryDone == ret # 0 /\ In({"unary"}) /\ Build("UnaryOp", pos) /\ Return

\* std::stoll reads the digits up to the point.
value(content) ==
  LET digit == [d \in Digits |-> CHOOSE n \in 0 .. 9 : ToString(n) = d]
      read[i \in Nat] ==
        IF i = 0 THEN 0
        ELSE IF content[i] \in Digits THEN 10 * read[i - 1] + digit[content[i]] ELSE read[i - 1]
      point == {i \in DOMAIN content : content[i] = "."}
  IN read[IF point = {} THEN Len(content) ELSE Min(point) - 1]

\* Mutant of Number: a literal of any size is taken.
NumberUnchecked ==
  /\ Operand /\ is("NUMBER")
  /\ Leaf("IntLiteral", <<>>, value(token(pos).content))

Number ==
  /\ Operand /\ is("NUMBER")
  /\ LET n == value(token(pos).content)
     IN IF n =< MAX_INT64 THEN Leaf("IntLiteral", <<>>, n) ELSE Throw

\* A statement begins here too.
Ident ==
  /\ Operand \/ Statement
  /\ is("IDENT")
  /\ LET name == token(pos).content
     IN IF next("COLON") THEN Call(callWith("call", name), pos + 2)
        ELSE IF next("EQ") THEN Call(callWith("assign", name) \o parseExpression, pos + 2)
        ELSE Leaf("Ident", name, 0)

Paren == Operand /\ is("L_PAREN") /\ Call(call("paren") \o parseExpression, pos + 1)

NoOperand ==
  /\ Operand
  /\ token(pos).type \notin {"MINUS", "NOT", "NUMBER", "IDENT", "L_PAREN"}
  /\ Throw

ParenDone ==
  /\ ret # 0 /\ In({"paren"})
  /\ IF is("R_PAREN") THEN Pass(pos + 1) ELSE Throw

AssignDone == ret # 0 /\ In({"assign"}) /\ Build("VarAssign", pos) /\ Return
DeclDone   == ret # 0 /\ In({"varDecl"}) /\ Build("VarDecl", pos) /\ Return

\* A comma may stand before the semicolon.
Argument ==
  /\ ret = 0 /\ In({"call"})
  /\ IF is("SEMICOLON") THEN Build("FuncCall", pos + 1) /\ Return ELSE Call(parseExpression, pos)

ArgumentKept ==
  /\ ret # 0 /\ In({"call"})
  /\ IF is("COMMA") THEN Keep(Top, <<>>, pos + 1) ELSE IF is("SEMICOLON") THEN Keep(Top, <<>>, pos) ELSE Throw

rightOperand(k) == k + 1

Operator ==
  \E k \in 1 .. 4 :
    /\ ret # 0 /\ In({Levels[k]}) /\ Top.op = NONE
    /\ token(pos).type \in Operators[k]
    /\ Keep([Top EXCEPT !.op = token(pos).type], parseFrom(rightOperand(k)), pos + 1)

\* Mutant of Combine: left is not replaced.
CombineKeepsLeft ==
  \E k \in 1 .. 4 :
    /\ ret # 0 /\ In({Levels[k]}) /\ Top.op # NONE
    /\ Build("BinaryOp", pos)
    /\ frames' = Append(Below, [Top EXCEPT !.op = NONE])
    /\ UNCHANGED phase

\* left becomes the operation of left and right.
Combine ==
  \E k \in 1 .. 4 :
    /\ ret # 0 /\ In({Levels[k]}) /\ Top.op # NONE
    /\ Build("BinaryOp", pos)
    /\ frames' = Below \o call(Levels[k])
    /\ UNCHANGED phase

LevelDone ==
  \E k \in 1 .. 4 :
    /\ ret # 0 /\ In({Levels[k]}) /\ Top.op = NONE
    /\ token(pos).type \notin Operators[k]
    /\ Pass(pos)

(***************************************************************************)
(* parseIfStmt after its condition, its block and its else block.          *)
(***************************************************************************)
IfCondition ==
  /\ ret # 0 /\ In({"if"}) /\ Top.kids = <<>>
  /\ IF is("R_PAREN") /\ next("L_CURL_BRKT") THEN Keep(Top, call("block"), pos + 2) ELSE Throw

IfElse ==
  /\ ret # 0 /\ In({"if"}) /\ Len(Top.kids) = 1 /\ is("ELSE")
  /\ IF next("L_CURL_BRKT") THEN Keep(Top, call("block"), pos + 2) ELSE Throw

IfDone ==
  /\ ret # 0 /\ In({"if"})
  /\ Len(Top.kids) = 2 \/ (Len(Top.kids) = 1 /\ ~is("ELSE"))
  /\ Build("If", pos) /\ Return

Parse ==
  \/ BlockUnfinished \/ BlockDone \/ ProgramDone \/ NestedBlock \/ parseVarDecl \/ parseIfStmt
  \/ Skip \/ StatementKept
  \/ parseUnary \/ UnaryDone \/ Number \/ Ident \/ Paren \/ NoOperand \/ ParenDone
  \/ AssignDone \/ DeclDone \/ Argument \/ ArgumentKept
  \/ Operator \/ Combine \/ LevelDone
  \/ IfCondition \/ IfElse \/ IfDone

ParserInit ==
  /\ pos = 1
  /\ nodes = <<>>
  /\ frames = call("program")
  /\ ret = 0
  /\ skipped = {}
==============================================================================
