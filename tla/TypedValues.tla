----------------------------- MODULE TypedValues -----------------------------
(***************************************************************************)
(* What registers and arithmetic promise, with no word in sight: values    *)
(* have a type, an operation takes two of one type, integers are exact up  *)
(* to a multiple of 2^48, conditions follow the order, a number or a text  *)
(* printed is the value, and only an allocation makes a pointer.  A value  *)
(* of type "none" is of no use to any instruction: null, an infinity, no   *)
(* number.  Nothing is promised of movs through a register and of printing *)
(* other values, of which the code does not do what its README says.       *)
(***************************************************************************)
EXTENDS Integers

CONSTANTS
  Regs, Literals,
  Arrays,          \* addresses of arrays
  FULL,            \* 2^48
  TOO_BIG          \* the place of infinity in the order of doubles

VARIABLES val, flag, state, out

vars == <<val, flag, state, out>>

typed(t, n) == [type |-> t, n |-> n]
None        == typed("none", 0)

magnitude(n) == IF n < 0 THEN -n ELSE n
Finite(n)    == magnitude(n) < TOO_BIG

\* v is the 48-bit integer that stands for n.
Wraps(v, n) ==
  v.type = "int" /\ -FULL =< 2 * v.n /\ 2 * v.n < FULL /\ (v.n - n) % FULL = 0

\* q is m / n without its fraction.
Truncates(m, n, q) ==
  LET rest == m - q * n
  IN magnitude(rest) < magnitude(n) /\ (m < 0 => rest =< 0) /\ (m > 0 => rest >= 0)

Computes(op, m, n, v) ==
  CASE op = "add" -> Wraps(v, m + n)
    [] op = "sub" -> Wraps(v, m - n)
    [] op = "mul" -> Wraps(v, m * n)
    [] op = "div" -> \E q \in -magnitude(m) .. magnitude(m) : Truncates(m, n, q) /\ Wraps(v, q)

Running  == state = "running"
Types(a, b, t) == val[a].type = t /\ val[b].type = t
\* At most register r changes.
Only(r) == /\ \A s \in Regs \ {r} : val'[s] = val[s]
           /\ out' = None
           /\ UNCHANGED <<flag, state>>

Load(r, l) ==
  /\ Running
  /\ Only(r)
  /\ CASE l.type = "int"    -> Wraps(val'[r], l.n)
       [] l.type = "double" -> val'[r] = IF Finite(l.n) THEN l ELSE None
       [] l.type = "null"   -> val'[r] = None
       [] OTHER             -> val'[r] = l

Copy(d, s) == Running /\ Only(d) /\ val'[d] = val[s]

NewArray(r) == Running /\ Only(r) /\ \E a \in Arrays : val'[r] = typed("pointer", a)

\* Without a result the operation is an error.
ByZero(op, a, b) == Types(a, b, "int") /\ op = "div" /\ val[b].n = 0

Compute(op, d, a, b) ==
  /\ Running
  /\ Only(d)
  /\ \/ Types(a, b, "int") /\ ~ByZero(op, a, b) /\ Computes(op, val[a].n, val[b].n, val'[d])
     \/ /\ Types(a, b, "double")
        /\ \/ val'[d] = None
           \/ val'[d].type = "double" /\ Finite(val'[d].n) /\ (op = "div" => val[b].n # 0)

Compare(a, b) ==
  /\ Running
  /\ \/ /\ Types(a, b, "int") \/ Types(a, b, "double")
        /\ flag' = CASE val[a].n = val[b].n -> "EQ"
                     [] val[a].n < val[b].n -> "LT"
                     [] val[a].n > val[b].n -> "GT"
     \/ /\ Types(a, b, "boolean")
        /\ flag' = IF val[a].n = val[b].n THEN "EQ" ELSE "NE"
  /\ out' = None
  /\ UNCHANGED <<val, state>>

Fail(a, b) ==
  /\ Running
  /\ \/ \A t \in {"int", "double"} : ~Types(a, b, t)
     \/ ByZero("div", a, b)
  /\ state' = "failed"
  /\ out' = None
  /\ UNCHANGED <<val, flag>>

\* A mov through a register: no promise, the program may end in any way.
Follow ==
  /\ Running
  /\ state' \in {"faulted", "wild"}
  /\ out' = None
  /\ UNCHANGED <<val, flag>>

Show(r) ==
  /\ Running
  /\ out' = val[r] \/ (val[r].type \notin {"int", "double", "char6"} /\ out' = None)
  /\ state' \in {"running", "halted"}
  /\ UNCHANGED <<val, flag>>

Init ==
  /\ val = [r \in Regs |-> typed("double", 0)]
  /\ flag = "GT"
  /\ state = "running"
  /\ out = None

Next ==
  \/ \E r \in Regs : (\E l \in Literals : Load(r, l)) \/ NewArray(r) \/ Show(r)
  \/ \E a, b \in Regs : Copy(a, b) \/ Compare(a, b) \/ Fail(a, b)
  \/ Follow
  \/ \E op \in {"add", "sub", "mul", "div"}, d, a, b \in Regs : Compute(op, d, a, b)

Spec == Init /\ [][Next]_vars
==============================================================================
