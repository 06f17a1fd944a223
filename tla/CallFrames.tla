----------------------------- MODULE CallFrames ------------------------------
(***************************************************************************)
(* What `call' and `ret' promise a program: activation records that nobody *)
(* but call and ret can touch.  A return resumes the caller right after    *)
(* the call, with the stack pointer and frame pointer it had before it,    *)
(* whatever the callee pushed and left behind.                             *)
(***************************************************************************)
EXTENDS Naturals, Sequences

VARIABLES ip, sp, fp, calls    \* calls: [ret, sp, fp] of each caller

vars == <<ip, sp, fp, calls>>

Init ==
  /\ ip \in Nat
  /\ sp = 0
  /\ fp = 0
  /\ calls = <<>>

\* The running function moves on, within its own frame.
Local ==
  /\ ip' \in Nat
  /\ sp' \in Nat
  /\ sp' >= fp
  /\ UNCHANGED <<fp, calls>>

Enter ==
  /\ ip' \in Nat
  /\ calls' = Append(calls, [ret |-> ip, sp |-> sp, fp |-> fp])
  /\ fp' > sp
  /\ sp' >= fp'

Leave ==
  /\ calls # <<>>
  /\ LET caller == calls[Len(calls)]
     IN ip' = caller.ret /\ sp' = caller.sp /\ fp' = caller.fp
  /\ calls' = SubSeq(calls, 1, Len(calls) - 1)

Next == Local \/ Enter \/ Leave

Spec == Init /\ [][Next]_vars
==============================================================================
