---------------------------- MODULE CallStackProps ---------------------------
(***************************************************************************)
(* Properties of the call stack, for programs that keep to their own frame *)
(* (SpecOwn).                                                              *)
(***************************************************************************)
EXTENDS CallStack

Frame == [base : Nat, ret : Nat, link : Nat]

\* The registers and slots hold words, the pointers are numbers, and the
\* history holds one record per pending call.
TypeOK ==
  /\ reg \in [Regs -> Word]
  /\ stack \in [Slots -> Word]
  /\ sp \in Nat
  /\ fp \in Nat
  /\ ip \in Nat
  /\ status \in {"running", "wild"}
  /\ frames \in Seq(Frame)

\* The saved FP and IP of every pending call are still in the two slots below
\* that call's frame: decode::push in call() put them there, and neither the
\* callee's pushes, its reserved locals nor any later call wrote over them.
SavedLinks ==
  \A i \in 1 .. Len(frames) :
    /\ frames[i].base \in 2 .. STACK_SIZE
    /\ stack[frames[i].base - 2] = raw64(frames[i].link)
    /\ stack[frames[i].base - 1] = raw64(frames[i].ret)

\* The saved FPs form one chain, from vm.fp down to the main program's fp 0,
\* and it descends by at least the two slots a call uses.
FpChain ==
  /\ fp = IF frames = <<>> THEN 0 ELSE frames[Len(frames)].base
  /\ \A i \in 1 .. Len(frames) :
       frames[i].link = IF i = 1 THEN 0 ELSE frames[i - 1].base
  /\ \A i \in 1 .. Len(frames) : frames[i].link + 2 =< frames[i].base

\* The flat stack implements the activation records of CallFrames: ret
\* resumes the matching call with the caller's sp and fp.
CallerView ==
  INSTANCE CallFrames WITH
    calls <- [i \in DOMAIN frames |->
                [ret |-> frames[i].ret, sp |-> frames[i].base - 2,
                 fp |-> frames[i].link]]

CallerSpec == CallerView!Spec
==============================================================================
