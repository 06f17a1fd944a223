------------------------------ MODULE CallStack ------------------------------
(***************************************************************************)
(* The VM's value stack and its call convention: push and pop, the         *)
(* absolute slot accesses `ins' and `read', call and ret.  One action per  *)
(* instruction.  The code checks no index: an access outside stack[] is    *)
(* undefined behaviour, after which nothing is claimed (status "wild").    *)
(*                                                                         *)
(* Instructions that touch neither registers nor stack only move ip; any   *)
(* run of them is one Goto.                                                *)
(***************************************************************************)
EXTENDS Words, Sequences, FiniteSets

CONSTANTS
  Regs,            \* register numbers
  STACK_SIZE,      \* slots of vm.stack
  functionTable,   \* function index -> [entryIP, frameSize]
  CodeAddrs,       \* code addresses
  Points,          \* operands of ins and read
  Data             \* the words a program loads into registers

ASSUME CallStackAssumption ==
  /\ STACK_SIZE \in Nat
  /\ CodeAddrs \subseteq 0 .. MID * LO - 1
  /\ Points \subseteq Nat
  /\ Data \subseteq Word
  /\ STACK_SIZE < MID * LO
  /\ \A f \in DOMAIN functionTable :
       functionTable[f] \in [entryIP : CodeAddrs, frameSize : Nat]

VARIABLES reg, stack, sp, fp, ip, status

VARIABLE frames    \* history: [base, ret, link] of each call not yet returned

stackVars == <<reg, stack, sp, fp, ip, status, frames>>

Slots   == 0 .. STACK_SIZE - 1
Running == status = "running"
Wild    == status' = "wild" /\ UNCHANGED <<reg, stack, sp, fp, ip, frames>>

\* The slots S are accessed, then A happens; outside stack[] anything may.
Accessing(S, A) ==
  /\ Running
  /\ \/ S \subseteq Slots /\ A /\ UNCHANGED status
     \/ ~(S \subseteq Slots) /\ Wild

Push(r) ==
  Accessing({sp},
    /\ stack' = [stack EXCEPT ![sp] = reg[r]]
    /\ sp' = sp + 1
    /\ UNCHANGED <<reg, fp, ip, frames>>)

Pop(r) ==
  Accessing({sp - 1},
    /\ reg' = [reg EXCEPT ![r] = stack[sp - 1]]
    /\ sp' = sp - 1
    /\ UNCHANGED <<stack, fp, ip, frames>>)

InsertIntoStack(p, r) ==
  Accessing({p},
    /\ stack' = [stack EXCEPT ![p] = reg[r]]
    /\ UNCHANGED <<reg, sp, fp, ip, frames>>)

ReadFromStack(p, r) ==
  Accessing({p},
    /\ reg' = [reg EXCEPT ![r] = stack[p]]
    /\ UNCHANGED <<stack, sp, fp, ip, frames>>)

\* Mutant of Call: the two links are pushed in the other order.
CallSwapsLinks(f) ==
  Accessing({sp, sp + 1},
    /\ stack' = [stack EXCEPT ![sp] = raw64(ip), ![sp + 1] = raw64(fp)]
    /\ fp' = sp + 2
    /\ sp' = sp + 2 + functionTable[f].frameSize
    /\ ip' = functionTable[f].entryIP
    /\ frames' = Append(frames, [base |-> sp + 2, ret |-> ip, link |-> fp])
    /\ UNCHANGED reg)

\* Mutant of Call: fp is set before the links are pushed.
CallSetsFpFirst(f) ==
  Accessing({sp, sp + 1},
    /\ stack' = [stack EXCEPT ![sp] = raw64(fp), ![sp + 1] = raw64(ip)]
    /\ fp' = sp
    /\ sp' = sp + 2 + functionTable[f].frameSize
    /\ ip' = functionTable[f].entryIP
    /\ frames' = Append(frames, [base |-> sp + 2, ret |-> ip, link |-> fp])
    /\ UNCHANGED reg)

\* push(fp), push(ip), fp = sp, sp += frameSize: the reserved slots are
\* neither checked against the stack nor cleared.
Call(f) ==
  Accessing({sp, sp + 1},
    /\ stack' = [stack EXCEPT ![sp] = raw64(fp), ![sp + 1] = raw64(ip)]
    /\ fp' = sp + 2
    /\ sp' = sp + 2 + functionTable[f].frameSize
    /\ ip' = functionTable[f].entryIP
    /\ frames' = Append(frames, [base |-> sp + 2, ret |-> ip, link |-> fp])
    /\ UNCHANGED reg)

\* Mutant of Ret: sp is not set back to fp first.
RetFromTop ==
  Accessing({sp - 1, sp - 2},
    /\ sp' = sp - 2
    /\ ip' = asU64(stack[sp - 1])
    /\ fp' = asU64(stack[sp - 2])
    /\ frames' = IF frames = <<>> THEN <<>>
                 ELSE SubSeq(frames, 1, Len(frames) - 1)
    /\ UNCHANGED <<reg, stack>>)

\* Mutant of Ret: the saved fp is taken for the address of the links, not of
\* the slot after them.
RetFpBelowLinks ==
  Accessing({fp - 1, fp - 2},
    /\ sp' = fp - 2
    /\ ip' = asU64(stack[fp - 1])
    /\ fp' = asU64(stack[fp - 2]) - 2
    /\ frames' = IF frames = <<>> THEN <<>>
                 ELSE SubSeq(frames, 1, Len(frames) - 1)
    /\ UNCHANGED <<reg, stack>>)

\* sp = fp, ip = pop(), fp = pop()
Ret ==
  Accessing({fp - 1, fp - 2},
    /\ sp' = fp - 2
    /\ ip' = asU64(stack[fp - 1])
    /\ fp' = asU64(stack[fp - 2])
    /\ frames' = IF frames = <<>> THEN <<>>
                 ELSE SubSeq(frames, 1, Len(frames) - 1)
    /\ UNCHANGED <<reg, stack>>)

Load(r, w) ==
  /\ Running
  /\ reg' = [reg EXCEPT ![r] = w]
  /\ UNCHANGED <<stack, sp, fp, ip, status, frames>>

\* mov with flag 0
Mov(dst, src) ==
  /\ Running
  /\ reg' = [reg EXCEPT ![dst] = reg[src]]
  /\ UNCHANGED <<stack, sp, fp, ip, status, frames>>

Goto(a) ==
  /\ Running
  /\ ip' = a
  /\ UNCHANGED <<reg, stack, sp, fp, status, frames>>

Init ==
  /\ reg = [r \in Regs |-> ZERO]
  /\ stack = [i \in Slots |-> ZERO]
  /\ sp = 0
  /\ fp = 0
  /\ ip \in CodeAddrs
  /\ status = "running"
  /\ frames = <<>>

Next ==
  \/ \E r \in Regs :
       \/ Push(r)
       \/ Pop(r)
       \/ \E p \in Points : InsertIntoStack(p, r)
       \/ \E p \in Points : ReadFromStack(p, r)
       \/ \E w \in Data : Load(r, w)
       \/ \E s \in Regs : Mov(r, s)
  \/ \E f \in DOMAIN functionTable : Call(f)
  \/ Ret
  \/ \E a \in CodeAddrs : Goto(a)

Spec == Init /\ [][Next]_stackVars

(***************************************************************************)
(* A program that keeps to its own frame: it never pops below fp and never *)
(* writes a slot below fp.  Saved links live there, and the VM relies on   *)
(* the program for it.                                                     *)
(***************************************************************************)
OwnFrame ==
  /\ sp' >= fp'
  /\ \A i \in Slots : stack'[i] # stack[i] => i >= fp

SpecOwn == Init /\ [][Next /\ OwnFrame]_stackVars
==============================================================================
