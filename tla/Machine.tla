------------------------------- MODULE Machine -------------------------------
(***************************************************************************)
(* The VM on an assembled file: init, and the fetch/decode/execute loop as *)
(* far as it moves the instruction pointer.  Values, stack slots and the   *)
(* heap are left to SproutHeap: here an instruction that checks its        *)
(* operands may throw, cmp sets any flag, and call and ret keep the return *)
(* addresses in a list, which CallStackProofs shows the stack to be worth  *)
(* while programs keep to their own frames and to slots inside the stack.  *)
(* `did' is history: what the last instruction was.                        *)
(***************************************************************************)
EXTENDS Assembler

CONSTANTS
  Files,    \* files no assembler wrote
  DEPTH     \* bound: calls pending at once

VARIABLES
  vm,               \* "off", "running", "halted", "threw" or "wild"
  ip, jmpFlag,
  functionTable,
  returns,          \* saved IPs of the pending calls
  did

vmVars == <<vm, ip, jmpFlag, functionTable, returns, did>>

\* The four bytes from a lie in the file: fetch reads any such address.
Inside(a) == 0 =< a /\ a + 4 =< 4 * Len(image)

\* The word they make: between whole words, the tail of one and the head of the
\* next.
shift(n) == <<BYTE, BYTE * BYTE, BYTE * BYTE * BYTE>>[n]
between(w1, w2, n) == (w1 % shift(4 - n)) * shift(n) + w2 \div shift(4 - n)
word(a) ==
  LET k == a \div 4 + 1
  IN IF a % 4 = 0 THEN image[k] ELSE between(image[k], image[k + 1], a % 4)

Stop(how) ==
  /\ vm' = how
  /\ UNCHANGED <<ip, jmpFlag, functionTable, returns, did, asmVars>>

(***************************************************************************)
(* vm::init: loadHeader and loadFunctionTable.                             *)
(***************************************************************************)
functionCount  == word(16)
functionOffset == word(24)

GoodHeader ==
  /\ 4 * Len(image) >= HEADER_SIZE
  /\ word(0) = SPROUT_LANG_MAGIC
  /\ word(4) = SPROUT_LANG_VERSION

entryAt(i) == functionOffset + FUNC_ENTRY_SIZE * i

\* The loop has no bound of its own: it stops at the end of the file, after
\* the last function, or by writing past vm.functionTable.
\* fetchAtAddr asks for a word's first byte only, so the last word of a table
\* may be torn: part of it is past the end of the file.
entriesRead == 0 .. Min({functionCount - 1, FUNCTION_TABLE_SIZE})
Overflows   == functionCount > FUNCTION_TABLE_SIZE
GoodTable   == \A i \in entriesRead : entryAt(i) + 4 < 4 * Len(image)
Torn        == \E i \in entriesRead : ~Inside(entryAt(i) + 4)

\* Each entry's two words, the frame size cut to 16 bits.  The entries past
\* functionCount are those of a global VM: zero.
loadedTable ==
  [i \in 0 .. FUNCTION_TABLE_SIZE - 1 |->
     IF i < functionCount
     THEN [entryIP |-> word(entryAt(i)),
           frameSize |-> word(entryAt(i) + 4) % (BYTE * BYTE)]
     ELSE [entryIP |-> 0, frameSize |-> 0]]

Ready == vm = "off" /\ asm = "written"

RejectImage ==
  /\ Ready
  /\ ~(GoodHeader /\ GoodTable)
  /\ Stop("threw")

Load ==
  /\ Ready
  /\ GoodHeader
  /\ GoodTable
  /\ IF Overflows \/ Torn THEN Stop("wild")
     ELSE /\ functionTable' = loadedTable
          /\ ip' = word(28)
          /\ jmpFlag' = 2
          /\ vm' = "running"
          /\ UNCHANGED <<returns, did, asmVars>>

(***************************************************************************)
(* vm::run.  One instruction per step: fetch, decode, execute.             *)
(***************************************************************************)
Running == vm = "running"
instr   == word(ip)
opcode  == op(instr)
mnem    == Opcode[opcode + 1]

Fetched(mnems) ==
  Running /\ Inside(ip) /\ opcode < Len(Opcode) /\ mnem \in mnems

\* The instruction at ip was executed on these operands; go on at a.
Done(operands, a) ==
  /\ ip' = a
  /\ did' = [mnem |-> mnem, operands |-> operands]
  /\ UNCHANGED <<vm, functionTable, asmVars>>

Keep == UNCHANGED <<jmpFlag, returns>>

DataOps == {"push", "pop", "ins", "read", "mov", "arr", "arrins", "arrread", "dbgret"}
MathOps == {"add", "sub", "mul", "div"}

Execute ==
  /\ Fetched(DataOps \cup MathOps)
  /\ Done(<<ra(instr), rb(instr), rc(instr)>>, ip + 4)
  /\ Keep

\* Operands of the wrong type, a division trap, an index out of range, no
\* memory, a pointer mov cannot follow: the process dies, nothing catches it.
ThrowOps == MathOps \cup {"cmp", "mov", "arr", "arrins", "arrread"}
Throw    == Fetched(ThrowOps) /\ Stop("threw")

\* The flag is the difference of the operands.
CompareByDifference ==
  /\ Fetched({"cmp"})
  /\ jmpFlag' \in -3 .. 3
  /\ Done(<<ra(instr), rb(instr), rc(instr)>>, ip + 4)
  /\ UNCHANGED returns

\* 1 equal, -1 less, 2 greater, 0 neither
Compare ==
  /\ Fetched({"cmp"})
  /\ jmpFlag' \in {1, -1, 2, 0}
  /\ Done(<<ra(instr), rb(instr), rc(instr)>>, ip + 4)
  /\ UNCHANGED returns

\* fetch64
LoadIntoReg ==
  /\ Fetched({"load"})
  /\ IF Inside(ip + 8) THEN Done(<<ra(instr), word(ip + 4), word(ip + 8)>>, ip + 12) /\ Keep
     ELSE Stop("wild")

\* jg is any positive flag.
TakenBySign ==
  CASE mnem = "je"  -> jmpFlag = 1
    [] mnem = "jne" -> jmpFlag # 1
    [] mnem = "jl"  -> jmpFlag < 0
    [] mnem = "jg"  -> jmpFlag > 0

Taken ==
  CASE mnem = "je"  -> jmpFlag = 1
    [] mnem = "jne" -> jmpFlag # 1
    [] mnem = "jl"  -> jmpFlag = -1
    [] mnem = "jg"  -> jmpFlag = 2

Jump ==
  /\ Fetched(BRANCH_OPS)
  /\ Taken
  /\ IF Inside(ip + 4) THEN Done(<<>>, word(ip + 4)) /\ Keep ELSE Stop("wild")

\* The target is not skipped.
JumpNotIntoTarget ==
  /\ Fetched(BRANCH_OPS)
  /\ ~Taken
  /\ Done(<<>>, ip + 4)
  /\ Keep

JumpNot ==
  /\ Fetched(BRANCH_OPS)
  /\ ~Taken
  /\ Done(<<>>, ip + 8)
  /\ Keep

\* The saved IP is that of the next instruction: fetch has moved on.
Call ==
  LET index == (ra(instr) * BYTE + rb(instr)) * BYTE + rc(instr)
  IN /\ Fetched({"call"})
     /\ Len(returns) < DEPTH
     /\ IF index >= FUNCTION_TABLE_SIZE THEN Stop("wild")
        ELSE /\ returns' = Append(returns, ip + 4)
             /\ Done(<<index, functionTable[index].frameSize>>, functionTable[index].entryIP)
             /\ UNCHANGED jmpFlag

\* Without a pending call the links would be read below the stack.
Ret ==
  /\ Fetched({"ret"})
  /\ IF returns = <<>> THEN Stop("wild")
     ELSE /\ Done(<<>>, Last(returns))
          /\ returns' = Front(returns)
          /\ UNCHANGED jmpFlag

End == Fetched({"end"}) /\ Stop("halted")

InvalidOpcode == Running /\ Inside(ip) /\ opcode >= Len(Opcode) /\ Stop("threw")

RunsOff == Running /\ ~Inside(ip) /\ Stop("wild")

MachineInit ==
  /\ \/ AsmInit
     \/ /\ source = <<>> /\ pos = 1 /\ functions = <<>> /\ inFunc = FALSE
        /\ asm = "written" /\ image \in Files
  /\ vm = "off"
  /\ ip = 0
  /\ jmpFlag = 0
  /\ functionTable = <<>>
  /\ returns = <<>>
  /\ did = [mnem |-> "none", operands |-> <<>>]

Assemble == AsmNext /\ UNCHANGED vmVars

MachineNext ==
  \/ Assemble
  \/ RejectImage \/ Load
  \/ Execute \/ Throw \/ Compare \/ LoadIntoReg
  \/ Jump \/ JumpNot \/ Call \/ Ret \/ End \/ InvalidOpcode \/ RunsOff

MachineSpec == MachineInit /\ [][MachineNext]_<<asmVars, vmVars>>
==============================================================================
