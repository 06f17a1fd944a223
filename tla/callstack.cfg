SPECIFICATION SpecOwn
CONSTANTS
  LO = 8
  MID = 2
  STACK_SIZE = 6
  Regs <- MCRegs
  CodeAddrs <- MCCodeAddrs
  Points <- MCPoints
  Data <- MCData
  functionTable <- MCFunctionTable
INVARIANTS TypeOK SavedLinks FpChain
PROPERTY CallerSpec
CHECK_DEADLOCK FALSE
