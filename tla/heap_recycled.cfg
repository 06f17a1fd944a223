SPECIFICATION HeapSpec
CONSTANTS
  LO = 1024
  MID = 1024
  STACK_SIZE = 0
  Regs = {r0, r1}
  CodeAddrs <- OneAddr
  Points = {}
  Data <- IntTwo
  functionTable <- NoFunctions
  CHUNK_SIZE = 136
  Regions <- MCRegions
  Malloc <- MCMalloc
  max = 100
  Recycle = TRUE
  Lengths <- FarLengths
  Types <- IntTypes
  Indices <- InsideObject
  PointerElements = FALSE
  AnyOperand = FALSE
INVARIANT NeverWild
CHECK_DEADLOCK FALSE
