SPECIFICATION HeapSpec
CONSTANTS
  LO = 1024
  MID = 1024
  STACK_SIZE = 1
  Regs = {r0, r1}
  CodeAddrs <- OneAddr
  Points = {}
  Data <- Ints
  functionTable <- NoFunctions
  CHUNK_SIZE = 112
  Regions <- MCRegions
  Malloc <- MCMalloc
  max = 100
  Recycle = FALSE
  Lengths <- OneLength
  Types <- IntTypes
  Indices <- Valid
  PointerElements = FALSE
  AnyOperand = FALSE
INVARIANT HeadersIntact
CHECK_DEADLOCK FALSE
