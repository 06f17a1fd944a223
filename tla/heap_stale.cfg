SPECIFICATION HeapSpec
CONSTANTS
  LO = 1024
  MID = 1024
  STACK_SIZE = 3
  Regs = {r0}
  CodeAddrs <- OneAddr
  Points = {}
  Data <- Ints
  functionTable <- OneLocal
  CHUNK_SIZE = 112
  Regions <- MCRegions
  Malloc <- MCMalloc
  max = 100
  Recycle = FALSE
  Lengths <- OneLength
  Types <- IntTypes
  Indices <- InsideObject
  PointerElements = FALSE
  AnyOperand = FALSE
INVARIANT RootsLive
CHECK_DEADLOCK FALSE
