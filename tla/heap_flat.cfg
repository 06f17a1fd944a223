SPECIFICATION TracedSpec
CONSTANTS
  LO = 1024
  MID = 1024
  STACK_SIZE = 1
  Regs = {r0, r1}
  CodeAddrs <- OneAddr
  Points = {}
  Data <- Ints
  functionTable <- NoFunctions
  CHUNK_SIZE = 112
  Regions <- ThreeRegions
  Malloc <- MCMalloc
  max = 150
  Recycle = FALSE
  Lengths <- OneLength
  Types <- IntTypes
  Indices <- InsideObject
  PointerElements = FALSE
  AnyOperand = FALSE
INVARIANTS TypeOK NeverWild ForwardingSound HeadersIntact
PROPERTY GraphSpec
SYMMETRY RegSymmetry
CHECK_DEADLOCK FALSE
