SPECIFICATION FairHeapSpec
CONSTANTS
  LO = 1024
  MID = 1024
  STACK_SIZE = 1
  Regs = {r0}
  CodeAddrs <- OneAddr
  Points = {}
  Data = {}
  functionTable <- NoFunctions
  CHUNK_SIZE = 112
  Regions <- MCRegions
  Malloc <- MCMalloc
  max = 150
  Recycle = FALSE
  Lengths <- FarLengths
  Types <- IntTypes
  Indices <- InsideObject
  PointerElements = FALSE
  AnyOperand = TRUE
INVARIANTS RootsLive OnlyReachableSurvive SpaceDiscipline
PROPERTIES GcAdvances GcTerminates
CHECK_DEADLOCK FALSE
