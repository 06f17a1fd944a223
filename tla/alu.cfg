SPECIFICATION AluSpec
CONSTANTS
  LO = 2
  MID = 8
  Regs = {1, 2}
  Arrays = {5}
  Floats <- MCFloats
  Literals <- MCLiterals
INVARIANTS TypeOK NoForgery
PROPERTY TypedSpec
CHECK_DEADLOCK FALSE
