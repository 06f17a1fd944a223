SPECIFICATION MachineSpec
CONSTANTS
  BYTE = 128
  FUNCTION_TABLE_SIZE = 3
  DEPTH = 2
  Programs <- MCPrograms
  Names <- MCNames
  lower <- MCLower
  Files <- MCFiles
INVARIANTS TypeOK NeverInOperand BranchesStayInside
PROPERTY SourceSpec
CHECK_DEADLOCK FALSE
