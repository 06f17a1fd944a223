SPECIFICATION CompilerSpec
CONSTANTS
  Letters <- MCLetters
  MAX_INT64 = 50
  Arguments <- MCArguments
INVARIANTS TypeOK OneOwner MaximalMunch NothingLost 
PROPERTIES Shrinks Terminates
CHECK_DEADLOCK FALSE
