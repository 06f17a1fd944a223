SPECIFICATION Spec
CONSTANTS
  CHUNK_SIZE = 80
  HEADER = 16
  Regions <- MCRegions
  Requests <- MCRequests
INVARIANTS TypeOK Disjoint Tiled Accounting HalfFull WithinChunk
CHECK_DEADLOCK FALSE
