SPECIFICATION Spec
CONSTANTS
  NUM_PU = 2
  Setups <- MCSetups
  SEND_EDGES = 5
  NONE = NONE
INVARIANTS
  TypeOK
  ReadIsRight
  WriteIsRight
  ReadAfterWrite
  CountedIsWritten
PROPERTIES
  RunEnds
