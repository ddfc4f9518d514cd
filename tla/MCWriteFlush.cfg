CONSTANTS
  NUM_PU = 1
  BURST = 2
  SIZES <- PartBursts
  SIZE_MOD = 8
  COUNT_MOD = 8
  ADDR_MOD = 2
  AWREADY_EDGES = 2
  MaxWritten = 4
SPECIFICATION Spec

PROPERTY CounterDecrements
