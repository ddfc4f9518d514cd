CONSTANTS
  PU = {p}
  BURST = 3
  REQ_BUF_DEPTH = 4
  WRITE_BUF_DEPTH = 8
  MARGIN = 4
  WordMod = 2
  MaxAhead = 5
  StallLimit = 100
SPECIFICATION ResetSpec
INVARIANTS TypeOK WordFindsRoom
