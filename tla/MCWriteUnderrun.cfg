CONSTANTS
  PU = {p}
  BURST = 16
  REQ_BUF_DEPTH = 16
  WRITE_BUF_DEPTH = 32
  MARGIN = 8
  WordMod = 2
  MaxAhead = 4
  StallLimit = 100
SPECIFICATION Spec
INVARIANT DataBehindEveryBeat
