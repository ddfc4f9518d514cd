CONSTANTS
  NUM_PU = 2
  BURST = 2
  SIZES <- WholeBursts
  SIZE_MOD = 8
  COUNT_MOD = 8
  ADDR_MOD = 1
  AWREADY_EDGES = 1
  MaxWritten = 3
  REQ_BUF_DEPTH = 2
  WRITE_BUF_DEPTH = 14
  MARGIN = 8
  WordMod = 2
  OUTBUF_DEPTH = 4
  MaxRequests = 3
  RESET_EDGES = 3
SPECIFICATION WriteSpec
INVARIANTS BothTypeOK ChargedOnce IssueIsCovered ReadyIsCurrent DoneMeansSent PopFindsWord BeatIsRight
PROPERTY RequestEndsInDone
