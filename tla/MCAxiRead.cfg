CONSTANTS
  BURST = 2
  WINDOW = 4
  SIZES = 8
  RD_BUF_DEPTH = 2
  MaxOutstanding = 2
  p0 = p0
  p1 = p1
  Pages <- MCPages
  Requests <- MCRequests
SPECIFICATION Spec
INVARIANTS TypeOK OneRequestAtATime BurstInPage
PROPERTIES ArStable ImplementsReadService ReadyAgain
