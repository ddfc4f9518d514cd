----------------------------- MODULE WriteIssue -----------------------------
(***************************************************************************)
(* The address half of the write side of axi_master.v, with its            *)
(* wburst_counter.v per processing unit: a unit is given a number of words *)
(* to write by a request of the memory controller; when enough of its      *)
(* words wait in its output buffer, one burst is issued on the AW channel. *)
(* The units are looked at in turn.  A step is one clock edge, IssueEdge   *)
(* outside reset and IssueReset under it.                                  *)
(*                                                                         *)
(* awlen and wburst_issued_len are BURST - 1 from the first request on,    *)
(* before AWVALID first rises, and are not variables.  Addresses are       *)
(* counted in bursts ('h80 bytes) from wr_addr.                            *)
(***************************************************************************)
EXTENDS Integers

CONSTANTS
  NUM_PU,        \* processing units on this master
  BURST,         \* C_M_AXI_WR_BURST_LEN, 16
  SIZES,         \* values of wr_req_size, in words
  SIZE_MOD,      \* 2^TX_SIZE_WIDTH
  COUNT_MOD,     \* 2^WBURST_COUNTER_LEN
  ADDR_MOD,      \* bound of the model: addresses are counted modulo this
  AWREADY_EDGES, \* edges between two changes of M_AXI_AWREADY, 21
  MaxWritten     \* bound of the model: words a unit has written and not issued

PU == 0 .. NUM_PU - 1

ASSUME WriteIssueAssumption ==
  /\ NUM_PU \in Nat \ {0}
  /\ BURST \in Nat \ {0}
  /\ SIZE_MOD \in Nat \ {0}
  /\ SIZES \subseteq 1 .. SIZE_MOD - 1
  /\ COUNT_MOD \in Nat \ {0}
  /\ ADDR_MOD \in Nat \ {0}
  /\ AWREADY_EDGES \in Nat \ {0}
  /\ MaxWritten \in Nat /\ BURST <= MaxWritten /\ MaxWritten < COUNT_MOD

VARIABLES
  M_AXI_AWREADY, count,  \* the local ready signal and its divider
  write_state, write_state_d,
  awvalid,
  awaddr_new,
  axi_wr_req_d,
  curr_wr_pu_id,         \* the unit being looked at
  wr_issued_pu_id,       \* the unit of the last accepted address
  wburst_issued,
  pu_writes_remaining,   \* per unit: words asked for and not issued
  pu_wr_flush, pu_wr_flush_sticky,
  write_count,           \* per unit: words written and not issued
  wbc_wburst_ready,      \* per unit: wburst_counter is in READY
  wr_ready,
  wr_pu_id               \* external: the unit of the controller's next request

ivars == <<M_AXI_AWREADY, count, write_state, write_state_d, awvalid, awaddr_new,
           axi_wr_req_d, curr_wr_pu_id, wr_issued_pu_id, wburst_issued,
           pu_writes_remaining, pu_wr_flush, pu_wr_flush_sticky, write_count,
           wbc_wburst_ready, wr_ready, wr_pu_id>>

-----------------------------------------------------------------------------
(* Wires. *)

pu_wr_ready(i) == pu_writes_remaining[i] = 0

pu_axi_wr_ready(i) ==
  ~pu_wr_ready(i) /\ (wbc_wburst_ready[i] \/ pu_wr_flush_sticky[i])

axi_wr_req == pu_axi_wr_ready(curr_wr_pu_id)

\* An address is accepted on this edge, by the local ready signal: the one of
\* the slave, M_AXI_AWREADY_W, is not looked at.
aw_accepted == awvalid /\ M_AXI_AWREADY

\* The length, minus 1, of the burst the waiting words are enough for.
wburst_len(i) ==
  IF write_count[i] >= BURST THEN BURST - 1
  ELSE IF write_count[i] # 0 THEN write_count[i] - 1
  ELSE 0

wr_flush(i) ==
  /\ pu_writes_remaining[i] < BURST
  /\ pu_writes_remaining[i] <= wburst_len(i) + 1
  /\ ~pu_wr_ready(i)

\* Seeded fault: the next unit is looked at as soon as an address is accepted.
check_next_pu_Early == aw_accepted \/ (write_state = 0 /\ ~axi_wr_req)

\* Seeded fault: a unit that has nothing to issue keeps the turn.
check_next_pu_OnlyAfterIssue == write_state = 3

check_next_pu == write_state = 3 \/ (write_state = 0 /\ ~axi_wr_req)

-----------------------------------------------------------------------------
(* Registers. *)

AwReady ==
  IF count = AWREADY_EDGES - 1
    THEN M_AXI_AWREADY' = ~M_AXI_AWREADY /\ count' = 0
    ELSE M_AXI_AWREADY' = M_AXI_AWREADY /\ count' = count + 1

WriteState ==
  /\ write_state' =
       IF write_state = 0 THEN (IF axi_wr_req_d /\ write_state_d # 3 THEN 1 ELSE 0)
       ELSE IF write_state = 1 THEN (IF aw_accepted THEN 2 ELSE 1)
       ELSE IF write_state = 2 THEN 3
       ELSE 0
  /\ write_state_d' = write_state

AwValid ==
  awvalid' =
    IF ~awvalid /\ write_state = 1 THEN TRUE
    ELSE IF M_AXI_AWREADY /\ awvalid THEN FALSE
    ELSE awvalid

\* The address is the controller's, except that it advances on every edge on
\* which a request meets a W channel at rest or at its last beat.
AwAddr(wr_req, wlast) ==
  awaddr_new' =
    IF wr_req /\ wlast THEN (awaddr_new + 1) % ADDR_MOD
    ELSE IF ~wr_req THEN 0
    ELSE awaddr_new

\* Seeded fault: the turn runs past the last unit.
CurrWrPuId_NoWrap ==
  curr_wr_pu_id' = IF check_next_pu THEN curr_wr_pu_id + 1 ELSE curr_wr_pu_id

CurrWrPuId ==
  curr_wr_pu_id' =
    IF ~check_next_pu THEN curr_wr_pu_id
    ELSE IF curr_wr_pu_id = NUM_PU - 1 THEN 0
    ELSE curr_wr_pu_id + 1

Issued ==
  /\ axi_wr_req_d' = axi_wr_req
  /\ wburst_issued' = (write_state = 1 /\ aw_accepted)
  /\ wr_issued_pu_id' = IF aw_accepted THEN curr_wr_pu_id ELSE wr_issued_pu_id

WritesRemaining(request) ==
  pu_writes_remaining' = [i \in PU |->
    IF request # 0 /\ wr_pu_id = i THEN request
    ELSE IF wburst_issued /\ wr_issued_pu_id = i
      THEN (pu_writes_remaining[i] - BURST) % SIZE_MOD
    ELSE pu_writes_remaining[i]]

Flush ==
  /\ pu_wr_flush' = [i \in PU |-> wr_flush(i)]
  /\ pu_wr_flush_sticky' = [i \in PU |->
       ~pu_wr_ready(i) /\ (pu_wr_flush[i] \/ pu_wr_flush_sticky[i])]

WriteCount(write_valid) ==
  write_count' = [i \in PU |->
    (write_count[i] + (IF i \in write_valid THEN 1 ELSE 0)
       - (IF wburst_issued /\ curr_wr_pu_id = i THEN BURST ELSE 0)) % COUNT_MOD]

\* Seeded fault: READY is not left by an issue.
WBurstReady_Stays ==
  wbc_wburst_ready' = [i \in PU |-> wbc_wburst_ready[i] \/ write_count[i] >= BURST]

WBurstReady ==
  wbc_wburst_ready' = [i \in PU |->
    IF wbc_wburst_ready[i] THEN ~(wburst_issued /\ curr_wr_pu_id = i)
    ELSE write_count[i] >= BURST]

\* Seeded fault: ready is not withdrawn on the edge of a request.
WrReady_NoGap(wr_req) == wr_ready' = pu_wr_ready(wr_pu_id)

WrReady(wr_req) == wr_ready' = (pu_wr_ready(wr_pu_id) /\ ~(wr_req /\ wr_ready))

\* The memory controller, external: a request moves it to the next unit.
NextRequest(wr_req) ==
  wr_pu_id' = IF wr_req THEN (wr_pu_id + 1) % NUM_PU ELSE wr_pu_id

-----------------------------------------------------------------------------

\* Out of a reset long enough for the registers without a reset branch to have
\* settled.
IssueInit ==
  /\ M_AXI_AWREADY = FALSE /\ count = 0
  /\ write_state = 0 /\ write_state_d = 0
  /\ awvalid = FALSE
  /\ awaddr_new = 0
  /\ axi_wr_req_d = FALSE
  /\ curr_wr_pu_id = 0 /\ wr_issued_pu_id = 0
  /\ wburst_issued = FALSE
  /\ pu_writes_remaining = [i \in PU |-> 0]
  /\ pu_wr_flush = [i \in PU |-> FALSE]
  /\ pu_wr_flush_sticky = [i \in PU |-> FALSE]
  /\ write_count = [i \in PU |-> 0]
  /\ wbc_wburst_ready = [i \in PU |-> FALSE]
  /\ wr_ready = TRUE
  /\ wr_pu_id = 0

\* One clock edge.  request is the wr_req_size of the controller's request, or 0
\* when wr_req is low; the units in write_valid write a word each into their
\* output buffers.
IssueEdge(request, write_valid, wlast) ==
  /\ AwReady
  /\ WriteState
  /\ AwValid
  /\ AwAddr(request # 0, wlast)
  /\ CurrWrPuId
  /\ Issued
  /\ WritesRemaining(request)
  /\ Flush
  /\ WriteCount(write_valid)
  /\ WBurstReady
  /\ WrReady(request # 0)
  /\ NextRequest(request # 0)

\* One edge under reset.  axi_wr_req_d, pu_wr_flush and wr_ready have no reset
\* branch: they still show what was there on the edge before.  The controller
\* goes back to the first unit.
IssueReset(wr_req) ==
  /\ M_AXI_AWREADY' = FALSE /\ count' = 0
  /\ write_state' = 0 /\ write_state_d' = 0
  /\ awvalid' = FALSE
  /\ awaddr_new' = 0
  /\ axi_wr_req_d' = axi_wr_req
  /\ curr_wr_pu_id' = 0 /\ wr_issued_pu_id' = 0
  /\ wburst_issued' = FALSE
  /\ pu_writes_remaining' = [i \in PU |-> 0]
  /\ pu_wr_flush' = [i \in PU |-> wr_flush(i)]
  /\ pu_wr_flush_sticky' = [i \in PU |-> FALSE]
  /\ write_count' = [i \in PU |-> 0]
  /\ wbc_wburst_ready' = [i \in PU |-> FALSE]
  /\ WrReady(wr_req)
  /\ wr_pu_id' = 0

-----------------------------------------------------------------------------
(* The address half alone, under any W channel. *)

\* The controller makes a request only while wr_ready is up.
Requests == {0} \cup (IF wr_ready THEN SIZES ELSE {})

\* The units that may write a word: within the bound of the model.
Writers == {i \in PU : write_count[i] < MaxWritten}

Next ==
  \E request \in Requests, write_valid \in SUBSET Writers, wlast \in BOOLEAN :
    IssueEdge(request, write_valid, wlast)

\* The clock runs.
Spec == IssueInit /\ [][Next]_ivars /\ WF_ivars(Next)

-----------------------------------------------------------------------------
(* Properties. *)

\* Every register holds a value of its width.
TypeOK ==
  /\ count \in 0 .. AWREADY_EDGES - 1
  /\ write_state \in 0 .. 3 /\ write_state_d \in 0 .. 3
  /\ awaddr_new \in 0 .. ADDR_MOD - 1
  /\ curr_wr_pu_id \in PU /\ wr_issued_pu_id \in PU /\ wr_pu_id \in PU
  /\ pu_writes_remaining \in [PU -> 0 .. SIZE_MOD - 1]
  /\ write_count \in [PU -> 0 .. COUNT_MOD - 1]
  /\ pu_wr_flush \in [PU -> BOOLEAN] /\ pu_wr_flush_sticky \in [PU -> BOOLEAN]
  /\ wbc_wburst_ready \in [PU -> BOOLEAN]
  /\ \A b \in {M_AXI_AWREADY, awvalid, axi_wr_req_d, wburst_issued, wr_ready} :
       b \in BOOLEAN

\* The two places that charge an issued burst to a unit, pu_writes_remaining
\* by wr_issued_pu_id and wburst_counter by curr_wr_pu_id, charge the same one.
ChargedOnce == wburst_issued => curr_wr_pu_id = wr_issued_pu_id

\* An address waiting for acceptance is that of a burst the unit was asked for
\* and whose words it has written.  pu_writes_remaining and write_count are
\* never charged for words that are not there.
IssueIsCovered ==
  (write_state = 1 \/ wburst_issued) =>
    /\ pu_writes_remaining[curr_wr_pu_id] >= BURST
    /\ write_count[curr_wr_pu_id] >= BURST

\* wr_ready, registered one edge before it is used, still speaks of the unit of
\* the next request: no request replaces one that is not finished.
ReadyIsCurrent == wr_ready => pu_wr_ready(wr_pu_id)

\* "Decrement counter when the current PU is read": the words still to be
\* issued become more only by a request.
CounterDecrements ==
  [][\A i \in PU : pu_writes_remaining'[i] > pu_writes_remaining[i]
                     => wr_ready /\ wr_pu_id = i]_ivars

\* "Next address after AWREADY indicates previous address acceptance".
NextAddressAfterAccept ==
  [][aw_accepted => awaddr_new' = (awaddr_new + 1) % ADDR_MOD]_ivars
=============================================================================
