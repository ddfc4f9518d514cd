------------------------------- MODULE AxiRead -------------------------------
(***************************************************************************)
(* The read side of axi_master.v: the request buffer rd_req_buf (a fifo.v, *)
(* modelled by the queue it implements), the remaining size rx_size, the   *)
(* address channel AR and the data channel R.  A step is one clock edge.   *)
(* The slave behind AR and R is external: it accepts a burst when it       *)
(* likes, up to MaxOutstanding of them, and returns their beats in order.  *)
(*                                                                         *)
(* Addresses and offsets are counted in beats of 8 bytes: 'h80 bytes are   *)
(* BURST beats, and the C_OFFSET_WIDTH low address bits WINDOW beats.      *)
(***************************************************************************)
EXTENDS Integers, Sequences

CONSTANTS
  BURST,          \* C_M_AXI_RD_BURST_LEN, 16
  WINDOW,         \* beats addressed by C_OFFSET_WIDTH bits, 128
  SIZES,          \* the values of a TX_SIZE_WIDTH-bit register, 2^10
  RD_BUF_DEPTH,   \* slots of rd_req_buf, 4
  Pages,          \* values of the address bits above the offset
  Requests,       \* what the controller may request: [page, off, left]
  MaxOutstanding  \* bursts the slave takes before it returns the first

ASSUME ReadAssumption ==
  /\ BURST \in Nat \ {0}
  /\ WINDOW \in Nat /\ BURST <= WINDOW
  /\ SIZES \in Nat /\ BURST < SIZES
  /\ RD_BUF_DEPTH \in Nat \ {0}
  /\ MaxOutstanding \in Nat \ {0}
  /\ Requests \subseteq [page : Pages, off : 0 .. WINDOW - 1, left : 0 .. SIZES - 1]

VARIABLES
  reset,               \* input
  rd_req,              \* input: the controller's request as a sequence, or <<>>
  rd_req_buf,          \* the requests in rd_req_buf
  rd_req_buf_data_out, \* its output register: rx_req_size_buf and rx_addr_buf
  rd_req_buf_pop_d,
  rx_size,             \* beats of the current request still to be asked for
  arvalid,
  araddr_offset,
  slave                \* external: bursts accepted, with the beats still owed

vars == <<reset, rd_req, rd_req_buf, rd_req_buf_data_out, rd_req_buf_pop_d, rx_size, arvalid,
          araddr_offset, slave>>

RequestBuffer == INSTANCE BoundedQueue
                   WITH Capacity <- RD_BUF_DEPTH, Data <- Requests,
                        q <- rd_req_buf, out <- rd_req_buf_data_out

\* Arithmetic of a TX_SIZE_WIDTH-bit register.
WrapSize(n) == IF n < 0 THEN n + SIZES ELSE IF n >= SIZES THEN n - SIZES ELSE n

\* Seeded fault: the offset has a bit too many.
WrapOffset_Wide(n) == n

\* Arithmetic of the C_OFFSET_WIDTH-bit offset.
WrapOffset(n) == IF n >= WINDOW THEN n - WINDOW ELSE n

-----------------------------------------------------------------------------
(* Wires. *)

rd_ready == Len(rd_req_buf) # RD_BUF_DEPTH

\* Seeded fault: the pop does not wait for the size popped last to be loaded.
rd_req_buf_pop_NoDelay == rx_size = 0 /\ rd_req_buf # <<>>

rd_req_buf_pop == rx_size = 0 /\ rd_req_buf # <<>> /\ ~rd_req_buf_pop_d

\* Seeded fault: a burst is as long as what is left.
arlen_NoCap == IF rx_size # 0 THEN rx_size - 1 ELSE 0

\* ARLEN: the beats of the burst, minus 1.
arlen ==
  IF rx_size >= BURST THEN BURST - 1
  ELSE IF rx_size # 0 THEN rx_size - 1
  ELSE 0

\* ARADDR and ARLEN as the slave sees them.
Burst == [page |-> rd_req_buf_data_out.page,
          off  |-> araddr_offset,
          left |-> arlen + 1]

-----------------------------------------------------------------------------
(* The registers, outside reset. *)

RxSize(arready) ==
  rx_size' =
    IF rd_req_buf_pop_d THEN WrapSize(rx_size + rd_req_buf_data_out.left)
    ELSE IF arvalid /\ arready THEN WrapSize(rx_size - arlen - 1)
    ELSE rx_size

\* Seeded fault: ARVALID is dropped without waiting for ARREADY.
ArValid_NoHold(arready) ==
  arvalid' = (~arvalid /\ rx_size # 0)

\* Seeded fault: ARVALID is raised only for a full burst.
ArValid_FullBurstOnly(arready) ==
  arvalid' =
    IF arvalid /\ arready THEN FALSE
    ELSE IF rx_size >= BURST THEN TRUE
    ELSE arvalid

ArValid(arready) ==
  arvalid' =
    IF arvalid /\ arready THEN FALSE
    ELSE IF rx_size # 0 THEN TRUE
    ELSE arvalid

\* Seeded fault: the offset of a new request does not replace the old one.
ArAddrOffset_NoReload(arready) ==
  araddr_offset' =
    IF arvalid /\ arready THEN WrapOffset(araddr_offset + BURST)
    ELSE araddr_offset

ArAddrOffset(arready) ==
  araddr_offset' =
    IF rd_req_buf_pop_d THEN rd_req_buf_data_out.off
    ELSE IF arvalid /\ arready THEN WrapOffset(araddr_offset + BURST)
    ELSE araddr_offset

-----------------------------------------------------------------------------
(* The slave, external. *)

\* It may answer a burst it has accepted with a beat; the beat is transferred
\* when the input buffer is not full (M_AXI_RREADY).
Slave(arready, rvalid, inbuf_full) ==
  LET owed  == IF ~(rvalid /\ ~inbuf_full) THEN slave
               ELSE IF Head(slave).left = 1 THEN Tail(slave)
               ELSE [slave EXCEPT ![1].left = @ - 1]
  IN  /\ rvalid => slave # <<>>
      /\ arready => Len(slave) < MaxOutstanding
      /\ slave' = IF arvalid /\ arready THEN Append(owed, Burst) ELSE owed

-----------------------------------------------------------------------------

\* The inputs of the controller are free on every edge.
Inputs == {<<>>} \cup {<<r>> : r \in Requests}

\* Power-up, held in reset; the output register of rd_req_buf has no reset.
Init ==
  /\ reset = TRUE
  /\ rd_req \in Inputs
  /\ RequestBuffer!Init
  /\ rd_req_buf_pop_d = FALSE
  /\ rx_size = 0
  /\ arvalid = FALSE
  /\ araddr_offset = 0
  /\ slave = <<>>

\* A clock edge in reset.  The slave is in the processing system, which this
\* reset does not reach: it keeps the bursts it owes, may take the burst still
\* offered on this edge, and returns beats that are not pushed (rnext).
Reset(arready, rvalid, inbuf_full) ==
  /\ reset
  /\ RequestBuffer!Reset(rd_req_buf_pop)
  /\ rd_req_buf_pop_d' = FALSE
  /\ rx_size' = 0
  /\ arvalid' = FALSE
  /\ araddr_offset' = 0
  /\ Slave(arready, rvalid, inbuf_full)

\* The request buffer on an edge outside reset; it takes no request when full.
BufferEdge ==
  IF rd_req = <<>>
    THEN RequestBuffer!Edge(FALSE, rd_req_buf_pop, rd_req_buf_data_out)
    ELSE RequestBuffer!Edge(TRUE, rd_req_buf_pop, rd_req[1])

\* A clock edge outside reset.
Clock(arready, rvalid, inbuf_full) ==
  /\ ~reset
  /\ BufferEdge
  /\ rd_req_buf_pop_d' = rd_req_buf_pop
  /\ RxSize(arready)
  /\ ArValid(arready)
  /\ ArAddrOffset(arready)
  /\ Slave(arready, rvalid, inbuf_full)

Edge(arready, rvalid, inbuf_full) ==
  /\ reset' \in BOOLEAN /\ rd_req' \in Inputs
  /\ Reset(arready, rvalid, inbuf_full) \/ Clock(arready, rvalid, inbuf_full)

Next ==
  \E arready, rvalid, inbuf_full \in BOOLEAN : Edge(arready, rvalid, inbuf_full)

\* A clock edge on which the slave is ready for an address on offer.
AddressEdge ==
  \E rvalid, inbuf_full \in BOOLEAN : arvalid /\ Edge(TRUE, rvalid, inbuf_full)

\* A clock edge on which a beat moves into the input buffer.
BeatEdge == \E arready \in BOOLEAN : Edge(arready, TRUE, FALSE)

\* The clock runs, the slave accepts an address that stays offered once it can,
\* it returns the beats it owes, and the input buffer does not stay full.
Fairness == WF_vars(Next) /\ WF_vars(AddressEdge) /\ WF_vars(BeatEdge)

Spec == Init /\ [][Next]_vars /\ Fairness

-----------------------------------------------------------------------------
(* Properties. *)

\* Every register holds a value of its width.
TypeOK ==
  /\ reset \in BOOLEAN /\ rd_req \in Inputs
  /\ rd_req_buf \in Seq(Requests) /\ Len(rd_req_buf) <= RD_BUF_DEPTH
  /\ rd_req_buf_data_out \in Requests
  /\ rd_req_buf_pop_d \in BOOLEAN
  /\ rx_size \in 0 .. SIZES - 1
  /\ arvalid \in BOOLEAN
  /\ araddr_offset \in 0 .. WINDOW - 1
  /\ slave \in Seq([page : Pages, off : 0 .. WINDOW - 1, left : 1 .. BURST])

\* One request is in progress at a time: while ARVALID is high beats remain to
\* be asked for and no pop is under way, and a popped size is added to an empty
\* rx_size.  ARADDR is taken from the output register of rd_req_buf and ARLEN
\* from rx_size, so a pop or a load during a request would change the burst on
\* offer or merge two requests.
OneRequestAtATime ==
  /\ arvalid => rx_size # 0 /\ ~rd_req_buf_pop_d
  /\ rd_req_buf_pop_d => rx_size = 0

\* AXI: a burst on offer stays on offer, with the same address and length,
\* until the slave takes it or reset withdraws it.
ArStable ==
  [][arvalid => \/ arvalid' /\ Burst' = Burst
                \/ slave' # <<>> /\ slave'[Len(slave')] = Burst
                \/ reset]_vars

\* A burst does not run past the end of its page, where the offset would have
\* to wrap inside the burst (requests start at a multiple of BURST).
BurstInPage == arvalid => araddr_offset + arlen + 1 <= WINDOW

\* The requests not completely issued, oldest first: the one in progress, just
\* popped or partly issued, then those in the buffer.
Pending ==
  LET current ==
        IF rd_req_buf_pop_d THEN <<rd_req_buf_data_out>>
        ELSE IF rx_size # 0
          THEN <<[rd_req_buf_data_out EXCEPT !.off = araddr_offset, !.left = rx_size]>>
        ELSE <<>>
  IN  current \o rd_req_buf

Service == INSTANCE ReadService WITH pending <- Pending

\* The request taken on an edge: one made while rd_ready is low is lost.
Taken == IF rd_ready THEN rd_req ELSE <<>>

\* Every taken request becomes consecutive bursts, in the order of the requests,
\* that together ask for exactly its beats; none is lost, repeated or mixed with
\* another, whenever rd_req, ARREADY and RVALID come.
ImplementsReadService == Service!Init /\ [][Service!Step(reset, Taken)]_vars

\* A controller that waits for rd_ready does not wait for ever: every request
\* in front of its own is issued in the end.
ReadyAgain == ~rd_ready ~> rd_ready
=============================================================================
