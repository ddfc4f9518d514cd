------------------------------ MODULE AxiWrite ------------------------------
(***************************************************************************)
(* The write side of axi_master.v: the address half of WriteIssue and the  *)
(* data half of WriteData on one clock, with the output buffers of the     *)
(* units, the slave and the completion pulse wr_done between them.  The    *)
(* address half hands an accepted burst to both request buffers of the     *)
(* data half on the edge of its acceptance.                                *)
(***************************************************************************)
EXTENDS WriteIssue, Sequences

CONSTANTS
  REQ_BUF_DEPTH, WRITE_BUF_DEPTH, MARGIN, WordMod, \* see WriteData
  OUTBUF_DEPTH,  \* external: words an output buffer holds
  RESET_EDGES,   \* external: a reset lasts at least that many edges
  MaxRequests    \* bound of the model: requests of the memory controller

ASSUME AxiWriteAssumption ==
  /\ BURST >= 2
  /\ REQ_BUF_DEPTH \in Nat \ {0}
  /\ WRITE_BUF_DEPTH \in Nat /\ MARGIN \in 0 .. WRITE_BUF_DEPTH
  /\ WordMod \in Nat \ {0}
  /\ OUTBUF_DEPTH \in Nat /\ BURST <= OUTBUF_DEPTH /\ MaxRequests \in Nat
  /\ RESET_EDGES \in Nat /\ RESET_EDGES >= 2

VARIABLES
  awchannel_req_buf, pu_obuf_read_id, awchannel_read, pu_obuf_rd_count,
  pu_obuf_rd_inc_d, outbuf_pop, write_buf_push, write_buf_data_in, write_buf,
  write_buf_shown, write_buf_almost_full, wchannel_req_buf,
  wchannel_req_buf_shown, wchannel_busy, wvalid, wlen_count, outbuf, owed, taken,
  all_writes_done_d,
  wr_done,
  outbuf_count, \* external: words in the output buffer of each unit
  requests,     \* external: requests made since the last reset
  held          \* external: edges of the present reset, 0 outside reset

\* The address half bounds how far it runs ahead and the slave stalls freely
\* until write_buf is about to be almost full.
W == INSTANCE WriteData
  WITH MaxAhead <- REQ_BUF_DEPTH, StallLimit <- WRITE_BUF_DEPTH - MARGIN - BURST

vars == <<ivars, W!dvars, all_writes_done_d, wr_done, outbuf_count, requests, held>>

-----------------------------------------------------------------------------

accepted == IF aw_accepted THEN <<curr_wr_pu_id>> ELSE <<>>

\* Seeded fault: the bursts still waiting for the W channel are forgotten.
all_writes_done_NoQueue ==
  (\A i \in PU : pu_wr_ready(i)) /\ ~wchannel_busy

all_writes_done ==
  /\ \A i \in PU : pu_wr_ready(i)
  /\ ~wchannel_req_buf_shown
  /\ ~wchannel_busy

\* One pulse when the last burst ends.
WrDone ==
  /\ all_writes_done_d' = all_writes_done
  /\ wr_done' = (all_writes_done /\ ~all_writes_done_d)

OutputBuffers(write_valid) ==
  outbuf_count' = [i \in PU |->
    outbuf_count[i] + (IF i \in write_valid THEN 1 ELSE 0)
                    - (IF i \in outbuf_pop THEN 1 ELSE 0)]

-----------------------------------------------------------------------------

\* At the end of a long reset.
Init ==
  /\ IssueInit
  /\ W!DataInit
  /\ all_writes_done_d = FALSE
  /\ wr_done = FALSE
  /\ outbuf_count = [i \in PU |-> 0]
  /\ requests = 0
  /\ held = RESET_EDGES

Edge(request, write_valid, wready) ==
  /\ held \in {0, RESET_EDGES} /\ held' = 0
  /\ IssueEdge(request, write_valid, W!wlast)
  /\ W!DataEdge(accepted, wready)
  /\ WrDone
  /\ OutputBuffers(write_valid)
  /\ requests' = requests + (IF request # 0 THEN 1 ELSE 0)

\* A unit writes while its output buffer has room.
Room == {i \in PU : outbuf_count[i] < OUTBUF_DEPTH /\ write_count[i] < MaxWritten}

WriteNext ==
  \E request \in Requests, write_valid \in SUBSET Room, wready \in BOOLEAN :
    /\ request # 0 => requests < MaxRequests
    /\ ~wready => W!MayStall
    /\ Edge(request, write_valid, wready)

\* One edge of a reset, which may come at any time.
Reset ==
  /\ \E wr_req \in {FALSE, wr_ready} : IssueReset(wr_req)
  /\ W!DataReset
  /\ all_writes_done_d' = FALSE
  /\ wr_done' = FALSE
  /\ outbuf_count' = [i \in PU |-> 0]
  /\ requests' = 0
  /\ held' = IF held < RESET_EDGES THEN held + 1 ELSE held

\* An edge without a request, on which the units with room write a word and the
\* slave takes a beat on offer.
BusyEdge == Edge(0, Room, TRUE)

\* The clock runs, the units go on writing and the slave goes on taking beats.
WriteSpec ==
  /\ Init /\ [][WriteNext \/ Reset]_vars
  /\ WF_vars(WriteNext) /\ WF_vars(BusyEdge)

-----------------------------------------------------------------------------
(* Properties. *)

BothTypeOK ==
  /\ TypeOK /\ W!TypeOK
  /\ outbuf_count \in [PU -> 0 .. OUTBUF_DEPTH]

\* wr_done tells the memory controller that the data it asked for has left: no
\* accepted burst has a beat to come, in either request buffer or under way.
DoneMeansSent == wr_done => owed = <<>>

\* A word is popped from an output buffer only when it is there: what the
\* wburst_counter counts is what the data half reads, several edges later.
PopFindsWord == \A i \in outbuf_pop : outbuf_count[i] > 0

\* Every beat carries the word due next from the unit of the oldest burst.
BeatIsRight == W!BeatIsRight

\* Every request ends in wr_done, for which the memory controller waits, or in a
\* reset.
RequestEndsInDone ==
  (\E i \in PU : pu_writes_remaining[i] > 0) ~> (wr_done \/ held > 0)
=============================================================================
