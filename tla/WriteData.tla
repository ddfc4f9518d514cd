------------------------------ MODULE WriteData ------------------------------
(***************************************************************************)
(* The data half of the write side of axi_master.v: what happens to a      *)
(* burst once its address has been accepted.  An accepted address enters   *)
(* two request buffers.  One (awchannel_req_buf, a fifo.v) makes the       *)
(* AW_CHANNEL_FSM read the burst's words from the output buffer of its     *)
(* processing unit into write_buf (a fifo_fwft.v); the other               *)
(* (wchannel_req_buf, a fifo_fwft.v) makes the W_CHANNEL_FSM send them on  *)
(* the W channel.  A step is one clock edge, DataEdge outside reset and    *)
(* DataReset under it.                                                     *)
(*                                                                         *)
(* Every burst is BURST beats long (awlen is C_M_AXI_WR_BURST_LEN - 1      *)
(* whenever AWVALID is raised), so a request buffer holds unit numbers     *)
(* only.  A word is known by its unit and by its place, modulo WordMod, in *)
(* the sequence of words that the unit has written.                        *)
(***************************************************************************)
EXTENDS Integers, Sequences

CONSTANTS
  PU,              \* the processing units
  BURST,           \* C_M_AXI_WR_BURST_LEN, 16
  REQ_BUF_DEPTH,   \* slots of either request buffer, 16
  WRITE_BUF_DEPTH, \* slots of write_buf, 32
  MARGIN,          \* write_buf is almost full that many words before it is, 8
  WordMod,         \* words of a unit are numbered modulo this
  MaxAhead,        \* bursts accepted before the first of them has been sent
  StallLimit       \* the slave lowers WREADY only below that many words waiting

ASSUME WriteDataAssumption ==
  /\ BURST \in Nat /\ BURST >= 2
  /\ REQ_BUF_DEPTH \in Nat \ {0}
  /\ WRITE_BUF_DEPTH \in Nat /\ MARGIN \in 0 .. WRITE_BUF_DEPTH
  /\ WordMod \in Nat \ {0}
  /\ MaxAhead \in Nat \ {0} /\ StallLimit \in Int

VARIABLES
  awchannel_req_buf,     \* units of the bursts whose words are still to be read
  pu_obuf_read_id,       \* its output register
  awchannel_read,        \* awchannel_state = AWC_READ
  pu_obuf_rd_count,      \* words of the current burst read so far
  pu_obuf_rd_inc_d,
  outbuf_pop,            \* the unit whose output buffer is popped, as a set
  write_buf_push,
  write_buf_data_in,
  write_buf,             \* the words in write_buf
  write_buf_shown,       \* ~write_buf_empty
  write_buf_almost_full,
  wchannel_req_buf,      \* units of the bursts still to be sent
  wchannel_req_buf_shown,\* ~wchannel_req_buf_empty
  wchannel_busy,         \* wchannel_state = WC_BUSY
  wvalid,
  wlen_count,
  outbuf,                \* external: place of the word each unit shows
  owed,                  \* external: bursts accepted, [pu, left], beats to come
  taken                  \* external: place of the word due next from each unit

dvars == <<awchannel_req_buf, pu_obuf_read_id, awchannel_read, pu_obuf_rd_count,
           pu_obuf_rd_inc_d, outbuf_pop, write_buf_push, write_buf_data_in,
           write_buf, write_buf_shown, write_buf_almost_full, wchannel_req_buf,
           wchannel_req_buf_shown, wchannel_busy, wvalid, wlen_count,
           outbuf, owed, taken>>

Words == [pu : PU, place : 0 .. WordMod - 1]

ReadRequests == INSTANCE BoundedQueue
  WITH Capacity <- REQ_BUF_DEPTH, Data <- PU,
       q <- awchannel_req_buf, out <- pu_obuf_read_id

SendRequests == INSTANCE ShowAheadQueue
  WITH Capacity <- REQ_BUF_DEPTH, Data <- PU,
       q <- wchannel_req_buf, valid <- wchannel_req_buf_shown

WriteBuffer == INSTANCE ShowAheadQueue
  WITH Capacity <- WRITE_BUF_DEPTH, Data <- Words,
       q <- write_buf, valid <- write_buf_shown

-----------------------------------------------------------------------------
(* Wires. *)

\* A counter underflow: awlen - 1 is loaded, so the last beat finds -1.  One
\* more beat is counted before the next load, no more.
wlast == wlen_count < 0

wnext(wready) == wready /\ wvalid

\* Seeded fault: a burst is started before its first word has arrived.
wchannel_req_buf_pop_NoData == ~wchannel_busy /\ wchannel_req_buf_shown

wchannel_req_buf_pop ==
  ~wchannel_busy /\ wchannel_req_buf_shown /\ write_buf_shown

awchannel_req_buf_pop == ~awchannel_read /\ awchannel_req_buf # <<>>

\* OVERFLOW of pu_obuf_rd_counter, whose MAX_COUNT is the burst's AWLEN.
pu_obuf_rd_overflow == pu_obuf_rd_count = BURST - 1

\* Seeded fault: the words are read whether or not there is room for them.
pu_obuf_rd_inc_NoThrottle == awchannel_read

pu_obuf_rd_inc == awchannel_read /\ ~write_buf_almost_full

-----------------------------------------------------------------------------
(* Reading words from the output buffers. *)

AwChannelFsm ==
  awchannel_read' =
    IF awchannel_read THEN ~pu_obuf_rd_overflow
    ELSE awchannel_req_buf # <<>>

\* counter.v with CLEAR and DEC tied low, MIN_COUNT 0 and MAX_COUNT AWLEN.
ObufReadCounter ==
  pu_obuf_rd_count' =
    IF ~pu_obuf_rd_inc THEN pu_obuf_rd_count
    ELSE IF pu_obuf_rd_overflow THEN 0
    ELSE pu_obuf_rd_count + 1

\* The pop of the output buffer and the load of the data register follow the
\* increment by one edge, the push by two.  The output buffers are external:
\* each shows its oldest word and drops it when it is popped.
ObufRead ==
  /\ pu_obuf_rd_inc_d' = pu_obuf_rd_inc
  /\ outbuf_pop' = IF pu_obuf_rd_inc THEN {pu_obuf_read_id} ELSE {}
  /\ write_buf_push' = pu_obuf_rd_inc_d
  /\ write_buf_data_in' =
       IF pu_obuf_rd_inc_d
         THEN [pu |-> pu_obuf_read_id, place |-> outbuf[pu_obuf_read_id]]
         ELSE write_buf_data_in
  /\ outbuf' = [i \in PU |-> IF i \in outbuf_pop THEN (outbuf[i] + 1) % WordMod
                                                 ELSE outbuf[i]]

AlmostFull ==
  write_buf_almost_full' = (WriteBuffer!waiting >= WRITE_BUF_DEPTH - MARGIN)

-----------------------------------------------------------------------------
(* Sending words. *)

WChannelFsm(wready) ==
  wchannel_busy' =
    IF wchannel_busy THEN ~(wlast /\ wnext(wready)) ELSE wchannel_req_buf_pop

WValid(wready) ==
  wvalid' =
    IF wchannel_req_buf_pop THEN TRUE
    ELSE IF wnext(wready) /\ wlast THEN FALSE
    ELSE wvalid

\* Seeded fault: the counter is loaded with AWLEN.
WLenCount_NoMinus1(wready) ==
  wlen_count' =
    IF wchannel_req_buf_pop THEN BURST - 1
    ELSE IF wnext(wready) THEN wlen_count - 1
    ELSE wlen_count

WLenCount(wready) ==
  wlen_count' =
    IF wchannel_req_buf_pop THEN BURST - 2
    ELSE IF wnext(wready) THEN wlen_count - 1
    ELSE wlen_count

\* The slave, external: it counts the beats of the bursts it has accepted, in
\* order, and the words of each unit.
Slave(accepted, wready) ==
  LET beat == wnext(wready) /\ owed # <<>>
      rest == IF ~beat THEN owed
              ELSE IF Head(owed).left = 1 THEN Tail(owed)
              ELSE [owed EXCEPT ![1].left = @ - 1]
  IN  /\ owed' = rest \o [k \in 1 .. Len(accepted) |-> [pu |-> accepted[k], left |-> BURST]]
      /\ taken' = IF beat THEN [taken EXCEPT ![Head(owed).pu] = (@ + 1) % WordMod]
                          ELSE taken

-----------------------------------------------------------------------------

\* Out of a reset long enough for the registers without a reset branch
\* (pu_obuf_rd_inc_d, write_buf_push) to have settled.
DataInit ==
  /\ ReadRequests!Init
  /\ SendRequests!Init
  /\ WriteBuffer!Init
  /\ awchannel_read = FALSE
  /\ pu_obuf_rd_count = 0
  /\ pu_obuf_rd_inc_d = FALSE
  /\ outbuf_pop = {}
  /\ write_buf_push = FALSE
  /\ write_buf_data_in \in Words
  /\ write_buf_almost_full = FALSE
  /\ wchannel_busy = FALSE
  /\ wvalid = FALSE
  /\ wlen_count = BURST - 2
  /\ outbuf = [i \in PU |-> 0]
  /\ owed = <<>>
  /\ taken = [i \in PU |-> 0]

\* One clock edge.  accepted is <<>> or the unit of the burst whose address is
\* accepted on this edge; no request buffer is asked whether it has room.
DataEdge(accepted, wready) ==
  /\ \E unit \in PU :
       /\ accepted # <<>> => unit = accepted[1]
       /\ ReadRequests!Edge(accepted # <<>>, awchannel_req_buf_pop, unit)
       /\ SendRequests!Edge(accepted # <<>>, wchannel_req_buf_pop, unit)
  /\ WriteBuffer!Edge(write_buf_push, wnext(wready), write_buf_data_in)
  /\ AwChannelFsm
  /\ ObufReadCounter
  /\ ObufRead
  /\ AlmostFull
  /\ WChannelFsm(wready)
  /\ WValid(wready)
  /\ WLenCount(wready)
  /\ Slave(accepted, wready)

\* One edge under reset.  pu_obuf_rd_inc_d and write_buf_push have no reset
\* branch: a word may still be on its way.  Output buffers and slave are reset
\* with the master.
DataReset ==
  /\ ReadRequests!Reset(awchannel_req_buf_pop)
  /\ SendRequests!Reset
  /\ WriteBuffer!Reset
  /\ awchannel_read' = FALSE
  /\ pu_obuf_rd_count' = 0
  /\ pu_obuf_rd_inc_d' = pu_obuf_rd_inc
  /\ outbuf_pop' = {}
  /\ write_buf_push' = pu_obuf_rd_inc_d
  /\ write_buf_data_in' \in Words
  /\ write_buf_almost_full' = FALSE
  /\ wchannel_busy' = FALSE
  /\ wvalid' = FALSE
  /\ wlen_count' = BURST - 2
  /\ outbuf' = [i \in PU |-> 0]
  /\ owed' = <<>>
  /\ taken' = [i \in PU |-> 0]

-----------------------------------------------------------------------------
(* The data half alone, under an address half that accepts at most MaxAhead  *)
(* bursts ahead of the data and a slave that stalls within StallLimit.       *)

MayStall == WriteBuffer!waiting < StallLimit

Next ==
  \E accepted \in {<<>>} \cup {<<i>> : i \in PU}, wready \in BOOLEAN :
    /\ accepted # <<>> => Len(owed) < MaxAhead
    /\ ~wready => MayStall
    /\ DataEdge(accepted, wready)

Spec == DataInit /\ [][Next]_dvars

\* With resets of any length at any time.
ResetSpec == DataInit /\ [][Next \/ DataReset]_dvars

-----------------------------------------------------------------------------
(* Properties. *)

\* Every register holds a value of its width.
TypeOK ==
  /\ awchannel_req_buf \in Seq(PU) /\ Len(awchannel_req_buf) <= REQ_BUF_DEPTH
  /\ pu_obuf_read_id \in PU
  /\ pu_obuf_rd_count \in 0 .. BURST - 1
  /\ outbuf_pop \in SUBSET PU
  /\ write_buf_data_in \in Words
  /\ write_buf \in Seq(Words) /\ WriteBuffer!waiting \in 0 .. WRITE_BUF_DEPTH
  /\ wchannel_req_buf \in Seq(PU) /\ SendRequests!waiting \in 0 .. REQ_BUF_DEPTH
  /\ wlen_count \in -2 .. BURST - 2
  /\ \A b \in {awchannel_read, pu_obuf_rd_inc_d, write_buf_push, write_buf_shown,
               write_buf_almost_full, wchannel_req_buf_shown, wchannel_busy, wvalid} :
       b \in BOOLEAN

\* A word that is pushed finds room: write_buf_almost_full rises early enough
\* for the words already on their way from the output buffers, whatever the
\* slave does.
WordFindsRoom == write_buf_push => ~WriteBuffer!full

\* A beat on offer belongs to the oldest accepted burst, carries the next word
\* of that burst's unit, and is marked last exactly when it is.
BeatIsRight ==
  wvalid => /\ owed # <<>>
            /\ write_buf_shown
            /\ LET b == Head(owed) IN
                 /\ Head(write_buf) = [pu |-> b.pu, place |-> taken[b.pu]]
                 /\ wlast <=> b.left = 1

\* The words of a burst are in write_buf by the time its beats are on offer:
\* "Get data from PU's obuf and put them in a write_buf".
DataBehindEveryBeat == wvalid => write_buf_shown
=============================================================================
