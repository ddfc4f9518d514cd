--------------------------- MODULE WriteDataProofs ---------------------------
(***************************************************************************)
(* The write data side, for every number of units, burst length and depth. *)
(*                                                                         *)
(* First part: write_buf never overflows, for every slave and reset, if    *)
(* the margin is 3: a word is read on the edge that looks at               *)
(* write_buf_almost_full, which itself is one edge old, and is pushed two  *)
(* edges later.  The code's margin is 8.                                   *)
(*                                                                         *)
(* Second part: the words of a burst are there when its beats are.         *)
(***************************************************************************)
EXTENDS WriteData, SequenceTheorems, TLAPS

USE WriteDataAssumption

\* What write_buf may hold when a word has got so far on its way.
RoomInv ==
  /\ ~write_buf_almost_full => WriteBuffer!waiting <= WRITE_BUF_DEPTH - MARGIN
  /\ pu_obuf_rd_inc_d => WriteBuffer!waiting <= WRITE_BUF_DEPTH - MARGIN + 1
  /\ write_buf_push => WriteBuffer!waiting <= WRITE_BUF_DEPTH - MARGIN + 2

\* The W channel offers a beat while it is busy; the counter passes -1 only at
\* the end of a burst.
ChannelInv ==
  /\ wchannel_busy <=> wvalid
  /\ wvalid => wlen_count >= -1

OutbufInv == outbuf \in [PU -> 0 .. WordMod - 1]

IInv == TypeOK /\ ChannelInv /\ RoomInv /\ OutbufInv

-----------------------------------------------------------------------------
(* The invariant. *)

\* Out of reset it holds.
LEMMA InitEstablishes == DataInit => IInv
<1> SUFFICES ASSUME DataInit PROVE IInv
  OBVIOUS
<1> USE DEF DataInit
<1>1. WriteBuffer!waiting = 0 /\ SendRequests!waiting = 0
  BY DEF WriteBuffer!waiting, WriteBuffer!Init, SendRequests!waiting, SendRequests!Init
<1>2. /\ awchannel_req_buf = <<>> /\ pu_obuf_read_id \in PU
      /\ wchannel_req_buf = <<>> /\ wchannel_req_buf_shown = FALSE
      /\ write_buf = <<>> /\ write_buf_shown = FALSE
  BY DEF ReadRequests!Init, SendRequests!Init, WriteBuffer!Init
<1>3. TypeOK
  <2>1. /\ pu_obuf_rd_count \in 0 .. BURST - 1 /\ outbuf_pop \in SUBSET PU
        /\ write_buf_data_in \in Words /\ wlen_count \in -2 .. BURST - 2
    OBVIOUS
  <2>2. /\ awchannel_req_buf \in Seq(PU) /\ Len(awchannel_req_buf) <= REQ_BUF_DEPTH
        /\ write_buf \in Seq(Words) /\ wchannel_req_buf \in Seq(PU)
    BY <1>2
  <2>3. /\ awchannel_read \in BOOLEAN /\ pu_obuf_rd_inc_d \in BOOLEAN
        /\ write_buf_push \in BOOLEAN /\ write_buf_shown \in BOOLEAN
        /\ write_buf_almost_full \in BOOLEAN /\ wchannel_req_buf_shown \in BOOLEAN
        /\ wchannel_busy \in BOOLEAN /\ wvalid \in BOOLEAN
    BY <1>2
  <2>4. WriteBuffer!waiting \in 0 .. WRITE_BUF_DEPTH /\ SendRequests!waiting \in 0 .. REQ_BUF_DEPTH
    BY <1>1
  <2>5. pu_obuf_read_id \in PU
    BY <1>2
  <2> HIDE DEF DataInit
  <2>6. QED BY <2>1, <2>2, <2>3, <2>4, <2>5 DEF TypeOK
<1>4. ChannelInv /\ RoomInv /\ OutbufInv
  BY <1>1 DEF ChannelInv, RoomInv, OutbufInv
<1>5. QED BY <1>3, <1>4 DEF IInv

\* write_buf on an edge outside reset: the words behind the shown one become one
\* more by a push only, and never more than fit.
LEMMA WriteBufStep ==
  ASSUME IInv, NEW wready \in BOOLEAN,
         WriteBuffer!Edge(write_buf_push, wnext(wready), write_buf_data_in)
  PROVE  /\ write_buf' \in Seq(Words) /\ write_buf_shown' \in BOOLEAN
         /\ WriteBuffer!waiting' \in 0 .. WRITE_BUF_DEPTH
         /\ WriteBuffer!waiting' <= WriteBuffer!waiting + 1
         /\ ~write_buf_push => WriteBuffer!waiting' <= WriteBuffer!waiting
<1> DEFINE w == WriteBuffer!waiting
           drop == wnext(wready) /\ write_buf_shown
           add == write_buf_push /\ w # WRITE_BUF_DEPTH
           kept == IF drop THEN Tail(write_buf) ELSE write_buf
<1>1. /\ write_buf \in Seq(Words) /\ Len(write_buf) \in Nat
      /\ write_buf_shown \in BOOLEAN /\ w \in 0 .. WRITE_BUF_DEPTH
  BY DEF IInv, TypeOK
<1>2. /\ write_buf_shown => w = Len(write_buf) - 1
      /\ ~write_buf_shown => w = Len(write_buf)
      /\ write_buf_shown' => w' = Len(write_buf') - 1
      /\ ~write_buf_shown' => w' = Len(write_buf')
  BY DEF WriteBuffer!waiting
<1>3. /\ write_buf' = (IF add THEN Append(kept, write_buf_data_in) ELSE kept)
      /\ write_buf_shown' = (w > 0 \/ (write_buf_shown /\ ~wnext(wready)))
  BY DEF WriteBuffer!Edge, WriteBuffer!After, WriteBuffer!full
<1>4. write_buf_shown' \in BOOLEAN /\ (write_buf_shown' <=> (w > 0 \/ (write_buf_shown /\ ~wnext(wready))))
  BY <1>3, Zenon
<1> HIDE DEF w
<1>5. /\ kept \in Seq(Words) /\ Len(kept) \in Nat
      /\ drop => Len(kept) = Len(write_buf) - 1
      /\ ~drop => Len(kept) = Len(write_buf)
  <2>1. CASE drop
    <3>1. write_buf # <<>>
      BY <1>1, <1>2, <2>1
    <3>2. QED BY <1>1, <2>1, <3>1
  <2>2. CASE ~drop
    BY <1>1, <2>2
  <2>3. QED BY <2>1, <2>2
<1>6. /\ write_buf' \in Seq(Words) /\ Len(write_buf') \in Nat
      /\ add => Len(write_buf') = Len(kept) + 1
      /\ ~add => Len(write_buf') = Len(kept)
  <2>1. write_buf_data_in \in Words
    BY DEF IInv, TypeOK
  <2> HIDE DEF kept, add
  <2>2. CASE add
    BY <1>3, <1>5, <2>1, <2>2
  <2>3. CASE ~add
    BY <1>3, <1>5, <2>3
  <2>4. QED BY <2>2, <2>3
<1> HIDE DEF kept
<1>7. /\ w' \in 0 .. WRITE_BUF_DEPTH /\ w' <= w + 1
      /\ ~write_buf_push => w' <= w
  BY <1>1, <1>2, <1>4, <1>5, <1>6
<1>8. QED BY <1>4, <1>6, <1>7 DEF w

\* The same of the requests to send.
LEMMA SendRequestsStep ==
  ASSUME IInv, NEW accepted, NEW unit \in PU,
         SendRequests!Edge(accepted # <<>>, wchannel_req_buf_pop, unit)
  PROVE  /\ wchannel_req_buf' \in Seq(PU) /\ wchannel_req_buf_shown' \in BOOLEAN
         /\ SendRequests!waiting' \in 0 .. REQ_BUF_DEPTH
         /\ SendRequests!waiting' <= SendRequests!waiting + 1
         /\ accepted = <<>> => SendRequests!waiting' <= SendRequests!waiting
<1> DEFINE w == SendRequests!waiting
           drop == wchannel_req_buf_pop /\ wchannel_req_buf_shown
           add == accepted # <<>> /\ w # REQ_BUF_DEPTH
           kept == IF drop THEN Tail(wchannel_req_buf) ELSE wchannel_req_buf
<1>1. /\ wchannel_req_buf \in Seq(PU) /\ Len(wchannel_req_buf) \in Nat
      /\ wchannel_req_buf_shown \in BOOLEAN /\ w \in 0 .. REQ_BUF_DEPTH
  BY DEF IInv, TypeOK
<1>2. /\ wchannel_req_buf_shown => w = Len(wchannel_req_buf) - 1
      /\ ~wchannel_req_buf_shown => w = Len(wchannel_req_buf)
      /\ wchannel_req_buf_shown' => w' = Len(wchannel_req_buf') - 1
      /\ ~wchannel_req_buf_shown' => w' = Len(wchannel_req_buf')
  BY DEF SendRequests!waiting
<1>3. /\ wchannel_req_buf' = (IF add THEN Append(kept, unit) ELSE kept)
      /\ wchannel_req_buf_shown' = (w > 0 \/ (wchannel_req_buf_shown /\ ~wchannel_req_buf_pop))
  BY DEF SendRequests!Edge, SendRequests!After, SendRequests!full
<1>4. wchannel_req_buf_shown' \in BOOLEAN /\ (wchannel_req_buf_shown' <=> (w > 0 \/ (wchannel_req_buf_shown /\ ~wchannel_req_buf_pop)))
  BY <1>3, Zenon
<1> HIDE DEF w
<1>5. /\ kept \in Seq(PU) /\ Len(kept) \in Nat
      /\ drop => Len(kept) = Len(wchannel_req_buf) - 1
      /\ ~drop => Len(kept) = Len(wchannel_req_buf)
  <2>1. CASE drop
    <3>1. wchannel_req_buf # <<>>
      BY <1>1, <1>2, <2>1
    <3>2. QED BY <1>1, <2>1, <3>1
  <2>2. CASE ~drop
    BY <1>1, <2>2
  <2>3. QED BY <2>1, <2>2
<1>6. /\ wchannel_req_buf' \in Seq(PU) /\ Len(wchannel_req_buf') \in Nat
      /\ add => Len(wchannel_req_buf') = Len(kept) + 1
      /\ ~add => Len(wchannel_req_buf') = Len(kept)
  <2>1. unit \in PU
    BY DEF IInv, TypeOK
  <2> HIDE DEF kept, add
  <2>2. CASE add
    BY <1>3, <1>5, <2>1, <2>2
  <2>3. CASE ~add
    BY <1>3, <1>5, <2>3
  <2>4. QED BY <2>2, <2>3
<1> HIDE DEF kept
<1>7. /\ w' \in 0 .. REQ_BUF_DEPTH /\ w' <= w + 1
      /\ accepted = <<>> => w' <= w
  BY <1>1, <1>2, <1>4, <1>5, <1>6
<1>8. QED BY <1>4, <1>6, <1>7 DEF w

\* All three buffers keep their widths on an edge outside reset.
LEMMA BuffersStep ==
  ASSUME IInv, NEW accepted \in {<<>>} \cup {<<i>> : i \in PU}, NEW wready \in BOOLEAN,
         DataEdge(accepted, wready)
  PROVE  /\ awchannel_req_buf' \in Seq(PU) /\ Len(awchannel_req_buf') <= REQ_BUF_DEPTH
         /\ pu_obuf_read_id' \in PU
         /\ wchannel_req_buf' \in Seq(PU) /\ SendRequests!waiting' \in 0 .. REQ_BUF_DEPTH
         /\ wchannel_req_buf_shown' \in BOOLEAN
         /\ write_buf' \in Seq(Words) /\ WriteBuffer!waiting' \in 0 .. WRITE_BUF_DEPTH
         /\ write_buf_shown' \in BOOLEAN
         /\ WriteBuffer!waiting' <= WriteBuffer!waiting + 1
<1>1. PICK unit \in PU :
        /\ ReadRequests!Edge(accepted # <<>>, awchannel_req_buf_pop, unit)
        /\ SendRequests!Edge(accepted # <<>>, wchannel_req_buf_pop, unit)
  BY DEF DataEdge
<1>2. /\ awchannel_req_buf' \in Seq(PU) /\ Len(awchannel_req_buf') <= REQ_BUF_DEPTH
      /\ pu_obuf_read_id' \in PU
  <2> DEFINE drop == awchannel_req_buf_pop /\ awchannel_req_buf # <<>>
             kept == IF drop THEN Tail(awchannel_req_buf) ELSE awchannel_req_buf
             add == accepted # <<>> /\ Len(awchannel_req_buf) < REQ_BUF_DEPTH
  <2>1. /\ awchannel_req_buf' = (IF add THEN Append(kept, unit) ELSE kept)
        /\ pu_obuf_read_id' = (IF drop THEN Head(awchannel_req_buf) ELSE pu_obuf_read_id)
    BY <1>1 DEF ReadRequests!Edge, ReadRequests!After, ReadRequests!ReadPort
  <2>2. kept \in Seq(PU) /\ Len(kept) \in Nat /\ Len(kept) <= REQ_BUF_DEPTH
           /\ (drop => Len(kept) < REQ_BUF_DEPTH)
           /\ (~drop => Len(kept) = Len(awchannel_req_buf))
    BY DEF IInv, TypeOK
  <2>6. pu_obuf_read_id' \in PU
    BY <2>1 DEF IInv, TypeOK
  <2>3. CASE add
    <3> HIDE DEF kept
    <3>1. awchannel_req_buf' = Append(kept, unit)
      BY <2>1, <2>3
    <3>2. Len(kept) < REQ_BUF_DEPTH
      BY <2>2, <2>3
    <3>3. QED BY <2>2, <2>6, <3>1, <3>2
  <2>4. CASE ~add
    <3> HIDE DEF kept
    <3>1. awchannel_req_buf' = kept
      BY <2>1, <2>4
    <3>2. QED BY <2>2, <2>6, <3>1
  <2>5. QED BY <2>3, <2>4
<1>3. /\ wchannel_req_buf' \in Seq(PU) /\ SendRequests!waiting' \in 0 .. REQ_BUF_DEPTH
      /\ wchannel_req_buf_shown' \in BOOLEAN
  BY <1>1, SendRequestsStep
<1>4. /\ write_buf' \in Seq(Words) /\ WriteBuffer!waiting' \in 0 .. WRITE_BUF_DEPTH
      /\ write_buf_shown' \in BOOLEAN
      /\ WriteBuffer!waiting' <= WriteBuffer!waiting + 1
  <2>1. WriteBuffer!Edge(write_buf_push, wnext(wready), write_buf_data_in)
    BY DEF DataEdge
  <2>2. QED BY <2>1, WriteBufStep
<1>5. QED BY <1>2, <1>3, <1>4

\* An edge outside reset keeps the types.
LEMMA EdgeKeepsTypes ==
  ASSUME IInv, NEW accepted \in {<<>>} \cup {<<i>> : i \in PU}, NEW wready \in BOOLEAN,
         DataEdge(accepted, wready)
  PROVE  TypeOK' /\ ChannelInv' /\ OutbufInv'
<1>1. /\ awchannel_read \in BOOLEAN /\ pu_obuf_rd_inc_d \in BOOLEAN
      /\ write_buf_push \in BOOLEAN /\ write_buf_almost_full \in BOOLEAN
      /\ wchannel_busy \in BOOLEAN /\ wvalid \in BOOLEAN
      /\ pu_obuf_read_id \in PU /\ wchannel_req_buf_shown \in BOOLEAN
      /\ write_buf_shown \in BOOLEAN
  BY DEF IInv, TypeOK
<1>2. pu_obuf_rd_count' \in 0 .. BURST - 1
  BY DEF DataEdge, ObufReadCounter, pu_obuf_rd_overflow, IInv, TypeOK
<1>3. /\ outbuf_pop' \in SUBSET PU
      /\ write_buf_data_in' \in Words
      /\ OutbufInv'
  <2>1. outbuf_pop' \in SUBSET PU
    BY <1>1 DEF DataEdge, ObufRead
  <2>2. write_buf_data_in' \in Words
    BY <1>1 DEF DataEdge, ObufRead, IInv, TypeOK, OutbufInv, Words
  <2>3. OutbufInv'
    <3>1. outbuf' = [i \in PU |-> IF i \in outbuf_pop THEN (outbuf[i] + 1) % WordMod
                                                      ELSE outbuf[i]]
      BY DEF DataEdge, ObufRead
    <3>2. \A i \in PU : (outbuf[i] + 1) % WordMod \in 0 .. WordMod - 1
      <4> SUFFICES ASSUME NEW i \in PU PROVE (outbuf[i] + 1) % WordMod \in 0 .. WordMod - 1
        OBVIOUS
      <4>1. outbuf[i] + 1 \in Nat /\ WordMod \in Nat \ {0}
        BY DEF IInv, OutbufInv
      <4> DEFINE m == outbuf[i] + 1
      <4> HIDE DEF m
      <4>2. m \in Nat
        BY <4>1 DEF m
      <4>3. m % WordMod \in 0 .. WordMod - 1
        BY <4>1, <4>2
      <4>4. QED BY <4>3 DEF m
    <3>3. QED BY <3>1, <3>2 DEF IInv, OutbufInv
  <2>4. QED BY <2>1, <2>2, <2>3
<1>4. /\ wchannel_busy' \in BOOLEAN /\ wvalid' \in BOOLEAN
      /\ ChannelInv' /\ wlen_count' \in -2 .. BURST - 2
  <2>1. (wchannel_busy <=> wvalid) /\ (wvalid => wlen_count >= -1) /\ wlen_count \in -2 .. BURST - 2
    BY DEF IInv, TypeOK, ChannelInv
  <2>2. CASE wchannel_req_buf_pop
    <3>1. /\ wchannel_busy' = TRUE /\ wvalid' = TRUE /\ wlen_count' = BURST - 2
      BY <1>1, <2>2 DEF DataEdge, WChannelFsm, WValid, WLenCount, wchannel_req_buf_pop
    <3>2. QED BY <3>1 DEF ChannelInv
  <2>3. CASE ~wchannel_req_buf_pop /\ wvalid
    <3>1. CASE wready
      <4>1. CASE wlen_count < 0
        <5>1. wlast /\ wnext(wready)
          BY <2>3, <3>1, <4>1 DEF wlast, wnext
        <5>2. wchannel_busy' = FALSE /\ wvalid' = FALSE /\ wlen_count' = wlen_count - 1
          BY <1>1, <2>1, <2>3, <5>1 DEF DataEdge, WChannelFsm, WValid, WLenCount
        <5>3. wlen_count' \in -2 .. BURST - 2
          BY <2>1, <2>3, <4>1, <5>2
        <5>4. QED BY <5>2, <5>3 DEF ChannelInv
      <4>2. CASE ~(wlen_count < 0)
        <5>1. ~wlast /\ wnext(wready)
          BY <2>3, <3>1, <4>2 DEF wlast, wnext
        <5>2. wchannel_busy' = TRUE /\ wvalid' = TRUE /\ wlen_count' = wlen_count - 1
          BY <1>1, <2>1, <2>3, <5>1 DEF DataEdge, WChannelFsm, WValid, WLenCount
        <5>3. QED BY <2>1, <4>2, <5>2 DEF ChannelInv
      <4>3. QED BY <4>1, <4>2
    <3>2. CASE ~wready
      <4>1. ~wnext(wready)
        BY <3>2 DEF wnext
      <4>2. wchannel_busy' = TRUE /\ wvalid' = TRUE /\ wlen_count' = wlen_count
        BY <1>1, <2>1, <2>3, <4>1 DEF DataEdge, WChannelFsm, WValid, WLenCount
      <4>3. QED BY <2>1, <2>3, <4>2 DEF ChannelInv
    <3>3. QED BY <3>1, <3>2
  <2>4. CASE ~wchannel_req_buf_pop /\ ~wvalid
    <3>1. ~wnext(wready)
      BY <2>4 DEF wnext
    <3>2. wchannel_busy' = FALSE /\ wvalid' = FALSE /\ wlen_count' = wlen_count
      BY <1>1, <2>1, <2>4, <3>1 DEF DataEdge, WChannelFsm, WValid, WLenCount
    <3>3. QED BY <2>1, <3>2 DEF ChannelInv
  <2>5. QED BY <2>2, <2>3, <2>4
<1>5. /\ awchannel_read' \in BOOLEAN /\ pu_obuf_rd_inc_d' \in BOOLEAN
      /\ write_buf_push' \in BOOLEAN /\ write_buf_almost_full' \in BOOLEAN
  <2>1. awchannel_read' \in BOOLEAN
    BY <1>1 DEF DataEdge, AwChannelFsm
  <2>2. pu_obuf_rd_inc_d' \in BOOLEAN
    BY <1>1, Zenon DEF DataEdge, ObufRead, pu_obuf_rd_inc
  <2>3. write_buf_push' \in BOOLEAN
    BY <1>1 DEF DataEdge, ObufRead
  <2>4. write_buf_almost_full' \in BOOLEAN
    <3> DEFINE marked == WriteBuffer!waiting >= WRITE_BUF_DEPTH - MARGIN
    <3>1. write_buf_almost_full' = marked
      BY DEF DataEdge, AlmostFull
    <3>2. marked \in BOOLEAN
      OBVIOUS
    <3> HIDE DEF marked
    <3>3. QED BY <3>1, <3>2
  <2>5. QED BY <2>1, <2>2, <2>3, <2>4
<1>6. QED BY <1>2, <1>3, <1>4, <1>5, BuffersStep DEF TypeOK

\* A word gets one register further, and the buffer fills by one at most.
LEMMA EdgeKeepsRoom ==
  ASSUME IInv, NEW accepted \in {<<>>} \cup {<<i>> : i \in PU}, NEW wready \in BOOLEAN,
         DataEdge(accepted, wready)
  PROVE  RoomInv'
<1>1. /\ WriteBuffer!waiting \in Nat /\ WriteBuffer!waiting' \in Nat
      /\ WriteBuffer!waiting' <= WriteBuffer!waiting + 1
  <2>1. WriteBuffer!waiting \in Nat
    BY DEF IInv, TypeOK
  <2>2. WriteBuffer!waiting' \in Nat /\ WriteBuffer!waiting' <= WriteBuffer!waiting + 1
    BY BuffersStep
  <2>3. QED BY <2>1, <2>2
<1>2. ~write_buf_almost_full' => WriteBuffer!waiting' <= WRITE_BUF_DEPTH - MARGIN
  <2>1. write_buf_almost_full' <=> WriteBuffer!waiting >= WRITE_BUF_DEPTH - MARGIN
    BY Zenon DEF DataEdge, AlmostFull
  <2>2. QED BY <1>1, <2>1
<1>3. pu_obuf_rd_inc_d' => WriteBuffer!waiting' <= WRITE_BUF_DEPTH - MARGIN + 1
  <2>1. pu_obuf_rd_inc_d' => ~write_buf_almost_full
    BY Zenon DEF DataEdge, ObufRead, pu_obuf_rd_inc
  <2>2. ~write_buf_almost_full => WriteBuffer!waiting <= WRITE_BUF_DEPTH - MARGIN
    BY DEF IInv, RoomInv
  <2>3. QED BY <1>1, <2>1, <2>2
<1>4. write_buf_push' => WriteBuffer!waiting' <= WRITE_BUF_DEPTH - MARGIN + 2
  BY <1>1 DEF DataEdge, ObufRead, IInv, RoomInv
<1>5. QED BY <1>2, <1>3, <1>4 DEF RoomInv

\* An edge under reset empties the buffers; what is still on its way finds room.
LEMMA ResetPreserves == IInv /\ DataReset => IInv'
<1> SUFFICES ASSUME IInv, DataReset PROVE IInv'
  OBVIOUS
<1>1. /\ write_buf' = <<>> /\ write_buf_shown' = FALSE
      /\ wchannel_req_buf' = <<>> /\ wchannel_req_buf_shown' = FALSE
      /\ awchannel_req_buf' = <<>>
  BY DEF DataReset, WriteBuffer!Reset, SendRequests!Reset, ReadRequests!Reset
<1>2. WriteBuffer!waiting' = 0 /\ SendRequests!waiting' = 0
  BY <1>1 DEF WriteBuffer!waiting, SendRequests!waiting
<1>3. pu_obuf_read_id' \in PU
  BY DEF DataReset, ReadRequests!Reset, ReadRequests!ReadPort, IInv, TypeOK
<1>4. /\ pu_obuf_rd_count' \in 0 .. BURST - 1 /\ outbuf_pop' \in SUBSET PU
      /\ write_buf_data_in' \in Words /\ wlen_count' \in -2 .. BURST - 2
      /\ wchannel_busy' = FALSE /\ wvalid' = FALSE /\ awchannel_read' = FALSE
      /\ write_buf_almost_full' = FALSE
  BY DEF DataReset
<1>5. pu_obuf_rd_inc_d' \in BOOLEAN /\ write_buf_push' \in BOOLEAN
  BY DEF DataReset, pu_obuf_rd_inc, IInv, TypeOK
<1>6. TypeOK'
  <2>1. /\ awchannel_req_buf' \in Seq(PU) /\ Len(awchannel_req_buf') <= REQ_BUF_DEPTH
        /\ write_buf' \in Seq(Words) /\ wchannel_req_buf' \in Seq(PU)
    BY <1>1
  <2>2. /\ WriteBuffer!waiting' \in 0 .. WRITE_BUF_DEPTH
        /\ SendRequests!waiting' \in 0 .. REQ_BUF_DEPTH
    BY <1>2
  <2>3. /\ awchannel_read' \in BOOLEAN /\ write_buf_shown' \in BOOLEAN
        /\ write_buf_almost_full' \in BOOLEAN /\ wchannel_req_buf_shown' \in BOOLEAN
        /\ wchannel_busy' \in BOOLEAN /\ wvalid' \in BOOLEAN
    BY <1>1, <1>4
  <2>4. QED BY <1>3, <1>4, <1>5, <2>1, <2>2, <2>3 DEF TypeOK
<1>7. ChannelInv' /\ RoomInv'
  BY <1>2, <1>4 DEF ChannelInv, RoomInv
<1>8. OutbufInv'
  BY DEF DataReset, OutbufInv
<1>9. QED BY <1>6, <1>7, <1>8 DEF IInv

\* Every step keeps the invariant.
LEMMA StepPreserves == IInv /\ [Next \/ DataReset]_dvars => IInv'
<1> SUFFICES ASSUME IInv, [Next \/ DataReset]_dvars PROVE IInv'
  OBVIOUS
<1>1. CASE Next
  <2>1. PICK accepted \in {<<>>} \cup {<<i>> : i \in PU}, wready \in BOOLEAN :
          DataEdge(accepted, wready)
    BY <1>1 DEF Next
  <2>2. QED BY <2>1, EdgeKeepsTypes, EdgeKeepsRoom DEF IInv
<1>2. CASE DataReset
  BY <1>2, ResetPreserves
<1>3. CASE UNCHANGED dvars
  BY <1>3 DEF dvars, IInv, TypeOK, ChannelInv, RoomInv, OutbufInv,
              WriteBuffer!waiting, SendRequests!waiting
<1>4. QED BY <1>1, <1>2, <1>3

\* For every number of units, burst length, depth and slave, with a reset at any
\* time, the registers of the write data side keep their widths; that no queue
\* overflows its memory and the beat counter passes -1 by one only included.
THEOREM TypeCorrect == ResetSpec => []TypeOK
<1>1. IInv => TypeOK
  BY DEF IInv
<1>2. QED BY <1>1, InitEstablishes, StepPreserves, PTL DEF ResetSpec

\* write_buf never overflows, whatever the slave does, if the margin is three
\* words or more.
THEOREM WordFindsRoomHolds ==
  ASSUME MARGIN >= 3
  PROVE  ResetSpec => []WordFindsRoom
<1>1. IInv => WordFindsRoom
  BY DEF IInv, RoomInv, WordFindsRoom, WriteBuffer!full
<1>2. QED BY <1>1, InitEstablishes, StepPreserves, PTL DEF ResetSpec

-----------------------------------------------------------------------------
(***************************************************************************)
(* Second part: the words of a burst are there when its beats are, in the  *)
(* right order.  Nothing in the code checks it: a burst is started as soon *)
(* as its first word is shown, and the W channel offers a beat on every    *)
(* edge from then on.  What makes it right is a rhythm: words are read one *)
(* an edge once a burst is begun, so they stay ahead of the beats as long  *)
(* as write_buf_almost_full never stops them, which is a bound on the      *)
(* stalls of the slave (SteadySlave).                                      *)
(*                                                                         *)
(* The invariant FlowInv has six parts: how the registers behind a read    *)
(* follow each other (RhythmInv), the account of the words owed, waiting   *)
(* and still to be read (AccountInv), the burst under way is fed           *)
(* (FeedInv), how far the reads run ahead (PaceInv), which burst a word    *)
(* belongs to (OrderInv), and that the words of a unit follow each other   *)
(* without a gap from the output buffer to the slave (PlaceInv).           *)
(***************************************************************************)

\* The stalls of the slave stop a burst below the mark of write_buf.
Slack == WRITE_BUF_DEPTH - MARGIN - BURST

SteadySlave == Slack >= 1 /\ StallLimit <= Slack

\* Words in the registers on the way, still to be read of the burst being read,
\* and beats to come of the burst being sent.
Arriving == IF write_buf_push THEN 1 ELSE 0
Fetched == IF pu_obuf_rd_inc_d THEN 1 ELSE 0
ToRead == IF awchannel_read THEN BURST - pu_obuf_rd_count ELSE 0
ToSend == IF wchannel_busy THEN wlen_count + 2 ELSE 0
Sending == IF wchannel_busy THEN 1 ELSE 0

\* A burst is read a word an edge: nothing holds a read back, so the registers
\* behind it follow from the count.
RhythmInv ==
  /\ ~write_buf_almost_full
  /\ outbuf_pop = IF pu_obuf_rd_inc_d THEN {pu_obuf_read_id} ELSE {}
  /\ awchannel_read => /\ pu_obuf_rd_inc_d <=> pu_obuf_rd_count >= 1
                       /\ pu_obuf_rd_count = 1 => ~write_buf_push
                       /\ pu_obuf_rd_count >= 2 => write_buf_push
  /\ ~awchannel_read => pu_obuf_rd_count = 0 /\ (pu_obuf_rd_inc_d => write_buf_push)

\* What the slave still has to get is what waits to be sent, and what waits to
\* be sent is, word by word, in write_buf, on its way or still to be read.
AccountInv ==
  /\ owed \in Seq([pu : PU, left : 1 .. BURST])
  /\ Len(owed) = Len(wchannel_req_buf) + Sending
  /\ \A k \in 1 .. Len(owed) :
       owed[k].left = IF k = 1 /\ wchannel_busy THEN wlen_count + 2 ELSE BURST
  /\ Len(write_buf) + Arriving + Fetched + ToRead + BURST * Len(awchannel_req_buf)
       = ToSend + BURST * Len(wchannel_req_buf)
  /\ (wchannel_req_buf # <<>> /\ ~wchannel_req_buf_shown) =>
       Len(wchannel_req_buf) = 1 /\ awchannel_req_buf # <<>>

\* The burst being sent is fed: its next word is shown, the one after it is
\* there, and while words of it are missing one arrives on every edge.
FeedInv ==
  /\ ~write_buf_shown => Len(write_buf) <= 1
  /\ wchannel_busy => /\ write_buf_shown
                      /\ ToSend >= 2 => Len(write_buf) >= 2
                      /\ Len(write_buf) < ToSend => write_buf_push

\* Edges on which a word arrives before one on which none does.
Ahead == IF ~write_buf_push THEN 0 ELSE IF ~pu_obuf_rd_inc_d THEN 1 ELSE 2 + ToRead

\* The words that wait exceed Slack by one at most, and not if the pause of the
\* W channel between two bursts comes before the one of the reads.
PaceInv ==
  /\ WriteBuffer!waiting <= Slack + 1
  /\ Ahead > ToSend => WriteBuffer!waiting <= Slack

-----------------------------------------------------------------------------

\* Both factors small, the product of the burst length and a count.
LEMMA TimesBurst ==
  ASSUME NEW q \in Nat
  PROVE  /\ BURST * q \in Nat /\ BURST * (q + 1) = BURST * q + BURST
         /\ q >= 1 => BURST * (q - 1) = BURST * q - BURST
         /\ BURST * 0 = 0
         /\ \A r \in Nat : r <= q => BURST * r <= BURST * q
         /\ \A r \in Nat : r < q => BURST * r <= BURST * q - BURST
<1>1. BURST * q \in Nat /\ BURST * (q + 1) = BURST * q + BURST
  OBVIOUS
<1>2. q >= 1 => BURST * (q - 1) = BURST * q - BURST
  OBVIOUS
<1>3. \A r \in Nat : r <= q => BURST * r <= BURST * q
  <2> SUFFICES ASSUME NEW r \in Nat, r <= q PROVE BURST * r <= BURST * q
    OBVIOUS
  <2>1. BURST * q = BURST * r + BURST * (q - r) /\ BURST * (q - r) \in Nat
    OBVIOUS
  <2>2. BURST * r \in Nat
    OBVIOUS
  <2>3. QED BY <2>1, <2>2, <1>1
<1>4. \A r \in Nat : r < q => BURST * r <= BURST * q - BURST
  <2> SUFFICES ASSUME NEW r \in Nat, r < q PROVE BURST * r <= BURST * q - BURST
    OBVIOUS
  <2>1. BURST * q = BURST * r + BURST * (q - r - 1) + BURST /\ BURST * (q - r - 1) \in Nat
    OBVIOUS
  <2>2. BURST * r \in Nat
    OBVIOUS
  <2>3. QED BY <2>1, <2>2, <1>1
<1>5. QED BY <1>1, <1>2, <1>3, <1>4

-----------------------------------------------------------------------------
(* What an edge does to the three buffers. *)

\* An edge on which no word and no request is refused.
Flowing(accepted, wready) ==
  /\ DataEdge(accepted, wready)
  /\ ~wready => MayStall
  /\ accepted # <<>> => /\ Len(awchannel_req_buf) < REQ_BUF_DEPTH
                        /\ Len(wchannel_req_buf) < REQ_BUF_DEPTH

\* The registers, one by one.
LEMMA Registers ==
  ASSUME IInv
  PROVE  /\ awchannel_read \in BOOLEAN /\ pu_obuf_rd_inc_d \in BOOLEAN
         /\ write_buf_push \in BOOLEAN /\ write_buf_shown \in BOOLEAN
         /\ write_buf_almost_full \in BOOLEAN /\ wchannel_req_buf_shown \in BOOLEAN
         /\ wchannel_busy \in BOOLEAN /\ wvalid \in BOOLEAN
         /\ awchannel_req_buf \in Seq(PU) /\ Len(awchannel_req_buf) \in Nat
         /\ wchannel_req_buf \in Seq(PU) /\ Len(wchannel_req_buf) \in Nat
         /\ write_buf \in Seq(Words) /\ Len(write_buf) \in Nat
         /\ write_buf_data_in \in Words /\ pu_obuf_read_id \in PU
         /\ pu_obuf_rd_count \in 0 .. BURST - 1 /\ wlen_count \in -2 .. BURST - 2
         /\ wchannel_busy <=> wvalid
         /\ wvalid => wlen_count >= -1
         /\ WriteBuffer!waiting \in 0 .. WRITE_BUF_DEPTH
         /\ SendRequests!waiting \in 0 .. REQ_BUF_DEPTH
  BY DEF IInv, TypeOK, ChannelInv

\* write_buf loses the beat that is taken and gains the word that arrives.
LEMMA WriteBufMoves ==
  ASSUME IInv, FeedInv, PaceInv, Slack >= 1, NEW wready \in BOOLEAN,
         WriteBuffer!Edge(write_buf_push, wnext(wready), write_buf_data_in)
  PROVE  LET beat == wnext(wready)
             kept == IF beat THEN Tail(write_buf) ELSE write_buf
         IN  /\ beat => write_buf # <<>>
             /\ write_buf' = IF write_buf_push THEN Append(kept, write_buf_data_in) ELSE kept
             /\ write_buf_shown' <=> (WriteBuffer!waiting > 0 \/ (write_buf_shown /\ ~beat))
<1> DEFINE beat == wnext(wready)
           kept == IF beat THEN Tail(write_buf) ELSE write_buf
           w == WriteBuffer!waiting
<1>1. beat => write_buf_shown
  BY Registers DEF wnext, FeedInv
<1>2. write_buf_shown => write_buf # <<>>
  <2>1. write_buf_shown => Len(write_buf) - 1 \in Nat
    BY Registers DEF WriteBuffer!waiting
  <2>2. QED BY <2>1, Registers
<1>3. w # WRITE_BUF_DEPTH
  <2>1. w <= Slack + 1 /\ w \in Nat
    BY Registers DEF PaceInv
  <2> HIDE DEF w
  <2>2. QED BY <2>1 DEF Slack
<1>4. write_buf' = IF write_buf_push THEN Append(kept, write_buf_data_in) ELSE kept
  BY <1>1, <1>3 DEF WriteBuffer!Edge, WriteBuffer!After, WriteBuffer!full
<1>5. write_buf_shown' = (w > 0 \/ (write_buf_shown /\ ~beat))
  BY DEF WriteBuffer!Edge
<1>6. write_buf_shown' <=> (w > 0 \/ (write_buf_shown /\ ~beat))
  BY <1>5, Zenon
<1>7. QED BY <1>1, <1>2, <1>4, <1>6

\* Both request buffers gain the accepted burst.
LEMMA RequestsMove ==
  ASSUME IInv, NEW accepted \in {<<>>} \cup {<<i>> : i \in PU}, NEW wready \in BOOLEAN,
         Flowing(accepted, wready)
  PROVE  LET kept1 == IF awchannel_req_buf_pop THEN Tail(awchannel_req_buf)
                      ELSE awchannel_req_buf
             kept2 == IF wchannel_req_buf_pop THEN Tail(wchannel_req_buf)
                      ELSE wchannel_req_buf
         IN  /\ awchannel_req_buf_pop => awchannel_req_buf # <<>>
             /\ wchannel_req_buf_pop => wchannel_req_buf # <<>>
             /\ awchannel_req_buf' =
                  IF accepted # <<>> THEN Append(kept1, accepted[1]) ELSE kept1
             /\ wchannel_req_buf' =
                  IF accepted # <<>> THEN Append(kept2, accepted[1]) ELSE kept2
             /\ pu_obuf_read_id' =
                  IF awchannel_req_buf_pop THEN Head(awchannel_req_buf) ELSE pu_obuf_read_id
             /\ wchannel_req_buf_shown' <=>
                  \/ SendRequests!waiting > 0
                  \/ wchannel_req_buf_shown /\ ~wchannel_req_buf_pop
<1> DEFINE kept1 == IF awchannel_req_buf_pop THEN Tail(awchannel_req_buf)
                    ELSE awchannel_req_buf
           kept2 == IF wchannel_req_buf_pop THEN Tail(wchannel_req_buf)
                    ELSE wchannel_req_buf
           w == SendRequests!waiting
<1>1. PICK unit \in PU :
        /\ accepted # <<>> => unit = accepted[1]
        /\ ReadRequests!Edge(accepted # <<>>, awchannel_req_buf_pop, unit)
        /\ SendRequests!Edge(accepted # <<>>, wchannel_req_buf_pop, unit)
  BY DEF Flowing, DataEdge
<1>2. awchannel_req_buf_pop => awchannel_req_buf # <<>>
  BY DEF awchannel_req_buf_pop
<1>3. wchannel_req_buf_pop => wchannel_req_buf_shown /\ wchannel_req_buf # <<>>
  <2>1. wchannel_req_buf_shown => Len(wchannel_req_buf) - 1 \in Nat
    BY Registers DEF SendRequests!waiting
  <2>2. QED BY <2>1, Registers DEF wchannel_req_buf_pop
<1>4. accepted # <<>> => w # REQ_BUF_DEPTH
  <2>1. w <= Len(wchannel_req_buf) /\ w \in Nat
    BY Registers DEF SendRequests!waiting
  <2> HIDE DEF w
  <2>2. QED BY <2>1, Registers DEF Flowing
<1>5. awchannel_req_buf' = IF accepted # <<>> THEN Append(kept1, accepted[1]) ELSE kept1
  BY <1>1, <1>2 DEF Flowing, ReadRequests!Edge, ReadRequests!After
<1>6. wchannel_req_buf' = IF accepted # <<>> THEN Append(kept2, accepted[1]) ELSE kept2
  BY <1>1, <1>3, <1>4 DEF SendRequests!Edge, SendRequests!After, SendRequests!full
<1>7. pu_obuf_read_id' =
        IF awchannel_req_buf_pop THEN Head(awchannel_req_buf) ELSE pu_obuf_read_id
  BY <1>1, <1>2 DEF ReadRequests!Edge, ReadRequests!ReadPort
<1>8. wchannel_req_buf_shown' = (w > 0 \/ (wchannel_req_buf_shown /\ ~wchannel_req_buf_pop))
  BY <1>1 DEF SendRequests!Edge
<1>9. wchannel_req_buf_shown' <=> (w > 0 \/ (wchannel_req_buf_shown /\ ~wchannel_req_buf_pop))
  BY <1>8, Zenon
<1>10. QED BY <1>2, <1>3, <1>5, <1>6, <1>7, <1>9

\* The reads: a burst is read a word an edge and the registers follow.
LEMMA ReadSideMoves ==
  ASSUME IInv, RhythmInv, NEW accepted, NEW wready, DataEdge(accepted, wready)
  PROVE  /\ write_buf_push' <=> pu_obuf_rd_inc_d
         /\ pu_obuf_rd_inc_d' <=> awchannel_read
         /\ outbuf_pop' = IF awchannel_read THEN {pu_obuf_read_id} ELSE {}
         /\ awchannel_read' <=> IF awchannel_read THEN pu_obuf_rd_count # BURST - 1
                                ELSE awchannel_req_buf # <<>>
         /\ pu_obuf_rd_count' = IF ~awchannel_read THEN pu_obuf_rd_count
                                ELSE IF pu_obuf_rd_count = BURST - 1 THEN 0
                                ELSE pu_obuf_rd_count + 1
<1>1. pu_obuf_rd_inc <=> awchannel_read
  BY DEF pu_obuf_rd_inc, RhythmInv
<1>2. /\ write_buf_push' <=> pu_obuf_rd_inc_d
      /\ pu_obuf_rd_inc_d' <=> awchannel_read
      /\ outbuf_pop' = IF awchannel_read THEN {pu_obuf_read_id} ELSE {}
  <2>1. /\ write_buf_push' = pu_obuf_rd_inc_d
        /\ pu_obuf_rd_inc_d' = pu_obuf_rd_inc
        /\ outbuf_pop' = IF pu_obuf_rd_inc THEN {pu_obuf_read_id} ELSE {}
    BY DEF DataEdge, ObufRead
  <2>2. QED BY <1>1, <2>1, Zenon
<1>3. awchannel_read' <=> IF awchannel_read THEN pu_obuf_rd_count # BURST - 1
                          ELSE awchannel_req_buf # <<>>
  BY Zenon DEF DataEdge, AwChannelFsm, pu_obuf_rd_overflow
<1>4. pu_obuf_rd_count' = IF ~awchannel_read THEN pu_obuf_rd_count
                          ELSE IF pu_obuf_rd_count = BURST - 1 THEN 0
                          ELSE pu_obuf_rd_count + 1
  BY <1>1 DEF DataEdge, ObufReadCounter, pu_obuf_rd_overflow
<1>5. QED BY <1>2, <1>3, <1>4

\* The W channel: a burst is started, sends a beat, its last one included, waits
\* for the slave, or there is none.
LEMMA SendSideMoves ==
  ASSUME IInv, NEW accepted, NEW wready \in BOOLEAN, DataEdge(accepted, wready)
  PROVE  /\ wnext(wready) <=> wchannel_busy /\ wready
         /\ wchannel_busy /\ wready /\ wlen_count = -1 => ~wchannel_busy'
         /\ wchannel_busy /\ wready /\ wlen_count # -1 =>
              wchannel_busy' /\ wlen_count' = wlen_count - 1
         /\ wchannel_busy /\ ~wready => wchannel_busy' /\ wlen_count' = wlen_count
         /\ ~wchannel_busy =>
              wchannel_busy' <=> wchannel_req_buf_shown /\ write_buf_shown
         /\ ~wchannel_busy /\ wchannel_busy' => wlen_count' = BURST - 2
         /\ wchannel_req_buf_pop <=>
              ~wchannel_busy /\ wchannel_req_buf_shown /\ write_buf_shown
<1>1. wchannel_req_buf_pop <=> ~wchannel_busy /\ wchannel_req_buf_shown /\ write_buf_shown
  BY DEF wchannel_req_buf_pop
<1>2. wnext(wready) <=> wchannel_busy /\ wready
  BY Registers DEF wnext
<1>3. wchannel_busy => (wlast <=> wlen_count = -1)
  BY Registers DEF wlast
<1>4. wchannel_busy' <=> IF wchannel_busy THEN ~(wlast /\ wnext(wready))
                         ELSE wchannel_req_buf_pop
  BY Zenon DEF DataEdge, WChannelFsm
<1>5. wlen_count' = IF wchannel_req_buf_pop THEN BURST - 2
                    ELSE IF wnext(wready) THEN wlen_count - 1 ELSE wlen_count
  BY DEF DataEdge, WLenCount
<1>6. QED BY <1>1, <1>2, <1>3, <1>4, <1>5

\* The counts of an edge, all in one place.
LEMMA CountsMove ==
  ASSUME IInv, RhythmInv, FeedInv, PaceInv, Slack >= 1,
         NEW accepted \in {<<>>} \cup {<<i>> : i \in PU}, NEW wready \in BOOLEAN,
         Flowing(accepted, wready)
  PROVE  LET more == IF accepted # <<>> THEN 1 ELSE 0
             started == IF wchannel_req_buf_pop THEN 1 ELSE 0
             begun == IF awchannel_req_buf_pop THEN 1 ELSE 0
             beat == IF wchannel_busy /\ wready THEN 1 ELSE 0
             read == IF awchannel_read THEN 1 ELSE 0
         IN  /\ Len(write_buf)' = Len(write_buf) - beat + Arriving
             /\ Len(wchannel_req_buf)' = Len(wchannel_req_buf) - started + more
             /\ Len(awchannel_req_buf)' = Len(awchannel_req_buf) - begun + more
             /\ Arriving' = Fetched
             /\ Fetched' = read
             /\ ToRead' = ToRead - read + BURST * begun
             /\ ToSend' = ToSend - beat + BURST * started
             /\ started = 1 => Len(wchannel_req_buf) >= 1 /\ ~wchannel_busy
             /\ begun = 1 => Len(awchannel_req_buf) >= 1 /\ ~awchannel_read
<1> DEFINE more == IF accepted # <<>> THEN 1 ELSE 0
           started == IF wchannel_req_buf_pop THEN 1 ELSE 0
           begun == IF awchannel_req_buf_pop THEN 1 ELSE 0
           beat == IF wchannel_busy /\ wready THEN 1 ELSE 0
           read == IF awchannel_read THEN 1 ELSE 0
<1>1. DataEdge(accepted, wready)
  BY DEF Flowing
<1>2. Len(write_buf)' = Len(write_buf) - beat + Arriving
  <2> DEFINE kept == IF wnext(wready) THEN Tail(write_buf) ELSE write_buf
  <2>1. /\ wnext(wready) => write_buf # <<>>
        /\ write_buf' = IF write_buf_push THEN Append(kept, write_buf_data_in) ELSE kept
    <3>1. WriteBuffer!Edge(write_buf_push, wnext(wready), write_buf_data_in)
      BY <1>1 DEF DataEdge
    <3>2. QED BY <3>1, WriteBufMoves
  <2>2. wnext(wready) <=> wchannel_busy /\ wready
    BY <1>1, SendSideMoves
  <2>3. kept \in Seq(Words) /\ Len(kept) = Len(write_buf) - beat
    <3>1. CASE wnext(wready)
      BY <2>1, <2>2, <3>1, Registers
    <3>2. CASE ~wnext(wready)
      BY <2>2, <3>2, Registers
    <3>3. QED BY <3>1, <3>2
  <2> HIDE DEF kept, beat
  <2>4. write_buf_push \in BOOLEAN /\ write_buf_data_in \in Words /\ Len(write_buf) \in Nat
    BY Registers
  <2>5. CASE write_buf_push
    <3>1. write_buf' = Append(kept, write_buf_data_in) /\ Arriving = 1
      BY <2>1, <2>5 DEF Arriving
    <3>2. Len(write_buf') = Len(kept) + 1
      BY ONLY <2>3, <3>1
    <3>3. QED BY <2>3, <3>1, <3>2
  <2>6. CASE ~write_buf_push
    <3>1. write_buf' = kept /\ Arriving = 0
      BY <2>1, <2>6 DEF Arriving
    <3>2. Len(write_buf)' = Len(write_buf) - beat /\ beat \in {0, 1}
      BY <2>3, <3>1 DEF beat
    <3>3. QED BY ONLY <2>4, <3>1, <3>2
  <2>7. QED BY <2>5, <2>6
<1>3. /\ Len(wchannel_req_buf)' = Len(wchannel_req_buf) - started + more
      /\ started = 1 => Len(wchannel_req_buf) >= 1 /\ ~wchannel_busy
  <2> DEFINE kept == IF wchannel_req_buf_pop THEN Tail(wchannel_req_buf)
                     ELSE wchannel_req_buf
  <2>1. /\ wchannel_req_buf_pop => wchannel_req_buf # <<>>
        /\ wchannel_req_buf' = IF accepted # <<>> THEN Append(kept, accepted[1]) ELSE kept
    BY RequestsMove
  <2>2. kept \in Seq(PU) /\ Len(kept) = Len(wchannel_req_buf) - started
    BY <2>1, Registers
  <2>3. started = 1 => Len(wchannel_req_buf) >= 1 /\ ~wchannel_busy
    BY <1>1, <2>1, Registers, SendSideMoves
  <2>4. accepted # <<>> => accepted[1] \in PU
    OBVIOUS
  <2> HIDE DEF kept, started
  <2>5. QED BY <2>1, <2>2, <2>3, <2>4
<1>4. /\ Len(awchannel_req_buf)' = Len(awchannel_req_buf) - begun + more
      /\ begun = 1 => Len(awchannel_req_buf) >= 1 /\ ~awchannel_read
  <2> DEFINE kept == IF awchannel_req_buf_pop THEN Tail(awchannel_req_buf)
                     ELSE awchannel_req_buf
  <2>1. /\ awchannel_req_buf_pop => awchannel_req_buf # <<>>
        /\ awchannel_req_buf' = IF accepted # <<>> THEN Append(kept, accepted[1]) ELSE kept
    BY RequestsMove
  <2>2. kept \in Seq(PU) /\ Len(kept) = Len(awchannel_req_buf) - begun
    BY <2>1, Registers
  <2>3. begun = 1 => Len(awchannel_req_buf) >= 1 /\ ~awchannel_read
    BY <2>1, Registers DEF awchannel_req_buf_pop
  <2>4. accepted # <<>> => accepted[1] \in PU
    OBVIOUS
  <2>5. Len(awchannel_req_buf) \in Nat /\ begun \in {0, 1}
    BY Registers
  <2> HIDE DEF kept, begun
  <2>6. CASE accepted # <<>>
    <3>1. awchannel_req_buf' = Append(kept, accepted[1]) /\ more = 1
      BY <2>1, <2>6
    <3>2. Len(awchannel_req_buf') = Len(kept) + 1
      BY ONLY <2>2, <3>1
    <3>3. Len(kept) + 1 = Len(awchannel_req_buf) - begun + 1
      BY <2>2, <2>5
    <3>4. QED BY ONLY <2>3, <3>1, <3>2, <3>3
  <2>7. CASE accepted = <<>>
    <3>1. awchannel_req_buf' = kept /\ more = 0
      BY <2>1, <2>7
    <3>2. QED BY <2>2, <2>3, <2>5, <3>1
  <2>8. QED BY <2>6, <2>7
<1>5. Arriving' = Fetched /\ Fetched' = read
  BY <1>1, ReadSideMoves DEF Arriving, Fetched
<1>6. ToRead' = ToRead - read + BURST * begun
  <2>1. pu_obuf_rd_count \in 0 .. BURST - 1
    BY Registers
  <2>2. /\ awchannel_read' <=> IF awchannel_read THEN pu_obuf_rd_count # BURST - 1
                               ELSE awchannel_req_buf # <<>>
        /\ pu_obuf_rd_count' = IF ~awchannel_read THEN pu_obuf_rd_count
                               ELSE IF pu_obuf_rd_count = BURST - 1 THEN 0
                               ELSE pu_obuf_rd_count + 1
    BY <1>1, ReadSideMoves
  <2>3. awchannel_req_buf_pop <=> ~awchannel_read /\ awchannel_req_buf # <<>>
    BY DEF awchannel_req_buf_pop
  <2>4. CASE awchannel_read
    <3>1. CASE pu_obuf_rd_count = BURST - 1
      BY <2>1, <2>2, <2>3, <2>4, <3>1 DEF ToRead
    <3>2. CASE pu_obuf_rd_count # BURST - 1
      BY <2>1, <2>2, <2>3, <2>4, <3>2 DEF ToRead
    <3>3. QED BY <3>1, <3>2
  <2>5. CASE ~awchannel_read /\ awchannel_req_buf # <<>>
    <3>1. pu_obuf_rd_count = 0
      BY <2>5 DEF RhythmInv
    <3>2. QED BY <2>2, <2>3, <2>5, <3>1 DEF ToRead
  <2>6. CASE ~awchannel_read /\ awchannel_req_buf = <<>>
    BY <2>2, <2>3, <2>6 DEF ToRead
  <2>7. QED BY <2>4, <2>5, <2>6
<1>7. ToSend' = ToSend - beat + BURST * started
  <2>1. CASE wchannel_busy
    <3>1. wlen_count \in Int /\ wlen_count >= -1 /\ started = 0
      BY <1>1, <2>1, SendSideMoves, Registers
    <3>2. ToSend = wlen_count + 2
      BY <2>1 DEF ToSend
    <3>3. CASE wready
      <4>1. ToSend' = wlen_count + 1
        <5>1. CASE wlen_count = -1
          <6>1. ~wchannel_busy'
            BY <1>1, <2>1, <3>3, <5>1, SendSideMoves
          <6>2. QED BY <5>1, <6>1 DEF ToSend
        <5>2. CASE wlen_count # -1
          <6>1. wchannel_busy' /\ wlen_count' = wlen_count - 1
            BY <1>1, <2>1, <3>3, <5>2, SendSideMoves
          <6>2. QED BY <3>1, <6>1 DEF ToSend
        <5>3. QED BY <5>1, <5>2
      <4>2. QED BY <2>1, <3>1, <3>2, <3>3, <4>1
    <3>4. CASE ~wready
      <4>1. wchannel_busy' /\ wlen_count' = wlen_count
        BY <1>1, <2>1, <3>4, SendSideMoves
      <4>2. ToSend' = ToSend
        BY <2>1, <4>1 DEF ToSend
      <4>3. QED BY <2>1, <3>1, <3>2, <3>4, <4>2
    <3>5. QED BY <3>3, <3>4
  <2>2. CASE ~wchannel_busy
    BY <1>1, <2>2, SendSideMoves, Registers DEF ToSend
  <2>3. QED BY <2>1, <2>2
<1>8. QED BY <1>2, <1>3, <1>4, <1>5, <1>6, <1>7
-----------------------------------------------------------------------------
(* The numbers: rhythm, account, feed and pace. *)

\* The bursts the slave still has to get, on an edge: the first loses a beat or
\* goes, an accepted one joins.
LEMMA OwedMoves ==
  ASSUME IInv, AccountInv,
         NEW accepted \in {<<>>} \cup {<<i>> : i \in PU}, NEW wready \in BOOLEAN,
         DataEdge(accepted, wready)
  PROVE  LET rest == IF ~(wchannel_busy /\ wready) THEN owed
                     ELSE IF wlen_count = -1 THEN Tail(owed)
                     ELSE [owed EXCEPT ![1].left = @ - 1]
         IN  /\ wchannel_busy => owed # <<>> /\ owed[1].left = wlen_count + 2
             /\ rest \in Seq([pu : PU, left : 1 .. BURST])
             /\ owed' = IF accepted # <<>>
                          THEN Append(rest, [pu |-> accepted[1], left |-> BURST])
                          ELSE rest
             /\ taken' = IF wchannel_busy /\ wready
                           THEN [taken EXCEPT ![owed[1].pu] = (@ + 1) % WordMod]
                           ELSE taken
<1> DEFINE rest == IF ~(wchannel_busy /\ wready) THEN owed
                   ELSE IF wlen_count = -1 THEN Tail(owed)
                   ELSE [owed EXCEPT ![1].left = @ - 1]
           joins == [k \in 1 .. Len(accepted) |-> [pu |-> accepted[k], left |-> BURST]]
           Bursts == [pu : PU, left : 1 .. BURST]
<1>1. owed \in Seq(Bursts) /\ Len(owed) \in Nat
  BY DEF AccountInv
<1>2. wchannel_busy => owed # <<>> /\ owed[1].left = wlen_count + 2
  <2> SUFFICES ASSUME wchannel_busy PROVE owed # <<>> /\ owed[1].left = wlen_count + 2
    OBVIOUS
  <2>1. Len(owed) >= 1
    BY Registers DEF AccountInv, Sending
  <2>2. 1 \in 1 .. Len(owed)
    BY <1>1, <2>1
  <2>3. QED BY <2>1, <2>2 DEF AccountInv
<1>3. wnext(wready) <=> wchannel_busy /\ wready
  BY SendSideMoves
<1>4. wnext(wready) /\ owed # <<>> <=> wchannel_busy /\ wready
  BY <1>2, <1>3
<1>5. Head(owed) = owed[1]
  OBVIOUS
<1>6. wchannel_busy => (owed[1].left = 1 <=> wlen_count = -1)
  <2>1. wlen_count \in Int
    BY Registers
  <2>2. QED BY <1>2, <2>1
<1>7. /\ owed' = rest \o joins
      /\ taken' = IF wchannel_busy /\ wready
                    THEN [taken EXCEPT ![owed[1].pu] = (@ + 1) % WordMod]
                    ELSE taken
  BY <1>4, <1>5, <1>6 DEF DataEdge, Slave
<1>8. rest \in Seq(Bursts)
  <2>1. CASE ~(wchannel_busy /\ wready)
    BY <1>1, <2>1
  <2>2. CASE wchannel_busy /\ wready /\ wlen_count = -1
    BY <1>1, <1>2, <2>2
  <2>3. CASE wchannel_busy /\ wready /\ wlen_count # -1
    <3> DEFINE first == [owed[1] EXCEPT !.left = @ - 1]
    <3>1. 1 \in 1 .. Len(owed)
      BY <1>1, <1>2, <2>3
    <3>2. owed[1] \in Bursts
      BY <1>1, <3>1, ElementOfSeq
    <3>3. owed[1].left - 1 \in 1 .. BURST
      <4>1. owed[1].left \in 1 .. BURST
        BY <3>2
      <4>2. owed[1].left = wlen_count + 2 /\ wlen_count + 2 >= 2
        <5>1. wchannel_busy /\ owed[1].left = wlen_count + 2
          BY <1>2, <2>3
        <5>2. wlen_count \in Int /\ wlen_count >= -1
          BY <5>1, Registers
        <5>3. QED BY <2>3, <5>1, <5>2
      <4>3. QED BY <4>1, <4>2
    <3>4. first \in Bursts
      BY <3>2, <3>3
    <3>5. rest = [owed EXCEPT ![1] = first]
      BY <2>3
    <3> HIDE DEF first, rest
    <3>6. [owed EXCEPT ![1] = first] \in Seq(Bursts)
      BY <1>1, <3>1, <3>4
    <3>7. QED BY <3>5, <3>6
  <2>4. QED BY <2>1, <2>2, <2>3
<1> HIDE DEF rest
<1>9. rest \o joins = IF accepted # <<>>
                        THEN Append(rest, [pu |-> accepted[1], left |-> BURST])
                        ELSE rest
  <2>1. CASE accepted = <<>>
    <3>1. joins = <<>>
      BY <2>1
    <3>2. QED BY <1>8, <2>1, <3>1
  <2>2. CASE accepted # <<>>
    <3>1. PICK i \in PU : accepted = <<i>>
      BY <2>2
    <3>2. joins = <<[pu |-> accepted[1], left |-> BURST]>>
      BY <3>1
    <3>3. [pu |-> accepted[1], left |-> BURST] \in Bursts
      BY <3>1
    <3> HIDE DEF joins, Bursts
    <3>4. Append(rest, [pu |-> accepted[1], left |-> BURST])
           = rest \o <<[pu |-> accepted[1], left |-> BURST]>>
      BY <1>8, <3>3, AppendIsConcat
    <3>5. QED BY ONLY <2>2, <3>2, <3>4
  <2>3. QED BY <2>1, <2>2
<1>10. QED BY <1>2, <1>7, <1>8, <1>9 DEF rest

\* A burst goes on being read a word an edge, since write_buf stays below the
\* mark.
LEMMA RhythmKept ==
  ASSUME IInv, RhythmInv, PaceInv,
         NEW accepted, NEW wready, DataEdge(accepted, wready)
  PROVE  RhythmInv'
<1>1. ~write_buf_almost_full'
  <2> DEFINE w == WriteBuffer!waiting
  <2>1. write_buf_almost_full' <=> w >= WRITE_BUF_DEPTH - MARGIN
    BY Zenon DEF DataEdge, AlmostFull
  <2>2. w <= Slack + 1 /\ w \in Nat
    BY Registers DEF PaceInv
  <2> HIDE DEF w
  <2>3. QED BY <2>1, <2>2 DEF Slack
<1>2. outbuf_pop' = IF pu_obuf_rd_inc_d' THEN {pu_obuf_read_id'} ELSE {}
  <2>1. awchannel_read => pu_obuf_read_id' = pu_obuf_read_id
    BY DEF DataEdge, awchannel_req_buf_pop, ReadRequests!Edge, ReadRequests!ReadPort
  <2>2. QED BY <2>1, ReadSideMoves
<1>3. awchannel_read' =>
        /\ pu_obuf_rd_inc_d' <=> pu_obuf_rd_count' >= 1
        /\ pu_obuf_rd_count' = 1 => ~write_buf_push'
        /\ pu_obuf_rd_count' >= 2 => write_buf_push'
  <2>1. pu_obuf_rd_count \in 0 .. BURST - 1
    BY Registers
  <2>2. CASE awchannel_read
    <3>1. /\ awchannel_read' => pu_obuf_rd_count' = pu_obuf_rd_count + 1
          /\ write_buf_push' <=> pu_obuf_rd_inc_d
          /\ pu_obuf_rd_inc_d'
      BY <2>2, ReadSideMoves
    <3>2. pu_obuf_rd_inc_d <=> pu_obuf_rd_count >= 1
      BY <2>2 DEF RhythmInv
    <3>3. /\ pu_obuf_rd_count + 1 >= 1
          /\ pu_obuf_rd_count + 1 = 1 => ~(pu_obuf_rd_count >= 1)
          /\ pu_obuf_rd_count + 1 >= 2 => pu_obuf_rd_count >= 1
      BY <2>1
    <3>4. QED BY <3>1, <3>2, <3>3
  <2>3. CASE ~awchannel_read
    <3>1. /\ pu_obuf_rd_count' = pu_obuf_rd_count
          /\ write_buf_push' <=> pu_obuf_rd_inc_d
          /\ ~pu_obuf_rd_inc_d'
      BY <2>3, ReadSideMoves
    <3>2. pu_obuf_rd_count = 0
      BY <2>3 DEF RhythmInv
    <3>3. QED BY <3>1, <3>2
  <2>4. QED BY <2>2, <2>3
<1>4. ~awchannel_read' =>
        pu_obuf_rd_count' = 0 /\ (pu_obuf_rd_inc_d' => write_buf_push')
  BY ReadSideMoves, Registers DEF RhythmInv
<1>5. QED BY <1>1, <1>2, <1>3, <1>4 DEF RhythmInv

\* The slave's bursts stay those that wait to be sent, each with all its beats
\* to come but the one being sent.
LEMMA OwedKept ==
  ASSUME IInv, RhythmInv, AccountInv, FeedInv, PaceInv, Slack >= 1,
         NEW accepted \in {<<>>} \cup {<<i>> : i \in PU}, NEW wready \in BOOLEAN,
         Flowing(accepted, wready)
  PROVE  /\ owed' \in Seq([pu : PU, left : 1 .. BURST])
         /\ Len(owed') = Len(wchannel_req_buf') + Sending'
         /\ \A k \in 1 .. Len(owed') :
              owed'[k].left = IF k = 1 /\ wchannel_busy' THEN wlen_count' + 2 ELSE BURST
<1> DEFINE Bursts == [pu : PU, left : 1 .. BURST]
           rest == IF ~(wchannel_busy /\ wready) THEN owed
                   ELSE IF wlen_count = -1 THEN Tail(owed)
                   ELSE [owed EXCEPT ![1].left = @ - 1]
           new == [pu |-> accepted[1], left |-> BURST]
           more == IF accepted # <<>> THEN 1 ELSE 0
<1>1. DataEdge(accepted, wready)
  BY DEF Flowing
<1>2. /\ wchannel_busy => owed # <<>> /\ owed[1].left = wlen_count + 2
      /\ rest \in Seq(Bursts)
      /\ owed' = IF accepted # <<>> THEN Append(rest, new) ELSE rest
  BY <1>1, OwedMoves
<1>3. /\ owed \in Seq(Bursts) /\ Len(owed) \in Nat
      /\ Len(owed) = Len(wchannel_req_buf) + Sending
  BY DEF AccountInv
<1>4. /\ wchannel_busy /\ wready /\ wlen_count = -1 =>
           Len(rest) = Len(owed) - 1 /\ \A k \in 1 .. Len(rest) : rest[k] = owed[k + 1]
      /\ ~(wchannel_busy /\ wready /\ wlen_count = -1) => Len(rest) = Len(owed)
  <2>1. CASE wchannel_busy /\ wready /\ wlen_count = -1
    <3>1. rest = Tail(owed) /\ owed # <<>>
      BY <1>2, <2>1
    <3> HIDE DEF rest
    <3>2. Len(rest) = Len(owed) - 1 /\ \A k \in 1 .. Len(rest) : rest[k] = owed[k + 1]
      BY ONLY <1>3, <3>1
    <3>3. QED BY <2>1, <3>2
  <2>2. CASE ~(wchannel_busy /\ wready)
    BY <2>2
  <2>3. CASE wchannel_busy /\ wready /\ wlen_count # -1
    <3>1. rest = [owed EXCEPT ![1].left = @ - 1]
      BY <2>3
    <3>2. Len(rest) = Len(owed)
      BY ONLY <1>3, <3>1
    <3>3. QED BY <2>3, <3>2
  <2>4. QED BY <2>1, <2>2, <2>3
<1>5. /\ wchannel_busy /\ wready /\ wlen_count # -1 =>
           rest = [owed EXCEPT ![1].left = @ - 1]
      /\ ~(wchannel_busy /\ wready) => rest = owed
  OBVIOUS
<1> HIDE DEF rest
<1>6. Len(rest) + more = Len(wchannel_req_buf') + Sending' /\ (wchannel_busy' => Len(rest) >= 1)
  <2> DEFINE started == IF wchannel_req_buf_pop THEN 1 ELSE 0
             ended == IF wchannel_busy /\ wready /\ wlen_count = -1 THEN 1 ELSE 0
  <2>1. /\ Len(wchannel_req_buf') = Len(wchannel_req_buf) - started + more
        /\ started = 1 => Len(wchannel_req_buf) >= 1 /\ ~wchannel_busy
    BY CountsMove
  <2>2. Sending' = Sending + started - ended /\ (wchannel_busy' <=> Sending' = 1)
    BY <1>1, SendSideMoves, Registers DEF Sending
  <2>3. Len(rest) = Len(owed) - ended
    BY <1>3, <1>4
  <2>4. Sending \in {0, 1} /\ (Sending = 1 => wchannel_busy) /\ (ended = 1 => Sending = 1)
    BY DEF Sending
  <2>5. more \in {0, 1} /\ started \in {0, 1} /\ ended \in {0, 1}
    OBVIOUS
  <2> HIDE DEF more, started, ended
  <2>6. Len(wchannel_req_buf) \in Nat
    BY Registers
  <2>7. Len(rest) + more = Len(wchannel_req_buf') + Sending'
    <3>1. Len(owed) = Len(wchannel_req_buf) + Sending
      BY <1>3
    <3>2. QED BY ONLY <2>1, <2>2, <2>3, <2>4, <2>5, <2>6, <3>1
  <2>8. wchannel_busy' => Len(rest) >= 1
    <3> SUFFICES ASSUME wchannel_busy' PROVE Len(rest) >= 1
      OBVIOUS
    <3>1. Sending + started - ended = 1 /\ Len(rest) = Len(wchannel_req_buf) + Sending - ended
      <4>1. Len(owed) = Len(wchannel_req_buf) + Sending
        BY <1>3
      <4>2. Sending' = 1
        BY <2>2
      <4>3. QED BY ONLY <2>2, <2>3, <2>4, <2>5, <2>6, <4>1, <4>2
    <3>2. started = 1 => Len(wchannel_req_buf) >= 1
      BY <2>1
    <3>3. QED BY ONLY <2>4, <2>5, <2>6, <3>1, <3>2
  <2>9. QED BY <2>7, <2>8
<1>7. ASSUME NEW k \in 1 .. Len(rest)
      PROVE  rest[k].left = IF k = 1 /\ wchannel_busy' THEN wlen_count' + 2 ELSE BURST
  <2>1. \A m \in 1 .. Len(owed) :
          owed[m].left = IF m = 1 /\ wchannel_busy THEN wlen_count + 2 ELSE BURST
    BY DEF AccountInv
  <2>2. CASE wchannel_busy /\ wready /\ wlen_count = -1
    <3>1. ~wchannel_busy'
      BY <1>1, <2>2, SendSideMoves
    <3>2. rest[k] = owed[k + 1] /\ k + 1 \in 2 .. Len(owed)
      <4>1. Len(rest) = Len(owed) - 1 /\ \A l \in 1 .. Len(rest) : rest[l] = owed[l + 1]
        BY <1>4, <2>2
      <4>2. k + 1 \in 2 .. Len(owed)
        BY <1>3, <4>1
      <4>3. QED BY <4>1, <4>2
    <3>3. owed[k + 1].left = BURST
      BY <2>1, <3>2
    <3>4. QED BY <3>1, <3>2, <3>3
  <2>3. CASE wchannel_busy /\ wready /\ wlen_count # -1
    <3>1. wchannel_busy' /\ wlen_count' = wlen_count - 1
      BY <1>1, <2>3, SendSideMoves
    <3>2. rest = [owed EXCEPT ![1].left = @ - 1] /\ k \in 1 .. Len(owed)
      BY <1>3, <1>4, <1>5, <2>3
    <3>3. CASE k = 1
      <4>1. owed[1] \in Bursts
        BY <1>3, <3>2, <3>3, ElementOfSeq
      <4>2. 1 \in DOMAIN owed
        BY <1>3, <3>2, <3>3
      <4>3. rest[1] = [owed[1] EXCEPT !.left = @ - 1]
        BY <3>2, <4>2
      <4>4. rest[1].left = owed[1].left - 1
        BY <4>1, <4>3
      <4>5. rest[1].left = wlen_count' + 2
        <5>1. wlen_count \in Int
          BY Registers
        <5>2. owed[1].left = wlen_count + 2
          BY <1>2, <2>3
        <5>3. QED BY <3>1, <4>4, <5>1, <5>2
      <4>6. QED BY <3>1, <3>3, <4>5
    <3>4. CASE k # 1
      <4>1. rest[k] = owed[k]
        BY <1>3, <3>2, <3>4
      <4>2. owed[k].left = BURST
        BY <2>1, <3>2, <3>4
      <4>3. QED BY <3>4, <4>1, <4>2
    <3>5. QED BY <3>3, <3>4
  <2>4. CASE ~(wchannel_busy /\ wready)
    <3>1. rest = owed
      BY <1>5, <2>4
    <3>2. /\ wchannel_busy => wchannel_busy' /\ wlen_count' = wlen_count
          /\ ~wchannel_busy /\ wchannel_busy' => wlen_count' = BURST - 2
      BY <1>1, <2>4, SendSideMoves
    <3>3. owed[k].left = IF k = 1 /\ wchannel_busy THEN wlen_count + 2 ELSE BURST
      BY <2>1, <3>1
    <3>4. CASE wchannel_busy
      <4>1. rest[k].left = IF k = 1 THEN wlen_count' + 2 ELSE BURST
        BY <3>1, <3>2, <3>3, <3>4
      <4>2. QED BY <3>2, <3>4, <4>1
    <3>5. CASE ~wchannel_busy
      <4>1. rest[k].left = BURST
        BY <3>1, <3>3, <3>5
      <4>2. wchannel_busy' => wlen_count' + 2 = BURST
        BY <3>2, <3>5
      <4>3. QED BY <4>1, <4>2
    <3>6. QED BY <3>4, <3>5
  <2>5. QED BY <2>2, <2>3, <2>4
<1>8. CASE accepted = <<>>
  BY <1>2, <1>6, <1>7, <1>8
<1>9. CASE accepted # <<>>
  <2>1. new \in Bursts
    <3>1. accepted[1] \in PU
      BY <1>9
    <3>2. QED BY <3>1
  <2>2. owed' = Append(rest, new)
    BY <1>2, <1>9
  <2>3. new.left = BURST
    OBVIOUS
  <2> HIDE DEF new, Bursts
  <2>4. owed' \in Seq(Bursts) /\ Len(owed') = Len(rest) + 1
    BY <1>2, <2>1, <2>2
  <2>5. \A k \in 1 .. Len(owed') : owed'[k] = IF k = Len(rest) + 1 THEN new ELSE rest[k]
    BY <1>2, <2>1, <2>2, <2>4
  <2>6. \A k \in 1 .. Len(owed') :
          owed'[k].left = IF k = 1 /\ wchannel_busy' THEN wlen_count' + 2 ELSE BURST
    BY <1>2, <1>6, <1>7, <2>3, <2>4, <2>5
  <2>7. QED BY <1>6, <1>9, <2>4, <2>6 DEF Bursts
<1>10. QED BY <1>8, <1>9

\* The counts as numbers.
LEMMA Counts ==
  ASSUME IInv
  PROVE  /\ Arriving \in {0, 1} /\ (Arriving = 1 <=> write_buf_push)
         /\ Fetched \in {0, 1} /\ (Fetched = 1 <=> pu_obuf_rd_inc_d)
         /\ ToRead \in 0 .. BURST /\ (ToRead > 0 <=> awchannel_read)
         /\ ToSend \in 0 .. BURST /\ (ToSend > 0 <=> wchannel_busy)
         /\ Sending \in {0, 1} /\ (Sending = 1 <=> wchannel_busy)
<1>1. /\ Arriving \in {0, 1} /\ (Arriving = 1 <=> write_buf_push)
      /\ Fetched \in {0, 1} /\ (Fetched = 1 <=> pu_obuf_rd_inc_d)
      /\ Sending \in {0, 1} /\ (Sending = 1 <=> wchannel_busy)
  BY DEF Arriving, Fetched, Sending
<1>2. ToRead \in 0 .. BURST /\ (ToRead > 0 <=> awchannel_read)
  <2>1. pu_obuf_rd_count \in 0 .. BURST - 1
    BY Registers
  <2>2. QED BY <2>1 DEF ToRead
<1>3. ToSend \in 0 .. BURST /\ (ToSend > 0 <=> wchannel_busy)
  <2>1. wlen_count \in -2 .. BURST - 2 /\ (wchannel_busy => wlen_count >= -1)
    BY Registers
  <2>2. QED BY <2>1 DEF ToSend
<1>4. QED BY <1>1, <1>2, <1>3

\* The account still balances after an edge.
LEMMA AccountKept ==
  ASSUME IInv, RhythmInv, AccountInv, FeedInv, PaceInv, Slack >= 1,
         NEW accepted \in {<<>>} \cup {<<i>> : i \in PU}, NEW wready \in BOOLEAN,
         Flowing(accepted, wready)
  PROVE  AccountInv'
<1> DEFINE more == IF accepted # <<>> THEN 1 ELSE 0
           started == IF wchannel_req_buf_pop THEN 1 ELSE 0
           begun == IF awchannel_req_buf_pop THEN 1 ELSE 0
           beat == IF wchannel_busy /\ wready THEN 1 ELSE 0
           read == IF awchannel_read THEN 1 ELSE 0
           q1 == Len(awchannel_req_buf)
           q2 == Len(wchannel_req_buf)
           n == Len(write_buf)
<1>1. /\ n' = n - beat + Arriving
      /\ q2' = q2 - started + more /\ q1' = q1 - begun + more
      /\ Arriving' = Fetched /\ Fetched' = read
      /\ ToRead' = ToRead - read + BURST * begun
      /\ ToSend' = ToSend - beat + BURST * started
      /\ started = 1 => q2 >= 1 /\ ~wchannel_busy
      /\ begun = 1 => q1 >= 1 /\ ~awchannel_read
  BY CountsMove
<1>2. n + Arriving + Fetched + ToRead + BURST * q1 = ToSend + BURST * q2
  BY DEF AccountInv
<1>3. q1 \in Nat /\ q2 \in Nat /\ n \in Nat
  BY Registers
<1>4. n' + Arriving' + Fetched' + ToRead' + BURST * q1' = ToSend' + BURST * q2'
  <2>1. /\ more \in {0, 1} /\ started \in {0, 1} /\ begun \in {0, 1}
        /\ beat \in {0, 1} /\ read \in {0, 1}
    OBVIOUS
  <2> HIDE DEF more, started, begun, beat, read, q1, q2, n
  <2>2. BURST * q1' = BURST * q1 - BURST * begun + BURST * more
    BY <1>1, <1>3, <2>1, TimesBurst
  <2>3. BURST * q2' = BURST * q2 - BURST * started + BURST * more
    BY <1>1, <1>3, <2>1, TimesBurst
  <2>4. /\ BURST * q1 \in Nat /\ BURST * q2 \in Nat /\ BURST * begun \in Nat
        /\ BURST * started \in Nat /\ BURST * more \in Nat
    BY <1>3, <2>1
  <2>5. Arriving \in Nat /\ Fetched \in Nat /\ ToRead \in Nat /\ ToSend \in Nat
    BY Counts
  <2>6. PICK a \in Nat, c \in Nat, d \in Nat, e \in Nat, f \in Nat :
          /\ a = BURST * q1 /\ c = BURST * q2 /\ d = BURST * begun
          /\ e = BURST * started /\ f = BURST * more
    BY <2>4
  <2>7. BURST * q1' = a - d + f /\ BURST * q2' = c - e + f
    BY <2>2, <2>3, <2>6
  <2>8. n' = n - beat + Arriving /\ ToRead' = ToRead - read + d /\ ToSend' = ToSend - beat + e
    BY <1>1, <2>6
  <2>9. n + Arriving + Fetched + ToRead + a = ToSend + c
    BY <1>2, <2>6
  <2>10. (n - beat + Arriving) + Fetched + read + (ToRead - read + d) + (a - d + f)
          = (ToSend - beat + e) + (c - e + f)
    BY ONLY <1>3, <2>1, <2>5, <2>9
  <2>11. Arriving' = Fetched /\ Fetched' = read
    BY <1>1
  <2>12. n' + Arriving' + Fetched' + ToRead' + BURST * q1'
          = (n - beat + Arriving) + Fetched + read + (ToRead - read + d) + (a - d + f)
    BY ONLY <2>7, <2>8, <2>11
  <2>13. ToSend' + BURST * q2' = (ToSend - beat + e) + (c - e + f)
    BY ONLY <2>7, <2>8
  <2>14. QED BY ONLY <2>10, <2>12, <2>13
<1>5. (wchannel_req_buf' # <<>> /\ ~wchannel_req_buf_shown') =>
        q2' = 1 /\ awchannel_req_buf' # <<>>
  <2> SUFFICES ASSUME wchannel_req_buf' # <<>>, ~wchannel_req_buf_shown'
               PROVE  q2' = 1 /\ awchannel_req_buf' # <<>>
    OBVIOUS
  <2>1. SendRequests!waiting = 0 /\ (wchannel_req_buf_shown => wchannel_req_buf_pop)
    <3>1. SendRequests!waiting \in Nat
      BY Registers
    <3>2. ~(SendRequests!waiting > 0) /\ ~(wchannel_req_buf_shown /\ ~wchannel_req_buf_pop)
      BY RequestsMove
    <3>3. QED BY <3>1, <3>2
  <2>2. q2 = started
    BY <1>1, <1>3, <2>1, Registers DEF SendRequests!waiting
  <2>3. more \in {0, 1} /\ begun \in {0, 1} /\ q2' = more
    BY <1>1, <1>3, <2>2
  <2>4. q2' \in Nat /\ q2' # 0
    <3>1. wchannel_req_buf' \in Seq(PU)
      BY EdgeKeepsTypes DEF Flowing, TypeOK
    <3>2. QED BY <3>1
  <2> HIDE DEF begun, more
  <2>5. q2' = 1 /\ q1' >= 1
    BY <1>1, <1>3, <2>3, <2>4
  <2>6. QED BY <2>5
<1>6. QED BY <1>4, <1>5, OwedKept DEF AccountInv

\* While words of a burst are missing in write_buf, the next one has been read.
LEMMA MissingIsFetched ==
  ASSUME IInv, RhythmInv, NEW left \in 1 .. BURST, NEW q \in Nat,
         Len(write_buf) + Arriving + Fetched + ToRead + BURST * Len(awchannel_req_buf)
           = left + BURST * q,
         Len(write_buf) >= 1, Len(write_buf) + Arriving < left
  PROVE  Fetched = 1 /\ Fetched + ToRead = left - (Len(write_buf) + Arriving)
<1> DEFINE q1 == Len(awchannel_req_buf)
           here == Len(write_buf) + Arriving
<1>1. q1 \in Nat /\ here \in Nat /\ here >= 1 /\ here < left
  <2>1. Len(write_buf) \in Nat /\ q1 \in Nat
    BY Registers
  <2>2. Arriving \in {0, 1}
    BY Counts
  <2> HIDE DEF q1
  <2>3. QED BY <2>1, <2>2
<1>2. Fetched \in {0, 1} /\ ToRead \in 0 .. BURST
  BY Counts
<1>3. Fetched + ToRead <= BURST /\ (Fetched = 0 => ToRead \in {0, BURST})
  <2>1. pu_obuf_rd_count \in 0 .. BURST - 1
    BY Registers
  <2>2. CASE awchannel_read
    BY <2>1, <2>2 DEF RhythmInv, Fetched, ToRead
  <2>3. CASE ~awchannel_read
    BY <2>3 DEF Fetched, ToRead
  <2>4. QED BY <2>2, <2>3
<1>4. here + Fetched + ToRead + BURST * q1 = left + BURST * q
  BY Registers, Counts
<1> HIDE DEF here, q1
<1>5. q1 = q
  <2>1. BURST * q1 \in Nat /\ BURST * q \in Nat
    BY <1>1, TimesBurst
  <2>2. CASE q1 < q
    <3>1. BURST * q1 <= BURST * q - BURST
      BY <1>1, <2>2, TimesBurst
    <3>2. QED BY <1>1, <1>2, <1>3, <1>4, <2>1, <3>1
  <2>3. CASE q < q1
    <3>1. BURST * q <= BURST * q1 - BURST
      BY <1>1, <2>3, TimesBurst
    <3>2. QED BY <1>1, <1>2, <1>4, <2>1, <3>1
  <2>4. QED BY <1>1, <2>2, <2>3
<1>6. Fetched + ToRead = left - here
  <2>1. BURST * q \in Nat
    BY TimesBurst
  <2>2. QED BY <1>1, <1>2, <1>4, <1>5, <2>1
<1>7. Fetched = 1
  BY <1>1, <1>2, <1>3, <1>6
<1>8. QED BY <1>6, <1>7 DEF here

\* The burst being sent stays fed.
LEMMA FeedKept ==
  ASSUME IInv, RhythmInv, AccountInv, FeedInv, PaceInv, Slack >= 1,
         NEW accepted \in {<<>>} \cup {<<i>> : i \in PU}, NEW wready \in BOOLEAN,
         Flowing(accepted, wready)
  PROVE  FeedInv'
<1> DEFINE started == IF wchannel_req_buf_pop THEN 1 ELSE 0
           beat == IF wchannel_busy /\ wready THEN 1 ELSE 0
           n == Len(write_buf)
           q2 == Len(wchannel_req_buf)
<1>1. DataEdge(accepted, wready) /\ WriteBuffer!Edge(write_buf_push, wnext(wready), write_buf_data_in)
  BY DEF Flowing, DataEdge
<1>2. /\ n' = n - beat + Arriving /\ Arriving' = Fetched
      /\ ToSend' = ToSend - beat + BURST * started
      /\ started = 1 => q2 >= 1 /\ ~wchannel_busy
  BY CountsMove
<1>3. write_buf_shown' <=> (WriteBuffer!waiting > 0 \/ (write_buf_shown /\ beat = 0))
  <2>1. write_buf_shown' <=> (WriteBuffer!waiting > 0 \/ (write_buf_shown /\ ~wnext(wready)))
    BY <1>1, WriteBufMoves
  <2>2. wnext(wready) <=> beat = 1
    BY <1>1, SendSideMoves
  <2>3. beat \in {0, 1}
    OBVIOUS
  <2>4. QED BY <2>1, <2>2, <2>3
<1>4. /\ write_buf_shown => WriteBuffer!waiting = n - 1
      /\ ~write_buf_shown => WriteBuffer!waiting = n
      /\ n \in Nat /\ q2 \in Nat /\ WriteBuffer!waiting \in Nat
  BY Registers DEF WriteBuffer!waiting
<1>5. beat \in {0, 1} /\ (beat = 1 => wchannel_busy)
  OBVIOUS
<1>6. ~write_buf_shown' => n' <= 1
  <2> HIDE DEF n, beat
  <2>1. beat = 1 => write_buf_shown
    BY <1>5 DEF FeedInv
  <2>2. QED BY <1>2, <1>3, <1>4, <1>5, <2>1, Counts
<1>7. ASSUME wchannel_busy, wchannel_busy'
      PROVE  /\ write_buf_shown'
             /\ ToSend' >= 2 => n' >= 2
             /\ n' < ToSend' => write_buf_push'
  <2>1. ToSend' = ToSend - beat /\ ToSend \in 1 .. BURST
    <3>1. started = 0
      BY <1>2, <1>7
    <3>2. ToSend \in 1 .. BURST
      BY <1>7, Counts
    <3>3. ToSend' = ToSend - beat + BURST * 0
      BY <1>2, <3>1
    <3>4. QED BY ONLY <1>5, <3>2, <3>3, WriteDataAssumption
  <2>2. ToSend' >= 1
    <3>1. wlen_count \in Int /\ wlen_count >= -1
      BY <1>7, Registers
    <3>2. wlen_count' \in Int /\ wlen_count' >= -1
      <4>1. /\ wready => wlen_count # -1
            /\ wready /\ wlen_count # -1 => wlen_count' = wlen_count - 1
            /\ ~wready => wlen_count' = wlen_count
        BY <1>1, <1>7, SendSideMoves
      <4>2. QED BY ONLY <3>1, <4>1
    <3>3. wchannel_busy'
      BY <1>7
    <3>4. ToSend' = wlen_count' + 2
      BY <3>3 DEF ToSend
    <3>5. PICK l \in Int : l = wlen_count'
      BY <3>2
    <3>6. l >= -1 /\ ToSend' = l + 2
      BY <3>2, <3>4, <3>5
    <3>7. l + 2 >= 1
      BY ONLY <3>6
    <3>8. QED BY <3>6, <3>7
  <2>3. /\ write_buf_shown /\ n >= 1
        /\ ToSend >= 2 => n >= 2
        /\ n < ToSend => write_buf_push
    BY <1>4, <1>7, Registers DEF FeedInv
  <2>4. n + Arriving < ToSend => Fetched = 1
    <3>1. n + Arriving + Fetched + ToRead + BURST * Len(awchannel_req_buf) = ToSend + BURST * q2
      BY DEF AccountInv
    <3>2. QED BY <2>1, <2>3, <3>1, <1>4, MissingIsFetched
  <2>5. Arriving \in {0, 1} /\ (n < ToSend => Arriving = 1)
    BY <2>3, Counts
  <2>6. write_buf_push' <=> Fetched = 1
    BY <1>1, ReadSideMoves, Counts
  <2> HIDE DEF n, beat, q2
  <2>7. QED BY <1>2, <1>3, <1>4, <1>5, <2>1, <2>2, <2>3, <2>4, <2>5, <2>6
<1>8. ASSUME ~wchannel_busy, wchannel_busy'
      PROVE  /\ write_buf_shown'
             /\ ToSend' >= 2 => n' >= 2
             /\ n' < ToSend' => write_buf_push'
  <2>1. wchannel_req_buf_pop /\ write_buf_shown
    BY <1>1, <1>8, SendSideMoves
  <2>2. ToSend' = BURST /\ beat = 0 /\ q2 >= 1 /\ ToSend = 0
    <3>1. started = 1 /\ beat = 0 /\ ToSend = 0
      BY <1>8, <2>1 DEF ToSend
    <3>2. QED BY <1>2, <3>1
  <2>3. n >= 1
    BY <1>4, <2>1
  <2>4. n + Arriving < BURST => Fetched = 1 /\ Fetched + ToRead = BURST - (n + Arriving)
    <3>1. n + Arriving + Fetched + ToRead + BURST * Len(awchannel_req_buf)
            = BURST + BURST * (q2 - 1)
      <4>1. n + Arriving + Fetched + ToRead + BURST * Len(awchannel_req_buf)
              = ToSend + BURST * q2
        BY DEF AccountInv
      <4>2. BURST + BURST * (q2 - 1) = BURST * q2 /\ BURST * q2 \in Nat
        BY <1>4, <2>2, TimesBurst
      <4>3. QED BY <2>2, <4>1, <4>2
    <3>2. q2 - 1 \in Nat /\ BURST \in 1 .. BURST
      BY <1>4, <2>2
    <3>3. QED BY <2>3, <3>1, <3>2, MissingIsFetched
  <2>5. Arriving \in {0, 1}
    BY Counts
  <2>6. n + Arriving >= 2
    <3> HIDE DEF n
    <3> SUFFICES ASSUME n = 1, Arriving = 0 PROVE FALSE
      BY <1>4, <2>3, <2>5
    <3>1. Fetched = 1 /\ ToRead = BURST - 2
      BY <2>4, Counts
    <3>2. ~write_buf_push /\ pu_obuf_rd_inc_d
      BY <3>1, Counts
    <3>3. awchannel_read /\ pu_obuf_rd_count = 1
      BY <3>2, Registers DEF RhythmInv
    <3>4. ToRead = BURST - 1
      BY <3>3 DEF ToRead
    <3>5. QED BY <3>1, <3>4
  <2>7. write_buf_push' <=> Fetched = 1
    BY <1>1, ReadSideMoves, Counts
  <2> HIDE DEF n, beat, q2
  <2>8. QED BY <1>2, <1>3, <1>4, <2>1, <2>2, <2>4, <2>5, <2>6, <2>7
<1>9. QED BY <1>6, <1>7, <1>8 DEF FeedInv

\* Words arrive for a burst of edges at most, then there is a pause.
LEMMA AheadMoves ==
  ASSUME IInv, RhythmInv, NEW accepted, NEW wready, DataEdge(accepted, wready)
  PROVE  /\ Ahead \in 0 .. BURST /\ (Ahead > 0 <=> write_buf_push)
         /\ write_buf_push => Ahead' = Ahead - 1
         /\ ~write_buf_push => Ahead' <= BURST
         /\ Ahead' \in Int
<1>1. Ahead \in 0 .. BURST /\ (Ahead > 0 <=> write_buf_push)
  <2>1. /\ pu_obuf_rd_count \in 0 .. BURST - 1
        /\ write_buf_push \in BOOLEAN /\ pu_obuf_rd_inc_d \in BOOLEAN
    BY Registers
  <2>2. CASE write_buf_push
    BY <2>1, <2>2 DEF Ahead, ToRead, RhythmInv
  <2>3. CASE ~write_buf_push
    BY <2>1, <2>3 DEF Ahead, ToRead, RhythmInv
  <2>4. QED BY <2>1, <2>2, <2>3
<1>2. CASE awchannel_read
  <2>1. /\ write_buf_push' <=> pu_obuf_rd_inc_d
        /\ pu_obuf_rd_inc_d'
        /\ awchannel_read' <=> pu_obuf_rd_count # BURST - 1
        /\ pu_obuf_rd_count' = IF pu_obuf_rd_count = BURST - 1 THEN 0
                               ELSE pu_obuf_rd_count + 1
    BY <1>2, ReadSideMoves
  <2>2. ToRead = BURST - pu_obuf_rd_count /\ ToRead' = ToRead - 1
    <3>1. pu_obuf_rd_count \in 0 .. BURST - 1
      BY Registers
    <3>2. CASE pu_obuf_rd_count = BURST - 1
      BY <1>2, <2>1, <3>1, <3>2 DEF ToRead
    <3>3. CASE pu_obuf_rd_count # BURST - 1
      BY <1>2, <2>1, <3>1, <3>3 DEF ToRead
    <3>4. QED BY <3>2, <3>3
  <2>3. Ahead' = IF pu_obuf_rd_inc_d THEN 2 + ToRead' ELSE 0
    BY <2>1 DEF Ahead
  <2>4. Ahead = IF ~write_buf_push THEN 0 ELSE IF pu_obuf_rd_inc_d THEN 2 + ToRead ELSE 1
    BY DEF Ahead
  <2>5. /\ pu_obuf_rd_count \in 0 .. BURST - 1
        /\ pu_obuf_rd_inc_d <=> pu_obuf_rd_count >= 1
        /\ pu_obuf_rd_count >= 2 => write_buf_push
    BY <1>2, Registers DEF RhythmInv
  <2>6. QED BY <1>1, <2>2, <2>3, <2>4, <2>5
<1>3. CASE ~awchannel_read
  <2>1. /\ write_buf_push' <=> pu_obuf_rd_inc_d
        /\ ~pu_obuf_rd_inc_d'
    BY <1>3, ReadSideMoves
  <2>2. Ahead' = IF pu_obuf_rd_inc_d THEN 1 ELSE 0
    BY <2>1 DEF Ahead
  <2>3. Ahead = IF ~write_buf_push THEN 0 ELSE IF pu_obuf_rd_inc_d THEN 2 ELSE 1
    BY <1>3 DEF Ahead, ToRead
  <2>4. pu_obuf_rd_inc_d => write_buf_push
    BY <1>3 DEF RhythmInv
  <2>5. QED BY <1>1, <2>2, <2>3, <2>4
<1>4. QED BY <1>2, <1>3, <1>1

\* Without a burst being sent, write_buf shows a word only if the request to
\* send it is shown as well.
LEMMA StartsWhenItCan ==
  ASSUME IInv, RhythmInv, AccountInv, NEW accepted, NEW wready \in BOOLEAN,
         DataEdge(accepted, wready), ~wchannel_busy, write_buf_shown
  PROVE  wchannel_req_buf_pop
<1> DEFINE n == Len(write_buf)
           q1 == Len(awchannel_req_buf)
           q2 == Len(wchannel_req_buf)
<1>1. n \in Nat /\ n >= 1 /\ q1 \in Nat /\ q2 \in Nat
  BY Registers DEF WriteBuffer!waiting
<1>2. n + Arriving + Fetched + ToRead + BURST * q1 = BURST * q2
  BY Counts DEF AccountInv, ToSend
<1>3. Arriving \in Nat /\ Fetched \in Nat /\ ToRead \in Nat
  BY Counts
<1>4. BURST * q1 \in Nat /\ BURST * 1 = BURST
  BY <1>1, TimesBurst
<1>5. wchannel_req_buf # <<>>
  <2> HIDE DEF n, q1
  <2> SUFFICES ASSUME q2 = 0 PROVE FALSE
    BY <1>1
  <2>1. BURST * q2 = 0
    BY <1>1
  <2>2. QED BY <1>1, <1>2, <1>3, <1>4, <2>1
<1>6. wchannel_req_buf_shown
  <2> SUFFICES ASSUME ~wchannel_req_buf_shown PROVE FALSE
    OBVIOUS
  <2>1. q2 = 1 /\ q1 # 0
    BY <1>1, <1>5 DEF AccountInv
  <2> HIDE DEF n, q1, q2
  <2>2. BURST * q1 >= BURST
    BY <1>1, <1>4, <2>1, TimesBurst
  <2>3. QED BY <1>1, <1>2, <1>3, <1>4, <2>1, <2>2
<1>7. QED BY <1>6, SendSideMoves

\* write_buf stays below its mark.
LEMMA PaceKept ==
  ASSUME IInv, RhythmInv, AccountInv, FeedInv, PaceInv, SteadySlave,
         NEW accepted \in {<<>>} \cup {<<i>> : i \in PU}, NEW wready \in BOOLEAN,
         Flowing(accepted, wready)
  PROVE  PaceInv'
<1> DEFINE started == IF wchannel_req_buf_pop THEN 1 ELSE 0
           beat == IF wchannel_busy /\ wready THEN 1 ELSE 0
           n == Len(write_buf)
           w == WriteBuffer!waiting
<1>1. DataEdge(accepted, wready) /\ WriteBuffer!Edge(write_buf_push, wnext(wready), write_buf_data_in)
  BY DEF Flowing, DataEdge
<1>2. Slack \in Nat /\ Slack >= 1 /\ w <= Slack + 1 /\ (Ahead > ToSend => w <= Slack)
  BY DEF SteadySlave, PaceInv, Slack
<1>3. /\ n' = n - beat + Arriving
      /\ ToSend' = ToSend - beat + BURST * started
      /\ started = 1 => ~wchannel_busy
  BY CountsMove DEF SteadySlave
<1>4. /\ write_buf_shown => w = n - 1
      /\ ~write_buf_shown => w = n
      /\ n \in Nat /\ w \in Nat
      /\ write_buf_shown' => w' = n' - 1
      /\ ~write_buf_shown' => w' = n'
  BY Registers DEF WriteBuffer!waiting
<1>5. write_buf_shown' <=> (w > 0 \/ (write_buf_shown /\ beat = 0))
  <2>1. write_buf_shown' <=> (w > 0 \/ (write_buf_shown /\ ~wnext(wready)))
    BY <1>1, <1>2, WriteBufMoves
  <2>2. wnext(wready) <=> beat = 1
    BY <1>1, SendSideMoves
  <2>3. beat \in {0, 1}
    OBVIOUS
  <2>4. QED BY <2>1, <2>2, <2>3
<1>6. /\ Ahead \in 0 .. BURST /\ (Ahead > 0 <=> Arriving = 1) /\ Ahead' \in Int
      /\ Arriving = 1 => Ahead' = Ahead - 1
      /\ Arriving = 0 => Ahead' <= BURST
      /\ Arriving \in {0, 1} /\ ToSend \in 0 .. BURST
  BY <1>1, AheadMoves, Counts
<1>7. beat \in {0, 1} /\ started \in {0, 1}
  OBVIOUS
<1> HIDE DEF w, n
<1>8. CASE wchannel_busy /\ wready
  <2>1. beat = 1 /\ started = 0 /\ write_buf_shown
    BY <1>3, <1>7, <1>8 DEF FeedInv
  <2>2. ToSend' = ToSend - 1
    BY <1>3, <1>6, <2>1
  <2>3. IF w > 0 THEN w' = w - 1 + Arriving ELSE w' = Arriving
    BY <1>3, <1>4, <1>5, <1>6, <2>1
  <2>4. w' <= Slack + 1 /\ (Ahead' > ToSend' => w' <= Slack)
    BY <1>2, <1>4, <1>6, <2>2, <2>3
  <2>5. QED BY <2>4 DEF PaceInv, w, Slack
<1>9. CASE wchannel_busy /\ ~wready
  <2>1. beat = 0 /\ write_buf_shown
    BY <1>9 DEF FeedInv
  <2>2. w' = w + Arriving
    BY <1>3, <1>4, <1>5, <1>6, <2>1
  <2>3. w < Slack
    <3>1. w < StallLimit
      BY <1>9 DEF Flowing, MayStall, w
    <3>2. QED BY <3>1, <1>2, <1>4 DEF SteadySlave
  <2>4. w' <= Slack /\ w' <= Slack + 1
    BY <1>2, <1>4, <1>6, <2>2, <2>3
  <2>5. QED BY <2>4 DEF PaceInv, w, Slack
<1>10. CASE ~wchannel_busy /\ write_buf_shown
  <2>1. started = 1 /\ beat = 0 /\ ToSend = 0
    BY <1>1, <1>10, StartsWhenItCan DEF ToSend
  <2>2. ToSend' = BURST /\ w' = w + Arriving
    BY <1>3, <1>4, <1>5, <1>6, <1>10, <2>1
  <2>3. w' <= Slack + 1 /\ Ahead' <= BURST
    BY <1>2, <1>4, <1>6, <2>1, <2>2
  <2>4. QED BY <1>6, <2>2, <2>3 DEF PaceInv, w, Slack
<1>11. CASE ~wchannel_busy /\ ~write_buf_shown
  <2>1. beat = 0 /\ n <= 1
    BY <1>11 DEF FeedInv, n
  <2>2. w' = n' - (IF write_buf_shown' THEN 1 ELSE 0) /\ n' = n + Arriving /\ w = n
    BY <1>3, <1>4, <1>6, <1>11, <2>1
  <2>3. w' <= 1 /\ w' \in Int
    BY <1>4, <1>5, <1>6, <1>11, <2>1, <2>2
  <2>4. w' <= Slack /\ w' <= Slack + 1
    BY <1>2, <2>3
  <2>5. QED BY <2>4 DEF PaceInv, w, Slack
<1>12. QED BY <1>8, <1>9, <1>10, <1>11
-----------------------------------------------------------------------------
(* The order of the words. *)

\* The words that are in write_buf or about to be, oldest first.
Stream == IF write_buf_push THEN Append(write_buf, write_buf_data_in) ELSE write_buf

HeadLeft == IF owed = <<>> THEN 0 ELSE owed[1].left

\* Word p of those to come belongs to burst b of those owed.
Within(p, b) == HeadLeft + BURST * (b - 2) < p /\ p <= HeadLeft + BURST * (b - 1)

\* The bursts still to be read are the last of those owed, the one being read is
\* the one before them, and each word that has been read is of the unit of the
\* burst that is owed at its place.
OrderInv ==
  /\ \A k \in 1 .. Len(awchannel_req_buf) :
       awchannel_req_buf[k] = owed[Len(owed) - Len(awchannel_req_buf) + k].pu
  /\ awchannel_read \/ pu_obuf_rd_inc_d =>
       pu_obuf_read_id = owed[Len(owed) - Len(awchannel_req_buf)].pu
  /\ \A p \in 1 .. Len(Stream), b \in 1 .. Len(owed) :
       Within(p, b) => Stream[p].pu = owed[b].pu

\* The account, in bursts owed.
Balance ==
  LET q1 == Len(awchannel_req_buf)
      m == Len(owed)
  IN  /\ Stream \in Seq(Words) /\ Len(Stream) \in Nat /\ q1 \in Nat /\ m \in Nat
      /\ HeadLeft \in 0 .. BURST /\ Fetched \in {0, 1} /\ ToRead \in Nat
      /\ q1 <= m
      /\ m >= 1 => Len(Stream) + Fetched + ToRead + BURST * q1 = HeadLeft + BURST * (m - 1)
      /\ m = 0 => Len(Stream) = 0
      /\ awchannel_read \/ pu_obuf_rd_inc_d => q1 < m

\* It follows from the invariants.
LEMMA BalanceHolds == IInv /\ AccountInv => Balance
<1> SUFFICES ASSUME IInv, AccountInv PROVE Balance
  OBVIOUS
<1> DEFINE n == Len(write_buf)
           q1 == Len(awchannel_req_buf)
           q2 == Len(wchannel_req_buf)
           m == Len(owed)
           c == Len(Stream)
<1>1. Stream \in Seq(Words) /\ c \in Nat /\ c = n + Arriving
  BY Registers DEF Stream, Arriving
<1>2. owed \in Seq([pu : PU, left : 1 .. BURST]) /\ m \in Nat /\ m = q2 + Sending
  BY DEF AccountInv
<1>3. n + Arriving + Fetched + ToRead + BURST * q1 = ToSend + BURST * q2
  BY DEF AccountInv
<1>4. n \in Nat /\ q1 \in Nat /\ q2 \in Nat
  BY Registers
<1>5. /\ Arriving \in Nat /\ Fetched \in {0, 1} /\ ToRead \in Nat /\ ToSend \in 0 .. BURST
      /\ Sending \in {0, 1} /\ (Sending = 1 <=> wchannel_busy)
      /\ (ToSend > 0 <=> wchannel_busy)
      /\ (ToRead > 0 <=> awchannel_read) /\ (Fetched = 1 <=> pu_obuf_rd_inc_d)
  BY Counts
<1>6. m >= 1 => HeadLeft = IF wchannel_busy THEN ToSend ELSE BURST
  <2> SUFFICES ASSUME m >= 1 PROVE HeadLeft = IF wchannel_busy THEN ToSend ELSE BURST
    OBVIOUS
  <2>1. HeadLeft = owed[1].left
    BY <1>2 DEF HeadLeft
  <2>2. 1 \in 1 .. Len(owed)
    BY <1>2
  <2>3. owed[1].left = IF wchannel_busy THEN wlen_count + 2 ELSE BURST
    BY <2>2 DEF AccountInv
  <2>4. QED BY <2>1, <2>3 DEF ToSend
<1>7. m = 0 => HeadLeft = 0
  BY <1>2 DEF HeadLeft
<1> HIDE DEF n, q1, q2, m, c
<1>8. HeadLeft \in 0 .. BURST
  BY <1>2, <1>5, <1>6, <1>7
<1>9. BURST * q1 \in Nat /\ BURST * q2 \in Nat /\ BURST * 0 = 0
  BY <1>4, TimesBurst
<1>10. ToSend + BURST * q2 <= BURST * m /\ (m = 0 => ToSend + BURST * q2 = 0)
       /\ (m >= 1 => ToSend + BURST * q2 = HeadLeft + BURST * (m - 1))
  <2>1. CASE wchannel_busy
    <3>1. m = q2 + 1 /\ BURST * m = BURST * q2 + BURST
      BY <1>2, <1>4, <1>5, <2>1, TimesBurst
    <3>2. m - 1 = q2
      BY <1>4, <3>1
    <3>3. QED BY <1>4, <1>5, <1>6, <1>9, <2>1, <3>1, <3>2
  <2>2. CASE ~wchannel_busy
    <3>1. m = q2 /\ ToSend = 0
      BY <1>2, <1>4, <1>5, <2>2
    <3>2. m >= 1 => BURST * (m - 1) = BURST * m - BURST
      BY <1>2, TimesBurst
    <3>3. QED BY <1>6, <1>9, <2>2, <3>1, <3>2
  <2>3. QED BY <2>1, <2>2
<1>11. q1 <= m /\ (ToRead + Fetched > 0 => q1 < m)
  <2>1. BURST * q1 + ToRead + Fetched <= BURST * m
    BY <1>3, <1>4, <1>5, <1>9, <1>10, <1>2
  <2>2. m < q1 => BURST * m <= BURST * q1 - BURST
    BY <1>2, <1>4, TimesBurst
  <2>3. BURST * m \in Nat
    BY <1>2
  <2>4. q1 <= m
    BY <1>2, <1>4, <1>5, <1>9, <2>1, <2>2, <2>3
  <2>5. QED BY <1>2, <1>4, <1>5, <1>9, <2>1, <2>3, <2>4
<1>12. m >= 1 => c + Fetched + ToRead + BURST * q1 = HeadLeft + BURST * (m - 1)
  BY <1>1, <1>3, <1>10
<1>13. m = 0 => c = 0
  BY <1>1, <1>3, <1>4, <1>5, <1>9, <1>10
<1>14. QED BY <1>1, <1>2, <1>4, <1>5, <1>8, <1>11, <1>12, <1>13 DEF Balance, m, q1, c

\* And after an edge, as before it.
LEMMA BalanceNext == IInv' /\ AccountInv' => Balance'
  BY BalanceHolds, PTL

\* The stream loses the beat that is taken and gains the word that is loaded.
LEMMA StreamMoves ==
  ASSUME IInv, RhythmInv, AccountInv, FeedInv, PaceInv, Slack >= 1,
         NEW accepted \in {<<>>} \cup {<<i>> : i \in PU}, NEW wready \in BOOLEAN,
         Flowing(accepted, wready)
  PROVE  LET kept == IF wchannel_busy /\ wready THEN Tail(Stream) ELSE Stream
             word == [pu |-> pu_obuf_read_id, place |-> outbuf[pu_obuf_read_id]]
         IN  /\ wchannel_busy => write_buf # <<>> /\ Head(write_buf) = Stream[1]
             /\ wchannel_busy => Stream # <<>>
             /\ kept \in Seq(Words)
             /\ pu_obuf_rd_inc_d => word \in Words
             /\ Stream' = IF pu_obuf_rd_inc_d THEN Append(kept, word) ELSE kept
<1> DEFINE kept == IF wchannel_busy /\ wready THEN Tail(Stream) ELSE Stream
           word == [pu |-> pu_obuf_read_id, place |-> outbuf[pu_obuf_read_id]]
           behind == IF wnext(wready) THEN Tail(write_buf) ELSE write_buf
<1>1. DataEdge(accepted, wready) /\ WriteBuffer!Edge(write_buf_push, wnext(wready), write_buf_data_in)
  BY DEF Flowing, DataEdge
<1>2. wchannel_busy => write_buf # <<>>
  <2> SUFFICES ASSUME wchannel_busy PROVE write_buf # <<>>
    OBVIOUS
  <2>1. Len(write_buf) - 1 \in Nat
    BY Registers DEF FeedInv, WriteBuffer!waiting
  <2>2. QED BY <2>1, Registers
<1>3. write_buf \in Seq(Words) /\ write_buf_data_in \in Words
  BY Registers
<1>4. Stream \in Seq(Words) /\ (wchannel_busy => Head(write_buf) = Stream[1] /\ Stream # <<>>)
  BY <1>2, <1>3 DEF Stream
<1>5. kept \in Seq(Words)
  BY <1>4
<1>6. write_buf' = IF write_buf_push THEN Append(behind, write_buf_data_in) ELSE behind
  BY <1>1, WriteBufMoves
<1>7. wnext(wready) <=> wchannel_busy /\ wready
  BY <1>1, SendSideMoves
<1>8. write_buf' = kept
  <2>1. CASE wchannel_busy /\ wready
    <3>1. behind = Tail(write_buf) /\ kept = Tail(Stream) /\ write_buf # <<>>
      BY <1>2, <1>7, <2>1
    <3>2. CASE write_buf_push
      <4>1. Tail(Append(write_buf, write_buf_data_in))
              = Append(Tail(write_buf), write_buf_data_in)
        BY <1>3, <3>1
      <4>2. QED BY <1>6, <3>1, <3>2, <4>1 DEF Stream
    <3>3. CASE ~write_buf_push
      BY <1>6, <3>1, <3>3 DEF Stream
    <3>4. QED BY <3>2, <3>3
  <2>2. CASE ~(wchannel_busy /\ wready)
    BY <1>6, <1>7, <2>2 DEF Stream
  <2>3. QED BY <2>1, <2>2
<1>9. pu_obuf_rd_inc_d => write_buf_data_in' = word
  BY <1>1 DEF DataEdge, ObufRead
<1>10. write_buf_push' <=> pu_obuf_rd_inc_d
  BY <1>1, ReadSideMoves
<1>11. pu_obuf_rd_inc_d => word \in Words
  BY Registers DEF IInv, OutbufInv, Words
<1> HIDE DEF kept, word
<1>12. Stream' = IF pu_obuf_rd_inc_d THEN Append(kept, word) ELSE kept
  BY <1>8, <1>9, <1>10 DEF Stream
<1>13. QED BY <1>2, <1>4, <1>5, <1>11, <1>12 DEF kept, word

\* Which burst is which after an edge.
LEMMA BurstsMove ==
  ASSUME IInv, RhythmInv, AccountInv, FeedInv, PaceInv, Slack >= 1,
         NEW accepted \in {<<>>} \cup {<<i>> : i \in PU}, NEW wready \in BOOLEAN,
         Flowing(accepted, wready)
  PROVE  LET ended == IF wchannel_busy /\ wready /\ wlen_count = -1 THEN 1 ELSE 0
             more == IF accepted # <<>> THEN 1 ELSE 0
         IN  /\ Len(owed') = Len(owed) - ended + more
             /\ ended = 1 => Len(owed) >= 1
             /\ \A b \in 1 .. Len(owed) - ended : owed'[b].pu = owed[b + ended].pu
             /\ more = 1 => owed'[Len(owed')].pu = accepted[1]
<1> DEFINE Bursts == [pu : PU, left : 1 .. BURST]
           ended == IF wchannel_busy /\ wready /\ wlen_count = -1 THEN 1 ELSE 0
           more == IF accepted # <<>> THEN 1 ELSE 0
           rest == IF ~(wchannel_busy /\ wready) THEN owed
                   ELSE IF wlen_count = -1 THEN Tail(owed)
                   ELSE [owed EXCEPT ![1].left = @ - 1]
           new == [pu |-> accepted[1], left |-> BURST]
<1>1. DataEdge(accepted, wready)
  BY DEF Flowing
<1>2. /\ wchannel_busy => owed # <<>>
      /\ rest \in Seq(Bursts)
      /\ owed' = IF accepted # <<>> THEN Append(rest, new) ELSE rest
  BY <1>1, OwedMoves
<1>3. owed \in Seq(Bursts) /\ Len(owed) \in Nat
  BY DEF AccountInv
<1>4. ended = 1 => Len(owed) >= 1
  BY <1>2, <1>3
<1>5. Len(rest) = Len(owed) - ended
  <2>1. CASE wchannel_busy /\ wready /\ wlen_count = -1
    BY <1>2, <1>3, <2>1
  <2>2. CASE wchannel_busy /\ wready /\ wlen_count # -1
    BY <1>2, <1>3, <2>2
  <2>3. CASE ~(wchannel_busy /\ wready)
    BY <1>3, <2>3
  <2>4. QED BY <2>1, <2>2, <2>3
<1>6. ASSUME NEW b \in 1 .. Len(owed) - ended
      PROVE  rest[b].pu = owed[b + ended].pu
  <2>1. CASE wchannel_busy /\ wready /\ wlen_count = -1
    BY <1>2, <1>3, <2>1
  <2>2. CASE wchannel_busy /\ wready /\ wlen_count # -1
    <3>1. rest = [owed EXCEPT ![1].left = @ - 1] /\ b \in 1 .. Len(owed) /\ ended = 0
      BY <1>3, <2>2
    <3>2. owed[b] \in Bursts /\ b \in DOMAIN owed
      <4>1. owed[b] \in Bursts
        BY <1>3, <3>1, ElementOfSeq
      <4>2. QED BY <1>3, <3>1, <4>1
    <3> HIDE DEF rest, ended
    <3>3. rest[b] = IF b = 1 THEN [owed[1] EXCEPT !.left = @ - 1] ELSE owed[b]
      BY <3>1, <3>2
    <3>4. rest[b].pu = owed[b].pu
      BY <3>2, <3>3
    <3>5. b + ended = b
      BY <3>1
    <3>6. QED BY <3>4, <3>5
  <2>3. CASE ~(wchannel_busy /\ wready)
    BY <1>3, <2>3
  <2>4. QED BY <2>1, <2>2, <2>3
<1> HIDE DEF rest, ended, Bursts
<1>7. ended \in {0, 1}
  BY DEF ended
<1>8. /\ Len(owed') = Len(rest) + more
      /\ \A b \in 1 .. Len(rest) : owed'[b] = rest[b]
      /\ more = 1 => owed'[Len(owed')].pu = accepted[1]
  <2>1. CASE accepted = <<>>
    BY <1>2, <2>1
  <2>2. CASE accepted # <<>>
    <3>1. owed' = Append(rest, new) /\ new.pu = accepted[1] /\ more = 1
      BY <1>2, <2>2
    <3> HIDE DEF new, more
    <3>2. QED BY <1>2, <3>1
  <2>3. QED BY <2>1, <2>2
<1> HIDE DEF more
<1>9. /\ Len(owed') = Len(owed) - ended + more
      /\ \A b \in 1 .. Len(owed) - ended : owed'[b].pu = owed[b + ended].pu
  BY <1>3, <1>4, <1>5, <1>6, <1>7, <1>8
<1>10. QED BY <1>4, <1>8, <1>9 DEF ended, more

\* The beats to come of the first burst, on an edge.
LEMMA HeadLeftMoves ==
  ASSUME IInv, RhythmInv, AccountInv, FeedInv, PaceInv, Slack >= 1,
         NEW accepted \in {<<>>} \cup {<<i>> : i \in PU}, NEW wready \in BOOLEAN,
         Flowing(accepted, wready), owed' # <<>>, owed # <<>>
  PROVE  HeadLeft' = HeadLeft - (IF wchannel_busy /\ wready THEN 1 ELSE 0)
                       + (IF wchannel_busy /\ wready /\ wlen_count = -1 THEN BURST ELSE 0)
<1>1. DataEdge(accepted, wready)
  BY DEF Flowing
<1>2. HeadLeft = IF wchannel_busy THEN wlen_count + 2 ELSE BURST
  <2>1. owed \in Seq([pu : PU, left : 1 .. BURST])
    BY DEF AccountInv
  <2>2. 1 \in 1 .. Len(owed)
    BY <2>1
  <2>3. owed[1].left = IF wchannel_busy THEN wlen_count + 2 ELSE BURST
    BY <2>2 DEF AccountInv
  <2>4. QED BY <2>3 DEF HeadLeft
<1>3. HeadLeft' = IF wchannel_busy' THEN wlen_count' + 2 ELSE BURST
  <2>1. owed' \in Seq([pu : PU, left : 1 .. BURST])
    BY OwedKept
  <2>2. 1 \in 1 .. Len(owed')
    BY <2>1
  <2>3. owed'[1].left = IF wchannel_busy' THEN wlen_count' + 2 ELSE BURST
    BY <2>2, OwedKept
  <2>4. QED BY <2>3 DEF HeadLeft
<1>4. wlen_count \in Int
  BY Registers
<1>5. CASE wchannel_busy /\ wready /\ wlen_count = -1
  <2>1. ~wchannel_busy'
    BY <1>1, <1>5, SendSideMoves
  <2>2. HeadLeft' = BURST /\ HeadLeft = 1
    BY <1>2, <1>3, <1>5, <2>1
  <2>3. QED BY <1>5, <2>2
<1>6. CASE wchannel_busy /\ wready /\ wlen_count # -1
  <2>1. wchannel_busy' /\ wlen_count' = wlen_count - 1
    BY <1>1, <1>6, SendSideMoves
  <2>2. QED BY <1>2, <1>3, <1>4, <1>6, <2>1
<1>7. CASE wchannel_busy /\ ~wready
  <2>1. wchannel_busy' /\ wlen_count' = wlen_count
    BY <1>1, <1>7, SendSideMoves
  <2>2. QED BY <1>2, <1>3, <1>4, <1>7, <2>1
<1>8. CASE ~wchannel_busy
  <2>1. wchannel_busy' => wlen_count' = BURST - 2
    BY <1>1, <1>8, SendSideMoves
  <2>2. HeadLeft' = BURST /\ HeadLeft = BURST
    BY <1>2, <1>3, <1>8, <2>1
  <2>3. QED BY <1>8, <2>2
<1>9. QED BY <1>5, <1>6, <1>7, <1>8

\* The place of a word in the account names its burst.
LEMMA WithinIsUnique ==
  ASSUME NEW head \in 0 .. BURST, NEW m \in Nat, NEW q \in Nat, NEW left \in Nat,
         NEW p \in Nat, NEW b \in 1 .. m, left < BURST,
         p + left + BURST * q = head + BURST * (m - 1),
         head + BURST * (b - 2) < p, p <= head + BURST * (b - 1)
  PROVE  b = m - q
<1>1. BURST * (m - 1) - BURST * q - left <= BURST * (b - 1)
  BY SMT
<1>2. BURST * (b - 2) < BURST * (m - 1) - BURST * q - left
  BY SMT
<1>3. ASSUME b < m - q PROVE FALSE
  <2> DEFINE d == m - q - b - 1
  <2>1. d \in Nat
    BY <1>3
  <2>2. BURST * (m - 1) - BURST * q = BURST * (b - 1) + BURST * d + BURST
    OBVIOUS
  <2>3. BURST * d \in Nat
    BY <2>1, TimesBurst
  <2>4. BURST * (b - 1) \in Int /\ BURST * (m - 1) \in Int /\ BURST * q \in Int
    OBVIOUS
  <2> HIDE DEF d
  <2>5. QED BY <1>1, <2>2, <2>3, <2>4
<1>4. ASSUME b > m - q PROVE FALSE
  <2> DEFINE d == b - (m - q) - 1
  <2>1. d \in Nat
    BY <1>4
  <2>2. BURST * (b - 2) = BURST * (m - 1) - BURST * q + BURST * d
    OBVIOUS
  <2>3. BURST * d \in Nat
    BY <2>1, TimesBurst
  <2>4. BURST * (b - 2) \in Int /\ BURST * (m - 1) \in Int /\ BURST * q \in Int
    OBVIOUS
  <2> HIDE DEF d
  <2>5. QED BY <1>2, <2>2, <2>3, <2>4
<1>5. QED BY <1>3, <1>4

\* Where the bursts move that are still to be read.
LEMMA IndexMoves ==
  ASSUME NEW m \in Nat, NEW q \in Nat, NEW ended \in {0, 1}, NEW more \in {0, 1},
         NEW begun \in {0, 1}, begun = 1 => q >= 1,
         q - begun + more < m - ended + more
  PROVE  LET d == (m - ended + more) - (q - begun + more)
         IN  d \in 1 .. m - ended /\ d + ended = m - q + begun
  OBVIOUS

\* The order is kept: bursts are read, and words sent, as they were accepted.
LEMMA OrderKept ==
  ASSUME IInv, RhythmInv, AccountInv, FeedInv, PaceInv, OrderInv, Slack >= 1,
         NEW accepted \in {<<>>} \cup {<<i>> : i \in PU}, NEW wready \in BOOLEAN,
         Flowing(accepted, wready)
  PROVE  OrderInv'
<1> DEFINE ended == IF wchannel_busy /\ wready /\ wlen_count = -1 THEN 1 ELSE 0
           more == IF accepted # <<>> THEN 1 ELSE 0
           beat == IF wchannel_busy /\ wready THEN 1 ELSE 0
           begun == IF awchannel_req_buf_pop THEN 1 ELSE 0
           read == IF awchannel_read THEN 1 ELSE 0
           kept == IF wchannel_busy /\ wready THEN Tail(Stream) ELSE Stream
           word == [pu |-> pu_obuf_read_id, place |-> outbuf[pu_obuf_read_id]]
           kept1 == IF awchannel_req_buf_pop THEN Tail(awchannel_req_buf)
                    ELSE awchannel_req_buf
           q1 == Len(awchannel_req_buf)
           m == Len(owed)
           c == Len(Stream)
<1>1. DataEdge(accepted, wready)
  BY DEF Flowing
<1>2. /\ m' = m - ended + more /\ (ended = 1 => m >= 1)
      /\ \A b \in 1 .. m - ended : owed'[b].pu = owed[b + ended].pu
      /\ more = 1 => owed'[m'].pu = accepted[1]
  BY BurstsMove
<1>3. Balance
  BY BalanceHolds
<1>4. Balance'
  <2>1. IInv'
    BY <1>1, EdgeKeepsTypes, EdgeKeepsRoom DEF IInv
  <2>2. QED BY <2>1, AccountKept, BalanceNext
<1>5. /\ c \in Nat /\ q1 \in Nat /\ m \in Nat /\ HeadLeft \in 0 .. BURST
      /\ m >= 1 => c + Fetched + ToRead + BURST * q1 = HeadLeft + BURST * (m - 1)
      /\ c' \in Nat /\ q1' \in Nat /\ m' \in Nat /\ HeadLeft' \in 0 .. BURST
      /\ Fetched' \in {0, 1} /\ ToRead' \in Nat
      /\ q1' <= m'
      /\ m' >= 1 => c' + Fetched' + ToRead' + BURST * q1' = HeadLeft' + BURST * (m' - 1)
      /\ awchannel_read' \/ pu_obuf_rd_inc_d' => q1' < m'
      /\ pu_obuf_rd_inc_d => m >= 1
      /\ Stream \in Seq(Words) /\ (m = 0 => c = 0)
      /\ awchannel_req_buf \in Seq(PU)
      /\ q1 <= m /\ (awchannel_read \/ pu_obuf_rd_inc_d => q1 < m)
  BY <1>3, <1>4, Registers DEF Balance
<1>6. /\ c \in Nat /\ q1 \in Nat /\ m \in Nat /\ q1 <= m
      /\ c' \in Nat /\ q1' \in Nat /\ m' \in Nat /\ q1' <= m'
      /\ HeadLeft \in 0 .. BURST /\ HeadLeft' \in 0 .. BURST
      /\ Stream \in Seq(Words)
  BY <1>5
<1>7. /\ q1' = q1 - begun + more
      /\ begun = 1 => q1 >= 1
      /\ Fetched' = read
  BY CountsMove
<1>8. /\ ended \in {0, 1} /\ more \in {0, 1} /\ beat \in {0, 1} /\ begun \in {0, 1}
      /\ ended = 1 => beat = 1
  OBVIOUS
<1>9. /\ awchannel_req_buf_pop => awchannel_req_buf # <<>>
      /\ awchannel_req_buf' =
           IF accepted # <<>> THEN Append(kept1, accepted[1]) ELSE kept1
      /\ pu_obuf_read_id' =
           IF awchannel_req_buf_pop THEN Head(awchannel_req_buf) ELSE pu_obuf_read_id
  BY RequestsMove
<1>10. \A k \in 1 .. q1 : awchannel_req_buf[k] = owed[m - q1 + k].pu
  BY DEF OrderInv
<1>11. awchannel_read \/ pu_obuf_rd_inc_d => pu_obuf_read_id = owed[m - q1].pu
  BY DEF OrderInv
<1>12. \A p \in 1 .. c, b \in 1 .. m : Within(p, b) => Stream[p].pu = owed[b].pu
  BY DEF OrderInv
<1>13. m' = m - ended + more
  BY <1>2
<1>14. \A k \in 1 .. q1' : awchannel_req_buf'[k] = owed'[m' - q1' + k].pu
  <2> SUFFICES ASSUME NEW k \in 1 .. q1'
               PROVE  awchannel_req_buf'[k] = owed'[m' - q1' + k].pu
    OBVIOUS
  <2>1. /\ kept1 \in Seq(PU) /\ Len(kept1) = q1 - begun
        /\ \A j \in 1 .. Len(kept1) : kept1[j] = awchannel_req_buf[j + begun]
    <3>1. awchannel_req_buf \in Seq(PU) /\ q1 = Len(awchannel_req_buf) /\ q1 \in Nat
      BY <1>5
    <3>2. CASE awchannel_req_buf_pop
      <4>1. kept1 = Tail(awchannel_req_buf) /\ awchannel_req_buf # <<>> /\ begun = 1
        BY <1>9, <3>2
      <4> HIDE DEF kept1, begun, q1
      <4>2. QED BY ONLY <3>1, <4>1
    <3>3. CASE ~awchannel_req_buf_pop
      <4>1. kept1 = awchannel_req_buf /\ begun = 0
        BY <3>3
      <4> HIDE DEF kept1, begun, q1
      <4>2. QED BY ONLY <3>1, <4>1
    <3>4. QED BY <3>2, <3>3
  <2>2. accepted # <<>> => accepted[1] \in PU /\ more = 1
    OBVIOUS
  <2>3. accepted = <<>> => more = 0
    OBVIOUS
  <2> HIDE DEF kept1, begun, ended, more, m, q1
  <2>4. CASE k <= Len(kept1)
    <3>1. awchannel_req_buf'[k] = kept1[k]
      BY <1>9, <2>1, <2>2, <2>4
    <3>2. kept1[k] = awchannel_req_buf[k + begun] /\ k + begun \in 1 .. q1
      <4>1. k \in 1 .. Len(kept1) /\ k + begun \in 1 .. q1
        BY <1>6, <1>7, <1>8, <2>1, <2>4
      <4>2. QED BY <2>1, <4>1
    <3>3. awchannel_req_buf[k + begun] = owed[m - q1 + (k + begun)].pu
      BY <1>10, <3>2
    <3>4. m' - q1' + k \in 1 .. m - ended /\ m' - q1' + k + ended = m - q1 + (k + begun)
      BY <1>13, <1>6, <1>7, <1>8, <2>1, <2>4
    <3>5. owed'[m' - q1' + k].pu = owed[m - q1 + (k + begun)].pu
      BY <1>2, <3>4
    <3>6. QED BY <3>1, <3>2, <3>3, <3>5
  <2>5. CASE k > Len(kept1)
    <3>1. more = 1 /\ k = q1' /\ k = Len(kept1) + 1
      <4>1. Len(kept1) = q1 - begun /\ q1' = q1 - begun + more
        BY <1>7, <2>1
      <4>2. k > q1 - begun /\ k \in Int /\ k <= q1 - begun + more /\ q1 - begun \in Int
        BY <1>6, <1>8, <2>5, <4>1
      <4>3. more = 1 /\ k = q1 - begun + 1
        BY ONLY <1>8, <4>2
      <4>4. QED BY <4>1, <4>3
    <3>2. awchannel_req_buf' = Append(kept1, accepted[1])
      BY <1>9, <2>3, <3>1
    <3>3. awchannel_req_buf'[k] = accepted[1]
      BY <2>1, <2>2, <3>1, <3>2
    <3>4. m' - q1' + k = m'
      BY <1>5, <3>1
    <3>5. QED BY <1>2, <3>1, <3>3, <3>4
  <2>6. Len(kept1) \in Int /\ k \in Int
    BY <1>6, <1>8, <2>1
  <2>7. QED BY <2>4, <2>5, <2>6
<1>15. awchannel_read' \/ pu_obuf_rd_inc_d' => pu_obuf_read_id' = owed'[m' - q1'].pu
  <2> SUFFICES ASSUME awchannel_read' \/ pu_obuf_rd_inc_d'
               PROVE  pu_obuf_read_id' = owed'[m' - q1'].pu
    OBVIOUS
  <2>1. q1' < m'
    BY <1>5
  <2>2. pu_obuf_read_id' = owed[m - q1 + begun].pu
    <3>1. CASE awchannel_req_buf_pop
      <4>1. begun = 1 /\ pu_obuf_read_id' = awchannel_req_buf[1]
        BY <1>9, <3>1
      <4>2. 1 \in 1 .. q1
        BY <1>5, <1>7, <4>1
      <4>3. awchannel_req_buf[1] = owed[m - q1 + 1].pu
        BY <1>10, <4>2
      <4>4. QED BY <4>1, <4>3
    <3>2. CASE ~awchannel_req_buf_pop
      <4>1. pu_obuf_read_id' = pu_obuf_read_id /\ begun = 0
        BY <1>9, <3>2
      <4>2. awchannel_read
        BY <1>1, <3>2, ReadSideMoves DEF awchannel_req_buf_pop
      <4>3. m - q1 + begun = m - q1
        BY <1>5, <4>1
      <4>4. QED BY <1>11, <4>1, <4>2, <4>3
    <3>3. QED BY <3>1, <3>2
  <2> HIDE DEF begun, ended, more, m, q1
  <2>3. m' - q1' \in 1 .. m - ended /\ m' - q1' + ended = m - q1 + begun
    <3>1. m' = m - ended + more /\ q1' = q1 - begun + more /\ (begun = 1 => q1 >= 1)
      BY <1>2, <1>7
    <3>2. q1 - begun + more < m - ended + more
      BY <2>1, <3>1
    <3>3. QED BY <1>6, <1>8, <3>1, <3>2, IndexMoves
  <2>4. owed'[m' - q1'].pu = owed[m - q1 + begun].pu
    BY <1>2, <2>3
  <2>5. QED BY <2>2, <2>4
<1>16. \A p \in 1 .. c', b \in 1 .. m' : Within(p, b)' => Stream'[p].pu = owed'[b].pu
  <2> SUFFICES ASSUME NEW p \in 1 .. c', NEW b \in 1 .. m',
                      HeadLeft' + BURST * (b - 2) < p,
                      p <= HeadLeft' + BURST * (b - 1)
               PROVE  Stream'[p].pu = owed'[b].pu
    BY DEF Within
  <2>1. /\ kept \in Seq(Words) /\ Len(kept) = c - beat
        /\ \A j \in 1 .. Len(kept) : kept[j] = Stream[j + beat]
        /\ beat = 1 => c >= 1
        /\ Stream' = IF pu_obuf_rd_inc_d THEN Append(kept, word) ELSE kept
        /\ pu_obuf_rd_inc_d => word \in Words /\ word.pu = pu_obuf_read_id
    <3>1. /\ wchannel_busy => Stream # <<>>
          /\ kept \in Seq(Words)
          /\ pu_obuf_rd_inc_d => word \in Words
          /\ Stream' = IF pu_obuf_rd_inc_d THEN Append(kept, word) ELSE kept
      BY StreamMoves
    <3>2. word.pu = pu_obuf_read_id
      OBVIOUS
    <3> HIDE DEF word
    <3>3. Stream \in Seq(Words) /\ c = Len(Stream) /\ c \in Nat
      BY <1>5
    <3>4. CASE wchannel_busy /\ wready
      <4>1. kept = Tail(Stream) /\ beat = 1 /\ Stream # <<>>
        BY <3>1, <3>4
      <4> HIDE DEF kept, beat
      <4>2. Len(kept) = c - 1 /\ \A j \in 1 .. Len(kept) : kept[j] = Stream[j + 1]
        BY ONLY <3>3, <4>1
      <4>3. c >= 1
        BY ONLY <3>3, <4>1
      <4>4. QED BY <3>1, <3>2, <4>1, <4>2, <4>3
    <3>5. CASE ~(wchannel_busy /\ wready)
      <4>1. kept = Stream /\ beat = 0
        BY <3>5
      <4> HIDE DEF kept, beat
      <4>2. \A j \in 1 .. Len(kept) : j + beat = j
        BY <3>3, <4>1
      <4>3. QED BY <3>1, <3>2, <3>3, <4>1, <4>2
    <3>6. QED BY <3>4, <3>5
  <2>2. b <= m - ended
    <3> SUFFICES ASSUME b > m - ended PROVE FALSE
      BY <1>2, <1>5, <1>8
    <3> HIDE DEF begun, ended, more, m, q1, c
    <3>1. b = m' /\ more = 1 /\ q1' >= 1
      BY <1>2, <1>5, <1>7, <1>8
    <3>2. c' + Fetched' + ToRead' + BURST * q1' = HeadLeft' + BURST * (m' - 1)
      BY <1>5, <3>1
    <3>3. BURST * q1' >= BURST /\ BURST * q1' \in Nat
      <4>1. q1' \in Nat /\ 1 <= q1'
        BY <1>6, <3>1
      <4>2. BURST * 1 <= BURST * q1' /\ BURST * q1' \in Nat
        BY <4>1, TimesBurst
      <4>3. BURST * 1 = BURST
        OBVIOUS
      <4>4. QED BY <4>2, <4>3
    <3>4. Fetched' \in Nat /\ ToRead' \in Nat
      <4>1. Fetched' \in {0, 1} /\ ToRead' \in Nat
        BY ONLY <1>5, Zenon
      <4>2. QED BY ONLY <4>1
    <3>5. BURST \in Nat /\ m' \in Int
      BY <1>6, WriteDataAssumption
    <3>6. BURST * (m' - 2) = BURST * (m' - 1) - BURST /\ BURST * (m' - 1) \in Int
      BY ONLY <3>5
    <3>7. HeadLeft' + BURST * (m' - 2) < p
      BY <3>1
    <3>8. p <= c' /\ p \in Nat
      BY <1>6
    <3>9. c' \in Nat /\ HeadLeft' \in Int
      BY <1>6
    <3>10. PICK c1 \in Nat : c1 = c'
      BY <3>9
    <3>11. PICK h1 \in Int : h1 = HeadLeft'
      BY <3>9
    <3>12. PICK f1 \in Nat : f1 = Fetched'
      BY <3>4
    <3>13. PICK r1 \in Nat : r1 = ToRead'
      BY <3>4
    <3>14. PICK y \in Nat : y = BURST * q1'
      BY <3>3
    <3>15. PICK x \in Int : x = BURST * (m' - 1)
      BY <3>6
    <3>16. x - BURST = BURST * (m' - 2)
      BY <3>6, <3>15
    <3>17. PICK p1 \in Nat : p1 = p
      BY <3>8
    <3>18. c1 + f1 + r1 + y = h1 + x
      BY <3>2, <3>10, <3>11, <3>12, <3>13, <3>14, <3>15
    <3>19. y >= BURST
      BY <3>3, <3>14
    <3>20. h1 + (x - BURST) < p1
      BY <3>7, <3>11, <3>16, <3>17
    <3>21. p1 <= c1
      BY <3>8, <3>10, <3>17
    <3>22. QED BY ONLY <3>5, <3>18, <3>19, <3>20, <3>21
  <2>3. m >= 1 /\ m' >= 1 /\ b + ended \in 1 .. m
    <3> HIDE DEF begun, ended, more, m, q1, c
    <3>1. b \in Int /\ b >= 1 /\ m \in Int
      BY <1>6
    <3>2. m >= 1 /\ b + ended \in 1 .. m
      BY ONLY <1>8, <2>2, <3>1
    <3>3. m' >= 1
      BY <1>6, <3>1
    <3>4. QED BY <3>2, <3>3
  <2>4. owed'[b].pu = owed[b + ended].pu
    BY <1>2, <2>2
  <2>5. Within(p + beat, b + ended)
    <3>1. owed # <<>> /\ owed' # <<>>
      BY <2>3
    <3>2. HeadLeft' = HeadLeft - beat + (IF ended = 1 THEN BURST ELSE 0)
      BY <3>1, HeadLeftMoves
    <3> HIDE DEF ended, beat, m, c
    <3>3. CASE ended = 0
      <4>1. HeadLeft' = HeadLeft - beat /\ b + ended = b
        BY <1>6, <1>8, <3>2, <3>3
      <4>2. BURST * (b - 1) \in Int /\ BURST * (b - 2) \in Int
        OBVIOUS
      <4>3. HeadLeft + BURST * (b - 2) < p + beat /\ p + beat <= HeadLeft + BURST * (b - 1)
        BY <1>6, <1>8, <4>1, <4>2
      <4>4. Within(p + beat, b)
        BY <4>3 DEF Within
      <4>5. QED BY <4>1, <4>4
    <3>4. CASE ended = 1
      <4>1. BURST * (b - 1) = BURST * (b - 2) + BURST /\ BURST * b = BURST * (b - 1) + BURST
        OBVIOUS
      <4>2. BURST * (b - 2) \in Int
        OBVIOUS
      <4>3. b + ended = b + 1 /\ (b + 1) - 2 = b - 1 /\ (b + 1) - 1 = b
        BY <3>4
      <4>4. HeadLeft' = HeadLeft - beat + BURST
        BY <3>2, <3>4
      <4>5. HeadLeft + BURST * (b - 1) < p + beat /\ p + beat <= HeadLeft + BURST * b
        BY <1>5, <1>8, <4>1, <4>2, <4>4
      <4>6. Within(p + beat, b + 1)
        BY <4>3, <4>5 DEF Within
      <4>7. QED BY <4>3, <4>6
    <3>5. QED BY <1>8, <3>3, <3>4
  <2>6. CASE p <= Len(kept)
    <3> HIDE DEF kept, word, beat, ended, c, m
    <3>1. Len(kept) = c - beat
      BY <2>1
    <3>2. p \in 1 .. Len(kept) /\ p + beat \in 1 .. c
      BY <1>6, <1>8, <2>6, <3>1
    <3>3. kept[p] = Stream[p + beat]
      BY <2>1, <3>2
    <3>4. Stream'[p] = kept[p]
      <4>1. CASE pu_obuf_rd_inc_d
        BY <2>1, <3>2, <4>1
      <4>2. CASE ~pu_obuf_rd_inc_d
        BY <2>1, <4>2
      <4>3. QED BY <4>1, <4>2
    <3>5. Stream[p + beat].pu = owed[b + ended].pu
      BY <1>12, <2>3, <2>5, <3>2
    <3>6. QED BY <2>4, <3>5, <3>3, <3>4
  <2>7. CASE p > Len(kept)
    <3>1. pu_obuf_rd_inc_d /\ p = Len(kept) + 1 /\ Stream'[p] = word
      <4> HIDE DEF kept, word, beat
      <4>1. CASE pu_obuf_rd_inc_d
        <5>1. Stream' = Append(kept, word) /\ kept \in Seq(Words) /\ word \in Words
          BY <2>1, <4>1
        <5>2. Len(Stream') = Len(kept) + 1 /\ Stream'[Len(kept) + 1] = word
          BY ONLY <5>1
        <5>3. Len(kept) \in Nat /\ p \in Nat /\ p <= Len(Stream')
          BY <5>1
        <5>4. p = Len(kept) + 1
          BY <2>7, <5>2, <5>3
        <5>5. QED BY <4>1, <5>2, <5>4
      <4>2. CASE ~pu_obuf_rd_inc_d
        BY <1>5, <2>1, <2>7, <4>2
      <4>3. QED BY <4>1, <4>2
    <3>2. Fetched = 1 /\ ToRead \in Nat /\ ToRead < BURST
      <4>1. CASE awchannel_read
        <5>1. pu_obuf_rd_count >= 1 /\ pu_obuf_rd_count \in 0 .. BURST - 1
          BY <3>1, <4>1, Registers DEF RhythmInv
        <5>2. ToRead = BURST - pu_obuf_rd_count /\ Fetched = 1
          BY <3>1, <4>1 DEF Fetched, ToRead
        <5>3. QED BY <5>1, <5>2
      <4>2. CASE ~awchannel_read
        BY <3>1, <4>2 DEF Fetched, ToRead
      <4>3. QED BY <4>1, <4>2
    <3> HIDE DEF kept, word, beat, ended, c, m, q1
    <3>3. p + beat = c + 1 /\ p + beat \in Nat
      BY <1>5, <1>8, <2>1, <3>1
    <3>4. (p + beat) + ToRead + BURST * q1 = HeadLeft + BURST * (m - 1)
      BY <1>5, <2>3, <3>2, <3>3
    <3>5. b + ended = m - q1
      BY <1>5, <2>3, <2>5, <3>2, <3>3, <3>4, WithinIsUnique DEF Within
    <3>6. QED BY <1>11, <2>1, <2>4, <3>1, <3>5
  <2>8. QED BY <1>5, <2>1, <2>6, <2>7
<1>17. QED BY <1>14, <1>15, <1>16 DEF OrderInv
-----------------------------------------------------------------------------
(* The places of the words. *)

After(n) == (n + 1) % WordMod

\* The words of each unit in s follow each other, the first of them is the one
\* due next and the last the one before the word that the unit shows.
Linked(s, due, shown) ==
  /\ \A p \in 1 .. Len(s) :
       (\A i \in 1 .. p - 1 : s[i].pu # s[p].pu) => s[p].place = due[s[p].pu]
  /\ \A p, r \in 1 .. Len(s) :
       p < r /\ s[p].pu = s[r].pu /\ (\A i \in p + 1 .. r - 1 : s[i].pu # s[p].pu)
         => s[r].place = After(s[p].place)
  /\ \A p \in 1 .. Len(s) :
       (\A i \in p + 1 .. Len(s) : s[i].pu # s[p].pu) => shown[s[p].pu] = After(s[p].place)
  /\ \A u \in PU : (\A i \in 1 .. Len(s) : s[i].pu # u) => shown[u] = due[u]

PlaceInv ==
  /\ taken \in [PU -> 0 .. WordMod - 1]
  /\ Linked(Stream, taken, outbuf)

\* Taking the oldest word makes its unit due for the next one.
LEMMA LinkedTail ==
  ASSUME NEW s \in Seq(Words), s # <<>>, NEW due \in [PU -> 0 .. WordMod - 1],
         NEW shown, Linked(s, due, shown)
  PROVE  /\ s[1].place = due[s[1].pu]
         /\ Linked(Tail(s), [due EXCEPT ![s[1].pu] = After(@)], shown)
<1> DEFINE t == Tail(s)
           next == [due EXCEPT ![s[1].pu] = After(@)]
           u == s[1].pu
<1>1. /\ Len(s) \in Nat /\ Len(s) >= 1 /\ Len(t) = Len(s) - 1
      /\ \A i \in 1 .. Len(t) : i + 1 \in 1 .. Len(s) /\ t[i] = s[i + 1]
  OBVIOUS
<1>2. /\ \A i \in 1 .. Len(s) : s[i].pu \in PU
      /\ u \in PU
  <2>1. \A i \in 1 .. Len(s) : s[i] \in Words
    BY ElementOfSeq
  <2>2. QED BY <1>1, <2>1 DEF Words
<1>3. \A v \in PU : next[v] = IF v = u THEN After(due[v]) ELSE due[v]
  BY <1>2
<1>4. /\ \A p \in 1 .. Len(s) :
           (\A i \in 1 .. p - 1 : s[i].pu # s[p].pu) => s[p].place = due[s[p].pu]
      /\ \A p, r \in 1 .. Len(s) :
           p < r /\ s[p].pu = s[r].pu /\ (\A i \in p + 1 .. r - 1 : s[i].pu # s[p].pu)
             => s[r].place = After(s[p].place)
      /\ \A p \in 1 .. Len(s) :
           (\A i \in p + 1 .. Len(s) : s[i].pu # s[p].pu) => shown[s[p].pu] = After(s[p].place)
      /\ \A v \in PU : (\A i \in 1 .. Len(s) : s[i].pu # v) => shown[v] = due[v]
  BY DEF Linked
<1>5. s[1].place = due[u]
  BY <1>1, <1>4
<1> HIDE DEF t, next, u
<1>6. ASSUME NEW p \in 1 .. Len(t), \A i \in 1 .. p - 1 : t[i].pu # t[p].pu
      PROVE  t[p].place = next[t[p].pu]
  <2>1. /\ p + 1 \in 1 .. Len(s) /\ t[p] = s[p + 1] /\ 1 \in 1 .. Len(s)
        /\ \A i \in 2 .. p : s[i].pu # s[p + 1].pu
    <3>1. ASSUME NEW i \in 2 .. p PROVE s[i].pu # s[p + 1].pu
      <4>1. i - 1 \in 1 .. p - 1 /\ i - 1 \in 1 .. Len(t) /\ (i - 1) + 1 = i
        BY <1>1
      <4>2. t[i - 1] = s[i]
        BY <1>1, <4>1
      <4>3. QED BY <1>1, <1>6, <4>1, <4>2
    <3>2. QED BY <1>1, <3>1
  <2>2. CASE s[p + 1].pu = u
    <3>1. 1 < p + 1 /\ s[1].pu = s[p + 1].pu
      BY <1>1, <2>1, <2>2 DEF u
    <3>2. \A i \in 1 + 1 .. (p + 1) - 1 : s[i].pu # s[1].pu
      BY <2>1, <3>1
    <3>3. s[p + 1].place = After(s[1].place)
      BY <1>4, <2>1, <3>1, <3>2
    <3>4. QED BY <1>2, <1>3, <1>5, <2>1, <2>2, <3>3
  <2>3. CASE s[p + 1].pu # u
    <3>1. \A i \in 1 .. (p + 1) - 1 : s[i].pu # s[p + 1].pu
      BY <2>1, <2>3 DEF u
    <3>2. s[p + 1].place = due[s[p + 1].pu]
      BY <1>4, <2>1, <3>1
    <3>3. QED BY <1>2, <1>3, <2>1, <2>3, <3>2
  <2>4. QED BY <2>2, <2>3
<1>7. ASSUME NEW p \in 1 .. Len(t), NEW r \in 1 .. Len(t), p < r, t[p].pu = t[r].pu,
             \A i \in p + 1 .. r - 1 : t[i].pu # t[p].pu
      PROVE  t[r].place = After(t[p].place)
  <2>1. /\ p + 1 \in 1 .. Len(s) /\ r + 1 \in 1 .. Len(s) /\ p + 1 < r + 1
        /\ t[p] = s[p + 1] /\ t[r] = s[r + 1]
    BY <1>1, <1>7
  <2>2. ASSUME NEW i \in (p + 1) + 1 .. (r + 1) - 1 PROVE s[i].pu # s[p + 1].pu
    <3>1. i - 1 \in p + 1 .. r - 1 /\ i - 1 \in 1 .. Len(t) /\ (i - 1) + 1 = i
      BY <1>1
    <3>2. t[i - 1] = s[i]
      BY <1>1, <3>1
    <3>3. QED BY <1>7, <2>1, <3>1, <3>2
  <2>3. QED BY <1>4, <1>7, <2>1, <2>2
<1>8. ASSUME NEW p \in 1 .. Len(t), \A i \in p + 1 .. Len(t) : t[i].pu # t[p].pu
      PROVE  shown[t[p].pu] = After(t[p].place)
  <2>1. p + 1 \in 1 .. Len(s) /\ t[p] = s[p + 1]
    BY <1>1
  <2>2. ASSUME NEW i \in (p + 1) + 1 .. Len(s) PROVE s[i].pu # s[p + 1].pu
    <3>1. i - 1 \in p + 1 .. Len(t) /\ i - 1 \in 1 .. Len(t) /\ (i - 1) + 1 = i
      BY <1>1
    <3>2. t[i - 1] = s[i]
      BY <1>1, <3>1
    <3>3. QED BY <1>8, <2>1, <3>1, <3>2
  <2>3. QED BY <1>4, <2>1, <2>2
<1>9. ASSUME NEW v \in PU, \A i \in 1 .. Len(t) : t[i].pu # v
      PROVE  shown[v] = next[v]
  <2>1. ASSUME NEW i \in 2 .. Len(s) PROVE s[i].pu # v
    <3>1. i - 1 \in 1 .. Len(t) /\ (i - 1) + 1 = i
      BY <1>1
    <3>2. t[i - 1] = s[i]
      BY <1>1, <3>1
    <3>3. QED BY <1>9, <3>1, <3>2
  <2>2. CASE v = u
    <3>1. 1 \in 1 .. Len(s) /\ \A i \in 1 + 1 .. Len(s) : s[i].pu # s[1].pu
      BY <1>1, <2>1, <2>2 DEF u
    <3>2. shown[s[1].pu] = After(s[1].place)
      BY <1>4, <3>1
    <3>3. QED BY <1>3, <1>5, <2>2, <3>2 DEF u
  <2>3. CASE v # u
    <3>1. \A i \in 1 .. Len(s) : s[i].pu # v
      BY <1>1, <2>1, <2>3 DEF u
    <3>2. shown[v] = due[v]
      BY <1>4, <3>1
    <3>3. QED BY <1>3, <2>3, <3>2
  <2>4. QED BY <2>2, <2>3
<1>10. Linked(t, next, shown)
  BY <1>6, <1>7, <1>8, <1>9 DEF Linked
<1>11. QED BY <1>5, <1>10 DEF t, next, u

\* A unit that gives the word it shows goes on to the next.
LEMMA LinkedAppend ==
  ASSUME NEW s \in Seq(Words), NEW due, NEW shown \in [PU -> 0 .. WordMod - 1],
         NEW u \in PU, Linked(s, due, shown)
  PROVE  Linked(Append(s, [pu |-> u, place |-> shown[u]]), due,
                [shown EXCEPT ![u] = After(@)])
<1> DEFINE w == [pu |-> u, place |-> shown[u]]
           t == Append(s, w)
           next == [shown EXCEPT ![u] = After(@)]
           n == Len(s)
<1>1. w \in Words /\ w.pu = u /\ w.place = shown[u]
  BY DEF Words
<1>2. \A v \in PU : next[v] = IF v = u THEN After(shown[v]) ELSE shown[v]
  OBVIOUS
<1> HIDE DEF w, next
<1>3. /\ n \in Nat /\ Len(t) = n + 1
      /\ \A i \in 1 .. n : t[i] = s[i]
      /\ t[n + 1] = w
  BY <1>1
<1>4. \A i \in 1 .. n : s[i].pu \in PU
  <2>1. \A i \in 1 .. n : s[i] \in Words
    BY ElementOfSeq
  <2>2. QED BY <2>1 DEF Words
<1>5. /\ \A p \in 1 .. n :
           (\A i \in 1 .. p - 1 : s[i].pu # s[p].pu) => s[p].place = due[s[p].pu]
      /\ \A p, r \in 1 .. n :
           p < r /\ s[p].pu = s[r].pu /\ (\A i \in p + 1 .. r - 1 : s[i].pu # s[p].pu)
             => s[r].place = After(s[p].place)
      /\ \A p \in 1 .. n :
           (\A i \in p + 1 .. n : s[i].pu # s[p].pu) => shown[s[p].pu] = After(s[p].place)
      /\ \A v \in PU : (\A i \in 1 .. n : s[i].pu # v) => shown[v] = due[v]
  BY DEF Linked
<1> HIDE DEF t, n
<1>6. ASSUME NEW p \in 1 .. Len(t), \A i \in 1 .. p - 1 : t[i].pu # t[p].pu
      PROVE  t[p].place = due[t[p].pu]
  <2>1. CASE p <= n
    <3>1. p \in 1 .. n /\ t[p] = s[p] /\ \A i \in 1 .. p - 1 : t[i] = s[i]
      BY <1>3, <2>1
    <3>2. \A i \in 1 .. p - 1 : s[i].pu # s[p].pu
      BY <1>6, <3>1
    <3>3. QED BY <1>5, <3>1, <3>2
  <2>2. CASE p = n + 1
    <3>1. \A i \in 1 .. n : s[i].pu # u
      BY <1>1, <1>3, <1>6, <2>2
    <3>2. shown[u] = due[u]
      BY <1>5, <3>1
    <3>3. QED BY <1>1, <1>3, <2>2, <3>2
  <2>3. QED BY <1>3, <2>1, <2>2
<1>7. ASSUME NEW p \in 1 .. Len(t), NEW r \in 1 .. Len(t), p < r, t[p].pu = t[r].pu,
             \A i \in p + 1 .. r - 1 : t[i].pu # t[p].pu
      PROVE  t[r].place = After(t[p].place)
  <2>1. p \in 1 .. n /\ t[p] = s[p] /\ \A i \in p + 1 .. r - 1 : i \in 1 .. n /\ t[i] = s[i]
    BY <1>3, <1>7
  <2>2. \A i \in p + 1 .. r - 1 : s[i].pu # s[p].pu
    BY <1>7, <2>1
  <2>3. CASE r <= n
    <3>1. r \in 1 .. n /\ t[r] = s[r]
      BY <1>3, <2>3
    <3>2. QED BY <1>5, <1>7, <2>1, <2>2, <3>1
  <2>4. CASE r = n + 1
    <3>1. s[p].pu = u /\ \A i \in p + 1 .. n : s[i].pu # s[p].pu
      BY <1>1, <1>3, <1>7, <2>1, <2>2, <2>4
    <3>2. shown[s[p].pu] = After(s[p].place)
      BY <1>5, <2>1, <3>1
    <3>3. QED BY <1>1, <1>3, <2>1, <2>4, <3>1, <3>2
  <2>5. QED BY <1>3, <2>3, <2>4
<1>8. ASSUME NEW p \in 1 .. Len(t), \A i \in p + 1 .. Len(t) : t[i].pu # t[p].pu
      PROVE  next[t[p].pu] = After(t[p].place)
  <2>1. CASE p <= n
    <3>1. p \in 1 .. n /\ t[p] = s[p] /\ \A i \in p + 1 .. n : t[i] = s[i]
      BY <1>3, <2>1
    <3>2. \A i \in p + 1 .. n : s[i].pu # s[p].pu
      BY <1>3, <1>8, <3>1
    <3>3. s[p].pu # u
      <4>1. n + 1 \in p + 1 .. Len(t)
        BY <1>3, <3>1
      <4>2. QED BY <1>1, <1>3, <1>8, <3>1, <4>1
    <3>4. shown[s[p].pu] = After(s[p].place)
      BY <1>5, <3>1, <3>2
    <3>5. QED BY <1>2, <1>4, <3>1, <3>3, <3>4
  <2>2. CASE p = n + 1
    BY <1>1, <1>2, <1>3, <2>2
  <2>3. QED BY <1>3, <2>1, <2>2
<1>9. ASSUME NEW v \in PU, \A i \in 1 .. Len(t) : t[i].pu # v
      PROVE  next[v] = due[v]
  <2>1. v # u /\ \A i \in 1 .. n : s[i].pu # v
    BY <1>1, <1>3, <1>9
  <2>2. QED BY <1>2, <1>5, <2>1
<1>10. Linked(t, due, next)
  BY <1>6, <1>7, <1>8, <1>9 DEF Linked
<1>11. QED BY <1>10 DEF t, w, next

\* A beat on offer is of the unit of the oldest burst owed.
LEMMA FirstIsDue ==
  ASSUME IInv, AccountInv, FeedInv, OrderInv, wchannel_busy
  PROVE  /\ owed # <<>> /\ owed[1].left = wlen_count + 2
         /\ Stream \in Seq(Words) /\ Stream # <<>> /\ write_buf_shown
         /\ Head(write_buf) = Stream[1]
         /\ Stream[1].pu = owed[1].pu
<1>1. owed \in Seq([pu : PU, left : 1 .. BURST]) /\ Len(owed) >= 1
  BY Registers DEF AccountInv, Sending
<1>2. 1 \in 1 .. Len(owed) /\ owed[1].left = wlen_count + 2 /\ owed[1].left \in 1 .. BURST
  <2>1. 1 \in 1 .. Len(owed)
    BY <1>1
  <2>2. owed[1] \in [pu : PU, left : 1 .. BURST]
    BY <1>1, <2>1, ElementOfSeq
  <2>3. owed[1].left = wlen_count + 2
    BY <2>1 DEF AccountInv
  <2>4. QED BY <2>1, <2>2, <2>3
<1>3. write_buf_shown /\ write_buf # <<>>
  <2>1. write_buf_shown /\ Len(write_buf) - 1 \in Nat
    BY Registers DEF FeedInv, WriteBuffer!waiting
  <2>2. QED BY <2>1, Registers
<1>4. Stream \in Seq(Words) /\ Head(write_buf) = Stream[1] /\ Stream # <<>>
  <2>1. write_buf \in Seq(Words) /\ write_buf_data_in \in Words
    BY Registers
  <2>2. QED BY <1>3, <2>1 DEF Stream
<1>5. Within(1, 1)
  <2>1. HeadLeft \in 1 .. BURST
    BY <1>1, <1>2 DEF HeadLeft
  <2>2. BURST * (1 - 2) = -BURST /\ BURST * (1 - 1) = 0
    OBVIOUS
  <2>3. QED BY <2>1, <2>2 DEF Within
<1>6. 1 \in 1 .. Len(Stream)
  BY <1>4
<1>7. Stream[1].pu = owed[1].pu
  BY <1>2, <1>5, <1>6 DEF OrderInv
<1>8. QED BY <1>1, <1>2, <1>3, <1>4, <1>7

\* The words of each unit stay in the order in which it wrote them.
LEMMA PlaceKept ==
  ASSUME IInv, RhythmInv, AccountInv, FeedInv, PaceInv, OrderInv, PlaceInv, Slack >= 1,
         NEW accepted \in {<<>>} \cup {<<i>> : i \in PU}, NEW wready \in BOOLEAN,
         Flowing(accepted, wready)
  PROVE  PlaceInv'
<1> DEFINE kept == IF wchannel_busy /\ wready THEN Tail(Stream) ELSE Stream
           u == pu_obuf_read_id
           word == [pu |-> u, place |-> outbuf[u]]
<1>1. DataEdge(accepted, wready)
  BY DEF Flowing
<1>2. /\ taken \in [PU -> 0 .. WordMod - 1] /\ Linked(Stream, taken, outbuf)
      /\ outbuf \in [PU -> 0 .. WordMod - 1] /\ u \in PU
  BY Registers DEF PlaceInv, IInv, OutbufInv
<1>3. /\ kept \in Seq(Words)
      /\ Stream' = IF pu_obuf_rd_inc_d THEN Append(kept, word) ELSE kept
  BY StreamMoves
<1>4. outbuf' = IF pu_obuf_rd_inc_d THEN [outbuf EXCEPT ![u] = After(@)] ELSE outbuf
  <2>1. outbuf' = [i \in PU |-> IF i \in outbuf_pop THEN After(outbuf[i]) ELSE outbuf[i]]
    BY <1>1 DEF DataEdge, ObufRead, After
  <2>2. outbuf_pop = IF pu_obuf_rd_inc_d THEN {u} ELSE {}
    BY DEF RhythmInv
  <2>3. CASE pu_obuf_rd_inc_d
    <3>1. outbuf' = [i \in PU |-> IF i = u THEN After(outbuf[i]) ELSE outbuf[i]]
      BY <2>1, <2>2, <2>3
    <3>2. [outbuf EXCEPT ![u] = After(@)]
            = [i \in PU |-> IF i = u THEN After(outbuf[i]) ELSE outbuf[i]]
      BY <1>2
    <3>3. QED BY <2>3, <3>1, <3>2
  <2>4. CASE ~pu_obuf_rd_inc_d
    <3>1. outbuf' = [i \in PU |-> outbuf[i]]
      BY <2>1, <2>2, <2>4
    <3>2. QED BY <1>2, <2>4, <3>1
  <2>5. QED BY <2>3, <2>4
<1>5. taken' \in [PU -> 0 .. WordMod - 1] /\ Linked(kept, taken', outbuf)
  <2>1. taken' = IF wchannel_busy /\ wready
                   THEN [taken EXCEPT ![owed[1].pu] = (@ + 1) % WordMod] ELSE taken
    BY <1>1, OwedMoves
  <2>2. CASE wchannel_busy /\ wready
    <3>1. /\ Stream \in Seq(Words) /\ Stream # <<>> /\ Stream[1].pu = owed[1].pu
      BY <2>2, FirstIsDue
    <3>2. taken' = [taken EXCEPT ![Stream[1].pu] = After(@)]
      BY <2>1, <2>2, <3>1 DEF After
    <3>3. Linked(Tail(Stream), taken', outbuf)
      BY <1>2, <3>1, <3>2, LinkedTail
    <3>4. \A n \in 0 .. WordMod - 1 : After(n) \in 0 .. WordMod - 1
      BY DEF After
    <3>5. taken' \in [PU -> 0 .. WordMod - 1]
      BY <1>2, <3>2, <3>4
    <3>6. QED BY <2>2, <3>3, <3>5
  <2>3. CASE ~(wchannel_busy /\ wready)
    BY <1>2, <2>1, <2>3
  <2>4. QED BY <2>2, <2>3
<1> HIDE DEF kept
<1>6. Linked(Stream', taken', outbuf')
  <2>1. CASE pu_obuf_rd_inc_d
    <3>1. Stream' = Append(kept, word) /\ outbuf' = [outbuf EXCEPT ![u] = After(@)]
      BY <1>3, <1>4, <2>1
    <3>2. Linked(Append(kept, word), taken', [outbuf EXCEPT ![u] = After(@)])
      BY <1>2, <1>3, <1>5, LinkedAppend
    <3>3. QED BY <3>1, <3>2
  <2>2. CASE ~pu_obuf_rd_inc_d
    BY <1>3, <1>4, <1>5, <2>2
  <2>3. QED BY <2>1, <2>2
<1>7. QED BY <1>5, <1>6 DEF PlaceInv

-----------------------------------------------------------------------------
(* The flow of the words. *)

FlowInv == RhythmInv /\ AccountInv /\ FeedInv /\ PaceInv /\ OrderInv /\ PlaceInv

\* Kept by every edge that refuses nothing.
LEMMA FlowKept ==
  ASSUME IInv, FlowInv, SteadySlave,
         NEW accepted \in {<<>>} \cup {<<i>> : i \in PU}, NEW wready \in BOOLEAN,
         Flowing(accepted, wready)
  PROVE  FlowInv'
<1>1. Slack >= 1 /\ RhythmInv /\ AccountInv /\ FeedInv /\ PaceInv /\ OrderInv /\ PlaceInv
  BY DEF FlowInv, SteadySlave
<1>2. DataEdge(accepted, wready)
  BY DEF Flowing
<1>3. RhythmInv'
  BY <1>1, <1>2, RhythmKept
<1>4. AccountInv'
  BY <1>1, AccountKept
<1>5. FeedInv'
  BY <1>1, FeedKept
<1>6. PaceInv'
  BY <1>1, PaceKept
<1>7. OrderInv'
  BY <1>1, OrderKept
<1>8. PlaceInv'
  BY <1>1, PlaceKept
<1>9. QED BY <1>3, <1>4, <1>5, <1>6, <1>7, <1>8 DEF FlowInv

\* What it gives: each beat is the right one.
LEMMA FlowSendsRight ==
  ASSUME IInv, FlowInv
  PROVE  BeatIsRight /\ DataBehindEveryBeat
<1> SUFFICES ASSUME wvalid
             PROVE  /\ owed # <<>> /\ write_buf_shown
                    /\ Head(write_buf) = [pu |-> Head(owed).pu, place |-> taken[Head(owed).pu]]
                    /\ wlast <=> Head(owed).left = 1
  BY DEF BeatIsRight, DataBehindEveryBeat
<1>1. wchannel_busy /\ wlen_count >= -1 /\ wlen_count \in Int
  BY Registers
<1>2. /\ owed # <<>> /\ owed[1].left = wlen_count + 2
      /\ Stream \in Seq(Words) /\ Stream # <<>> /\ write_buf_shown
      /\ Head(write_buf) = Stream[1]
      /\ Stream[1].pu = owed[1].pu
  BY <1>1, FirstIsDue DEF FlowInv
<1>3. Stream[1].place = taken[Stream[1].pu]
  BY <1>2, LinkedTail DEF FlowInv, PlaceInv
<1>4. Stream[1] = [pu |-> Stream[1].pu, place |-> Stream[1].place]
  <2>1. 1 \in 1 .. Len(Stream)
    BY <1>2
  <2>2. Stream[1] \in Words
    BY <1>2, <2>1, ElementOfSeq
  <2>3. QED BY <2>2 DEF Words
<1>5. Head(owed) = owed[1]
  OBVIOUS
<1>6. wlast <=> owed[1].left = 1
  BY <1>1, <1>2 DEF wlast
<1>7. QED BY <1>2, <1>3, <1>4, <1>5, <1>6

\* With nothing accepted and nothing on its way there is no order to keep.
LEMMA NothingFlows ==
  ASSUME IInv, Slack >= 1, ~awchannel_read, ~pu_obuf_rd_inc_d, ~write_buf_push,
         outbuf_pop = {}, pu_obuf_rd_count = 0, ~write_buf_almost_full, ~wchannel_busy,
         awchannel_req_buf = <<>>, wchannel_req_buf = <<>>, write_buf = <<>>,
         ~write_buf_shown, owed = <<>>, taken = outbuf
  PROVE  FlowInv
<1>1. RhythmInv
  BY DEF RhythmInv
<1>2. AccountInv
  <2>1. BURST * 0 = 0
    OBVIOUS
  <2>2. QED BY <2>1 DEF AccountInv, Sending, Arriving, Fetched, ToRead, ToSend
<1>3. FeedInv
  BY DEF FeedInv
<1>4. PaceInv
  <2>1. WriteBuffer!waiting = 0
    BY DEF WriteBuffer!waiting
  <2> HIDE DEF WriteBuffer!waiting
  <2>2. QED BY <2>1 DEF PaceInv, Slack
<1>5. Stream = <<>>
  BY DEF Stream
<1>6. OrderInv
  BY <1>5 DEF OrderInv
<1>7. PlaceInv
  BY <1>5 DEF PlaceInv, Linked, IInv, OutbufInv
<1>8. QED BY <1>1, <1>2, <1>3, <1>4, <1>6, <1>7 DEF FlowInv

\* Out of a reset nothing flows.
LEMMA InitFlows == DataInit /\ SteadySlave => FlowInv
<1> SUFFICES ASSUME DataInit, SteadySlave PROVE FlowInv
  OBVIOUS
<1>1. /\ awchannel_req_buf = <<>> /\ wchannel_req_buf = <<>>
      /\ write_buf = <<>> /\ ~write_buf_shown
  BY DEF DataInit, ReadRequests!Init, SendRequests!Init, WriteBuffer!Init
<1>2. IInv /\ Slack >= 1
  BY InitEstablishes DEF SteadySlave
<1>3. QED BY <1>1, <1>2, NothingFlows DEF DataInit

\* A request buffer holds no more bursts than are owed.
LEMMA RequestsAreOwed ==
  ASSUME IInv, AccountInv
  PROVE  /\ Len(awchannel_req_buf) <= Len(owed) /\ Len(wchannel_req_buf) <= Len(owed)
         /\ Len(owed) \in Nat
<1>1. Len(awchannel_req_buf) <= Len(owed)
  BY BalanceHolds DEF Balance
<1>2. Len(wchannel_req_buf) \in Nat /\ Len(owed) = Len(wchannel_req_buf) + Sending
  BY Registers DEF AccountInv
<1>3. QED BY <1>1, <1>2 DEF Sending

\* And rests when nothing moves.
LEMMA FlowRests == FlowInv /\ UNCHANGED dvars => FlowInv'
<1> SUFFICES ASSUME FlowInv, UNCHANGED dvars PROVE FlowInv'
  OBVIOUS
<1>1. RhythmInv' /\ FeedInv' /\ PaceInv'
  BY DEF dvars, FlowInv, RhythmInv, FeedInv, PaceInv, Ahead, ToRead, ToSend,
         WriteBuffer!waiting
<1>2. AccountInv'
  BY DEF dvars, FlowInv, AccountInv, Arriving, Fetched, ToRead, ToSend, Sending
<1>3. Stream' = Stream /\ HeadLeft' = HeadLeft
  BY DEF dvars, Stream, HeadLeft
<1>4. OrderInv'
  <2>1. /\ awchannel_req_buf' = awchannel_req_buf /\ owed' = owed
        /\ awchannel_read' = awchannel_read /\ pu_obuf_rd_inc_d' = pu_obuf_rd_inc_d
        /\ pu_obuf_read_id' = pu_obuf_read_id
    BY DEF dvars
  <2>2. OrderInv
    BY DEF FlowInv
  <2>3. QED BY <1>3, <2>1, <2>2 DEF OrderInv, Within
<1>5. PlaceInv'
  <2>1. taken' = taken /\ outbuf' = outbuf
    BY DEF dvars
  <2>2. PlaceInv
    BY DEF FlowInv
  <2>3. QED BY <1>3, <2>1, <2>2 DEF PlaceInv, Linked
<1>6. QED BY <1>1, <1>2, <1>4, <1>5 DEF FlowInv

\* For every number of units, burst length and depth: if the slave lowers WREADY
\* only while fewer words wait in write_buf than fit under its mark besides a
\* burst, and no more bursts are accepted ahead of their data than a request
\* buffer has slots, every beat on offer is backed by a word, the one due next
\* from the unit of the oldest burst owed, and marked last exactly when it is.
THEOREM BeatIsRightHolds ==
  ASSUME SteadySlave, MaxAhead <= REQ_BUF_DEPTH
  PROVE  Spec => [](BeatIsRight /\ DataBehindEveryBeat)
<1>1. DataInit => IInv /\ FlowInv
  BY InitEstablishes, InitFlows
<1>2. IInv /\ FlowInv /\ [Next]_dvars => (IInv /\ FlowInv)'
  <2> SUFFICES ASSUME IInv, FlowInv, [Next]_dvars PROVE IInv' /\ FlowInv'
    OBVIOUS
  <2>1. IInv'
    BY StepPreserves
  <2>2. CASE Next
    <3>1. PICK accepted \in {<<>>} \cup {<<i>> : i \in PU}, wready \in BOOLEAN :
            /\ accepted # <<>> => Len(owed) < MaxAhead
            /\ ~wready => MayStall
            /\ DataEdge(accepted, wready)
      BY <2>2 DEF Next
    <3>2. accepted # <<>> => /\ Len(awchannel_req_buf) < REQ_BUF_DEPTH
                             /\ Len(wchannel_req_buf) < REQ_BUF_DEPTH
      <4>1. /\ Len(awchannel_req_buf) <= Len(owed) /\ Len(wchannel_req_buf) <= Len(owed)
            /\ Len(owed) \in Nat
        BY RequestsAreOwed DEF FlowInv
      <4>2. Len(awchannel_req_buf) \in Nat /\ Len(wchannel_req_buf) \in Nat
        BY Registers
      <4>3. QED BY <3>1, <4>1, <4>2
    <3>3. Flowing(accepted, wready)
      BY <3>1, <3>2 DEF Flowing
    <3>4. QED BY <2>1, <3>3, FlowKept
  <2>3. CASE UNCHANGED dvars
    <3>1. FlowInv'
      BY <2>3, FlowRests
    <3>2. QED BY <2>1, <3>1
  <2>4. QED BY <2>2, <2>3
<1>3. IInv /\ FlowInv => BeatIsRight /\ DataBehindEveryBeat
  BY FlowSendsRight
<1>4. QED BY <1>1, <1>2, <1>3, PTL DEF Spec
=============================================================================
