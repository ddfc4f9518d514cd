--------------------------- MODULE AxiReadProofs ---------------------------
(***************************************************************************)
(* The read side of axi_master.v is correct for every burst length, page   *)
(* size, size register, buffer depth and set of requests.  TypeOK and      *)
(* OneRequestAtATime are inductive together: the guard on rd_req_buf_pop_d *)
(* closes the edge between a pop and the load of rx_size, on which rx_size *)
(* alone would let a second request in.                                    *)
(***************************************************************************)
EXTENDS AxiRead, SequenceTheorems, TLAPS

USE ReadAssumption

IInv == TypeOK /\ OneRequestAtATime

Bursts == [page : Pages, off : 0 .. WINDOW - 1, left : 1 .. BURST]

-----------------------------------------------------------------------------
(* Sequences. *)

\* A sequence with a first element put in front of it.
LEMMA ConcatFirst ==
  ASSUME NEW S, NEW s \in Seq(S), NEW e \in S
  PROVE  /\ <<e>> \o s \in Seq(S) /\ <<e>> \o s # <<>>
         /\ Head(<<e>> \o s) = e
         /\ Tail(<<e>> \o s) = s
  OBVIOUS

\* A sequence that is not empty is its first element and the rest.
LEMMA HeadThenTail ==
  ASSUME NEW S, NEW s \in Seq(S), s # <<>>
  PROVE  <<Head(s)>> \o Tail(s) = s
  OBVIOUS

\* A sequence over a set is one over every larger set.
LEMMA SeqOfSubset ==
  ASSUME NEW S, NEW T, S \subseteq T, NEW s \in Seq(S)
  PROVE  s \in Seq(T)
<1>1. \A i \in 1 .. Len(s) : s[i] \in T
  OBVIOUS
<1>2. Len(s) \in Nat /\ s = [i \in 1 .. Len(s) |-> s[i]]
  OBVIOUS
<1>3. [i \in 1 .. Len(s) |-> s[i]] \in Seq(T)
  BY <1>1, <1>2, SeqDef
<1>4. QED BY <1>2, <1>3

-----------------------------------------------------------------------------
(* The invariant. *)

\* A burst on offer is one the slave can owe.
LEMMA BurstIsBurst ==
  ASSUME TypeOK, rx_size # 0
  PROVE  Burst \in Bursts /\ arlen + 1 <= rx_size
  BY DEF TypeOK, Burst, Bursts, arlen

\* A burst with a beat less, unless it was the last.
LEMMA ShorterBurst ==
  ASSUME NEW b \in Bursts, b.left # 1
  PROVE  [b EXCEPT !.left = b.left - 1] \in Bursts
  BY DEF Bursts

\* A beat returned leaves the slave owing bursts.
LEMMA ReturnedTyped ==
  ASSUME slave \in Seq(Bursts), NEW beat \in BOOLEAN, beat => slave # <<>>
  PROVE  Service!Returned(beat) \in Seq(Bursts)
<1>1. CASE beat
  <2>1. slave # <<>> /\ slave[1] \in Bursts /\ 1 \in DOMAIN slave
    BY <1>1
  <2>2. CASE Head(slave).left = 1
    BY <1>1, <2>1, <2>2 DEF Service!Returned
  <2>3. CASE Head(slave).left # 1
    <3>1. [slave[1] EXCEPT !.left = slave[1].left - 1] \in Bursts
      BY <2>1, <2>3, ShorterBurst
    <3>2. [slave EXCEPT ![1] = [slave[1] EXCEPT !.left = slave[1].left - 1]] \in Seq(Bursts)
      BY <2>1, <3>1
    <3>3. QED BY <1>1, <2>3, <3>2 DEF Service!Returned
  <2>4. QED BY <2>2, <2>3
<1>2. CASE ~beat
  BY <1>2 DEF Service!Returned
<1>3. QED BY <1>1, <1>2

\* Whatever the slave does, it owes bursts.
LEMMA SlaveTyped ==
  ASSUME TypeOK, arvalid => rx_size # 0,
         NEW arready \in BOOLEAN, NEW rvalid \in BOOLEAN, NEW inbuf_full \in BOOLEAN,
         Slave(arready, rvalid, inbuf_full)
  PROVE  slave' \in Seq(Bursts)
<1> DEFINE beat == rvalid /\ ~inbuf_full
<1>1. Service!Returned(beat) \in Seq(Bursts)
  BY ReturnedTyped DEF TypeOK, Bursts, Slave
<1>2. slave' = IF arvalid /\ arready THEN Append(Service!Returned(beat), Burst)
               ELSE Service!Returned(beat)
  BY DEF Slave, Service!Returned
<1>3. CASE arvalid /\ arready
  BY <1>1, <1>2, <1>3, BurstIsBurst
<1>4. CASE ~(arvalid /\ arready)
  BY <1>1, <1>2, <1>4
<1>5. QED BY <1>3, <1>4

\* Power-up establishes the invariant.
LEMMA InitEstablishes == Init => IInv
<1> SUFFICES ASSUME Init PROVE IInv
  OBVIOUS
<1>1. rd_req_buf \in Seq(Requests) /\ Len(rd_req_buf) <= RD_BUF_DEPTH
  BY DEF Init, RequestBuffer!Init
<1>2. slave \in Seq(Bursts)
  BY DEF Init
<1>3. 0 \in 0 .. SIZES - 1 /\ 0 \in 0 .. WINDOW - 1
  OBVIOUS
<1>4. QED BY <1>1, <1>2, <1>3 DEF Init, RequestBuffer!Init, IInv, TypeOK,
                                 OneRequestAtATime, Bursts

\* An edge in reset keeps it.
LEMMA ResetPreserves ==
  ASSUME IInv, reset' \in BOOLEAN, rd_req' \in Inputs,
         NEW arready \in BOOLEAN, NEW rvalid \in BOOLEAN, NEW inbuf_full \in BOOLEAN,
         Reset(arready, rvalid, inbuf_full)
  PROVE  IInv'
<1>1. slave' \in Seq(Bursts)
  BY SlaveTyped DEF Reset, IInv, OneRequestAtATime
<1>2. rd_req_buf_data_out' \in Requests
  BY DEF Reset, RequestBuffer!Reset, RequestBuffer!ReadPort, IInv, TypeOK
<1>3. rd_req_buf' \in Seq(Requests) /\ Len(rd_req_buf') <= RD_BUF_DEPTH
  BY DEF Reset, RequestBuffer!Reset
<1>4. 0 \in 0 .. SIZES - 1 /\ 0 \in 0 .. WINDOW - 1
  OBVIOUS
<1>5. QED BY <1>1, <1>2, <1>3, <1>4 DEF Reset, IInv, TypeOK, Bursts,
                                       OneRequestAtATime

\* So does an edge outside reset.
LEMMA ClockPreserves ==
  ASSUME IInv, reset' \in BOOLEAN, rd_req' \in Inputs,
         NEW arready \in BOOLEAN, NEW rvalid \in BOOLEAN, NEW inbuf_full \in BOOLEAN,
         Clock(arready, rvalid, inbuf_full)
  PROVE  IInv'
<1> USE DEF Clock
<1>1. TypeOK'
  <2>1. slave' \in Seq(Bursts)
    BY SlaveTyped DEF IInv, OneRequestAtATime
  <2>2. /\ rd_req_buf_data_out' \in Requests
        /\ rd_req_buf' \in Seq(Requests) /\ Len(rd_req_buf') <= RD_BUF_DEPTH
    <3>1. PICK push \in BOOLEAN, d \in Requests :
            RequestBuffer!Edge(push, rd_req_buf_pop, d)
      <4>1. CASE rd_req = <<>>
        BY <4>1 DEF BufferEdge, IInv, TypeOK
      <4>2. CASE rd_req # <<>>
        <5>1. rd_req[1] \in Requests
          BY <4>2 DEF IInv, TypeOK, Inputs
        <5>2. RequestBuffer!Edge(TRUE, rd_req_buf_pop, rd_req[1])
          BY <4>2 DEF BufferEdge
        <5>3. QED BY <5>1, <5>2
      <4>3. QED BY <4>1, <4>2
    <3>2. /\ rd_req_buf \in Seq(Requests) /\ Len(rd_req_buf) <= RD_BUF_DEPTH
          /\ rd_req_buf_data_out \in Requests
      BY DEF IInv, TypeOK
    <3>3. QED BY <3>1, <3>2 DEF RequestBuffer!Edge, RequestBuffer!After,
                                RequestBuffer!ReadPort
  <2>3. rd_req_buf_pop_d' \in BOOLEAN
    BY DEF rd_req_buf_pop, IInv, TypeOK
  <2>4. arvalid' \in BOOLEAN
    BY DEF ArValid, IInv, TypeOK
  <2>5. rd_req_buf_data_out.left \in 0 .. SIZES - 1 /\ rd_req_buf_data_out.off \in 0 .. WINDOW - 1
    BY DEF IInv, TypeOK
  <2>6. rx_size' \in 0 .. SIZES - 1
    BY <2>5 DEF RxSize, WrapSize, arlen, IInv, TypeOK, OneRequestAtATime
  <2>7. araddr_offset' \in 0 .. WINDOW - 1
    BY <2>5 DEF ArAddrOffset, WrapOffset, IInv, TypeOK
  <2>8. QED BY <2>1, <2>2, <2>3, <2>4, <2>6, <2>7 DEF TypeOK, Bursts
<1>2. OneRequestAtATime'
  BY DEF IInv, TypeOK, OneRequestAtATime, rd_req_buf_pop, ArValid, RxSize
<1>3. QED BY <1>1, <1>2 DEF IInv

\* So does every step.
LEMMA NextPreserves == IInv /\ [Next]_vars => IInv'
<1> SUFFICES ASSUME IInv, [Next]_vars PROVE IInv'
  OBVIOUS
<1>1. CASE Next
  BY <1>1, ResetPreserves, ClockPreserves DEF Next, Edge
<1>2. CASE UNCHANGED vars
  BY <1>2 DEF vars, IInv, TypeOK, OneRequestAtATime
<1>3. QED BY <1>1, <1>2

\* The inductive invariant holds in every reachable state.
THEOREM Invariance == Spec => []IInv
  BY InitEstablishes, NextPreserves, PTL DEF Spec

\* Every register stays within its width, for all values of the constants.
THEOREM TypeCorrect == Spec => []TypeOK
<1>1. IInv => TypeOK
  BY DEF IInv
<1>2. QED BY <1>1, Invariance, PTL

\* Requests never overlap: rd_req_buf is not popped while beats are still to be
\* asked for, nor on the edge on which they are being loaded.
THEOREM RequestsDoNotOverlap == Spec => []OneRequestAtATime
<1>1. IInv => OneRequestAtATime
  BY DEF IInv
<1>2. QED BY <1>1, Invariance, PTL

-----------------------------------------------------------------------------
(* Bursts and pages. *)

\* An offset at which a burst may start without leaving its page.
Aligned(n) == \E k \in Nat : n = k * BURST

\* Pages are whole numbers of bursts and requests start at one.
AlignedRequests == Aligned(WINDOW) /\ \A r \in Requests : Aligned(r.off)

\* Between two aligned offsets there is room for a burst.
LEMMA RoomForBurst ==
  ASSUME NEW a \in Nat, NEW b \in Nat, Aligned(a), Aligned(b), a < b
  PROVE  a + BURST <= b
<1>1. PICK j \in Nat, k \in Nat : a = j * BURST /\ b = k * BURST
  BY DEF Aligned
<1>2. j < k
  <2>1. CASE k <= j
    BY <1>1, <2>1
  <2>2. QED BY <2>1
<1>3. (j + 1) * BURST <= k * BURST
  BY <1>2
<1>4. QED BY <1>1, <1>3

\* The offset of the next burst is aligned, around the end of the page or not.
LEMMA NextIsAligned ==
  ASSUME NEW a \in Nat, Aligned(a), Aligned(WINDOW)
  PROVE  Aligned(WrapOffset(a + BURST))
<1>1. PICK j \in Nat, k \in Nat : a = j * BURST /\ WINDOW = k * BURST
  BY DEF Aligned
<1>2. CASE a + BURST >= WINDOW
  <2>1. j + 1 >= k
    <3>1. CASE j + 1 < k
      BY <1>1, <1>2, <3>1
    <3>2. QED BY <3>1
  <2>2. a + BURST - WINDOW = (j + 1 - k) * BURST
    BY <1>1
  <2>3. WrapOffset(a + BURST) = (j + 1 - k) * BURST /\ j + 1 - k \in Nat
    BY <1>2, <2>1, <2>2 DEF WrapOffset
  <2>4. QED BY <2>3 DEF Aligned
<1>3. CASE ~(a + BURST >= WINDOW)
  <2>1. a + BURST = (j + 1) * BURST
    BY <1>1
  <2>2. QED BY <1>3, <2>1 DEF WrapOffset, Aligned
<1>4. QED BY <1>2, <1>3

\* The offset stays aligned on every step.
LEMMA StepAligned ==
  ASSUME AlignedRequests, IInv, Aligned(araddr_offset), [Next]_vars
  PROVE  Aligned(araddr_offset')
<1>1. araddr_offset \in Nat /\ rd_req_buf_data_out \in Requests
  BY DEF IInv, TypeOK
<1>2. Aligned(0)
  <2>1. 0 = 0 * BURST
    OBVIOUS
  <2>2. QED BY <2>1 DEF Aligned
<1>3. \/ araddr_offset' = 0
      \/ araddr_offset' = rd_req_buf_data_out.off
      \/ araddr_offset' = WrapOffset(araddr_offset + BURST)
      \/ araddr_offset' = araddr_offset
  BY DEF Next, Edge, Reset, Clock, ArAddrOffset, vars
<1>4. QED BY <1>1, <1>2, <1>3, NextIsAligned DEF AlignedRequests

\* For every burst length and page size, requests that start at a multiple of
\* BURST make no burst that runs past the end of its page.
THEOREM BurstStaysInPage ==
  ASSUME AlignedRequests
  PROVE  Spec => []BurstInPage
<1>1. Init => Aligned(araddr_offset)
  <2>1. 0 = 0 * BURST
    OBVIOUS
  <2>2. QED BY <2>1 DEF Init, Aligned
<1>2. IInv /\ Aligned(araddr_offset) /\ [Next]_vars => Aligned(araddr_offset)'
  BY StepAligned DEF Aligned
<1>3. IInv /\ Aligned(araddr_offset) => BurstInPage
  <2> SUFFICES ASSUME IInv, Aligned(araddr_offset) PROVE BurstInPage
    OBVIOUS
  <2>1. araddr_offset \in Nat /\ WINDOW \in Nat /\ araddr_offset < WINDOW
    BY DEF IInv, TypeOK
  <2>2. araddr_offset + BURST <= WINDOW
    BY <2>1, RoomForBurst DEF AlignedRequests
  <2>3. arlen + 1 <= BURST /\ arlen \in Int
    BY DEF IInv, TypeOK, arlen
  <2>4. QED BY <2>1, <2>2, <2>3 DEF BurstInPage
<1>4. QED BY <1>1, <1>2, <1>3, Invariance, PTL DEF Spec

-----------------------------------------------------------------------------
(* The address channel. *)

\* The slave's queue after an edge on which it takes the burst on offer ends in
\* that burst.
LEMMA TakenBurstIsLast ==
  ASSUME IInv, arvalid,
         NEW rvalid \in BOOLEAN, NEW inbuf_full \in BOOLEAN,
         Slave(TRUE, rvalid, inbuf_full)
  PROVE  slave' # <<>> /\ slave'[Len(slave')] = Burst
<1>1. PICK owed : slave' = Append(owed, Burst)
  BY DEF Slave
<1>2. slave' \in Seq(Bursts)
  BY SlaveTyped DEF IInv, OneRequestAtATime
<1>3. QED BY <1>1, <1>2

\* The AXI rule for ARVALID, ARADDR and ARLEN, for all values of the constants.
LEMMA StepKeepsOffer ==
  IInv /\ [Next]_vars =>
    [arvalid => \/ arvalid' /\ Burst' = Burst
                \/ slave' # <<>> /\ slave'[Len(slave')] = Burst
                \/ reset]_vars
<1> SUFFICES ASSUME IInv, Next, arvalid, ~reset
             PROVE  \/ arvalid' /\ Burst' = Burst
                    \/ slave' # <<>> /\ slave'[Len(slave')] = Burst
  OBVIOUS
<1>1. PICK arready \in BOOLEAN, rvalid \in BOOLEAN, inbuf_full \in BOOLEAN :
        Clock(arready, rvalid, inbuf_full)
  BY DEF Next, Edge, Reset
<1>2. rx_size # 0 /\ ~rd_req_buf_pop_d
  BY DEF IInv, OneRequestAtATime
<1>3. CASE arready
  BY <1>1, <1>3, TakenBurstIsLast DEF Clock
<1>4. CASE ~arready
  <2>1. arvalid' /\ rx_size' = rx_size /\ araddr_offset' = araddr_offset
    BY <1>1, <1>2, <1>4 DEF Clock, ArValid, RxSize, ArAddrOffset
  <2>2. rd_req_buf_data_out' = rd_req_buf_data_out
    BY <1>1, <1>2 DEF Clock, BufferEdge, RequestBuffer!Edge, RequestBuffer!ReadPort,
                      rd_req_buf_pop
  <2>3. QED BY <2>1, <2>2 DEF Burst, arlen
<1>5. QED BY <1>3, <1>4

\* A burst on offer is never changed or withdrawn except by reset.
THEOREM OfferIsStable == Spec => ArStable
  BY Invariance, StepKeepsOffer, PTL DEF Spec, ArStable

-----------------------------------------------------------------------------
(* The refinement. *)

\* What is left of the request in progress, as a request of its own.
InProgress == [rd_req_buf_data_out EXCEPT !.off = araddr_offset, !.left = rx_size]

\* Requests, and what is left of them.
Partial == [page : Pages, off : 0 .. WINDOW - 1, left : 0 .. SIZES - 1]

\* A sequence of requests is one of partial requests.
LEMMA RequestsArePartial ==
  ASSUME NEW s \in Seq(Requests)
  PROVE  s \in Seq(Partial)
<1>1. Requests \subseteq Partial
  BY DEF Partial
<1>2. QED BY <1>1, SeqOfSubset

\* A request with another offset and another size.
LEMMA RestOfRequest ==
  ASSUME NEW r \in Partial,
         NEW o \in 0 .. WINDOW - 1, NEW l \in 0 .. SIZES - 1
  PROVE  [r EXCEPT !.off = o, !.left = l] = [page |-> r.page, off |-> o, left |-> l]
<1> USE DEF Partial
<1> DEFINE x == [r EXCEPT !.off = o]
<1>1. x \in Partial /\ x.page = r.page /\ x.off = o
  OBVIOUS
<1> HIDE DEF x
<1>2. [x EXCEPT !.left = l] = [page |-> r.page, off |-> o, left |-> l]
  BY <1>1
<1>3. [r EXCEPT !.off = o, !.left = l] = [x EXCEPT !.left = l]
  BY DEF x
<1>4. QED BY <1>2, <1>3

PhaseFacts ==
  /\ rd_req_buf_pop_d => Pending = <<rd_req_buf_data_out>> \o rd_req_buf
  /\ ~rd_req_buf_pop_d /\ rx_size # 0 => Pending = <<InProgress>> \o rd_req_buf
  /\ ~rd_req_buf_pop_d /\ rx_size = 0 => Pending = rd_req_buf

\* The requests of the service, phase by phase.
LEMMA PendingPhases == IInv => PhaseFacts
<1> SUFFICES ASSUME IInv PROVE PhaseFacts
  OBVIOUS
<1>1. rd_req_buf \in Seq(Requests)
  BY DEF IInv, TypeOK
<1>2. <<>> \o rd_req_buf = rd_req_buf
  BY <1>1, ConcatEmptySeq
<1>3. QED BY <1>2 DEF Pending, InProgress, PhaseFacts

\* The buffer after an edge outside reset: a pop takes the oldest request, and
\* the taken request comes last.
LEMMA BufferStep ==
  ASSUME IInv, BufferEdge
  PROVE  /\ rd_req_buf' = (IF rd_req_buf_pop THEN Tail(rd_req_buf) ELSE rd_req_buf) \o Taken
         /\ rd_req_buf_data_out' =
              IF rd_req_buf_pop THEN Head(rd_req_buf) ELSE rd_req_buf_data_out
         /\ Taken \in Seq(Requests)
<1> DEFINE kept == IF rd_req_buf_pop THEN Tail(rd_req_buf) ELSE rd_req_buf
<1>1. rd_req_buf \in Seq(Requests) /\ Len(rd_req_buf) <= RD_BUF_DEPTH
  BY DEF IInv, TypeOK
<1>2. rd_req_buf_pop => rd_req_buf # <<>>
  BY DEF rd_req_buf_pop
<1>3. kept \in Seq(Requests)
  BY <1>1, <1>2
<1>4. CASE rd_req = <<>>
  <2>1. Taken = <<>>
    BY <1>4 DEF Taken
  <2>2. rd_req_buf' = kept
    BY <1>2, <1>4 DEF BufferEdge, RequestBuffer!Edge, RequestBuffer!After
  <2>3. kept \o <<>> = kept
    BY <1>3, ConcatEmptySeq
  <2>4. QED BY <1>2, <1>4, <2>1, <2>2, <2>3
               DEF BufferEdge, RequestBuffer!Edge, RequestBuffer!ReadPort
<1>5. CASE rd_req # <<>>
  <2>1. PICK r \in Requests : rd_req = <<r>>
    BY <1>5 DEF IInv, TypeOK, Inputs
  <2>2. RequestBuffer!Edge(TRUE, rd_req_buf_pop, r)
    BY <1>5, <2>1 DEF BufferEdge
  <2>3. rd_req_buf' = IF rd_ready THEN Append(kept, r) ELSE kept
    BY <1>1, <1>2, <2>2 DEF RequestBuffer!Edge, RequestBuffer!After, rd_ready
  <2>4. Append(kept, r) = kept \o <<r>> /\ kept \o <<>> = kept
    BY <1>3, AppendIsConcat, ConcatEmptySeq
  <2>5. Taken = IF rd_ready THEN <<r>> ELSE <<>>
    BY <2>1 DEF Taken
  <2>6. rd_req_buf' = kept \o Taken
    BY <2>3, <2>4, <2>5
  <2>7. rd_req_buf_data_out' = IF rd_req_buf_pop THEN Head(rd_req_buf) ELSE rd_req_buf_data_out
    BY <1>2, <2>2 DEF RequestBuffer!Edge, RequestBuffer!ReadPort
  <2>8. QED BY <2>5, <2>6, <2>7
<1>6. QED BY <1>4, <1>5

ProgressFacts ==
  /\ InProgress \in Partial
  /\ InProgress = [page |-> rd_req_buf_data_out.page, off |-> araddr_offset,
                   left |-> rx_size]

\* What is left of a request in progress is a request.
LEMMA InProgressIsRecord == IInv => ProgressFacts
<1> SUFFICES ASSUME IInv PROVE ProgressFacts
  OBVIOUS
<1>1. rd_req_buf_data_out \in Partial
  BY DEF IInv, TypeOK, Partial
<1>2. rx_size \in 0 .. SIZES - 1 /\ araddr_offset \in 0 .. WINDOW - 1
  BY DEF IInv, TypeOK
<1>3. [rd_req_buf_data_out EXCEPT !.off = araddr_offset, !.left = rx_size] =
        [page |-> rd_req_buf_data_out.page, off |-> araddr_offset, left |-> rx_size]
  BY <1>1, <1>2, RestOfRequest, Zenon
<1>4. [page |-> rd_req_buf_data_out.page, off |-> araddr_offset, left |-> rx_size] \in Partial
  BY <1>1, <1>2 DEF Partial
<1>5. QED BY <1>3, <1>4 DEF InProgress, ProgressFacts

\* The slave's side of an edge is the service's, with the burst on offer as the
\* service's next burst.
LEMMA SlaveSimulation ==
  ASSUME IInv,
         NEW arready \in BOOLEAN, NEW rvalid \in BOOLEAN, NEW inbuf_full \in BOOLEAN,
         Slave(arready, rvalid, inbuf_full)
  PROVE  \E beat \in BOOLEAN : Service!SlaveEdge(arvalid /\ arready, beat)
<1> DEFINE beat == rvalid /\ ~inbuf_full
<1>1. beat \in BOOLEAN /\ (beat => slave # <<>>)
  BY DEF Slave
<1>2. slave' = IF arvalid /\ arready THEN Append(Service!Returned(beat), Burst)
               ELSE Service!Returned(beat)
  BY DEF Slave, Service!Returned
<1>3. slave' \in Seq(Bursts)
  BY SlaveTyped DEF IInv, OneRequestAtATime
<1>4. CASE arvalid /\ arready
  <2>1. rx_size # 0 /\ ~rd_req_buf_pop_d
    BY <1>4 DEF IInv, OneRequestAtATime
  <2>2. Burst \in Bursts
    BY <2>1, BurstIsBurst DEF IInv
  <2>3. Pending = <<InProgress>> \o rd_req_buf
    BY <2>1, PendingPhases DEF PhaseFacts
  <2>4. Pending # <<>> /\ Head(Pending) = InProgress
    BY <2>3 DEF IInv, TypeOK
  <2>5. Service!NextBurst = Burst /\ InProgress.left > 0
    <3>2. rx_size \in 1 .. SIZES - 1 /\ araddr_offset \in 0 .. WINDOW - 1
      BY <2>1 DEF IInv, TypeOK
    <3>3. InProgress = [page |-> rd_req_buf_data_out.page, off |-> araddr_offset,
                        left |-> rx_size]
      BY InProgressIsRecord DEF ProgressFacts
    <3>4. arlen + 1 = IF rx_size >= BURST THEN BURST ELSE rx_size
      BY <3>2 DEF arlen
    <3>5. Service!NextBurst =
            [InProgress EXCEPT !.left = IF rx_size >= BURST THEN BURST ELSE rx_size]
      BY <2>4, <3>3 DEF Service!NextBurst
    <3>6. QED BY <3>2, <3>3, <3>4, <3>5 DEF Burst
  <2>6. slave' = Service!Returned(beat) \o <<Burst>>
    <3>1. Service!Returned(beat) \in Seq(Bursts)
      BY <1>1, ReturnedTyped DEF IInv, TypeOK, Bursts
    <3>2. QED BY <1>2, <1>4, <2>2, <3>1, AppendIsConcat
  <2>7. QED BY <1>1, <1>4, <2>4, <2>5, <2>6 DEF Service!SlaveEdge
<1>5. CASE ~(arvalid /\ arready)
  <2>1. slave' = Service!Returned(beat) \o <<>>
    BY <1>2, <1>3, <1>5, ConcatEmptySeq
  <2>2. QED BY <1>1, <1>5, <2>1 DEF Service!SlaveEdge
<1>6. QED BY <1>4, <1>5

\* An edge outside reset is an edge of the service: a pop changes nothing of
\* what is pending, the load of a size of 0 skips a request, and an accepted
\* address is the issue of the next burst.
LEMMA ClockSimulation ==
  ASSUME IInv, IInv',
         NEW arready \in BOOLEAN, NEW rvalid \in BOOLEAN, NEW inbuf_full \in BOOLEAN,
         Clock(arready, rvalid, inbuf_full)
  PROVE  \E beat \in BOOLEAN :
           Service!Serve(Taken, arvalid /\ arready, beat) \/ Service!Skip(Taken, beat)
<1>1. PICK beat \in BOOLEAN : Service!SlaveEdge(arvalid /\ arready, beat)
  BY SlaveSimulation DEF Clock
<1>2. PhaseFacts /\ PhaseFacts' /\ ProgressFacts /\ ProgressFacts'
  BY PendingPhases, InProgressIsRecord, PTL
<1>3. /\ rd_req_buf' = (IF rd_req_buf_pop THEN Tail(rd_req_buf) ELSE rd_req_buf) \o Taken
      /\ rd_req_buf_data_out' =
           IF rd_req_buf_pop THEN Head(rd_req_buf) ELSE rd_req_buf_data_out
      /\ Taken \in Seq(Requests)
  BY BufferStep DEF Clock
<1>4. rd_req_buf \in Seq(Requests) /\ rd_req_buf_data_out \in Requests
  BY DEF IInv, TypeOK
<1>5. rd_req_buf_pop_d' = rd_req_buf_pop
  BY DEF Clock
<1>6. CASE rd_req_buf_pop
  <2>1. rx_size = 0 /\ rd_req_buf # <<>> /\ ~rd_req_buf_pop_d /\ ~arvalid
    BY <1>6 DEF rd_req_buf_pop, IInv, OneRequestAtATime
  <2>2. Pending' = <<Head(rd_req_buf)>> \o (Tail(rd_req_buf) \o Taken)
    BY <1>2, <1>3, <1>5, <1>6 DEF PhaseFacts
  <2>3. Pending' = rd_req_buf \o Taken
    <3>1. <<Head(rd_req_buf)>> \in Seq(Requests) /\ Tail(rd_req_buf) \in Seq(Requests)
      BY <1>4, <2>1
    <3>2. (<<Head(rd_req_buf)>> \o Tail(rd_req_buf)) \o Taken =
            <<Head(rd_req_buf)>> \o (Tail(rd_req_buf) \o Taken)
      BY <1>3, <3>1, ConcatAssociative
    <3>3. QED BY <1>4, <2>1, <2>2, <3>2, HeadThenTail
  <2>4. Pending = rd_req_buf
    BY <1>2, <2>1 DEF PhaseFacts
  <2>5. QED BY <1>1, <2>1, <2>3, <2>4 DEF Service!Serve, Service!Issued
<1>7. CASE rd_req_buf_pop_d
  <2>1. ~rd_req_buf_pop /\ ~arvalid /\ rx_size = 0
    BY <1>7 DEF rd_req_buf_pop, IInv, OneRequestAtATime
  <2>2. rd_req_buf_data_out \in [page : Pages, off : 0 .. WINDOW - 1, left : 0 .. SIZES - 1]
    BY <1>4
  <2>3. /\ rx_size' = rd_req_buf_data_out.left
        /\ araddr_offset' = rd_req_buf_data_out.off
        /\ rd_req_buf_data_out' = rd_req_buf_data_out
        /\ rd_req_buf' = rd_req_buf \o Taken
    BY <1>3, <1>7, <2>1, <2>2 DEF Clock, RxSize, WrapSize, ArAddrOffset
  <2>4. Pending = <<rd_req_buf_data_out>> \o rd_req_buf
    BY <1>2, <1>7 DEF PhaseFacts
  <2>5. CASE rx_size' # 0
    <3>1. InProgress' = rd_req_buf_data_out
      <4>1. InProgress' = [page |-> rd_req_buf_data_out'.page, off |-> araddr_offset',
                           left |-> rx_size']
        BY <1>2 DEF ProgressFacts
      <4>2. rd_req_buf_data_out = [page |-> rd_req_buf_data_out.page,
                                   off |-> rd_req_buf_data_out.off,
                                   left |-> rd_req_buf_data_out.left]
        BY <2>2
      <4>3. QED BY <2>3, <4>1, <4>2
    <3>2. Pending' = <<rd_req_buf_data_out>> \o (rd_req_buf \o Taken)
      BY <1>2, <1>5, <2>1, <2>3, <2>5, <3>1 DEF PhaseFacts
    <3>3. Pending' = Pending \o Taken
      <4>1. <<rd_req_buf_data_out>> \in Seq(Partial)
        <5>1. rd_req_buf_data_out \in Partial
          BY <2>2 DEF Partial
        <5>2. QED BY <5>1
      <4>2. rd_req_buf \in Seq(Partial) /\ Taken \in Seq(Partial)
        BY <1>3, <1>4, RequestsArePartial
      <4>3. (<<rd_req_buf_data_out>> \o rd_req_buf) \o Taken =
              <<rd_req_buf_data_out>> \o (rd_req_buf \o Taken)
        BY <4>1, <4>2, ConcatAssociative
      <4>4. QED BY <2>4, <3>2, <4>3
    <3>4. QED BY <1>1, <2>1, <3>3 DEF Service!Serve, Service!Issued
  <2>6. CASE rx_size' = 0
    <3>1. Pending' = rd_req_buf \o Taken
      BY <1>2, <1>5, <2>1, <2>3, <2>6 DEF PhaseFacts
    <3>2. Pending # <<>> /\ Head(Pending) = rd_req_buf_data_out /\ Tail(Pending) = rd_req_buf
      BY <1>4, <2>4, ConcatFirst
    <3>3. QED BY <1>1, <2>1, <2>3, <2>6, <3>1, <3>2 DEF Service!Skip
  <2>7. QED BY <2>5, <2>6
<1>8. CASE ~rd_req_buf_pop /\ ~rd_req_buf_pop_d /\ rx_size = 0
  <2>1. ~arvalid /\ rx_size' = 0
    BY <1>8 DEF IInv, OneRequestAtATime, Clock, RxSize
  <2>2. Pending = rd_req_buf /\ Pending' = rd_req_buf \o Taken
    BY <1>2, <1>3, <1>5, <1>8, <2>1 DEF PhaseFacts
  <2>3. QED BY <1>1, <2>1, <2>2 DEF Service!Serve, Service!Issued
<1>9. CASE ~rd_req_buf_pop /\ ~rd_req_buf_pop_d /\ rx_size # 0
  <2>1. /\ rd_req_buf_data_out' = rd_req_buf_data_out
        /\ rd_req_buf' = rd_req_buf \o Taken
        /\ Pending = <<InProgress>> \o rd_req_buf
    BY <1>2, <1>3, <1>9 DEF PhaseFacts
  <2>2. /\ InProgress = [page |-> rd_req_buf_data_out.page, off |-> araddr_offset,
                         left |-> rx_size]
        /\ InProgress' = [page |-> rd_req_buf_data_out'.page, off |-> araddr_offset',
                          left |-> rx_size']
        /\ InProgress \in Partial /\ InProgress' \in Partial
    BY <1>2 DEF ProgressFacts
  <2>3. rx_size \in 1 .. SIZES - 1 /\ araddr_offset \in 0 .. WINDOW - 1
    BY <1>9 DEF IInv, TypeOK
  <2>4. rd_req_buf \in Seq(Partial) /\ Taken \in Seq(Partial)
    BY <1>3, <1>4, RequestsArePartial
  <2>5. CASE ~(arvalid /\ arready)
    <3>1. rx_size' = rx_size /\ araddr_offset' = araddr_offset
      BY <1>9, <2>5 DEF Clock, RxSize, ArAddrOffset
    <3>2. Pending' = <<InProgress>> \o (rd_req_buf \o Taken)
      BY <1>2, <1>5, <1>9, <2>1, <2>2, <3>1 DEF PhaseFacts
    <3>3. Pending' = Pending \o Taken
      <4>1. <<InProgress>> \in Seq(Partial)
        BY <2>2
      <4>2. (<<InProgress>> \o rd_req_buf) \o Taken = <<InProgress>> \o (rd_req_buf \o Taken)
        BY <2>4, <4>1, ConcatAssociative
      <4>3. QED BY <2>1, <3>2, <4>2
    <3>4. QED BY <1>1, <2>5, <3>3 DEF Service!Serve, Service!Issued
  <2>6. CASE arvalid /\ arready
    <3>1. /\ rx_size' = rx_size - (IF rx_size >= BURST THEN BURST ELSE rx_size)
          /\ araddr_offset' = WrapOffset(araddr_offset + BURST)
      BY <1>9, <2>3, <2>6 DEF Clock, RxSize, WrapSize, arlen, ArAddrOffset
    <3>2. <<InProgress'>> \in Seq(Partial)
      BY <2>2
    <3>3. Pending # <<>> /\ Head(Pending) = InProgress /\ Tail(Pending) = rd_req_buf
      BY <2>1, <2>2, <2>4, ConcatFirst
    <3>4. Service!AfterBurst = InProgress'
      <4>1. InProgress.off = araddr_offset /\ InProgress.left = rx_size
        BY <2>2
      <4>2. Service!NextBurst.left = IF rx_size >= BURST THEN BURST ELSE rx_size
        BY <2>2, <3>3, <4>1 DEF Service!NextBurst, Partial
      <4>3. Service!AfterBurst =
              [InProgress EXCEPT !.off = araddr_offset', !.left = rx_size']
        BY <3>1, <3>3, <4>1, <4>2 DEF Service!AfterBurst, WrapOffset
      <4>4. rx_size' \in 0 .. SIZES - 1 /\ araddr_offset' \in 0 .. WINDOW - 1
        BY DEF IInv, TypeOK
      <4>5. [InProgress EXCEPT !.off = araddr_offset', !.left = rx_size'] =
              [page |-> InProgress.page, off |-> araddr_offset', left |-> rx_size']
        BY <2>2, <4>4, RestOfRequest, Zenon
      <4>6. QED BY <2>1, <2>2, <4>3, <4>5
    <3>5. CASE rx_size' = 0
      <4>1. Pending' = rd_req_buf \o Taken
        BY <1>2, <1>5, <1>9, <2>1, <3>5 DEF PhaseFacts
      <4>2. Service!Issued(TRUE) = rd_req_buf
        BY <2>2, <3>3, <3>4, <3>5 DEF Service!Issued
      <4>3. QED BY <1>1, <2>6, <4>1, <4>2 DEF Service!Serve
    <3>6. CASE rx_size' # 0
      <4>1. Pending' = <<InProgress'>> \o (rd_req_buf \o Taken)
        BY <1>2, <1>5, <1>9, <2>1, <3>6 DEF PhaseFacts
      <4>2. Service!Issued(TRUE) = <<InProgress'>> \o rd_req_buf
        BY <2>2, <3>3, <3>4, <3>6 DEF Service!Issued
      <4>3. Pending' = Service!Issued(TRUE) \o Taken
        <5>1. (<<InProgress'>> \o rd_req_buf) \o Taken = <<InProgress'>> \o (rd_req_buf \o Taken)
          BY <2>4, <3>2, ConcatAssociative
        <5>2. QED BY <4>1, <4>2, <5>1
      <4>4. QED BY <1>1, <2>6, <4>3 DEF Service!Serve
    <3>7. QED BY <3>5, <3>6
  <2>7. QED BY <2>5, <2>6
<1>10. QED BY <1>6, <1>7, <1>8, <1>9

\* An edge in reset is one of the service.
LEMMA ResetSimulation ==
  ASSUME IInv, IInv',
         NEW arready \in BOOLEAN, NEW rvalid \in BOOLEAN, NEW inbuf_full \in BOOLEAN,
         Reset(arready, rvalid, inbuf_full)
  PROVE  \E beat \in BOOLEAN : Service!Reset(arvalid /\ arready, beat)
<1>1. PICK beat \in BOOLEAN : Service!SlaveEdge(arvalid /\ arready, beat)
  BY SlaveSimulation DEF Reset
<1>2. rx_size' = 0 /\ ~rd_req_buf_pop_d' /\ rd_req_buf' = <<>>
  BY DEF Reset, RequestBuffer!Reset
<1>3. Pending' = <<>>
  <2>1. PhaseFacts'
    BY PendingPhases, PTL
  <2>2. QED BY <1>2, <2>1 DEF PhaseFacts
<1>4. QED BY <1>1, <1>3 DEF Service!Reset

\* Every step of the read side is a step of the service or changes nothing.
LEMMA StepSimulation ==
  IInv /\ IInv' /\ [Next]_vars => [Service!Step(reset, Taken)]_vars
<1> SUFFICES ASSUME IInv, IInv', [Next]_vars
             PROVE  [Service!Step(reset, Taken)]_vars
  OBVIOUS
<1>1. CASE Next
  <2>1. PICK arready, rvalid, inbuf_full \in BOOLEAN : Edge(arready, rvalid, inbuf_full)
    BY <1>1 DEF Next
  <2>2. (arvalid /\ arready) \in BOOLEAN
    BY DEF IInv, TypeOK
  <2>3. CASE Reset(arready, rvalid, inbuf_full)
    <3>1. reset
      BY <2>3 DEF Reset
    <3>2. PICK beat \in BOOLEAN : Service!Reset(arvalid /\ arready, beat)
      BY <2>3, ResetSimulation
    <3>3. QED BY <2>2, <3>1, <3>2 DEF Service!Step
  <2>4. CASE Clock(arready, rvalid, inbuf_full)
    <3>1. ~reset
      BY <2>4 DEF Clock
    <3>2. PICK beat \in BOOLEAN :
            Service!Serve(Taken, arvalid /\ arready, beat) \/ Service!Skip(Taken, beat)
      BY <2>4, ClockSimulation
    <3>3. QED BY <2>2, <3>1, <3>2 DEF Service!Step
  <2>5. QED BY <2>1, <2>3, <2>4 DEF Edge
<1>2. CASE UNCHANGED vars
  BY <1>2
<1>3. QED BY <1>1, <1>2

\* At power-up nothing is pending and nothing is owed.
LEMMA InitSimulation == Init => Service!Init
<1> SUFFICES ASSUME Init
             PROVE  Service!Init
  OBVIOUS
<1>1. Pending = <<>>
  <2>1. PhaseFacts
    BY InitEstablishes, PendingPhases
  <2>2. QED BY <2>1 DEF PhaseFacts, Init, RequestBuffer!Init
<1>2. QED BY <1>1 DEF Init, Service!Init

\* The read side serves requests in order, each as consecutive bursts that ask
\* for exactly its beats, for every choice of requests and every slave.
THEOREM ReadServiceImplemented == Spec => ImplementsReadService
  BY Invariance, InitSimulation, StepSimulation, PTL DEF Spec, ImplementsReadService
=============================================================================
