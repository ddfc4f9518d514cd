---------------------------- MODULE AxiWriteProofs ----------------------------
(***************************************************************************)
(* The write side as a whole, for every number of processing units, burst  *)
(* length and depth.  Four parts.                                          *)
(*                                                                         *)
(* The address half keeps its books, whatever is around it.  The wait      *)
(* between a decision and its effect is what has to be carried: a unit     *)
(* seen ready (axi_wr_req_d), its address on offer (write_state 1),        *)
(* accepted and not yet charged (write_state 2) is the unit being looked   *)
(* at all along.  A reset may come at any time; on its first edge          *)
(* axi_wr_req_d, which has no reset branch, still shows a decision that is *)
(* no longer covered (WInv).                                               *)
(*                                                                         *)
(* Of requests of whole bursts, nothing is flushed and every issue is      *)
(* covered by words written (CoverInv).                                    *)
(*                                                                         *)
(* So the words of an accepted burst are in the output buffer of its unit, *)
(* and stay there until the data half pops them (StockInv).  With that,    *)
(* the output buffers bound how far the addresses run ahead of the data.   *)
(*                                                                         *)
(* And then no request buffer overflows, the flow of words proved of the   *)
(* data half in WriteDataProofs goes on, and a reset of three edges stops  *)
(* it (SideInv).                                                           *)
(***************************************************************************)
EXTENDS AxiWrite, TLAPS, FiniteSetTheorems, FunctionTheorems, SequenceTheorems

USE WriteIssueAssumption, AxiWriteAssumption

\* The unit being looked at has been chosen and not yet charged.
Going ==
  \/ write_state = 0 /\ write_state_d = 0 /\ axi_wr_req_d
  \/ write_state = 1
  \/ write_state = 2

\* The write FSM and the registers that follow it.
FsmInv ==
  /\ awvalid => write_state = 1
  /\ wburst_issued <=> write_state = 2
  /\ write_state = 2 => wr_issued_pu_id = curr_wr_pu_id
  /\ write_state = 0 => write_state_d \in {0, 3}
  /\ Going => axi_wr_req

IInv == TypeOK /\ FsmInv /\ ReadyIsCurrent

\* What every edge under reset brings about.
Cleared ==
  /\ TypeOK /\ ReadyIsCurrent
  /\ write_state = 0 /\ write_state_d = 0 /\ ~awvalid /\ ~wburst_issued
  /\ pu_writes_remaining = [i \in PU |-> 0]

\* The first edge of a reset clears, the second lets axi_wr_req_d settle.
WInv ==
  /\ held \in 0 .. RESET_EDGES
  /\ held # 1 => IInv
  /\ held # 0 => Cleared

-----------------------------------------------------------------------------
(* Steps of the whole write side are steps of its address half. *)

\* Whatever the data half, the output buffers and the slave do, an edge outside
\* reset is an edge of the address half.
LEMMA StepOfIssue == WriteNext => Next /\ held \in {0, RESET_EDGES} /\ held' = 0
<1> SUFFICES ASSUME WriteNext PROVE Next /\ held \in {0, RESET_EDGES} /\ held' = 0
  OBVIOUS
<1>1. PICK request \in Requests, write_valid \in SUBSET Room, wready \in BOOLEAN :
        Edge(request, write_valid, wready)
  BY DEF WriteNext
<1>2. write_valid \in SUBSET Writers
  BY DEF Room, Writers
<1>3. W!wlast \in BOOLEAN
  BY DEF W!wlast
<1>4. IssueEdge(request, write_valid, W!wlast) /\ held \in {0, RESET_EDGES} /\ held' = 0
  BY <1>1 DEF Edge
<1>5. QED BY <1>2, <1>3, <1>4 DEF Next

-----------------------------------------------------------------------------
(* The invariant that holds for every set of requests. *)

\* The registers of one bit, one by one.
LEMMA Bits ==
  /\ TypeOK => /\ M_AXI_AWREADY \in BOOLEAN /\ awvalid \in BOOLEAN
               /\ axi_wr_req_d \in BOOLEAN /\ wburst_issued \in BOOLEAN
               /\ wr_ready \in BOOLEAN
  BY DEF TypeOK

\* Out of reset nothing is asked for and nothing is under way.
LEMMA InitEstablishes == IssueInit => IInv
<1> SUFFICES ASSUME IssueInit PROVE IInv
  OBVIOUS
<1>1. 0 \in PU
  BY DEF PU
<1>2. TypeOK
  <2>1. /\ count \in 0 .. AWREADY_EDGES - 1 /\ awaddr_new \in 0 .. ADDR_MOD - 1
        /\ write_state \in 0 .. 3 /\ write_state_d \in 0 .. 3
    BY DEF IssueInit
  <2>2. /\ pu_writes_remaining \in [PU -> 0 .. SIZE_MOD - 1]
        /\ write_count \in [PU -> 0 .. COUNT_MOD - 1]
    BY DEF IssueInit
  <2>3. /\ pu_wr_flush \in [PU -> BOOLEAN] /\ pu_wr_flush_sticky \in [PU -> BOOLEAN]
        /\ wbc_wburst_ready \in [PU -> BOOLEAN]
    BY DEF IssueInit
  <2>4. QED BY <1>1, <2>1, <2>2, <2>3 DEF IssueInit, TypeOK
<1>3. FsmInv /\ ReadyIsCurrent
  BY <1>1 DEF IssueInit, FsmInv, Going, ReadyIsCurrent, pu_wr_ready
<1>4. QED BY <1>2, <1>3 DEF IInv

\* Every register keeps its width on an edge.
LEMMA EdgeTyped ==
  ASSUME TypeOK, NEW request \in Requests, NEW write_valid \in SUBSET Writers,
         NEW wlast \in BOOLEAN, IssueEdge(request, write_valid, wlast)
  PROVE  TypeOK'
<1>1. count' \in 0 .. AWREADY_EDGES - 1 /\ M_AXI_AWREADY' \in BOOLEAN
  <2>1. count' \in 0 .. AWREADY_EDGES - 1
    BY DEF TypeOK, IssueEdge, AwReady
  <2>2. M_AXI_AWREADY' = ~M_AXI_AWREADY \/ M_AXI_AWREADY' = M_AXI_AWREADY
    BY DEF IssueEdge, AwReady
  <2>3. QED BY <2>1, <2>2, Bits
<1>2. write_state' \in 0 .. 3 /\ write_state_d' \in 0 .. 3
  BY DEF TypeOK, IssueEdge, WriteState
<1>3. awaddr_new' \in 0 .. ADDR_MOD - 1
  BY DEF TypeOK, IssueEdge, AwAddr
<1>4. curr_wr_pu_id' \in PU /\ wr_issued_pu_id' \in PU /\ wr_pu_id' \in PU
  BY DEF TypeOK, IssueEdge, CurrWrPuId, Issued, NextRequest, PU
<1>5. pu_writes_remaining' \in [PU -> 0 .. SIZE_MOD - 1]
  <2>1. request # 0 => request \in 0 .. SIZE_MOD - 1
    BY DEF Requests
  <2>2. \A i \in PU : (pu_writes_remaining[i] - BURST) % SIZE_MOD \in 0 .. SIZE_MOD - 1
    BY DEF TypeOK
  <2>3. QED BY <2>1, <2>2 DEF TypeOK, IssueEdge, WritesRemaining
<1>6. write_count' \in [PU -> 0 .. COUNT_MOD - 1]
  BY DEF TypeOK, IssueEdge, WriteCount
<1>7. pu_wr_flush' \in [PU -> BOOLEAN] /\ pu_wr_flush_sticky' \in [PU -> BOOLEAN]
  <2>1. \A i \in PU : wr_flush(i) \in BOOLEAN
    BY DEF wr_flush, pu_wr_ready
  <2>2. \A i \in PU : (~pu_wr_ready(i) /\ (pu_wr_flush[i] \/ pu_wr_flush_sticky[i])) \in BOOLEAN
    BY DEF pu_wr_ready
  <2>3. QED BY <2>1, <2>2 DEF IssueEdge, Flush
<1>8. wbc_wburst_ready' \in [PU -> BOOLEAN]
  <2>1. \A i \in PU : (write_count[i] >= BURST) \in BOOLEAN
    OBVIOUS
  <2>2. \A i \in PU :
          (IF wbc_wburst_ready[i] THEN ~(wburst_issued /\ curr_wr_pu_id = i)
           ELSE write_count[i] >= BURST) \in BOOLEAN
    BY <2>1
  <2>3. QED BY <2>2 DEF IssueEdge, WBurstReady
<1>9. /\ awvalid' \in BOOLEAN /\ axi_wr_req_d' \in BOOLEAN
      /\ wburst_issued' \in BOOLEAN /\ wr_ready' \in BOOLEAN
  <2>1. awvalid' \in BOOLEAN
    BY Bits DEF IssueEdge, AwValid
  <2>2. axi_wr_req_d' \in BOOLEAN
    BY DEF IssueEdge, Issued, axi_wr_req, pu_axi_wr_ready
  <2>3. wburst_issued' \in BOOLEAN /\ wr_ready' \in BOOLEAN
    BY DEF IssueEdge, Issued, WrReady
  <2>4. QED BY <2>1, <2>2, <2>3
<1>10. QED
  BY <1>1, <1>2, <1>3, <1>4, <1>5, <1>6, <1>7, <1>8, <1>9 DEF TypeOK

\* A request is for a unit that has nothing left, so it leaves alone the words
\* of a unit that has; only a charge takes from them.
LEMMA RemainingKept ==
  ASSUME IInv, NEW request \in Requests, NEW write_valid \in SUBSET Writers,
         NEW wlast \in BOOLEAN, IssueEdge(request, write_valid, wlast),
         NEW i \in PU, ~pu_wr_ready(i), ~(wburst_issued /\ wr_issued_pu_id = i)
  PROVE  pu_writes_remaining'[i] = pu_writes_remaining[i]
<1>1. request # 0 => wr_pu_id # i
  BY DEF Requests, IInv, ReadyIsCurrent
<1>2. QED BY <1>1 DEF IInv, TypeOK, IssueEdge, WritesRemaining

\* Every edge keeps the invariant.
LEMMA EdgePreserves ==
  ASSUME IInv, NEW request \in Requests, NEW write_valid \in SUBSET Writers,
         NEW wlast \in BOOLEAN, IssueEdge(request, write_valid, wlast)
  PROVE  IInv'
<1>1. TypeOK'
  BY EdgeTyped DEF IInv
<1>2. (awvalid => write_state = 1)'
  <2> SUFFICES ASSUME awvalid' PROVE write_state' = 1
    OBVIOUS
  <2>1. write_state = 1 /\ ~aw_accepted
    BY DEF IInv, FsmInv, IssueEdge, AwValid, aw_accepted
  <2>2. QED BY <2>1 DEF IssueEdge, WriteState
<1>3. (wburst_issued <=> write_state = 2)'
  <2>1. wburst_issued' <=> write_state = 1 /\ aw_accepted
    BY DEF IssueEdge, Issued
  <2>2. write_state' = 2 <=> write_state = 1 /\ aw_accepted
    BY DEF IInv, TypeOK, IssueEdge, WriteState
  <2>3. QED BY <2>1, <2>2
<1>4. (write_state = 2 => wr_issued_pu_id = curr_wr_pu_id)'
  BY DEF IInv, TypeOK, FsmInv, IssueEdge, Issued, WriteState, CurrWrPuId, check_next_pu
<1>5. (write_state = 0 => write_state_d \in {0, 3})'
  BY DEF IInv, TypeOK, FsmInv, IssueEdge, WriteState
<1>6. (Going => axi_wr_req)'
  <2> SUFFICES ASSUME Going' PROVE axi_wr_req'
    OBVIOUS
  <2>1. write_state \in {0, 1} /\ axi_wr_req
    BY DEF Going, IInv, TypeOK, FsmInv, IssueEdge, WriteState, Issued
  <2>2. curr_wr_pu_id' = curr_wr_pu_id /\ curr_wr_pu_id \in PU
    BY <2>1 DEF IInv, TypeOK, IssueEdge, CurrWrPuId, check_next_pu
  <2>3. ~wburst_issued /\ ~pu_wr_ready(curr_wr_pu_id)
    BY <2>1 DEF IInv, FsmInv, axi_wr_req, pu_axi_wr_ready
  <2>4. pu_writes_remaining'[curr_wr_pu_id] = pu_writes_remaining[curr_wr_pu_id]
    BY <2>2, <2>3, RemainingKept
  <2>5. \/ wbc_wburst_ready'[curr_wr_pu_id]
        \/ pu_wr_flush_sticky'[curr_wr_pu_id]
    BY <2>1, <2>2, <2>3 DEF IssueEdge, WBurstReady, Flush, axi_wr_req, pu_axi_wr_ready
  <2>6. QED BY <2>2, <2>3, <2>4, <2>5 DEF axi_wr_req, pu_axi_wr_ready, pu_wr_ready
<1>7. ReadyIsCurrent'
  <2> SUFFICES ASSUME wr_ready' PROVE pu_wr_ready(wr_pu_id)'
    BY DEF ReadyIsCurrent
  <2>1. request = 0
    BY DEF IssueEdge, WrReady, Requests
  <2>2. pu_wr_ready(wr_pu_id) /\ wr_pu_id' = wr_pu_id
    BY <2>1 DEF IssueEdge, WrReady, NextRequest
  <2>3. ~(wburst_issued /\ wr_issued_pu_id = wr_pu_id)
    BY <2>2 DEF IInv, FsmInv, Going, axi_wr_req, pu_axi_wr_ready
  <2>4. pu_writes_remaining'[wr_pu_id] = pu_writes_remaining[wr_pu_id]
    BY <2>1, <2>3 DEF IInv, TypeOK, IssueEdge, WritesRemaining
  <2>5. QED BY <2>2, <2>4 DEF pu_wr_ready
<1>8. QED BY <1>1, <1>2, <1>3, <1>4, <1>5, <1>6, <1>7 DEF IInv, FsmInv

\* So does every edge of the address half outside reset.
LEMMA IssuePreserves == IInv /\ Next => IInv'
  BY EdgePreserves DEF Next

\* An edge under reset clears, whatever was there before.
LEMMA ResetClears ==
  ASSUME TypeOK, NEW wr_req \in BOOLEAN, IssueReset(wr_req)
  PROVE  Cleared'
<1>1. 0 \in PU
  BY DEF PU
<1>2. /\ count' \in 0 .. AWREADY_EDGES - 1 /\ awaddr_new' \in 0 .. ADDR_MOD - 1
      /\ write_state' \in 0 .. 3 /\ write_state_d' \in 0 .. 3
      /\ curr_wr_pu_id' \in PU /\ wr_issued_pu_id' \in PU /\ wr_pu_id' \in PU
  BY <1>1 DEF IssueReset
<1>3. /\ pu_writes_remaining' \in [PU -> 0 .. SIZE_MOD - 1]
      /\ write_count' \in [PU -> 0 .. COUNT_MOD - 1]
  BY DEF IssueReset
<1>4. pu_wr_flush' \in [PU -> BOOLEAN]
  <2>1. \A i \in PU : wr_flush(i) \in BOOLEAN
    BY DEF wr_flush, pu_wr_ready
  <2>2. QED BY <2>1 DEF IssueReset
<1>5. pu_wr_flush_sticky' \in [PU -> BOOLEAN] /\ wbc_wburst_ready' \in [PU -> BOOLEAN]
  BY DEF IssueReset
<1>6. /\ M_AXI_AWREADY' \in BOOLEAN /\ awvalid' \in BOOLEAN
      /\ wburst_issued' \in BOOLEAN
  BY Zenon DEF IssueReset
<1>7. axi_wr_req_d' \in BOOLEAN /\ wr_ready' \in BOOLEAN
  BY DEF IssueReset, axi_wr_req, pu_axi_wr_ready, WrReady
<1>8. TypeOK'
  BY <1>2, <1>3, <1>4, <1>5, <1>6, <1>7 DEF TypeOK
<1>9. ReadyIsCurrent'
  BY <1>1 DEF IssueReset, ReadyIsCurrent, pu_wr_ready
<1>10. QED BY <1>8, <1>9 DEF IssueReset, Cleared

\* When what was there before is cleared too, nothing is under way.
LEMMA ResetSettles ==
  ASSUME Cleared, NEW wr_req \in BOOLEAN, IssueReset(wr_req)
  PROVE  IInv'
<1>1. Cleared'
  BY ResetClears DEF Cleared
<1>2. ~axi_wr_req_d'
  <2>1. curr_wr_pu_id \in PU
    BY DEF Cleared, TypeOK
  <2>2. ~axi_wr_req
    BY <2>1 DEF Cleared, axi_wr_req, pu_axi_wr_ready, pu_wr_ready
  <2>3. QED BY <2>2 DEF IssueReset
<1>3. FsmInv'
  BY <1>1, <1>2 DEF Cleared, FsmInv, Going
<1>4. QED BY <1>1, <1>3 DEF Cleared, IInv

\* A step of the whole write side keeps the invariant.
LEMMA StepPreserves == WInv /\ [WriteNext \/ Reset]_vars => WInv'
<1> SUFFICES ASSUME WInv, [WriteNext \/ Reset]_vars PROVE WInv'
  OBVIOUS
<1>1. TypeOK
  BY DEF WInv, IInv, Cleared
<1>2. CASE WriteNext
  <2>1. Next /\ held \in {0, RESET_EDGES} /\ held' = 0
    BY <1>2, StepOfIssue
  <2>2. IInv
    BY <2>1 DEF WInv
  <2>3. IInv'
    BY <2>1, <2>2, IssuePreserves
  <2>4. QED BY <2>1, <2>3 DEF WInv
<1>3. CASE Reset
  <2>1. PICK wr_req \in {FALSE, wr_ready} : IssueReset(wr_req)
    BY <1>3 DEF Reset
  <2>2. wr_req \in BOOLEAN
    BY <1>1, Bits
  <2>3. held' \in 1 .. RESET_EDGES /\ (held' # 1 => held # 0)
    BY <1>3 DEF Reset, WInv
  <2>4. Cleared'
    BY <1>1, <2>1, <2>2, ResetClears
  <2>5. held # 0 => IInv'
    BY <2>1, <2>2, ResetSettles DEF WInv
  <2>6. QED BY <2>3, <2>4, <2>5 DEF WInv
<1>4. CASE UNCHANGED vars
  BY <1>4 DEF vars, ivars, WInv, Cleared, IInv, TypeOK, FsmInv, Going, ReadyIsCurrent,
              axi_wr_req, pu_axi_wr_ready, pu_wr_ready
<1>5. QED BY <1>2, <1>3, <1>4

\* The invariant holds in every reachable state of the write side.
THEOREM Invariance == WriteSpec => []WInv
<1>1. Init => WInv
  <2> SUFFICES ASSUME Init PROVE WInv
    OBVIOUS
  <2>1. IInv
    BY InitEstablishes DEF Init
  <2>2. Cleared
    BY <2>1 DEF Init, IssueInit, IInv, Cleared
  <2>3. QED BY <2>1, <2>2 DEF Init, WInv
<1>2. QED BY <1>1, StepPreserves, PTL DEF WriteSpec

\* An issued burst is charged to one unit only, the one it was issued for, for
\* every number of units and any requests.
THEOREM ChargedOnceHolds == WriteSpec => []ChargedOnce
<1>1. WInv => ChargedOnce
  BY DEF WInv, IInv, Cleared, FsmInv, ChargedOnce
<1>2. QED BY <1>1, Invariance, PTL

\* wr_ready never invites a request for a unit that has words to issue, for
\* every number of units and any requests.
THEOREM ReadyIsCurrentHolds == WriteSpec => []ReadyIsCurrent
<1>1. WInv => ReadyIsCurrent
  BY DEF WInv, IInv, Cleared
<1>2. QED BY <1>1, Invariance, PTL

-----------------------------------------------------------------------------
(* Requests of whole bursts: nothing is flushed, every issue is covered. *)

\* A number of words that is a number of bursts.
Whole(n) == \E k \in Nat : n = k * BURST

WholeRequests == \A n \in SIZES : Whole(n)

\* Words remain in whole bursts, so a unit is ready by its counter only.
CoverInv ==
  /\ \A i \in PU : Whole(pu_writes_remaining[i])
  /\ \A i \in PU : ~pu_wr_flush[i] /\ ~pu_wr_flush_sticky[i]
  /\ \A i \in PU : write_count[i] <= MaxWritten
  /\ \A i \in PU : wbc_wburst_ready[i] => write_count[i] >= BURST

\* A whole number of bursts is nothing, or at least one burst and then a whole
\* number of bursts.
LEMMA WholeLessOne ==
  ASSUME NEW n \in Nat, Whole(n), n # 0
  PROVE  n >= BURST /\ Whole(n - BURST)
<1>1. PICK k \in Nat : n = k * BURST
  BY DEF Whole
<1>2. k >= 1
  BY <1>1
<1>3. n - BURST = (k - 1) * BURST /\ (k - 1) * BURST \in Nat
  BY <1>1, <1>2
<1>4. QED BY <1>2, <1>3 DEF Whole

\* A unit that is ready has a burst asked for and a burst written.
LEMMA ReadyIsCovered ==
  ASSUME IInv, CoverInv, NEW i \in PU, pu_axi_wr_ready(i)
  PROVE  /\ wbc_wburst_ready[i]
         /\ pu_writes_remaining[i] >= BURST
         /\ write_count[i] >= BURST
<1>1. pu_writes_remaining[i] \in Nat /\ pu_writes_remaining[i] # 0
  BY DEF IInv, TypeOK, pu_axi_wr_ready, pu_wr_ready
<1>2. wbc_wburst_ready[i]
  BY DEF CoverInv, pu_axi_wr_ready
<1>3. QED BY <1>1, <1>2, WholeLessOne DEF CoverInv

\* A burst that is being charged is covered.
LEMMA ChargeIsCovered ==
  ASSUME IInv, CoverInv, wburst_issued
  PROVE  /\ wr_issued_pu_id = curr_wr_pu_id /\ curr_wr_pu_id \in PU
         /\ wbc_wburst_ready[curr_wr_pu_id]
         /\ pu_writes_remaining[curr_wr_pu_id] >= BURST
         /\ write_count[curr_wr_pu_id] >= BURST
<1>1. axi_wr_req /\ wr_issued_pu_id = curr_wr_pu_id /\ curr_wr_pu_id \in PU
  BY DEF IInv, TypeOK, FsmInv, Going
<1>2. QED BY <1>1, ReadyIsCovered DEF axi_wr_req

\* Out of reset there is nothing to cover.
LEMMA InitCovered == IssueInit => CoverInv
<1> SUFFICES ASSUME IssueInit PROVE CoverInv
  OBVIOUS
<1>1. Whole(0)
  <2>1. 0 = 0 * BURST
    OBVIOUS
  <2>2. QED BY <2>1 DEF Whole
<1>2. QED BY <1>1 DEF IssueInit, CoverInv

\* Every edge keeps the words of a unit in whole bursts and its counter ahead.
LEMMA EdgeCovered ==
  ASSUME WholeRequests, IInv, CoverInv,
         NEW request \in Requests, NEW write_valid \in SUBSET Writers,
         NEW wlast \in BOOLEAN, IssueEdge(request, write_valid, wlast)
  PROVE  CoverInv'
<1>1. ASSUME NEW i \in PU PROVE Whole(pu_writes_remaining'[i])
  <2>1. pu_writes_remaining[i] \in 0 .. SIZE_MOD - 1 /\ Whole(pu_writes_remaining[i])
    BY DEF IInv, TypeOK, CoverInv
  <2>2. CASE request # 0 /\ wr_pu_id = i
    <3>1. request \in SIZES /\ pu_writes_remaining'[i] = request
      BY <2>2 DEF Requests, IssueEdge, WritesRemaining
    <3>2. QED BY <3>1 DEF WholeRequests
  <2>3. CASE ~(request # 0 /\ wr_pu_id = i) /\ wburst_issued /\ wr_issued_pu_id = i
    <3>1. pu_writes_remaining[i] >= BURST
      BY <2>3, ChargeIsCovered
    <3>2. Whole(pu_writes_remaining[i] - BURST)
      BY <2>1, <3>1, WholeLessOne
    <3>3. (pu_writes_remaining[i] - BURST) % SIZE_MOD = pu_writes_remaining[i] - BURST
      BY <2>1, <3>1
    <3>4. pu_writes_remaining'[i] = pu_writes_remaining[i] - BURST
      BY <2>3, <3>3 DEF IssueEdge, WritesRemaining
    <3>5. QED BY <3>2, <3>4
  <2>4. CASE ~(request # 0 /\ wr_pu_id = i) /\ ~(wburst_issued /\ wr_issued_pu_id = i)
    BY <2>1, <2>4 DEF IssueEdge, WritesRemaining
  <2>5. QED BY <2>2, <2>3, <2>4
<1>2. ASSUME NEW i \in PU PROVE ~pu_wr_flush'[i] /\ ~pu_wr_flush_sticky'[i]
  <2>1. ~wr_flush(i)
    <3>1. pu_writes_remaining[i] \in Nat /\ Whole(pu_writes_remaining[i])
      BY DEF IInv, TypeOK, CoverInv
    <3>2. QED BY <3>1, WholeLessOne DEF wr_flush, pu_wr_ready
  <2>2. QED BY <2>1 DEF CoverInv, IssueEdge, Flush
<1>3. ASSUME NEW i \in PU
      PROVE  /\ write_count'[i] <= MaxWritten
             /\ wbc_wburst_ready'[i] => write_count'[i] >= BURST
  <2> DEFINE more == IF i \in write_valid THEN 1 ELSE 0
             charged == wburst_issued /\ curr_wr_pu_id = i
             less == IF charged THEN BURST ELSE 0
  <2>1. write_count[i] \in Nat /\ write_count[i] <= MaxWritten
    BY DEF IInv, TypeOK, CoverInv
  <2>2. write_count[i] + more <= MaxWritten
    BY <2>1 DEF Writers
  <2>3. charged => write_count[i] >= BURST /\ wbc_wburst_ready[i]
    BY ChargeIsCovered
  <2>4. write_count'[i] = (write_count[i] + more - less) % COUNT_MOD
    BY DEF IssueEdge, WriteCount
  <2>5. write_count[i] + more - less \in 0 .. MaxWritten
    BY <2>1, <2>2, <2>3
  <2>6. write_count'[i] = write_count[i] + more - less
    <3>1. \A n \in 0 .. MaxWritten : n % COUNT_MOD = n
      OBVIOUS
    <3> HIDE DEF more, less
    <3>2. QED BY <2>4, <2>5, <3>1
  <2>7. wbc_wburst_ready'[i] => ~charged /\ write_count[i] >= BURST
    BY <2>3 DEF CoverInv, IssueEdge, WBurstReady
  <2>8. QED BY <2>1, <2>5, <2>6, <2>7
<1>4. QED BY <1>1, <1>2, <1>3 DEF CoverInv, Whole

\* A reset leaves nothing to cover, and no flush that was not there before.
LEMMA ResetCovered ==
  ASSUME TypeOK, CoverInv, NEW wr_req \in BOOLEAN, IssueReset(wr_req)
  PROVE  CoverInv'
<1>1. Whole(0)
  <2>1. 0 = 0 * BURST
    OBVIOUS
  <2>2. QED BY <2>1 DEF Whole
<1>2. ASSUME NEW i \in PU PROVE ~wr_flush(i)
  <2>1. pu_writes_remaining[i] \in Nat /\ Whole(pu_writes_remaining[i])
    BY DEF TypeOK, CoverInv
  <2>2. QED BY <2>1, WholeLessOne DEF wr_flush, pu_wr_ready
<1>3. QED BY <1>1, <1>2 DEF IssueReset, CoverInv

\* Every step of the whole write side keeps the words in whole bursts.
LEMMA CoverKept ==
  ASSUME WholeRequests, WInv, CoverInv, [WriteNext \/ Reset]_vars
  PROVE  CoverInv'
<1>1. CASE WriteNext
  <2>1. Next /\ IInv
    BY <1>1, StepOfIssue DEF WInv
  <2>2. QED BY <2>1, EdgeCovered DEF Next
<1>2. CASE Reset
  <2>1. PICK wr_req \in {FALSE, wr_ready} : IssueReset(wr_req)
    BY <1>2 DEF Reset
  <2>2. TypeOK
    BY DEF WInv, IInv, Cleared
  <2>3. wr_req \in BOOLEAN
    BY <2>2, Bits
  <2>4. QED BY <2>1, <2>2, <2>3, ResetCovered
<1>3. CASE UNCHANGED vars
  BY <1>3 DEF vars, ivars, CoverInv, Whole
<1>4. QED BY <1>1, <1>2, <1>3

\* For every number of units, burst length and set of requests of whole bursts,
\* an address waits for acceptance, and an issue is charged, only for words that
\* the unit was asked for and has written.
THEOREM IssueIsCoveredHolds ==
  ASSUME WholeRequests
  PROVE  WriteSpec => []IssueIsCovered
<1>1. Init => CoverInv
  BY InitCovered DEF Init
<1>2. WInv /\ CoverInv /\ [WriteNext \/ Reset]_vars => CoverInv'
  BY CoverKept
<1>3. WInv /\ CoverInv => IssueIsCovered
  <2> SUFFICES ASSUME WInv, CoverInv, write_state = 1 \/ wburst_issued
               PROVE  /\ pu_writes_remaining[curr_wr_pu_id] >= BURST
                      /\ write_count[curr_wr_pu_id] >= BURST
    BY DEF IssueIsCovered
  <2>1. IInv
    BY DEF WInv, Cleared
  <2>2. axi_wr_req /\ curr_wr_pu_id \in PU
    BY <2>1 DEF IInv, TypeOK, FsmInv, Going
  <2>3. QED BY <2>1, <2>2, ReadyIsCovered DEF axi_wr_req
<1>4. QED BY <1>1, <1>2, <1>3, Invariance, PTL DEF WriteSpec

-----------------------------------------------------------------------------
(* The data half is the one the flow of words is proved of. *)

\* The data half, with the proofs of its flow.
WD == INSTANCE WriteDataProofs
  WITH MaxAhead <- REQ_BUF_DEPTH, StallLimit <- WRITE_BUF_DEPTH - MARGIN - BURST

\* What the data half asks of its constants.
LEMMA DataAssumption == WD!WriteDataAssumption
<1>1. (WRITE_BUF_DEPTH - MARGIN - BURST) \in Int
  OBVIOUS
<1>2. QED BY <1>1 DEF WD!WriteDataAssumption

\* The data half of the model and the one of the proofs are the same.
LEMMA SameEdge ==
  ASSUME NEW a, NEW wready
  PROVE  W!DataEdge(a, wready) <=> WD!DataEdge(a, wready)
<1>1. /\ W!pu_obuf_rd_inc <=> WD!pu_obuf_rd_inc
      /\ W!wnext(wready) <=> WD!wnext(wready)
      /\ W!wlast <=> WD!wlast
      /\ W!pu_obuf_rd_overflow <=> WD!pu_obuf_rd_overflow
      /\ W!wchannel_req_buf_pop <=> WD!wchannel_req_buf_pop
      /\ W!awchannel_req_buf_pop <=> WD!awchannel_req_buf_pop
  BY DEF W!pu_obuf_rd_inc, WD!pu_obuf_rd_inc, W!wnext, WD!wnext, W!wlast, WD!wlast,
         W!pu_obuf_rd_overflow, WD!pu_obuf_rd_overflow, W!wchannel_req_buf_pop,
         WD!wchannel_req_buf_pop, W!awchannel_req_buf_pop, WD!awchannel_req_buf_pop
<1>2. QED
  BY DEF W!DataEdge, WD!DataEdge,
    W!pu_obuf_rd_inc, WD!pu_obuf_rd_inc, W!wnext, WD!wnext, W!wlast, WD!wlast,
         W!pu_obuf_rd_overflow, WD!pu_obuf_rd_overflow, W!wchannel_req_buf_pop,
         WD!wchannel_req_buf_pop, W!awchannel_req_buf_pop, WD!awchannel_req_buf_pop,
    W!ReadRequests!Edge, WD!ReadRequests!Edge, W!ReadRequests!After, WD!ReadRequests!After,
    W!ReadRequests!ReadPort, WD!ReadRequests!ReadPort,
    W!SendRequests!Edge, WD!SendRequests!Edge, W!SendRequests!After, WD!SendRequests!After,
    W!SendRequests!waiting, WD!SendRequests!waiting, W!SendRequests!full, WD!SendRequests!full,
    W!WriteBuffer!Edge, WD!WriteBuffer!Edge, W!WriteBuffer!After, WD!WriteBuffer!After,
    W!WriteBuffer!waiting, WD!WriteBuffer!waiting, W!WriteBuffer!full, WD!WriteBuffer!full,
    W!AwChannelFsm, WD!AwChannelFsm, W!ObufReadCounter, WD!ObufReadCounter,
    W!ObufRead, WD!ObufRead, W!AlmostFull, WD!AlmostFull, W!WChannelFsm, WD!WChannelFsm,
    W!WValid, WD!WValid, W!WLenCount, WD!WLenCount, W!Slave, WD!Slave

\* The registers of the data half keep their widths and write_buf its room.
LEMMA EdgeKeepsData ==
  ASSUME WD!IInv, NEW a \in {<<>>} \cup {<<i>> : i \in PU}, NEW wready \in BOOLEAN,
         WD!DataEdge(a, wready)
  PROVE  WD!IInv'
  BY WD!EdgeKeepsTypes, WD!EdgeKeepsRoom, DataAssumption DEF WD!IInv

\* So are their resets,
LEMMA SameReset == W!DataReset <=> WD!DataReset
  BY DEF W!DataReset, WD!DataReset, W!pu_obuf_rd_inc, WD!pu_obuf_rd_inc,
    W!awchannel_req_buf_pop, WD!awchannel_req_buf_pop,
    W!ReadRequests!Reset, WD!ReadRequests!Reset, W!SendRequests!Reset, WD!SendRequests!Reset,
    W!ReadRequests!ReadPort, WD!ReadRequests!ReadPort,
    W!WriteBuffer!Reset, WD!WriteBuffer!Reset, W!Words, WD!Words

\* their initial states
LEMMA SameInit == W!DataInit <=> WD!DataInit
  BY DEF W!DataInit, WD!DataInit, W!ReadRequests!Init, WD!ReadRequests!Init,
    W!SendRequests!Init, WD!SendRequests!Init, W!WriteBuffer!Init, WD!WriteBuffer!Init,
    W!Words, WD!Words

\* and what is asked of them.
LEMMA SameProperties ==
  /\ W!TypeOK <=> WD!TypeOK
  /\ BeatIsRight <=> WD!BeatIsRight
  /\ W!MayStall <=> WD!MayStall
<1>1. W!TypeOK <=> WD!TypeOK
  BY DEF W!TypeOK, WD!TypeOK, W!Words, WD!Words, W!WriteBuffer!waiting,
    WD!WriteBuffer!waiting, W!SendRequests!waiting, WD!SendRequests!waiting
<1>2. BeatIsRight <=> WD!BeatIsRight
  BY DEF BeatIsRight, W!BeatIsRight, WD!BeatIsRight, W!wlast, WD!wlast
<1>3. W!MayStall <=> WD!MayStall
  BY DEF W!MayStall, WD!MayStall, W!WriteBuffer!waiting, WD!WriteBuffer!waiting
<1>4. QED BY <1>1, <1>2, <1>3

-----------------------------------------------------------------------------
(* How often a unit stands in a queue. *)

Places(q, i) == {k \in 1 .. Len(q) : q[k] = i}

Times(q, i) == Cardinality(Places(q, i))

\* A unit stands in a queue a number of times,
LEMMA TimesIsNat ==
  ASSUME NEW q \in Seq(PU), NEW i
  PROVE  IsFiniteSet(Places(q, i)) /\ Times(q, i) \in Nat
<1>1. IsFiniteSet(1 .. Len(q))
  BY FS_Interval
<1>2. Places(q, i) \subseteq 1 .. Len(q)
  BY DEF Places
<1>3. IsFiniteSet(Places(q, i))
  BY <1>1, <1>2, FS_Subset
<1>4. QED BY <1>3, FS_CardinalityType DEF Times

\* never in an empty one,
LEMMA TimesOfNone == ASSUME NEW i PROVE Times(<<>>, i) = 0
<1>1. Places(<<>>, i) = {}
  BY DEF Places
<1>2. QED BY <1>1, FS_EmptySet DEF Times

\* once more when it joins,
LEMMA TimesAppend ==
  ASSUME NEW q \in Seq(PU), NEW u \in PU, NEW i
  PROVE  Times(Append(q, u), i) = Times(q, i) + (IF u = i THEN 1 ELSE 0)
<1> DEFINE n == Len(q)
<1>1. n \in Nat /\ Len(Append(q, u)) = n + 1 /\ Append(q, u)[n + 1] = u
      /\ \A k \in 1 .. n : Append(q, u)[k] = q[k]
  OBVIOUS
<1>2. CASE u = i
  <2>1. Places(Append(q, u), i) = Places(q, i) \cup {n + 1}
    BY <1>1, <1>2 DEF Places
  <2>2. n + 1 \notin Places(q, i)
    BY <1>1 DEF Places
  <2>3. Cardinality(Places(q, i) \cup {n + 1}) = Cardinality(Places(q, i)) + 1
    BY <2>2, TimesIsNat, FS_AddElement
  <2>4. QED BY <1>2, <2>1, <2>3 DEF Times
<1>3. CASE u # i
  <2>1. Places(Append(q, u), i) = Places(q, i)
    BY <1>1, <1>3 DEF Places
  <2>2. QED BY <1>3, <2>1, TimesIsNat DEF Times
<1>4. QED BY <1>2, <1>3

\* and once less when it leaves.
LEMMA TimesTail ==
  ASSUME NEW q \in Seq(PU), q # <<>>, NEW i
  PROVE  Times(q, i) = Times(Tail(q), i) + (IF q[1] = i THEN 1 ELSE 0)
<1> DEFINE t == Tail(q)
           S == Places(t, i)
           T == {k \in 2 .. Len(q) : q[k] = i}
           f == [k \in S |-> k + 1]
<1>1. /\ Len(q) \in Nat /\ Len(q) >= 1 /\ Len(t) = Len(q) - 1 /\ t \in Seq(PU)
      /\ \A k \in 1 .. Len(t) : t[k] = q[k + 1]
  OBVIOUS
<1>2. IsFiniteSet(S) /\ Cardinality(S) = Times(t, i) /\ Times(t, i) \in Nat
  BY <1>1, TimesIsNat DEF Times
<1>3. f \in Bijection(S, T)
  <2>1. \A k \in S : k \in 1 .. Len(t) /\ t[k] = i
    BY DEF Places
  <2>2. \A k \in S : k + 1 \in T
    <3> HIDE DEF t, S
    <3>1. \A k \in S : k + 1 \in 2 .. Len(q) /\ q[k + 1] = i
      BY <1>1, <2>1
    <3>2. QED BY <3>1
  <2>3. f \in [S -> T]
    BY <2>2
  <2>4. \A a, b \in S : f[a] = f[b] => a = b
    BY <2>1
  <2>5. \A c \in T : \E k \in S : f[k] = c
    <3> SUFFICES ASSUME NEW c \in T PROVE \E k \in S : f[k] = c
      OBVIOUS
    <3>1. c - 1 \in 1 .. Len(t) /\ t[c - 1] = i /\ (c - 1) + 1 = c
      BY <1>1
    <3>2. c - 1 \in S
      BY <3>1 DEF Places
    <3>3. QED BY <3>1, <3>2
  <2> HIDE DEF f, S, T
  <2>6. QED BY <2>3, <2>4, <2>5, Fun_IsBij
<1>4. Cardinality(T) = Cardinality(S) /\ IsFiniteSet(T)
  <2> HIDE DEF f, S, T
  <2>1. ExistsBijection(S, T)
    BY <1>3, Fun_ExistsBij
  <2>2. QED BY <1>2, <2>1, FS_Bijection
<1>5. CASE q[1] = i
  <2>1. Places(q, i) = T \cup {1}
    BY <1>1, <1>5 DEF Places
  <2>2. 1 \notin T
    OBVIOUS
  <2>3. Cardinality(T \cup {1}) = Cardinality(T) + 1
    <3> HIDE DEF T
    <3>1. QED BY <1>4, <2>2, FS_AddElement
  <2>4. QED BY <1>2, <1>4, <1>5, <2>1, <2>3 DEF Times
<1>6. CASE q[1] # i
  <2>1. Places(q, i) = T
    BY <1>1, <1>6 DEF Places
  <2>2. QED BY <1>2, <1>4, <1>6, <2>1 DEF Times
<1>7. QED BY <1>5, <1>6

\* A queue in which no unit stands more than K times is no longer than that for
\* each unit.
LEMMA QueueIsBounded ==
  ASSUME NEW q \in Seq(PU), NEW K \in Nat, \A i \in PU : Times(q, i) <= K
  PROVE  Len(q) <= NUM_PU * K
<1> DEFINE Before(k) == {j \in 1 .. k : q[j] = q[k]}
           T == PU \X (1 .. K)
           f == [k \in 1 .. Len(q) |-> <<q[k], Cardinality(Before(k))>>]
<1>1. Len(q) \in Nat /\ \A k \in 1 .. Len(q) : q[k] \in PU
  BY ElementOfSeq
<1>2. ASSUME NEW k \in 1 .. Len(q)
      PROVE  /\ IsFiniteSet(Before(k)) /\ k \in Before(k)
             /\ Cardinality(Before(k)) \in 1 .. K
  <2>1. Before(k) \subseteq Places(q, q[k]) /\ k \in Before(k)
    BY <1>1 DEF Places
  <2>2. IsFiniteSet(Places(q, q[k])) /\ Cardinality(Places(q, q[k])) \in Nat
        /\ Cardinality(Places(q, q[k])) <= K
    BY <1>1, TimesIsNat DEF Times
  <2> HIDE DEF Before
  <2>3. /\ IsFiniteSet(Before(k)) /\ Cardinality(Before(k)) <= Cardinality(Places(q, q[k]))
        /\ Cardinality(Before(k)) \in Nat
    BY <2>1, <2>2, FS_Subset, FS_CardinalityType
  <2>4. Cardinality(Before(k)) # 0
    BY <2>1, <2>3, FS_EmptySet
  <2>5. QED BY <2>1, <2>2, <2>3, <2>4
<1>3. f \in [1 .. Len(q) -> T]
  <2> HIDE DEF Before
  <2>1. QED BY <1>1, <1>2
<1>4. ASSUME NEW a \in 1 .. Len(q), NEW b \in 1 .. Len(q), a < b, f[a] = f[b]
      PROVE  FALSE
  <2>1. q[a] = q[b] /\ Cardinality(Before(a)) = Cardinality(Before(b))
    <3> HIDE DEF Before
    <3>1. QED BY <1>4
  <2>2. Before(a) \subseteq Before(b) /\ b \notin Before(a)
    BY <1>1, <1>4, <2>1
  <2> HIDE DEF Before
  <2>3. Before(a) = Before(b)
    BY <1>2, <2>1, <2>2, FS_Subset
  <2>4. QED BY <1>2, <2>2, <2>3
<1>5. \A a, b \in 1 .. Len(q) : f[a] = f[b] => a = b
  <2> HIDE DEF f
  <2>1. QED BY <1>1, <1>4
<1>6. IsFiniteSet(T) /\ Cardinality(T) = NUM_PU * K
  <2>1. IsFiniteSet(PU) /\ Cardinality(PU) = NUM_PU
    <3>1. NUM_PU - 1 \in Int /\ 0 \in Int /\ NUM_PU \in Nat
      OBVIOUS
    <3>2. IsFiniteSet(0 .. NUM_PU - 1)
          /\ Cardinality(0 .. NUM_PU - 1) = IF 0 > NUM_PU - 1 THEN 0 ELSE NUM_PU - 1 - 0 + 1
      BY <3>1, FS_Interval
    <3>3. QED BY <3>1, <3>2 DEF PU
  <2>2. IsFiniteSet(1 .. K) /\ Cardinality(1 .. K) = K
    BY FS_Interval
  <2>3. QED BY <2>1, <2>2, FS_Product
<1>7. IsFiniteSet(1 .. Len(q)) /\ Cardinality(1 .. Len(q)) = Len(q)
  <2> DEFINE n == Len(q)
  <2>1. n \in Nat
    BY <1>1
  <2> HIDE DEF n
  <2>2. IsFiniteSet(1 .. n) /\ Cardinality(1 .. n) = n
    BY <2>1, FS_Interval
  <2>3. QED BY <2>2 DEF n
<1> HIDE DEF f, T
<1>8. f \in Injection(1 .. Len(q), T)
  BY <1>3, <1>5, Fun_IsInj
<1>9. QED BY <1>6, <1>7, <1>8, FS_Injection

-----------------------------------------------------------------------------
(* The words behind an accepted address are in the output buffer. *)

Charged(i) == IF wburst_issued /\ curr_wr_pu_id = i THEN BURST ELSE 0
Reading(i) == IF awchannel_read /\ pu_obuf_read_id = i THEN BURST - pu_obuf_rd_count ELSE 0
Popping(i) == IF i \in outbuf_pop THEN 1 ELSE 0

\* Words of unit i that accepted bursts will still pop.
ToGive(i) == BURST * Times(awchannel_req_buf, i) + Reading(i) + Popping(i)

\* The output buffer of a unit holds what is promised and what is counted and
\* not yet promised.
StockInv ==
  /\ outbuf_count \in [PU -> 0 .. OUTBUF_DEPTH]
  /\ \A i \in PU : write_count[i] - Charged(i) + ToGive(i) <= outbuf_count[i]

\* The registers of the read side, one by one.
LEMMA DataTypes ==
  ASSUME WD!IInv
  PROVE  /\ awchannel_read \in BOOLEAN /\ pu_obuf_rd_inc_d \in BOOLEAN
         /\ awchannel_req_buf \in Seq(PU) /\ Len(awchannel_req_buf) \in Nat
         /\ pu_obuf_read_id \in PU /\ outbuf_pop \in SUBSET PU
         /\ pu_obuf_rd_count \in 0 .. BURST - 1
         /\ wchannel_req_buf \in Seq(PU) /\ Len(wchannel_req_buf) \in Nat
  BY DEF WD!IInv, WD!TypeOK

\* The burst that is handed over.
LEMMA AcceptedUnit ==
  /\ aw_accepted => accepted = <<curr_wr_pu_id>>
  /\ ~aw_accepted => accepted = <<>>
  /\ accepted # <<>> <=> aw_accepted
  /\ curr_wr_pu_id \in PU => accepted \in {<<>>} \cup {<<i>> : i \in PU}
  BY DEF accepted

\* The read side of an edge, in the address half's terms.
LEMMA QueueMoves ==
  ASSUME WD!IInv, curr_wr_pu_id \in PU, NEW wready, W!DataEdge(accepted, wready)
  PROVE  LET begun == ~awchannel_read /\ awchannel_req_buf # <<>>
             kept == IF begun THEN Tail(awchannel_req_buf) ELSE awchannel_req_buf
         IN  /\ awchannel_req_buf' =
                  IF aw_accepted /\ Len(awchannel_req_buf) < REQ_BUF_DEPTH
                    THEN Append(kept, curr_wr_pu_id) ELSE kept
             /\ pu_obuf_read_id' = IF begun THEN Head(awchannel_req_buf) ELSE pu_obuf_read_id
<1> DEFINE begun == ~awchannel_read /\ awchannel_req_buf # <<>>
           kept == IF begun THEN Tail(awchannel_req_buf) ELSE awchannel_req_buf
<1>1. PICK unit \in PU :
        /\ accepted # <<>> => unit = accepted[1]
        /\ W!ReadRequests!Edge(accepted # <<>>, W!awchannel_req_buf_pop, unit)
  BY DEF W!DataEdge
<1>2. W!awchannel_req_buf_pop <=> begun
  BY DEF W!awchannel_req_buf_pop
<1>3. aw_accepted => unit = curr_wr_pu_id
  BY <1>1, AcceptedUnit
<1>4. accepted # <<>> <=> aw_accepted
  BY AcceptedUnit
<1>5. /\ awchannel_req_buf' =
           IF accepted # <<>> /\ Len(awchannel_req_buf) < REQ_BUF_DEPTH
             THEN Append(IF W!awchannel_req_buf_pop /\ awchannel_req_buf # <<>>
                           THEN Tail(awchannel_req_buf) ELSE awchannel_req_buf, unit)
             ELSE IF W!awchannel_req_buf_pop /\ awchannel_req_buf # <<>>
                    THEN Tail(awchannel_req_buf) ELSE awchannel_req_buf
      /\ pu_obuf_read_id' = IF W!awchannel_req_buf_pop /\ awchannel_req_buf # <<>>
                              THEN Head(awchannel_req_buf) ELSE pu_obuf_read_id
  BY <1>1 DEF W!ReadRequests!Edge, W!ReadRequests!After, W!ReadRequests!ReadPort
<1>6. QED BY <1>2, <1>3, <1>4, <1>5

\* What the data half still has to pop of a unit grows by accepted bursts only.
LEMMA GiveMoves ==
  ASSUME WD!IInv, curr_wr_pu_id \in PU, NEW wready, W!DataEdge(accepted, wready),
         NEW i \in PU
  PROVE  /\ ToGive(i) \in Nat /\ ToGive(i)' \in Int
         /\ ToGive(i)' <= ToGive(i) - Popping(i)
                            + (IF aw_accepted /\ curr_wr_pu_id = i THEN BURST ELSE 0)
<1> DEFINE Q == awchannel_req_buf
           begun == ~awchannel_read /\ Q # <<>>
           kept == IF begun THEN Tail(Q) ELSE Q
           gain == IF aw_accepted /\ curr_wr_pu_id = i THEN 1 ELSE 0
           loss == IF begun /\ Q[1] = i THEN 1 ELSE 0
           t == Times(Q, i)
<1>1. /\ Q' = IF aw_accepted /\ Len(Q) < REQ_BUF_DEPTH
                THEN Append(kept, curr_wr_pu_id) ELSE kept
      /\ pu_obuf_read_id' = IF begun THEN Q[1] ELSE pu_obuf_read_id
  BY QueueMoves
<1>2. Q \in Seq(PU) /\ t \in Nat
  BY DataTypes, TimesIsNat
<1>3. kept \in Seq(PU) /\ Times(kept, i) = t - loss
  <2>1. CASE begun
    <3>1. kept = Tail(Q) /\ Q # <<>> /\ kept \in Seq(PU)
      BY <1>2, <2>1
    <3>2. Times(Q, i) = Times(kept, i) + (IF Q[1] = i THEN 1 ELSE 0)
      BY <1>2, <3>1, TimesTail
    <3>3. Times(kept, i) \in Nat
      BY <3>1, TimesIsNat
    <3> HIDE DEF kept
    <3>4. QED BY <1>2, <2>1, <3>1, <3>2, <3>3
  <2>2. CASE ~begun
    BY <1>2, <2>2
  <2>3. QED BY <2>1, <2>2
<1>4. Times(Q', i) \in Nat /\ Times(Q', i) <= t - loss + gain
  <2> HIDE DEF kept, t, Q
  <2>1. CASE aw_accepted /\ Len(Q) < REQ_BUF_DEPTH
    <3>1. Times(Q', i) = Times(kept, i) + gain
      <4>1. Times(Append(kept, curr_wr_pu_id), i)
              = Times(kept, i) + (IF curr_wr_pu_id = i THEN 1 ELSE 0)
        BY <1>3, TimesAppend
      <4>2. QED BY <1>1, <2>1, <4>1
    <3>2. Times(kept, i) \in Nat
      BY <1>3, TimesIsNat
    <3>3. QED BY <1>3, <3>1, <3>2
  <2>2. CASE ~(aw_accepted /\ Len(Q) < REQ_BUF_DEPTH)
    <3>1. Times(Q', i) = Times(kept, i) /\ Times(kept, i) \in Nat
      BY <1>1, <1>3, <2>2, TimesIsNat
    <3>2. QED BY <1>2, <1>3, <3>1
  <2>3. QED BY <2>1, <2>2
<1>5. gain \in {0, 1} /\ loss \in {0, 1}
  OBVIOUS
<1>6. /\ Reading(i) \in 0 .. BURST /\ Popping(i) \in {0, 1} /\ Popping(i)' \in {0, 1}
      /\ Reading(i)' \in Int
      /\ Reading(i)' + Popping(i)' <= Reading(i) + BURST * loss
  <2>1. /\ awchannel_read' <=> IF awchannel_read THEN pu_obuf_rd_count # BURST - 1 ELSE Q # <<>>
        /\ pu_obuf_rd_count' =
             IF ~(awchannel_read /\ ~write_buf_almost_full) THEN pu_obuf_rd_count
             ELSE IF pu_obuf_rd_count = BURST - 1 THEN 0 ELSE pu_obuf_rd_count + 1
        /\ outbuf_pop' =
             IF awchannel_read /\ ~write_buf_almost_full THEN {pu_obuf_read_id} ELSE {}
    <3>1. W!AwChannelFsm /\ W!ObufReadCounter /\ W!ObufRead
      BY DEF W!DataEdge
    <3>2. awchannel_read' <=> IF awchannel_read THEN pu_obuf_rd_count # BURST - 1 ELSE Q # <<>>
      BY <3>1, Zenon DEF W!AwChannelFsm, W!pu_obuf_rd_overflow
    <3>3. QED BY <3>1, <3>2 DEF W!ObufReadCounter, W!ObufRead, W!pu_obuf_rd_inc,
                 W!pu_obuf_rd_overflow
  <2>2. pu_obuf_rd_count \in 0 .. BURST - 1 /\ awchannel_read \in BOOLEAN
    BY DataTypes
  <2>3. BURST * 0 = 0 /\ BURST * 1 = BURST
    OBVIOUS
  <2> HIDE DEF Q
  <2>4. CASE awchannel_read
    <3>1. pu_obuf_read_id' = pu_obuf_read_id /\ loss = 0
      BY <1>1, <2>4
    <3>2. CASE write_buf_almost_full
      BY <2>1, <2>2, <2>3, <2>4, <3>1, <3>2 DEF Reading, Popping
    <3>3. CASE ~write_buf_almost_full
      BY <2>1, <2>2, <2>3, <2>4, <3>1, <3>3 DEF Reading, Popping
    <3>4. QED BY <3>2, <3>3
  <2>5. CASE ~awchannel_read
    <3>1. outbuf_pop' = {} /\ pu_obuf_rd_count' = pu_obuf_rd_count
          /\ (awchannel_read' <=> begun)
      BY <2>1, <2>5
    <3>2. CASE begun
      <4>1. pu_obuf_read_id' = Q[1] /\ awchannel_read'
        BY <1>1, <3>1, <3>2
      <4>2. loss = IF Q[1] = i THEN 1 ELSE 0
        BY <3>2
      <4> HIDE DEF loss, begun
      <4>3. QED BY <2>2, <2>3, <2>5, <3>1, <4>1, <4>2 DEF Reading, Popping
    <3>3. CASE ~begun
      BY <2>2, <2>3, <2>5, <3>1, <3>3 DEF Reading, Popping
    <3>4. QED BY <3>2, <3>3
  <2>6. QED BY <2>2, <2>4, <2>5
<1> HIDE DEF gain, loss, t, kept
<1>7. /\ BURST * t \in Nat /\ BURST * Times(Q', i) \in Nat
      /\ BURST * Times(Q', i) <= BURST * t - BURST * loss + BURST * gain
      /\ BURST * loss \in Int /\ BURST * gain \in Int
  <2> DEFINE u == Times(Q', i)
             v == t - loss + gain
  <2>1. u \in Nat /\ v \in Nat /\ u <= v /\ v - u \in Nat
    BY <1>2, <1>4, <1>5
  <2>2. BURST * v = BURST * t - BURST * loss + BURST * gain
    BY <1>2, <1>5
  <2>3. BURST * loss \in Int /\ BURST * gain \in Int /\ BURST * t \in Nat
    BY <1>2, <1>5
  <2> HIDE DEF u, v
  <2>4. BURST * v = BURST * u + BURST * (v - u) /\ BURST * (v - u) \in Nat /\ BURST * u \in Nat
    BY <2>1
  <2>5. BURST * u <= BURST * v
    BY <2>1, <2>4
  <2>6. QED BY <2>2, <2>3, <2>4, <2>5 DEF u
<1>8. BURST * gain = IF aw_accepted /\ curr_wr_pu_id = i THEN BURST ELSE 0
  BY DEF gain
<1>9. ToGive(i) = BURST * t + Reading(i) + Popping(i)
  BY DEF ToGive, t
<1>10. ToGive(i)' = BURST * Times(Q', i) + Reading(i)' + Popping(i)'
  BY DEF ToGive
<1> HIDE DEF Q
<1>11. QED BY <1>6, <1>7, <1>8, <1>9, <1>10

\* Nothing wraps: a unit counts what it writes and what is charged to it.
LEMMA WriteCountMoves ==
  ASSUME IInv, CoverInv, NEW request, NEW write_valid \in SUBSET Writers, NEW wlast,
         IssueEdge(request, write_valid, wlast), NEW i \in PU
  PROVE  /\ write_count[i] \in Nat /\ Charged(i) \in Nat /\ Charged(i) <= write_count[i]
         /\ write_count'[i] = write_count[i] + (IF i \in write_valid THEN 1 ELSE 0) - Charged(i)
<1> DEFINE more == IF i \in write_valid THEN 1 ELSE 0
<1>1. write_count[i] \in Nat /\ write_count[i] <= MaxWritten
  BY DEF IInv, TypeOK, CoverInv
<1>2. write_count[i] + more <= MaxWritten /\ more \in {0, 1}
  BY <1>1 DEF Writers
<1>3. Charged(i) \in Nat /\ Charged(i) <= write_count[i]
  BY <1>1, ChargeIsCovered DEF Charged
<1>4. write_count'[i] = (write_count[i] + more - Charged(i)) % COUNT_MOD
  BY DEF IssueEdge, WriteCount, Charged
<1> HIDE DEF more
<1>5. write_count[i] + more - Charged(i) \in 0 .. MaxWritten
  BY <1>1, <1>2, <1>3
<1>6. \A n \in 0 .. MaxWritten : n % COUNT_MOD = n
  OBVIOUS
<1>7. QED BY <1>1, <1>3, <1>4, <1>5, <1>6 DEF more

\* While an address waits its unit has been counted for the burst.
LEMMA AcceptIsCovered ==
  ASSUME IInv, CoverInv, aw_accepted
  PROVE  /\ write_state = 1 /\ ~wburst_issued /\ curr_wr_pu_id \in PU
         /\ write_count[curr_wr_pu_id] >= BURST
         /\ pu_writes_remaining[curr_wr_pu_id] >= BURST
<1>1. write_state = 1
  BY DEF IInv, FsmInv, aw_accepted
<1>2. axi_wr_req /\ ~wburst_issued /\ curr_wr_pu_id \in PU
  BY <1>1 DEF IInv, TypeOK, FsmInv, Going
<1>3. QED BY <1>1, <1>2, ReadyIsCovered DEF axi_wr_req

\* The stock covers the promises on every edge.
LEMMA StockKept ==
  ASSUME WD!IInv, IInv, CoverInv, StockInv, NEW request, NEW write_valid \in SUBSET Room,
         NEW wready, Edge(request, write_valid, wready)
  PROVE  StockInv'
<1>1. /\ IssueEdge(request, write_valid, W!wlast)
      /\ W!DataEdge(accepted, wready)
      /\ outbuf_count' = [i \in PU |->
           outbuf_count[i] + (IF i \in write_valid THEN 1 ELSE 0)
                           - (IF i \in outbuf_pop THEN 1 ELSE 0)]
  BY DEF Edge, OutputBuffers
<1>2. write_valid \in SUBSET Writers
  BY DEF Room, Writers
<1>3. curr_wr_pu_id \in PU
  BY DEF IInv, TypeOK
<1>4. ASSUME NEW i \in PU
      PROVE  /\ outbuf_count'[i] \in 0 .. OUTBUF_DEPTH
             /\ write_count'[i] - Charged(i)' + ToGive(i)' <= outbuf_count'[i]
  <2> DEFINE more == IF i \in write_valid THEN 1 ELSE 0
             bonus == IF aw_accepted /\ curr_wr_pu_id = i THEN BURST ELSE 0
             n == outbuf_count[i]
             c == write_count[i]
             g == ToGive(i)
             pop == Popping(i)
  <2>1. n \in 0 .. OUTBUF_DEPTH /\ c - Charged(i) + g <= n
    BY DEF StockInv
  <2>2. outbuf_count'[i] = n + more - pop
    BY <1>1 DEF Popping
  <2>3. /\ c \in Nat /\ Charged(i) \in Nat /\ Charged(i) <= c
        /\ write_count'[i] = c + more - Charged(i)
    BY <1>1, <1>2, WriteCountMoves
  <2>4. /\ g \in Nat /\ ToGive(i)' \in Int
        /\ ToGive(i)' <= g - pop + bonus
    BY <1>1, <1>3, GiveMoves
  <2>5. Charged(i)' = bonus
    <3>1. wburst_issued' <=> write_state = 1 /\ aw_accepted
      BY <1>1 DEF IssueEdge, Issued
    <3>2. aw_accepted => write_state = 1
      BY AcceptIsCovered
    <3>3. write_state = 1 => curr_wr_pu_id' = curr_wr_pu_id
      BY <1>1 DEF IssueEdge, CurrWrPuId, check_next_pu
    <3>4. QED BY <3>1, <3>2, <3>3 DEF Charged
  <2>6. more \in {0, 1} /\ pop \in {0, 1} /\ (more = 1 => n < OUTBUF_DEPTH)
        /\ pop <= g /\ bonus \in Nat
    <3>1. more \in {0, 1} /\ (more = 1 => n < OUTBUF_DEPTH) /\ bonus \in Nat
      BY DEF Room
    <3>2. pop \in {0, 1} /\ Reading(i) \in Nat /\ BURST * Times(awchannel_req_buf, i) \in Nat
      BY DataTypes, TimesIsNat DEF Popping, Reading
    <3>3. g = BURST * Times(awchannel_req_buf, i) + Reading(i) + pop
      BY DEF ToGive
    <3> HIDE DEF more, bonus, n, g, pop
    <3>4. QED BY <3>1, <3>2, <3>3
  <2> HIDE DEF more, bonus, n, c, g, pop
  <2>7. n + more - pop \in 0 .. OUTBUF_DEPTH
    BY <2>1, <2>3, <2>4, <2>6
  <2>8. write_count'[i] - Charged(i)' + ToGive(i)' <= n + more - pop
    BY <2>1, <2>3, <2>4, <2>5, <2>6
  <2>9. QED BY <2>2, <2>7, <2>8
<1>5. outbuf_count' \in [PU -> 0 .. OUTBUF_DEPTH]
  BY <1>1, <1>4
<1>6. QED BY <1>4, <1>5 DEF StockInv

\* Under reset nothing is promised.
LEMMA ResetStock == Reset => StockInv'
<1> SUFFICES ASSUME Reset PROVE StockInv'
  OBVIOUS
<1>1. /\ outbuf_count' = [i \in PU |-> 0] /\ write_count' = [i \in PU |-> 0]
      /\ wburst_issued' = FALSE /\ awchannel_req_buf' = <<>> /\ awchannel_read' = FALSE
      /\ outbuf_pop' = {}
  BY DEF Reset, IssueReset, W!DataReset, W!ReadRequests!Reset
<1>2. ASSUME NEW i \in PU PROVE write_count'[i] - Charged(i)' + ToGive(i)' <= outbuf_count'[i]
  <2>1. Charged(i)' = 0 /\ Reading(i)' = 0 /\ Popping(i)' = 0
    BY <1>1 DEF Charged, Reading, Popping
  <2>2. Times(awchannel_req_buf', i) = 0
    BY <1>1, TimesOfNone
  <2>3. ToGive(i)' = BURST * 0 + 0 + 0
    BY <2>1, <2>2 DEF ToGive
  <2>4. write_count'[i] = 0 /\ outbuf_count'[i] = 0
    BY <1>1
  <2>5. QED BY <2>1, <2>3, <2>4
<1>3. QED BY <1>1, <1>2 DEF StockInv

-----------------------------------------------------------------------------

\* What holds of both halves for every set of requests of whole bursts.
HalvesInv == WInv /\ CoverInv /\ WD!IInv /\ StockInv

\* Out of reset.
LEMMA InitHalves == Init => HalvesInv
<1> SUFFICES ASSUME Init PROVE HalvesInv
  OBVIOUS
<1>1. WInv
  <2>1. IInv
    BY InitEstablishes DEF Init
  <2>2. QED BY <2>1 DEF Init, IssueInit, IInv, Cleared, WInv
<1>2. CoverInv
  BY InitCovered DEF Init
<1>3. WD!DataInit
  BY SameInit DEF Init
<1>4. WD!IInv
  BY <1>3, DataAssumption, WD!InitEstablishes
<1>5. StockInv
  <2>1. /\ outbuf_count = [i \in PU |-> 0] /\ write_count = [i \in PU |-> 0]
        /\ wburst_issued = FALSE /\ awchannel_req_buf = <<>> /\ awchannel_read = FALSE
        /\ outbuf_pop = {}
    BY DEF Init, IssueInit, W!DataInit, W!ReadRequests!Init
  <2>2. ASSUME NEW i \in PU PROVE write_count[i] - Charged(i) + ToGive(i) <= outbuf_count[i]
    <3>1. Charged(i) = 0 /\ Reading(i) = 0 /\ Popping(i) = 0
      BY <2>1 DEF Charged, Reading, Popping
    <3>2. Times(awchannel_req_buf, i) = 0
      BY <2>1, TimesOfNone
    <3>3. ToGive(i) = BURST * 0 + 0 + 0
      BY <3>1, <3>2 DEF ToGive
    <3>4. write_count[i] = 0 /\ outbuf_count[i] = 0
      BY <2>1
    <3>5. QED BY <3>1, <3>3, <3>4
  <2>3. QED BY <2>1, <2>2 DEF StockInv
<1>6. QED BY <1>1, <1>2, <1>4, <1>5 DEF HalvesInv

\* An edge of the whole write side, taken apart.
LEMMA EdgeOfBoth ==
  ASSUME HalvesInv, WriteNext
  PROVE  \E request \in Requests, write_valid \in SUBSET Room, wready \in BOOLEAN :
           /\ ~wready => WD!MayStall
           /\ Edge(request, write_valid, wready)
           /\ WD!DataEdge(accepted, wready)
           /\ IInv /\ held \in {0, RESET_EDGES} /\ held' = 0
           /\ accepted \in {<<>>} \cup {<<i>> : i \in PU}
<1>1. PICK request \in Requests, write_valid \in SUBSET Room, wready \in BOOLEAN :
        /\ ~wready => W!MayStall
        /\ Edge(request, write_valid, wready)
  BY DEF WriteNext
<1>2. held \in {0, RESET_EDGES} /\ held' = 0 /\ W!DataEdge(accepted, wready)
  BY <1>1 DEF Edge
<1>3. IInv
  BY <1>2 DEF HalvesInv, WInv
<1>4. accepted \in {<<>>} \cup {<<i>> : i \in PU}
  BY <1>3, AcceptedUnit DEF IInv, TypeOK
<1>5. WD!DataEdge(accepted, wready) /\ (~wready => WD!MayStall)
  BY <1>1, <1>2, SameEdge, SameProperties
<1>6. QED BY <1>1, <1>2, <1>3, <1>4, <1>5

\* Every edge, of a reset too, keeps it.
LEMMA HalvesKept ==
  ASSUME WholeRequests, HalvesInv, [WriteNext \/ Reset]_vars
  PROVE  HalvesInv'
<1>1. WInv' /\ CoverInv'
  BY StepPreserves, CoverKept DEF HalvesInv
<1>2. CASE WriteNext
  <2>1. PICK request \in Requests, write_valid \in SUBSET Room, wready \in BOOLEAN :
          /\ Edge(request, write_valid, wready)
          /\ WD!DataEdge(accepted, wready)
          /\ IInv /\ accepted \in {<<>>} \cup {<<i>> : i \in PU}
    BY <1>2, EdgeOfBoth
  <2>2. WD!IInv'
    BY <2>1, EdgeKeepsData DEF HalvesInv
  <2>3. StockInv'
    BY <2>1, StockKept DEF HalvesInv
  <2>4. QED BY <1>1, <2>2, <2>3 DEF HalvesInv
<1>3. CASE Reset
  <2>1. WD!DataReset
    BY <1>3, SameReset DEF Reset
  <2>2. WD!IInv'
    BY <2>1, DataAssumption, WD!ResetPreserves DEF HalvesInv
  <2>3. QED BY <1>1, <1>3, <2>2, ResetStock DEF HalvesInv
<1>4. CASE UNCHANGED vars
  <2>1. UNCHANGED WD!dvars
    BY <1>4 DEF vars, W!dvars, WD!dvars
  <2>2. WD!IInv'
    BY <2>1, DataAssumption, WD!StepPreserves DEF HalvesInv
  <2>3. StockInv'
    BY <1>4 DEF vars, ivars, W!dvars, HalvesInv, StockInv, Charged, ToGive, Reading, Popping
  <2>4. QED BY <1>1, <2>2, <2>3 DEF HalvesInv
<1>5. QED BY <1>2, <1>3, <1>4

\* What is popped is there.
LEMMA StockSuffices == HalvesInv => PopFindsWord
<1> SUFFICES ASSUME HalvesInv, NEW i \in outbuf_pop PROVE outbuf_count[i] > 0
  BY DEF PopFindsWord
<1>1. i \in PU
  BY DataTypes DEF HalvesInv
<1>2. ToGive(i) >= 1 /\ ToGive(i) \in Nat
  <2>1. Reading(i) \in Nat /\ BURST * Times(awchannel_req_buf, i) \in Nat /\ Popping(i) = 1
    BY DataTypes, TimesIsNat DEF HalvesInv, Reading, Popping
  <2>2. QED BY <2>1 DEF ToGive
<1>3. write_count[i] \in Nat /\ Charged(i) \in Nat /\ Charged(i) <= write_count[i]
  <2>1. TypeOK /\ CoverInv /\ (held = 1 => ~wburst_issued) /\ (held # 1 => IInv)
    BY DEF HalvesInv, WInv, IInv, Cleared
  <2>2. write_count[i] \in Nat
    BY <1>1, <2>1 DEF TypeOK
  <2>3. QED BY <2>1, <2>2, ChargeIsCovered DEF Charged
<1>4. write_count[i] - Charged(i) + ToGive(i) <= outbuf_count[i] /\ outbuf_count[i] \in Nat
  BY <1>1 DEF HalvesInv, StockInv
<1>5. QED BY <1>2, <1>3, <1>4

\* For every number of units, burst length, depth and set of requests of whole
\* bursts, an output buffer is popped only when a word is in it: the words of an
\* accepted burst stay there until the data half comes for them.
THEOREM PopFindsWordHolds ==
  ASSUME WholeRequests
  PROVE  WriteSpec => []PopFindsWord
<1>1. HalvesInv /\ [WriteNext \/ Reset]_vars => HalvesInv'
  BY HalvesKept
<1>2. QED BY <1>1, InitHalves, StockSuffices, PTL DEF WriteSpec

\* For every number of units, burst length, depth and set of requests of whole
\* bursts, no register of either half leaves its range, and no output buffer
\* holds less than nothing or more than it has room for.
THEOREM BothTypeCorrect ==
  ASSUME WholeRequests
  PROVE  WriteSpec => []BothTypeOK
<1>1. HalvesInv /\ [WriteNext \/ Reset]_vars => HalvesInv'
  BY HalvesKept
<1>2. HalvesInv => BothTypeOK
  BY SameProperties DEF HalvesInv, WInv, IInv, Cleared, WD!IInv, StockInv, BothTypeOK
<1>3. QED BY <1>1, <1>2, InitHalves, PTL DEF WriteSpec

-----------------------------------------------------------------------------
(* The request buffers find room for every accepted burst. *)

\* What waits to be read, the burst being accepted included, is in the output
\* buffers.
LEMMA ReadRequestsBound ==
  ASSUME IInv, CoverInv, WD!IInv, StockInv, aw_accepted
  PROVE  BURST * (Len(awchannel_req_buf) + 1) <= NUM_PU * OUTBUF_DEPTH
<1> DEFINE q == Append(awchannel_req_buf, curr_wr_pu_id)
           K == OUTBUF_DEPTH \div BURST
<1>1. /\ ~wburst_issued /\ curr_wr_pu_id \in PU /\ write_count[curr_wr_pu_id] >= BURST
  BY AcceptIsCovered
<1>2. awchannel_req_buf \in Seq(PU) /\ Len(awchannel_req_buf) \in Nat
  BY DataTypes
<1>3. q \in Seq(PU) /\ Len(q) = Len(awchannel_req_buf) + 1
  BY <1>1, <1>2
<1>4. ASSUME NEW i \in PU PROVE BURST * Times(q, i) <= OUTBUF_DEPTH
  <2> DEFINE t == Times(awchannel_req_buf, i)
             gain == IF curr_wr_pu_id = i THEN 1 ELSE 0
             promised == IF curr_wr_pu_id = i THEN BURST ELSE 0
             p == BURST * t
  <2>1. t \in Nat /\ p \in Nat
    BY <1>2, TimesIsNat
  <2>2. Times(q, i) = t + gain
    BY <1>1, <1>2, TimesAppend
  <2>3. BURST * (t + gain) = p + promised
    BY <2>1
  <2>4. Charged(i) = 0 /\ Reading(i) \in Nat /\ Popping(i) \in Nat
    BY <1>1, DataTypes DEF Charged, Reading, Popping
  <2>5. ToGive(i) = p + Reading(i) + Popping(i)
    BY DEF ToGive
  <2>6. write_count[i] - Charged(i) + ToGive(i) <= outbuf_count[i]
        /\ outbuf_count[i] \in 0 .. OUTBUF_DEPTH
    BY DEF StockInv
  <2>7. write_count[i] \in Nat /\ promised <= write_count[i]
    BY <1>1 DEF IInv, TypeOK
  <2>8. promised \in Nat
    OBVIOUS
  <2> HIDE DEF t, p, gain, promised
  <2>9. p + promised <= OUTBUF_DEPTH
    BY <2>1, <2>4, <2>5, <2>6, <2>7, <2>8
  <2>10. QED BY <2>2, <2>3, <2>9
<1>5. K \in Nat /\ BURST * K <= OUTBUF_DEPTH
      /\ \A n \in Nat : BURST * n <= OUTBUF_DEPTH => n <= K
  OBVIOUS
<1> HIDE DEF q, K
<1>6. \A i \in PU : Times(q, i) <= K
  BY <1>3, <1>4, <1>5, TimesIsNat
<1>7. Len(q) <= NUM_PU * K
  BY <1>3, <1>5, <1>6, QueueIsBounded
<1>8. NUM_PU \in Nat /\ BURST \in Nat /\ OUTBUF_DEPTH \in Nat
  OBVIOUS
<1>9. \A a, b, c, d, n \in Nat : n <= c * d /\ b * d <= a => b * n <= c * a
  OBVIOUS
<1>10. Len(q) \in Nat
  BY <1>2, <1>3
<1>11. BURST * Len(q) <= NUM_PU * OUTBUF_DEPTH
  BY <1>5, <1>7, <1>8, <1>9, <1>10
<1>12. QED BY <1>3, <1>11

\* Two bursts more than are read, at most, wait to be sent.
LEMMA SendRequestsBound ==
  ASSUME WD!IInv, WD!FlowInv
  PROVE  BURST * Len(wchannel_req_buf)
           <= BURST * Len(awchannel_req_buf) + WRITE_BUF_DEPTH - MARGIN + 3
<1> DEFINE p1 == BURST * Len(awchannel_req_buf)
           p2 == BURST * Len(wchannel_req_buf)
           n == Len(write_buf)
<1>1. /\ awchannel_read \in BOOLEAN /\ pu_obuf_rd_inc_d \in BOOLEAN
      /\ write_buf_push \in BOOLEAN /\ write_buf_shown \in BOOLEAN
      /\ wchannel_busy \in BOOLEAN /\ n \in Nat
      /\ pu_obuf_rd_count \in 0 .. BURST - 1 /\ wlen_count \in -2 .. BURST - 2
  BY DataAssumption, WD!Registers
<1>2. WD!RhythmInv /\ WD!AccountInv /\ WD!PaceInv
  BY DEF WD!FlowInv
<1>3. p1 \in Nat /\ p2 \in Nat
  <2>1. Len(awchannel_req_buf) \in Nat /\ Len(wchannel_req_buf) \in Nat
    BY DataTypes
  <2>2. QED BY <2>1
<1>4. n + WD!Arriving + WD!Fetched + WD!ToRead + p1 = WD!ToSend + p2
  BY <1>2 DEF WD!AccountInv
<1>5. n <= WRITE_BUF_DEPTH - MARGIN - BURST + 2
  <2>1. WD!WriteBuffer!waiting <= WRITE_BUF_DEPTH - MARGIN - BURST + 1
    BY <1>2 DEF WD!PaceInv, WD!Slack
  <2>2. n <= WD!WriteBuffer!waiting + 1
    BY <1>1 DEF WD!WriteBuffer!waiting
  <2>3. WD!WriteBuffer!waiting \in Int
    BY <1>1 DEF WD!WriteBuffer!waiting
  <2>4. QED BY <1>1, <2>1, <2>2, <2>3
<1>6. /\ WD!Arriving + WD!Fetched + WD!ToRead <= BURST + 1
      /\ WD!Arriving \in Nat /\ WD!Fetched \in Nat /\ WD!ToRead \in Nat
  <2>1. /\ WD!Arriving = IF write_buf_push THEN 1 ELSE 0
        /\ WD!Fetched = IF pu_obuf_rd_inc_d THEN 1 ELSE 0
        /\ WD!ToRead = IF awchannel_read THEN BURST - pu_obuf_rd_count ELSE 0
    BY DEF WD!Arriving, WD!Fetched, WD!ToRead
  <2>2. awchannel_read => (pu_obuf_rd_inc_d <=> pu_obuf_rd_count >= 1)
    BY <1>2 DEF WD!RhythmInv
  <2>3. QED BY <1>1, <2>1, <2>2
<1>7. WD!ToSend \in Nat
  BY <1>1 DEF WD!ToSend
<1> HIDE DEF p1, p2, n
<1>8. p2 <= p1 + WRITE_BUF_DEPTH - MARGIN + 3
  BY <1>1, <1>3, <1>4, <1>5, <1>6, <1>7
<1>9. QED BY <1>8 DEF p1, p2

\* What the units hold and write_buf together are at most what the accepted
\* bursts that a request buffer has slots for are.
RequestsFit == NUM_PU * OUTBUF_DEPTH + WRITE_BUF_DEPTH <= BURST * REQ_BUF_DEPTH

\* Neither request buffer is asked whether it has room; both have.
LEMMA RequestsFindRoom ==
  ASSUME RequestsFit, MARGIN >= 3, IInv, CoverInv, WD!IInv, StockInv, WD!FlowInv,
         aw_accepted
  PROVE  Len(awchannel_req_buf) < REQ_BUF_DEPTH /\ Len(wchannel_req_buf) < REQ_BUF_DEPTH
<1> DEFINE n1 == Len(awchannel_req_buf)
           n2 == Len(wchannel_req_buf)
           all == NUM_PU * OUTBUF_DEPTH
<1>1. n1 \in Nat /\ n2 \in Nat /\ all \in Nat
  BY DataTypes
<1>2. BURST * (n1 + 1) <= all
  BY ReadRequestsBound
<1>3. BURST * n2 <= BURST * n1 + WRITE_BUF_DEPTH - MARGIN + 3
  BY SendRequestsBound
<1>4. all + WRITE_BUF_DEPTH <= BURST * REQ_BUF_DEPTH
  BY DEF RequestsFit
<1> HIDE DEF n1, n2, all
<1>5. /\ BURST * (n1 + 1) = BURST * n1 + BURST
      /\ BURST * (n2 + 1) = BURST * n2 + BURST
      /\ BURST * n1 \in Nat /\ BURST * n2 \in Nat
  BY <1>1
<1>6. BURST * (n1 + 1) <= BURST * REQ_BUF_DEPTH /\ BURST * (n2 + 1) <= BURST * REQ_BUF_DEPTH
  <2> DEFINE b1 == BURST * n1
             b2 == BURST * n2
             br == BURST * REQ_BUF_DEPTH
  <2>1. b1 \in Nat /\ b2 \in Nat /\ br \in Nat /\ b1 + BURST <= all
        /\ b2 <= b1 + WRITE_BUF_DEPTH - MARGIN + 3 /\ all + WRITE_BUF_DEPTH <= br
    BY <1>1, <1>2, <1>3, <1>4, <1>5
  <2> HIDE DEF b1, b2, br
  <2>2. b1 + BURST <= br /\ b2 + BURST <= br
    BY <1>1, <2>1
  <2>3. QED BY <1>5, <2>2 DEF b1, b2, br
<1>7. \A n \in Nat : BURST * (n + 1) <= BURST * REQ_BUF_DEPTH => n < REQ_BUF_DEPTH
  <2> SUFFICES ASSUME NEW n \in Nat, n >= REQ_BUF_DEPTH
               PROVE  BURST * (n + 1) > BURST * REQ_BUF_DEPTH
    OBVIOUS
  <2>1. BURST * (n + 1) = BURST * REQ_BUF_DEPTH + BURST * (n + 1 - REQ_BUF_DEPTH)
    OBVIOUS
  <2>2. \A m \in Nat \ {0} : BURST * m >= 1
    OBVIOUS
  <2>3. n + 1 - REQ_BUF_DEPTH \in Nat \ {0}
    OBVIOUS
  <2>4. BURST * (n + 1 - REQ_BUF_DEPTH) >= 1 /\ BURST * (n + 1 - REQ_BUF_DEPTH) \in Int
        /\ BURST * REQ_BUF_DEPTH \in Int
    BY <2>2, <2>3
  <2>5. QED BY <2>1, <2>4
<1>8. QED BY <1>1, <1>6, <1>7 DEF n1, n2

-----------------------------------------------------------------------------
(* A reset of three edges stops the flow, an edge outside reset keeps it. *)

\* What the first edge of a reset brings about.
Emptied ==
  /\ awchannel_req_buf = <<>> /\ wchannel_req_buf = <<>> /\ write_buf = <<>>
  /\ ~write_buf_shown /\ ~wchannel_req_buf_shown
  /\ ~awchannel_read /\ pu_obuf_rd_count = 0 /\ outbuf_pop = {}
  /\ ~write_buf_almost_full /\ ~wchannel_busy
  /\ owed = <<>> /\ taken = outbuf

\* An edge later no word is fetched, two edges later none arrives.
StopInv ==
  /\ held >= 1 => Emptied
  /\ held >= 2 => ~pu_obuf_rd_inc_d
  /\ held >= 3 => ~write_buf_push

\* A burst that waits in wchannel_req_buf without being shown was issued on the
\* edge before, so its unit still has words to issue.
DoneInv ==
  /\ wr_done => owed = <<>>
  /\ (wchannel_req_buf # <<>> /\ ~wchannel_req_buf_shown) => wburst_issued

SideInv == HalvesInv /\ StopInv /\ DoneInv /\ (held = 0 => WD!FlowInv)

\* The reset is long enough, and so is the mark of write_buf below its end.
LongReset == RESET_EDGES >= 3 /\ MARGIN >= 3 /\ WRITE_BUF_DEPTH - MARGIN - BURST >= 1

\* Each edge of a reset stops one register more.
LEMMA ResetStops ==
  ASSUME HalvesInv, StopInv, Reset
  PROVE  StopInv' /\ DoneInv' /\ held' >= 1
<1>1. /\ awchannel_req_buf' = <<>> /\ wchannel_req_buf' = <<>> /\ write_buf' = <<>>
      /\ write_buf_shown' = FALSE /\ wchannel_req_buf_shown' = FALSE
      /\ awchannel_read' = FALSE /\ pu_obuf_rd_count' = 0 /\ outbuf_pop' = {}
      /\ write_buf_almost_full' = FALSE /\ wchannel_busy' = FALSE
      /\ owed' = <<>> /\ taken' = outbuf' /\ wr_done' = FALSE
  BY DEF Reset, W!DataReset, W!ReadRequests!Reset, W!SendRequests!Reset, W!WriteBuffer!Reset
<1>2. Emptied'
  BY <1>1 DEF Emptied
<1>3. pu_obuf_rd_inc_d' = (awchannel_read /\ ~write_buf_almost_full)
      /\ write_buf_push' = pu_obuf_rd_inc_d
  BY DEF Reset, W!DataReset, W!pu_obuf_rd_inc
<1>4. held \in Nat /\ held' = (IF held < RESET_EDGES THEN held + 1 ELSE held)
  BY DEF Reset, HalvesInv, WInv
<1>5. held' >= 1 /\ (held' >= 2 => held >= 1) /\ (held' >= 3 => held >= 2)
  BY <1>4
<1>6. held' >= 2 => ~pu_obuf_rd_inc_d'
  BY <1>3, <1>5 DEF StopInv, Emptied
<1>7. held' >= 3 => ~write_buf_push'
  BY <1>3, <1>5 DEF StopInv
<1>8. StopInv'
  BY <1>2, <1>6, <1>7 DEF StopInv
<1>9. DoneInv'
  BY <1>1 DEF DoneInv
<1>10. QED BY <1>5, <1>8, <1>9

\* Before an edge outside reset the words flow as they should.
LEMMA EdgeFindsFlow ==
  ASSUME LongReset, SideInv, held \in {0, RESET_EDGES}
  PROVE  WD!FlowInv
<1>1. CASE held = 0
  BY <1>1 DEF SideInv
<1>2. CASE held = RESET_EDGES
  <2>1. Emptied /\ ~pu_obuf_rd_inc_d /\ ~write_buf_push
    BY <1>2 DEF LongReset, SideInv, StopInv
  <2>2. WD!IInv
    BY DEF SideInv, HalvesInv
  <2>3. WD!Slack >= 1
    BY DEF LongReset, WD!Slack
  <2>4. QED BY <2>1, <2>2, <2>3, DataAssumption, WD!NothingFlows DEF Emptied
<1>3. QED BY <1>1, <1>2

\* An accepted burst is not the last one: its unit is not charged yet.
LEMMA DoneKept ==
  ASSUME HalvesInv, WD!FlowInv, NEW request \in Requests,
         NEW write_valid \in SUBSET Room, NEW wready \in BOOLEAN, IInv,
         Edge(request, write_valid, wready),
         accepted \in {<<>>} \cup {<<i>> : i \in PU},
         DoneInv
  PROVE  DoneInv'
<1>1. WD!IInv /\ CoverInv /\ WD!AccountInv
  BY DEF HalvesInv, WD!FlowInv
<1>2. /\ IssueEdge(request, write_valid, W!wlast)
      /\ W!DataEdge(accepted, wready) /\ WrDone
  BY DEF Edge
<1>3. /\ wchannel_req_buf \in Seq(PU) /\ wchannel_busy \in BOOLEAN
      /\ wchannel_req_buf_shown \in BOOLEAN
  BY <1>1, DataAssumption, WD!Registers
<1>4. wr_done' => owed' = <<>>
  <2> SUFFICES ASSUME wr_done' PROVE owed' = <<>>
    OBVIOUS
  <2>1. all_writes_done
    BY <1>2 DEF WrDone
  <2>2. \A i \in PU : pu_writes_remaining[i] = 0
    BY <2>1 DEF all_writes_done, pu_wr_ready
  <2>3. ~wburst_issued /\ ~aw_accepted
    BY <1>1, <2>2, ChargeIsCovered, AcceptIsCovered
  <2>4. wchannel_req_buf = <<>> /\ ~wchannel_busy
    BY <2>1, <2>3 DEF all_writes_done, DoneInv
  <2>5. owed = <<>>
    <3>1. owed \in Seq([pu : PU, left : 1 .. BURST]) /\ Len(owed) = 0
      BY <1>1, <2>4 DEF WD!AccountInv, WD!Sending
    <3>2. QED BY <3>1
  <2>6. accepted = <<>>
    BY <2>3, AcceptedUnit
  <2>7. W!Slave(<<>>, wready)
    BY <1>2, <2>6 DEF W!DataEdge
  <2>8. owed' = <<>> \o [k \in 1 .. Len(<<>>) |-> [pu |-> <<>>[k], left |-> BURST]]
    BY <2>5, <2>7 DEF W!Slave
  <2>9. QED BY <2>8
<1>5. (wchannel_req_buf' # <<>> /\ ~wchannel_req_buf_shown') => wburst_issued'
  <2> SUFFICES ASSUME ~wchannel_req_buf_shown', ~wburst_issued'
               PROVE  wchannel_req_buf' = <<>>
    OBVIOUS
  <2>1. ~aw_accepted
    <3>1. wburst_issued' <=> write_state = 1 /\ aw_accepted
      BY <1>2 DEF IssueEdge, Issued
    <3>2. aw_accepted => write_state = 1
      BY <1>1, AcceptIsCovered
    <3>3. QED BY <3>1, <3>2
  <2>2. accepted = <<>>
    BY <2>1, AcceptedUnit
  <2> DEFINE w == W!SendRequests!waiting
             pop == W!wchannel_req_buf_pop
  <2>3. /\ wchannel_req_buf' = IF pop /\ wchannel_req_buf_shown
                                 THEN Tail(wchannel_req_buf) ELSE wchannel_req_buf
        /\ wchannel_req_buf_shown' = (w > 0 \/ (wchannel_req_buf_shown /\ ~pop))
    <3>1. PICK unit \in PU : W!SendRequests!Edge(accepted # <<>>, pop, unit)
      BY <1>2 DEF W!DataEdge
    <3>2. QED BY <2>2, <3>1 DEF W!SendRequests!Edge, W!SendRequests!After
  <2>4. ~(w > 0) /\ (wchannel_req_buf_shown => pop)
    BY <2>3
  <2>5. w = IF wchannel_req_buf_shown THEN Len(wchannel_req_buf) - 1 ELSE Len(wchannel_req_buf)
    BY DEF W!SendRequests!waiting
  <2> HIDE DEF w, pop
  <2>6. CASE wchannel_req_buf_shown
    <3>1. wchannel_req_buf' = Tail(wchannel_req_buf) /\ Len(wchannel_req_buf) <= 1
      BY <1>3, <2>3, <2>4, <2>5, <2>6
    <3>2. Len(wchannel_req_buf) - 1 \in Nat
      <4>1. WD!SendRequests!waiting \in 0 .. REQ_BUF_DEPTH
        BY <1>1, DataAssumption, WD!Registers
      <4>2. QED BY <2>6, <4>1 DEF WD!SendRequests!waiting
    <3>3. QED BY <1>3, <3>1, <3>2
  <2>7. CASE ~wchannel_req_buf_shown
    BY <1>3, <2>3, <2>4, <2>5, <2>7
  <2>8. QED BY <2>6, <2>7
<1>6. QED BY <1>4, <1>5 DEF DoneInv

\* Out of reset.
LEMMA InitSide == Init => SideInv
<1> SUFFICES ASSUME Init PROVE SideInv
  OBVIOUS
<1>1. HalvesInv
  BY InitHalves
<1>2. /\ awchannel_req_buf = <<>> /\ wchannel_req_buf = <<>> /\ write_buf = <<>>
      /\ write_buf_shown = FALSE /\ wchannel_req_buf_shown = FALSE
      /\ awchannel_read = FALSE /\ pu_obuf_rd_count = 0 /\ outbuf_pop = {}
      /\ write_buf_almost_full = FALSE /\ wchannel_busy = FALSE
      /\ pu_obuf_rd_inc_d = FALSE /\ write_buf_push = FALSE
      /\ owed = <<>> /\ taken = outbuf /\ wr_done = FALSE /\ held = RESET_EDGES
  BY DEF Init, W!DataInit, W!ReadRequests!Init, W!SendRequests!Init, W!WriteBuffer!Init
<1>3. StopInv /\ DoneInv /\ held # 0
  BY <1>2 DEF StopInv, Emptied, DoneInv
<1>4. QED BY <1>1, <1>3 DEF SideInv

\* Every edge, of a reset too, keeps it.
LEMMA SideKept ==
  ASSUME WholeRequests, LongReset, RequestsFit, SideInv, [WriteNext \/ Reset]_vars
  PROVE  SideInv'
<1>1. HalvesInv /\ StopInv /\ DoneInv
  BY DEF SideInv
<1>2. HalvesInv'
  BY <1>1, HalvesKept
<1>3. CASE WriteNext
  <2>1. PICK request \in Requests, write_valid \in SUBSET Room, wready \in BOOLEAN :
          /\ ~wready => WD!MayStall
          /\ Edge(request, write_valid, wready)
          /\ WD!DataEdge(accepted, wready)
          /\ IInv /\ held \in {0, RESET_EDGES} /\ held' = 0
          /\ accepted \in {<<>>} \cup {<<i>> : i \in PU}
    BY <1>1, <1>3, EdgeOfBoth
  <2>2. WD!FlowInv
    BY <2>1, EdgeFindsFlow
  <2>3. WD!IInv /\ CoverInv /\ StockInv
    BY <1>1 DEF HalvesInv
  <2>4. accepted # <<>> => /\ Len(awchannel_req_buf) < REQ_BUF_DEPTH
                           /\ Len(wchannel_req_buf) < REQ_BUF_DEPTH
    BY <2>1, <2>2, <2>3, AcceptedUnit, RequestsFindRoom DEF LongReset
  <2>5. WD!Flowing(accepted, wready)
    BY <2>1, <2>4 DEF WD!Flowing
  <2>6. WD!SteadySlave
    BY DEF LongReset, WD!SteadySlave, WD!Slack
  <2>7. WD!FlowInv'
    BY <2>1, <2>2, <2>3, <2>5, <2>6, DataAssumption, WD!FlowKept
  <2>8. DoneInv'
    BY <1>1, <2>1, <2>2, DoneKept
  <2>9. StopInv'
    BY <2>1 DEF StopInv
  <2>10. QED BY <1>2, <2>7, <2>8, <2>9 DEF SideInv
<1>4. CASE Reset
  <2>1. StopInv' /\ DoneInv' /\ held' >= 1
    BY <1>1, <1>4, ResetStops
  <2>2. held' # 0
    BY <2>1
  <2>3. QED BY <1>2, <2>1, <2>2 DEF SideInv
<1>5. CASE UNCHANGED vars
  <2>1. UNCHANGED WD!dvars
    BY <1>5 DEF vars, W!dvars, WD!dvars
  <2>2. held' = held
    BY <1>5 DEF vars
  <2>3. WD!FlowInv => WD!FlowInv'
    BY <2>1, DataAssumption, WD!FlowRests
  <2>4. StopInv' /\ DoneInv'
    BY <1>1, <1>5 DEF vars, ivars, W!dvars, StopInv, Emptied, DoneInv
  <2>5. QED BY <1>2, <2>2, <2>3, <2>4 DEF SideInv
<1>6. QED BY <1>3, <1>4, <1>5

\* Under reset no beat is offered, outside it the flow makes each one right.
LEMMA SideSendsRight ==
  ASSUME LongReset, SideInv
  PROVE  BeatIsRight
<1>1. CASE held = 0
  <2>1. WD!IInv /\ WD!FlowInv
    BY <1>1 DEF SideInv, HalvesInv
  <2>2. WD!BeatIsRight
    BY <2>1, DataAssumption, WD!FlowSendsRight
  <2>3. QED BY <2>2, SameProperties
<1>2. CASE held # 0
  <2>1. ~wchannel_busy
    BY <1>2 DEF SideInv, StopInv, Emptied, HalvesInv, WInv
  <2>2. ~wvalid
    BY <2>1, DataAssumption, WD!Registers DEF SideInv, HalvesInv
  <2>3. QED BY <2>2 DEF BeatIsRight, W!BeatIsRight
<1>3. QED BY <1>1, <1>2

\* For every number of units, burst length and depth, requests of whole bursts
\* and resets of three edges or more at any time: if what the output buffers and
\* write_buf hold fits the request buffers, every beat on offer carries the word
\* due next from the unit of the oldest burst accepted and not yet sent, and is
\* marked last exactly when it is.
THEOREM BeatIsRightHolds ==
  ASSUME WholeRequests, LongReset, RequestsFit
  PROVE  WriteSpec => []BeatIsRight
<1>1. SideInv /\ [WriteNext \/ Reset]_vars => SideInv'
  BY SideKept
<1>2. SideInv => BeatIsRight
  BY SideSendsRight
<1>3. QED BY <1>1, <1>2, InitSide, PTL DEF WriteSpec

\* For every number of units, burst length and depth within the same limits,
\* wr_done, for which the memory controller waits, comes only when no accepted
\* burst has a beat to come.
THEOREM DoneMeansSentHolds ==
  ASSUME WholeRequests, LongReset, RequestsFit
  PROVE  WriteSpec => []DoneMeansSent
<1>1. SideInv /\ [WriteNext \/ Reset]_vars => SideInv'
  BY SideKept
<1>2. SideInv => DoneMeansSent
  BY DEF SideInv, DoneInv, DoneMeansSent
<1>3. QED BY <1>1, <1>2, InitSide, PTL DEF WriteSpec
=============================================================================
