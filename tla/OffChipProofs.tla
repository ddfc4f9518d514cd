---------------------------- MODULE OffChipProofs ----------------------------
(***************************************************************************)
(* No layer is read before the layers below it are written, for every      *)
(* network, number of units and time a master takes to send.  Read and     *)
(* write side meet in three lags only: the ROM outputs follow the indices  *)
(* by one edge, the throttle follows both indices by one edge, and wr_done *)
(* follows the last beat by two.  And every read request says what the     *)
(* loops of its layer have come to: five registers follow one another from *)
(* the index to the request, and where they are still behind, early in a   *)
(* layer, the throttle holds the request back until they are not.          *)
(***************************************************************************)
EXTENDS OffChip, TLAPS

USE SetupAssumption DEF IDLE, RD_CFG_BUFFER, RD_CFG_STREAM, BUSY_BUFFER, BUSY_STREAM,
                        WR_IDLE, WR_RD_CFG, WR_BUSY, WR_WAIT_DONE

-----------------------------------------------------------------------------
(* The types. *)

\* The output of the read ROM is that of the layer, except on the edge after the
\* index has moved, when no loop has begun.
ReadRomInv ==
  /\ rd_cfg \in ReadConfigs
  /\ \/ rd_cfg = setup.read[rd_cfg_idx]
     \/ /\ rd_state \in {IDLE, RD_CFG_BUFFER}
        /\ buffer_rd_count = 0
        /\ stream_rd_loop0_count = 0
        /\ stream_rd_loop1_count = 0
        /\ stream_rd_loop2_count = 0
  /\ rd_state \in {RD_CFG_STREAM, BUSY_STREAM} => buffer_rd_count = 0

\* The same for the write ROM.
WriteRomInv ==
  /\ write_cfg \in WriteConfigs
  /\ \/ write_cfg = setup.write[wr_cfg_idx]
     \/ wr_state = WR_IDLE
     \/ wr_state = WR_RD_CFG /\ wr_state_d # WR_RD_CFG
  /\ wr_state # WR_BUSY => stream_wr_count = 0

TypeInv == TypeOK /\ ReadRomInv /\ WriteRomInv

\* What a setup holds.
LEMMA SetupTypes ==
  ASSUME setup \in Setups
  PROVE  /\ setup.NUM_AXI \in 1 .. NUM_PU
         /\ setup.layers \in Nat \ {0}
         /\ cfg_idx_max \in Nat
         /\ \A n \in 0 .. cfg_idx_max :
              setup.read[n] \in ReadConfigs /\ setup.write[n] \in WriteConfigs
  BY DEF cfg_idx_max

\* What an entry of a ROM holds.
LEMMA EntryTypes ==
  /\ \A r \in ReadConfigs :
       r.buffer_max \in Nat /\ r.max_0 \in Nat /\ r.max_1 \in Nat /\ r.max_2 \in Nat
  /\ \A w \in WriteConfigs : w.max \in Nat /\ w.base \in Nat /\ w.offset \in Nat
  BY DEF ReadConfigs, WriteConfigs

\* A counter stays within its loop.
LEMMA CountedInRange ==
  ASSUME NEW max \in Nat, NEW count \in 0 .. max, NEW inc \in BOOLEAN
  PROVE  Counted(count, inc, max) \in 0 .. max
  BY DEF Counted

\* Out of reset every counter is 0 and the ROMs show the first layer.
LEMMA InitTypes == Init => TypeInv
<1> SUFFICES ASSUME Init PROVE TypeInv
  OBVIOUS
<1>1. setup \in Setups
  BY DEF Init
<1>2. /\ 0 \in 0 .. cfg_idx_max /\ 0 \in PU
      /\ setup.read[0] \in ReadConfigs /\ setup.write[0] \in WriteConfigs
      /\ 0 \in 0 .. setup.layers
  BY <1>1, SetupTypes DEF PU
<1>3. TypeOK
  <2>1. /\ wr_done_sticky \in [AXI -> BOOLEAN] /\ wr_ready_axi \in [AXI -> BOOLEAN]
        /\ all_writes_done_d \in [AXI -> BOOLEAN] /\ wr_done_local \in [AXI -> BOOLEAN]
        /\ unissued \in [PU -> 0 .. cfg_idx_max \cup {NONE}]
        /\ sending \in [AXI -> {<<>>} \cup ((0 .. cfg_idx_max) \X (1 .. SEND_EDGES))]
    BY DEF Init
  <2>2. read_throttle_d \in BOOLEAN /\ may_start \in BOOLEAN
    BY Zenon DEF Init
  <2>3. /\ layers_read \in 0 .. setup.layers
        /\ rd_cfg_idx \in 0 .. cfg_idx_max /\ wr_cfg_idx \in 0 .. cfg_idx_max
        /\ wr_pu_id_count \in PU
    BY <1>2 DEF Init
  <2>4. /\ buffer_rd_count \in 0 .. setup.read[rd_cfg_idx].buffer_max
        /\ stream_rd_loop0_count \in 0 .. setup.read[rd_cfg_idx].max_0
        /\ stream_rd_loop1_count \in 0 .. setup.read[rd_cfg_idx].max_1
        /\ stream_rd_loop2_count \in 0 .. setup.read[rd_cfg_idx].max_2
    BY <1>2, EntryTypes DEF Init
  <2>5. stream_wr_count \in 0 .. setup.write[wr_cfg_idx].max
    BY <1>2, EntryTypes DEF Init
  <2>6. QED BY <1>1, <2>2, <2>1, <2>3, <2>4, <2>5 DEF Init, TypeOK
<1>4. ReadRomInv /\ WriteRomInv
  BY <1>2 DEF Init, ReadRomInv, WriteRomInv
<1>5. QED BY <1>3, <1>4 DEF TypeInv

\* An edge on the read side.
LEMMA ReadTypes ==
  ASSUME TypeInv, NEW start \in BOOLEAN, NEW rd_ready \in BOOLEAN,
         RdState(start, rd_ready), ReadCounters(rd_ready), setup' = setup
  PROVE  /\ rd_state' \in 0 .. 4 /\ rd_state_d' \in 0 .. 4
         /\ rd_cfg_idx' \in 0 .. cfg_idx_max
         /\ buffer_rd_count' \in 0 .. setup.read[rd_cfg_idx'].buffer_max
         /\ stream_rd_loop0_count' \in 0 .. setup.read[rd_cfg_idx'].max_0
         /\ stream_rd_loop1_count' \in 0 .. setup.read[rd_cfg_idx'].max_1
         /\ stream_rd_loop2_count' \in 0 .. setup.read[rd_cfg_idx'].max_2
         /\ read_throttle_d' \in BOOLEAN
         /\ ReadRomInv'
<1> DEFINE r == setup.read[rd_cfg_idx]
<1>1. /\ setup \in Setups /\ rd_cfg_idx \in 0 .. cfg_idx_max
      /\ rd_state \in 0 .. 4 /\ rd_state_d \in 0 .. 4 /\ read_throttle_d \in BOOLEAN
      /\ wr_cfg_idx \in 0 .. cfg_idx_max
      /\ buffer_rd_count \in 0 .. r.buffer_max
      /\ stream_rd_loop0_count \in 0 .. r.max_0
      /\ stream_rd_loop1_count \in 0 .. r.max_1
      /\ stream_rd_loop2_count \in 0 .. r.max_2
  BY DEF TypeInv, TypeOK
<1>2. /\ r \in ReadConfigs /\ cfg_idx_max \in Nat
      /\ \A n \in 0 .. cfg_idx_max : setup.read[n] \in ReadConfigs
  BY <1>1, SetupTypes
<1>3. r.buffer_max \in Nat /\ r.max_0 \in Nat /\ r.max_1 \in Nat /\ r.max_2 \in Nat
  BY <1>2 DEF ReadConfigs
<1>4. rd_state' \in 0 .. 4 /\ rd_state_d' \in 0 .. 4
  BY <1>1 DEF RdState
<1>5. read_throttle_d' \in BOOLEAN
  BY DEF ReadCounters, read_throttle, rd_req, loop0_inc, buffer_rd_count_inc
<1>6. /\ rd_cfg' = r /\ rd_cfg' \in ReadConfigs
  BY <1>2 DEF ReadCounters
<1>7. CASE rd_cfg # r
  <2>1. /\ rd_state \in {IDLE, RD_CFG_BUFFER}
        /\ buffer_rd_count = 0 /\ stream_rd_loop0_count = 0
        /\ stream_rd_loop1_count = 0 /\ stream_rd_loop2_count = 0
    BY <1>7 DEF TypeInv, ReadRomInv
  <2>2. /\ ~buffer_rd_count_inc(rd_ready) /\ ~loop0_inc(rd_ready)
        /\ ~loop1_inc(rd_ready) /\ ~loop2_inc(rd_ready) /\ ~read_idx_inc(rd_ready)
    BY <2>1 DEF buffer_rd_count_inc, loop0_inc, loop1_inc, loop2_inc, read_idx_inc
  <2>3. /\ rd_cfg_idx' = rd_cfg_idx
        /\ buffer_rd_count' = 0 /\ stream_rd_loop0_count' = 0
        /\ stream_rd_loop1_count' = 0 /\ stream_rd_loop2_count' = 0
    BY <2>1, <2>2 DEF ReadCounters, Counted
  <2>4. ReadRomInv'
    BY <1>6, <2>3 DEF ReadRomInv
  <2>5. QED BY <1>1, <1>3, <1>4, <1>5, <2>3, <2>4
<1>8. CASE rd_cfg = r /\ ~read_idx_inc(rd_ready)
  <2>1. rd_cfg_idx' = rd_cfg_idx
    BY <1>8 DEF ReadCounters, Counted
  <2>2. buffer_rd_count' \in 0 .. r.buffer_max
    BY <1>1, <1>3, <1>8, CountedInRange DEF ReadCounters, buffer_rd_count_inc
  <2>3. /\ stream_rd_loop0_count' \in 0 .. r.max_0
        /\ stream_rd_loop1_count' \in 0 .. r.max_1
        /\ stream_rd_loop2_count' \in 0 .. r.max_2
    BY <1>1, <1>3, <1>8, CountedInRange
    DEF ReadCounters, loop0_inc, loop1_inc, loop2_inc
  <2>4. rd_state' \in {RD_CFG_STREAM, BUSY_STREAM} => buffer_rd_count' = 0
    BY <1>1, <1>8
    DEF TypeInv, ReadRomInv, RdState, ReadCounters, Counted, buffer_rd_count_inc
  <2>5. ReadRomInv'
    BY <1>6, <2>1, <2>4 DEF ReadRomInv
  <2>6. QED BY <1>4, <1>5, <1>1, <2>1, <2>2, <2>3, <2>5
<1>9. CASE rd_cfg = r /\ read_idx_inc(rd_ready)
  <2>1. /\ rd_state = BUSY_STREAM /\ ~buffer_rd_count_inc(rd_ready)
        /\ loop0_inc(rd_ready) /\ loop1_inc(rd_ready) /\ loop2_inc(rd_ready)
        /\ stream_rd_loop0_count = r.max_0 /\ stream_rd_loop1_count = r.max_1
        /\ stream_rd_loop2_count = r.max_2
    BY <1>9 DEF read_idx_inc, loop2_inc, loop1_inc, loop0_inc, buffer_rd_count_inc
  <2>2. rd_state' \in {IDLE, RD_CFG_BUFFER}
    BY <2>1 DEF RdState
  <2>3. /\ buffer_rd_count' = 0 /\ stream_rd_loop0_count' = 0
        /\ stream_rd_loop1_count' = 0 /\ stream_rd_loop2_count' = 0
    BY <1>9, <2>1 DEF ReadCounters, Counted, TypeInv, ReadRomInv
  <2>4. rd_cfg_idx' \in 0 .. cfg_idx_max
    BY <1>1, <1>2, <1>9, CountedInRange DEF ReadCounters
  <2>5. setup.read[rd_cfg_idx'] \in ReadConfigs
    BY <1>2, <2>4
  <2>6. ReadRomInv'
    BY <1>6, <2>2, <2>3 DEF ReadRomInv
  <2>7. QED BY <1>4, <1>5, <2>3, <2>4, <2>5, <2>6 DEF ReadConfigs
<1>10. QED BY <1>7, <1>8, <1>9

\* An edge on the write side.
LEMMA WriteTypes ==
  ASSUME TypeInv, WrState, WriteCounters, WrPuId, setup' = setup
  PROVE  /\ wr_state' \in 0 .. 3 /\ wr_state_d' \in 0 .. 3
         /\ wr_cfg_idx' \in 0 .. cfg_idx_max
         /\ stream_wr_count' \in 0 .. setup.write[wr_cfg_idx'].max
         /\ wr_pu_id_count' \in PU
         /\ WriteRomInv'
<1> DEFINE w == setup.write[wr_cfg_idx]
<1>1. /\ setup \in Setups /\ wr_cfg_idx \in 0 .. cfg_idx_max
      /\ wr_state \in 0 .. 3 /\ wr_state_d \in 0 .. 3
      /\ stream_wr_count \in 0 .. w.max /\ wr_pu_id_count \in PU
  BY DEF TypeInv, TypeOK
<1>2. /\ w \in WriteConfigs /\ cfg_idx_max \in Nat
      /\ \A n \in 0 .. cfg_idx_max : setup.write[n] \in WriteConfigs
  BY <1>1, SetupTypes
<1>3. w.max \in Nat
  BY <1>2, EntryTypes
<1>4. wr_state' \in 0 .. 3 /\ wr_state_d' \in 0 .. 3
  BY <1>1 DEF WrState
<1>5. write_cfg' = w /\ write_cfg' \in WriteConfigs
  BY <1>2 DEF WriteCounters
<1>6. wr_pu_id_count' \in PU
  <2>1. wr_pu_id_count \in 0 .. NUM_PU - 1 /\ NUM_PU - 1 \in Nat /\ wr_req \in BOOLEAN
    BY <1>1 DEF PU, wr_req
  <2>2. Counted(wr_pu_id_count, wr_req, NUM_PU - 1) \in PU
    BY <2>1, CountedInRange DEF PU
  <2>3. QED BY <2>1, <2>2 DEF WrPuId, PU
<1>7. CASE wr_state # WR_BUSY
  <2>1. stream_wr_count = 0 /\ ~wr_req
    BY <1>7 DEF TypeInv, WriteRomInv, wr_req
  <2>2. stream_wr_count' = 0
    BY <2>1 DEF WriteCounters, Counted
  <2>3. wr_cfg_idx' \in 0 .. cfg_idx_max
    <3>1. write_idx_inc \in BOOLEAN
      BY DEF write_idx_inc
    <3>2. QED BY <3>1, <1>1, <1>2, CountedInRange DEF WriteCounters
  <2>4. 0 \in 0 .. setup.write[wr_cfg_idx'].max
    BY <2>3, <1>2, EntryTypes
  <2>5. wr_cfg_idx' # wr_cfg_idx => wr_state = WR_WAIT_DONE /\ wr_state' = WR_RD_CFG /\ wr_state_d' = WR_WAIT_DONE
    BY DEF WriteCounters, Counted, write_idx_inc, WrState
  <2>6. \/ write_cfg' = setup.write[wr_cfg_idx']
        \/ wr_state' = WR_RD_CFG /\ wr_state_d' # WR_RD_CFG
    BY <1>5, <2>5
  <2>7. WriteRomInv'
    BY <1>5, <2>2, <2>6 DEF WriteRomInv
  <2>8. QED BY <1>4, <1>6, <2>2, <2>3, <2>4, <2>7
<1>8. CASE wr_state = WR_BUSY
  <2>1. write_cfg = w
    BY <1>8 DEF TypeInv, WriteRomInv
  <2>2. wr_cfg_idx' = wr_cfg_idx
    BY <1>8 DEF WriteCounters, Counted, write_idx_inc
  <2>3. stream_wr_count' \in 0 .. w.max
    <3>1. wr_req \in BOOLEAN
      BY DEF wr_req
    <3>2. QED BY <3>1, <1>1, <1>3, <2>1, CountedInRange DEF WriteCounters
  <2>4. wr_state' # WR_BUSY => stream_wr_count' = 0
    BY <1>8, <2>1 DEF WrState, WriteCounters, Counted, next_stream_write
  <2>5. WriteRomInv'
    BY <1>5, <2>2, <2>4 DEF WriteRomInv
  <2>6. QED BY <1>1, <1>4, <1>6, <2>2, <2>3, <2>5
<1>9. QED BY <1>7, <1>8

\* An edge of the masters.
LEMMA MasterTypes ==
  ASSUME TypeInv, WrReadyAxi, WrDoneLocal, WrDoneSticky, setup' = setup,
         NEW issuing \in Issuing, NEW moving \in SUBSET AXI, Writes(issuing, moving)
  PROVE  /\ unissued' \in [PU -> 0 .. cfg_idx_max \cup {NONE}]
         /\ sending' \in [AXI -> {<<>>} \cup ((0 .. cfg_idx_max) \X (1 .. SEND_EDGES))]
         /\ wr_done_sticky' \in [AXI -> BOOLEAN] /\ wr_ready_axi' \in [AXI -> BOOLEAN]
         /\ all_writes_done_d' \in [AXI -> BOOLEAN] /\ wr_done_local' \in [AXI -> BOOLEAN]
<1>1. /\ setup \in Setups /\ wr_cfg_idx \in 0 .. cfg_idx_max
      /\ unissued \in [PU -> 0 .. cfg_idx_max \cup {NONE}]
      /\ sending \in [AXI -> {<<>>} \cup ((0 .. cfg_idx_max) \X (1 .. SEND_EDGES))]
      /\ wr_done_sticky \in [AXI -> BOOLEAN]
      /\ all_writes_done_d \in [AXI -> BOOLEAN]
      /\ wr_done_local \in [AXI -> BOOLEAN]
  BY DEF TypeInv, TypeOK
<1>2. unissued' \in [PU -> 0 .. cfg_idx_max \cup {NONE}]
  BY <1>1 DEF Writes
<1>3. \A i \in issuing : i \in PU /\ unissued[i] \in 0 .. cfg_idx_max
  BY <1>1 DEF Issuing
<1>4. sending' \in [AXI -> {<<>>} \cup ((0 .. cfg_idx_max) \X (1 .. SEND_EDGES))]
  <2> SUFFICES ASSUME NEW g \in AXI
               PROVE  sending'[g] \in {<<>>} \cup ((0 .. cfg_idx_max) \X (1 .. SEND_EDGES))
    BY DEF Writes
  <2>1. CASE \E i \in issuing : axi_of(i) = g
    <3> DEFINE c == CHOOSE i \in issuing : axi_of(i) = g
    <3>1. c \in issuing
      BY <2>1
    <3>2. sending'[g] = <<unissued[c], SEND_EDGES>>
      BY <2>1 DEF Writes
    <3>3. QED BY <3>1, <3>2, <1>3
  <2>2. CASE ~(\E i \in issuing : axi_of(i) = g) /\ (sending[g] = <<>> \/ g \notin moving)
    BY <2>2, <1>1 DEF Writes
  <2>3. CASE ~(\E i \in issuing : axi_of(i) = g) /\ sending[g] # <<>> /\ g \in moving
    <3>1. sending[g] \in (0 .. cfg_idx_max) \X (1 .. SEND_EDGES)
      BY <1>1, <2>3
    <3>2. sending'[g] = IF sending[g][2] = 1 THEN <<>>
                        ELSE <<sending[g][1], sending[g][2] - 1>>
      BY <2>3 DEF Writes
    <3>3. QED BY <3>1, <3>2
  <2>4. QED BY <2>1, <2>2, <2>3
<1>5. /\ wr_ready_axi' \in [AXI -> BOOLEAN]
      /\ all_writes_done_d' \in [AXI -> BOOLEAN]
  BY DEF WrReadyAxi, WrDoneLocal
<1>6. wr_done_local' \in [AXI -> BOOLEAN]
  BY DEF WrDoneLocal
<1>7. wr_done_sticky' \in [AXI -> BOOLEAN]
  BY <1>1 DEF WrDoneSticky
<1>8. QED BY <1>2, <1>4, <1>5, <1>6, <1>7

\* An edge outside reset.
LEMMA EdgeTypes ==
  ASSUME TypeInv, NEW start \in BOOLEAN, NEW rd_ready \in BOOLEAN,
         NEW issuing \in Issuing, NEW moving \in SUBSET AXI,
         Edge(start, rd_ready, issuing, moving)
  PROVE  TypeInv'
<1>1. setup' = setup /\ AXI' = AXI /\ cfg_idx_max' = cfg_idx_max /\ setup \in Setups
  BY DEF Edge, AXI, cfg_idx_max, TypeInv, TypeOK
<1>2. /\ rd_state' \in 0 .. 4 /\ rd_state_d' \in 0 .. 4
      /\ rd_cfg_idx' \in 0 .. cfg_idx_max
      /\ buffer_rd_count' \in 0 .. setup.read[rd_cfg_idx'].buffer_max
      /\ stream_rd_loop0_count' \in 0 .. setup.read[rd_cfg_idx'].max_0
      /\ stream_rd_loop1_count' \in 0 .. setup.read[rd_cfg_idx'].max_1
      /\ stream_rd_loop2_count' \in 0 .. setup.read[rd_cfg_idx'].max_2
      /\ read_throttle_d' \in BOOLEAN
      /\ ReadRomInv'
  BY <1>1, ReadTypes DEF Edge
<1>3. /\ wr_state' \in 0 .. 3 /\ wr_state_d' \in 0 .. 3
      /\ wr_cfg_idx' \in 0 .. cfg_idx_max
      /\ stream_wr_count' \in 0 .. setup.write[wr_cfg_idx'].max
      /\ wr_pu_id_count' \in PU
      /\ WriteRomInv'
  BY <1>1, WriteTypes DEF Edge
<1>4. /\ unissued' \in [PU -> 0 .. cfg_idx_max \cup {NONE}]
      /\ sending' \in [AXI -> {<<>>} \cup ((0 .. cfg_idx_max) \X (1 .. SEND_EDGES))]
      /\ wr_done_sticky' \in [AXI -> BOOLEAN] /\ wr_ready_axi' \in [AXI -> BOOLEAN]
      /\ all_writes_done_d' \in [AXI -> BOOLEAN] /\ wr_done_local' \in [AXI -> BOOLEAN]
  BY <1>1, MasterTypes DEF Edge
<1>5. layers_read' \in 0 .. setup.layers
  <2>1. layers_read \in 0 .. setup.layers /\ setup.layers \in Nat
    BY SetupTypes DEF TypeInv, TypeOK
  <2>2. read_idx_inc(rd_ready) \in BOOLEAN
    BY DEF read_idx_inc
  <2>3. QED BY <2>1, <2>2, CountedInRange DEF Edge, Progress
<1>6. may_start' \in BOOLEAN
  BY DEF Edge, Progress, done, write_idx_inc
<1>7. TypeOK'
  BY <1>1, <1>2, <1>3, <1>4, <1>5, <1>6 DEF TypeOK
<1>8. QED BY <1>2, <1>3, <1>7 DEF TypeInv

\* An edge under reset.
LEMMA ResetTypes == TypeInv /\ Reset => TypeInv'
<1> SUFFICES ASSUME TypeInv, Reset PROVE TypeInv'
  OBVIOUS
<1>1. /\ setup' = setup /\ AXI' = AXI /\ cfg_idx_max' = cfg_idx_max /\ setup \in Setups
      /\ rd_state \in 0 .. 4 /\ wr_state \in 0 .. 3
      /\ rd_cfg_idx \in 0 .. cfg_idx_max /\ wr_cfg_idx \in 0 .. cfg_idx_max
  BY DEF Reset, AXI, cfg_idx_max, TypeInv, TypeOK
<1>2. /\ 0 \in 0 .. cfg_idx_max /\ 0 \in PU /\ 0 \in 0 .. setup.layers
      /\ setup.read[0] \in ReadConfigs /\ setup.write[0] \in WriteConfigs
      /\ setup.read[rd_cfg_idx] \in ReadConfigs /\ setup.write[wr_cfg_idx] \in WriteConfigs
  BY <1>1, SetupTypes DEF PU
<1>3. /\ wr_done_sticky' \in [AXI -> BOOLEAN] /\ wr_ready_axi' \in [AXI -> BOOLEAN]
      /\ all_writes_done_d' \in [AXI -> BOOLEAN] /\ wr_done_local' \in [AXI -> BOOLEAN]
      /\ unissued' \in [PU -> 0 .. cfg_idx_max \cup {NONE}]
      /\ sending' \in [AXI -> {<<>>} \cup ((0 .. cfg_idx_max) \X (1 .. SEND_EDGES))]
  BY DEF Reset, WrReadyAxi
<1>4. may_start' \in BOOLEAN
  BY Zenon DEF Reset
<1>5. read_throttle_d' \in BOOLEAN
  <2>1. PICK rd_ready \in BOOLEAN : read_throttle_d' = (read_throttle \/ rd_req(rd_ready))
    BY DEF Reset
  <2>2. QED BY <2>1 DEF read_throttle, rd_req, loop0_inc, buffer_rd_count_inc
<1>6. /\ rd_cfg_idx' \in 0 .. cfg_idx_max /\ wr_cfg_idx' \in 0 .. cfg_idx_max
      /\ layers_read' \in 0 .. setup.layers /\ wr_pu_id_count' \in PU
      /\ rd_state' \in 0 .. 4 /\ rd_state_d' \in 0 .. 4
      /\ wr_state' \in 0 .. 3 /\ wr_state_d' \in 0 .. 3
  BY <1>1, <1>2 DEF Reset
<1>7. /\ buffer_rd_count' \in 0 .. setup.read[rd_cfg_idx'].buffer_max
      /\ stream_rd_loop0_count' \in 0 .. setup.read[rd_cfg_idx'].max_0
      /\ stream_rd_loop1_count' \in 0 .. setup.read[rd_cfg_idx'].max_1
      /\ stream_rd_loop2_count' \in 0 .. setup.read[rd_cfg_idx'].max_2
      /\ stream_wr_count' \in 0 .. setup.write[wr_cfg_idx'].max
  BY <1>2, EntryTypes DEF Reset
<1>8. TypeOK'
  BY <1>1, <1>3, <1>4, <1>5, <1>6, <1>7 DEF TypeOK
<1>9. ReadRomInv' /\ WriteRomInv'
  BY <1>2 DEF Reset, ReadRomInv, WriteRomInv
<1>10. QED BY <1>8, <1>9 DEF TypeInv

\* Every step preserves the types.
LEMMA TypesInductive == TypeInv /\ [NextOrReset]_vars => TypeInv'
<1> SUFFICES ASSUME TypeInv, [NextOrReset]_vars PROVE TypeInv'
  OBVIOUS
<1>1. CASE Next
  BY <1>1, EdgeTypes DEF Next
<1>2. CASE Reset
  BY <1>2, ResetTypes
<1>3. CASE UNCHANGED vars
  BY <1>3 DEF vars, rvars, wvars, avars, TypeInv, TypeOK, ReadRomInv, WriteRomInv,
              AXI, cfg_idx_max
<1>4. QED BY <1>1, <1>2, <1>3 DEF NextOrReset

\* For every network and any number of masters the counters stay within the loops
\* of the layer they count for, a reset at any time included.
THEOREM TypeCorrect == Spec => []TypeOK
<1>1. Spec => []TypeInv
  BY InitTypes, TypesInductive, PTL DEF Spec
<1>2. TypeInv => TypeOK
  BY DEF TypeInv
<1>3. QED BY <1>1, <1>2, PTL

-----------------------------------------------------------------------------
(* The pulse that counts a layer as written, with one master. *)

\* As pl_mem_controller.v builds it.
OneMaster == \A s \in Setups : s.NUM_AXI = 1

\* Nothing that was asked for is still to be sent.
AllFree == \A i \in PU : unissued[i] = NONE
Sent == AllFree /\ sending[0] = <<>>

\* The way of a pulse: not begun, in wr_done_local, in wr_done_sticky, over.
Pulse(written, pulse, sticky) ==
  /\ all_writes_done_d[0] = written
  /\ wr_done_local[0] = pulse
  /\ wr_done_sticky[0] = sticky

Rising == Pulse(FALSE, FALSE, FALSE)
Local  == Pulse(TRUE, TRUE, FALSE)
Sticky == Pulse(TRUE, FALSE, TRUE)
Over   == Pulse(TRUE, FALSE, FALSE)
Silent == ~wr_done_local[0] /\ ~wr_done_sticky[0]

\* The pulse of a reset is over before the first request, and the one of a layer
\* is over before the first request of the next.  Between two requests of a layer
\* there is none: the next request follows the end of the one before by two
\* edges, sooner than its data is sent.
PulseInv ==
  /\ wr_state = WR_IDLE =>
       /\ Sent /\ (Rising \/ Local \/ Sticky \/ Over)
       /\ rd_state # IDLE => ~Rising
  /\ wr_state = WR_RD_CFG =>
       /\ Sent /\ (Sticky \/ Over)
       /\ wr_state_d = WR_RD_CFG => Over
  /\ wr_state = WR_BUSY =>
       /\ Silent
       /\ Sent => all_writes_done_d[0]
       /\ AllFree /\ sending[0] # <<>> =>
            \/ sending[0][2] = SEND_EDGES
            \/ wr_ready_axi[0] /\ sending[0][2] = SEND_EDGES - 1
  /\ wr_state = WR_WAIT_DONE =>
       IF Sent THEN Rising \/ Local \/ Sticky ELSE Silent

\* What is still to be sent belongs to the layer being written.
OwnerInv ==
  /\ \A i \in PU : unissued[i] # NONE => unissued[i] = wr_cfg_idx
  /\ sending[0] # <<>> => sending[0][1] = wr_cfg_idx

\* The throttle, one edge behind, lets no layer be read that is not due.
ThrottleInv ==
  rd_state \in {BUSY_BUFFER, BUSY_STREAM} /\ ~read_throttle_d =>
    rd_cfg_idx <= wr_cfg_idx \/ Sent

\* Address and unit of the next write request.
NextWriteInv ==
  /\ wr_state \in {WR_IDLE, WR_RD_CFG} => wr_pu_id_count = 0
  /\ wr_state = WR_BUSY =>
       /\ wr_addr = write_cfg.base + write_cfg.offset * stream_wr_count
       /\ wr_pu_id_count = stream_wr_count % NUM_PU
       /\ wr_ready_axi[0] => unissued[wr_pu_id] = NONE

IInv == TypeInv /\ PulseInv /\ OwnerInv /\ ThrottleInv /\ NextWriteInv

\* With one master the wires of the wrapper are the master's.
LEMMA OneMasterWires ==
  ASSUME OneMaster, TypeInv
  PROVE  /\ AXI = {0}
         /\ wr_pu_id \in PU
         /\ \A i \in PU : axi_of(i) = 0
         /\ wr_done = wr_done_sticky[0]
         /\ wr_ready = wr_ready_axi[0]
         /\ (wr_pu_id \div setup.NUM_AXI) * setup.NUM_AXI + 0 = wr_pu_id
<1>1. setup.NUM_AXI = 1
  BY DEF OneMaster, TypeInv, TypeOK
<1>2. AXI = {0}
  BY <1>1 DEF AXI
<1>3. wr_pu_id \in PU
  BY DEF wr_pu_id, TypeInv, TypeOK, PU
<1>4. \A i \in PU : axi_of(i) = 0
  BY <1>1 DEF axi_of, PU
<1>5. (wr_pu_id \div setup.NUM_AXI) * setup.NUM_AXI + 0 = wr_pu_id
  BY <1>1, <1>3 DEF PU
<1>6. wr_ready = wr_ready_axi[0]
  BY <1>3, <1>4 DEF wr_ready
<1>7. wr_done = wr_done_sticky[0]
  <2>1. wr_done_sticky[0] \in BOOLEAN
    BY <1>2 DEF TypeInv, TypeOK
  <2>2. QED BY <1>2, <2>1 DEF wr_done
<1>8. QED BY <1>2, <1>3, <1>4, <1>5, <1>6, <1>7

\* Out of reset the pulse of the reset is about to rise.
LEMMA InitEstablishes == OneMaster /\ Init => IInv
<1> SUFFICES ASSUME OneMaster, Init PROVE IInv
  OBVIOUS
<1>1. TypeInv
  BY InitTypes
<1>2. 0 \in AXI
  BY <1>1, OneMasterWires
<1>3. Sent /\ Rising
  BY <1>2 DEF Init, Sent, AllFree, Rising, Pulse
<1>4. QED BY <1>1, <1>3
  DEF Init, IInv, PulseInv, OwnerInv, ThrottleInv, NextWriteInv, Sent, AllFree

\* Under reset likewise.
LEMMA ResetEstablishes == OneMaster /\ TypeInv /\ Reset => IInv'
<1> SUFFICES ASSUME OneMaster, TypeInv, Reset PROVE IInv'
  OBVIOUS
<1>1. TypeInv'
  BY ResetTypes
<1>2. 0 \in AXI
  BY OneMasterWires
<1>3. Sent' /\ Rising'
  BY <1>2 DEF Reset, Sent, AllFree, Rising, Pulse
<1>4. QED BY <1>1, <1>3
  DEF Reset, IInv, PulseInv, OwnerInv, ThrottleInv, NextWriteInv, Sent, AllFree

\* What an edge does to the one master.
LEMMA OneMasterEdge ==
  ASSUME OneMaster, TypeInv, NEW start \in BOOLEAN, NEW rd_ready \in BOOLEAN,
         NEW issuing \in Issuing, NEW moving \in SUBSET AXI,
         Edge(start, rd_ready, issuing, moving)
  PROVE  /\ all_writes_done_d'[0] = Sent
         /\ wr_done_local'[0] = (Sent /\ ~all_writes_done_d[0])
         /\ wr_done_sticky'[0] = wr_done_local[0]
         /\ wr_ready_axi'[0] = (unissued[wr_pu_id] = NONE /\ ~wr_req)
         /\ wr_req = (~wr_done_sticky[0] /\ wr_ready_axi[0] /\ wr_state = WR_BUSY)
         /\ wr_req => ~AllFree'
         /\ \A i \in PU : unissued'[i] \in {unissued[i], NONE} \/ unissued'[i] = wr_cfg_idx
         /\ ~wr_req => \A i \in PU : unissued[i] = NONE => unissued'[i] = NONE
         /\ issuing = {} /\ ~wr_req => unissued' = unissued
         /\ issuing # {} => ~AllFree /\ \E i \in PU :
              unissued[i] # NONE /\ sending'[0] = <<unissued[i], SEND_EDGES>>
         /\ issuing = {} =>
              \/ sending'[0] = sending[0]
              \/ sending[0] # <<>> /\ sending[0][2] = 1 /\ sending'[0] = <<>>
              \/ /\ sending[0] # <<>>
                 /\ sending'[0] = <<sending[0][1], sending[0][2] - 1>>
<1>1. /\ AXI = {0} /\ wr_pu_id \in PU /\ \A i \in PU : axi_of(i) = 0
      /\ wr_done = wr_done_sticky[0] /\ wr_ready = wr_ready_axi[0]
      /\ (wr_pu_id \div setup.NUM_AXI) * setup.NUM_AXI + 0 = wr_pu_id
  BY OneMasterWires
<1>2. /\ wr_done_sticky[0] \in BOOLEAN /\ wr_done_local[0] \in BOOLEAN
      /\ all_writes_done_d[0] \in BOOLEAN /\ wr_ready_axi[0] \in BOOLEAN
      /\ unissued \in [PU -> 0 .. cfg_idx_max \cup {NONE}]
      /\ wr_cfg_idx \in 0 .. cfg_idx_max
  BY <1>1 DEF TypeInv, TypeOK
<1>3. wr_cfg_idx # NONE
  BY <1>2, SetupTypes DEF TypeInv, TypeOK
<1>4. \A i \in issuing : i \in PU /\ unissued[i] # NONE
  BY DEF Issuing
<1>5. all_writes_done_d'[0] = Sent
  BY <1>1 DEF Edge, WrDoneLocal, Sent, AllFree
<1>6. wr_done_local'[0] = (Sent /\ ~all_writes_done_d[0])
  BY <1>1 DEF Edge, WrDoneLocal, Sent, AllFree
<1>7. wr_done_sticky'[0] = wr_done_local[0]
  <2>1. wr_done_sticky'[0] = (wr_done_local[0] \/ (wr_done_sticky[0] /\ ~wr_done))
    BY <1>1 DEF Edge, WrDoneSticky
  <2>2. QED BY <1>1, <1>2, <2>1
<1>8. wr_req = (~wr_done_sticky[0] /\ wr_ready_axi[0] /\ wr_state = WR_BUSY)
  BY <1>1 DEF wr_req
<1>9. wr_ready_axi'[0] = (unissued[wr_pu_id] = NONE /\ ~wr_req)
  <2>1. wr_ready_axi'[0] = (unissued[wr_pu_id] = NONE
                              /\ ~(wr_req /\ axi_of(wr_pu_id) = 0 /\ wr_ready))
    BY <1>1 DEF Edge, WrReadyAxi
  <2>2. QED BY <1>1, <1>8, <2>1
<1>10. \A i \in PU : unissued'[i] = IF wr_req /\ wr_pu_id = i THEN wr_cfg_idx
                                    ELSE IF i \in issuing THEN NONE
                                    ELSE unissued[i]
  BY DEF Edge, Writes
<1>11. wr_req => ~AllFree'
  BY <1>1, <1>3, <1>10 DEF AllFree
<1>12. issuing = {} /\ ~wr_req => unissued' = unissued
  BY <1>2 DEF Edge, Writes
<1>13. ASSUME issuing # {}
       PROVE  ~AllFree /\ \E i \in PU :
                unissued[i] # NONE /\ sending'[0] = <<unissued[i], SEND_EDGES>>
  <2> DEFINE c == CHOOSE i \in issuing : axi_of(i) = 0
  <2>1. \E i \in issuing : axi_of(i) = 0
    BY <1>1, <1>4, <1>13
  <2>2. c \in issuing
    BY <2>1
  <2>3. sending'[0] = <<unissued[c], SEND_EDGES>>
    BY <1>1, <2>1 DEF Edge, Writes
  <2>4. QED BY <1>4, <2>2, <2>3 DEF AllFree
<1>14. ASSUME issuing = {}
       PROVE  \/ sending'[0] = sending[0]
              \/ sending[0] # <<>> /\ sending[0][2] = 1 /\ sending'[0] = <<>>
              \/ /\ sending[0] # <<>>
                 /\ sending'[0] = <<sending[0][1], sending[0][2] - 1>>
  BY <1>1, <1>14 DEF Edge, Writes
<1>15. QED BY <1>5, <1>6, <1>7, <1>8, <1>9, <1>10, <1>11, <1>12, <1>13, <1>14

\* Without a request, what is sent stays sent.
LEMMA SentStays ==
  ASSUME OneMaster, TypeInv, NEW start \in BOOLEAN, NEW rd_ready \in BOOLEAN,
         NEW issuing \in Issuing, NEW moving \in SUBSET AXI,
         Edge(start, rd_ready, issuing, moving), Sent, ~wr_req
  PROVE  Sent'
<1>1. issuing = {}
  BY OneMasterEdge DEF Sent
<1>2. sending'[0] = <<>>
  BY <1>1, OneMasterEdge DEF Sent
<1>3. AllFree'
  BY OneMasterEdge DEF Sent, AllFree
<1>4. QED BY <1>2, <1>3 DEF Sent

\* A pulse goes its way while nothing is requested.
LEMMA PulseMoves ==
  ASSUME OneMaster, TypeInv, NEW start \in BOOLEAN, NEW rd_ready \in BOOLEAN,
         NEW issuing \in Issuing, NEW moving \in SUBSET AXI,
         Edge(start, rd_ready, issuing, moving), Sent
  PROVE  /\ Rising => Local'
         /\ Local => Sticky'
         /\ Sticky \/ Over => Over'
<1>1. /\ all_writes_done_d'[0] = TRUE
      /\ wr_done_local'[0] = (~all_writes_done_d[0])
      /\ wr_done_sticky'[0] = wr_done_local[0]
  BY OneMasterEdge
<1>2. QED BY <1>1 DEF Rising, Local, Sticky, Over, Pulse

\* In mid-layer nothing pulses, and what is not sent does not become sent before
\* the next request.
LEMMA BusyPulse ==
  ASSUME OneMaster, TypeInv, NEW start \in BOOLEAN, NEW rd_ready \in BOOLEAN,
         NEW issuing \in Issuing, NEW moving \in SUBSET AXI,
         Edge(start, rd_ready, issuing, moving), PulseInv, wr_state = WR_BUSY
  PROVE  PulseInv'
<1>1. /\ Silent /\ (Sent => all_writes_done_d[0])
      /\ AllFree /\ sending[0] # <<>> =>
           \/ sending[0][2] = SEND_EDGES
           \/ wr_ready_axi[0] /\ sending[0][2] = SEND_EDGES - 1
  BY DEF PulseInv
<1>2. Silent'
  <2>1. ~wr_done_local'[0]
    BY <1>1, OneMasterEdge
  <2>2. wr_done_sticky'[0] = FALSE
    BY <1>1, OneMasterEdge DEF Silent
  <2>3. QED BY <2>1, <2>2 DEF Silent
<1>3. CASE wr_req
  <2>1. ~AllFree' /\ ~Sent'
    BY <1>3, OneMasterEdge DEF Sent
  <2>2. wr_state' \in {WR_BUSY, WR_WAIT_DONE}
    BY DEF Edge, WrState
  <2>3. QED BY <1>2, <2>1, <2>2 DEF PulseInv
<1>4. CASE ~wr_req
  <2>1. wr_state' = WR_BUSY
    BY <1>4 DEF Edge, WrState
  <2>2. ~wr_ready_axi[0]
    BY <1>1, <1>4, OneMasterEdge DEF Silent
  <2>3. ASSUME AllFree', issuing = {}
        PROVE  AllFree
    BY <1>4, <2>3, OneMasterEdge DEF AllFree
  <2>4. AllFree => wr_ready_axi'[0]
    BY <1>4, OneMasterEdge, OneMasterWires DEF AllFree
  <2>5. CASE issuing # {}
    <3>1. PICK i \in PU : sending'[0] = <<unissued[i], SEND_EDGES>>
      BY <2>5, OneMasterEdge
    <3>2. sending'[0] # <<>> /\ sending'[0][2] = SEND_EDGES /\ ~Sent'
      BY <3>1 DEF Sent
    <3>3. QED BY <1>2, <2>1, <3>2 DEF PulseInv
  <2>6. CASE issuing = {} /\ ~AllFree
    BY <1>2, <2>1, <2>3, <2>6 DEF PulseInv, Sent
  <2>7. CASE issuing = {} /\ AllFree /\ sending[0] = <<>>
    <3>1. Sent
      BY <2>7 DEF Sent
    <3>2. all_writes_done_d'[0]
      BY <3>1, OneMasterEdge
    <3>3. sending'[0] = <<>>
      BY <2>7, OneMasterEdge
    <3>4. QED BY <1>2, <2>1, <3>2, <3>3 DEF PulseInv
  <2>8. CASE issuing = {} /\ AllFree /\ sending[0] # <<>>
    <3>1. sending[0][2] = SEND_EDGES
      BY <1>1, <2>2, <2>8
    <3>2. \/ sending'[0] = sending[0]
          \/ sending'[0] = <<sending[0][1], sending[0][2] - 1>>
      BY <2>8, <3>1, OneMasterEdge
    <3>3. /\ sending'[0] # <<>>
          /\ sending'[0][2] = SEND_EDGES \/ sending'[0][2] = SEND_EDGES - 1
      BY <2>8, <3>1, <3>2
    <3>4. QED BY <1>2, <2>1, <2>4, <2>8, <3>3 DEF PulseInv, Sent
  <2>9. QED BY <2>5, <2>6, <2>7, <2>8
<1>5. QED BY <1>3, <1>4

\* Every edge preserves the way of the pulse.
LEMMA PulsePreserved ==
  ASSUME OneMaster, TypeInv, NEW start \in BOOLEAN, NEW rd_ready \in BOOLEAN,
         NEW issuing \in Issuing, NEW moving \in SUBSET AXI,
         Edge(start, rd_ready, issuing, moving), PulseInv
  PROVE  PulseInv'
<1>1. wr_state \in 0 .. 3 /\ wr_done = wr_done_sticky[0]
  BY OneMasterWires DEF TypeInv, TypeOK
<1>2. CASE wr_state = WR_BUSY
  BY <1>2, BusyPulse
<1>3. CASE wr_state = WR_IDLE
  <2>1. Sent /\ ~wr_req /\ (Rising \/ Local \/ Sticky \/ Over)
    BY <1>3 DEF PulseInv, wr_req
  <2>2. Sent' /\ (Local' \/ Sticky' \/ Over')
    BY <2>1, SentStays, PulseMoves
  <2>3. Local' \/ Sticky' \/ Over' => ~Rising'
    BY DEF Local, Sticky, Over, Rising, Pulse
  <2>4. CASE wr_state' = WR_IDLE
    BY <2>2, <2>3, <2>4 DEF PulseInv
  <2>5. CASE wr_state' = WR_RD_CFG
    <3>1. ~Rising /\ wr_state_d' # WR_RD_CFG
      BY <1>3, <2>5 DEF PulseInv, Edge, WrState
    <3>2. Sticky' \/ Over'
      BY <2>1, <3>1, PulseMoves
    <3>3. QED BY <2>2, <2>5, <3>1, <3>2 DEF PulseInv
  <2>6. QED BY <1>3, <2>4, <2>5 DEF Edge, WrState
<1>4. CASE wr_state = WR_RD_CFG
  <2>1. Sent /\ ~wr_req /\ (Sticky \/ Over) /\ (wr_state_d = WR_RD_CFG => Over)
    BY <1>4 DEF PulseInv, wr_req
  <2>2. Sent' /\ Over'
    BY <2>1, SentStays, PulseMoves
  <2>3. wr_state' \in {WR_RD_CFG, WR_BUSY}
    BY <1>4 DEF Edge, WrState
  <2>4. Silent' /\ all_writes_done_d'[0] /\ sending'[0] = <<>>
    BY <2>2 DEF Over, Pulse, Silent, Sent
  <2>5. QED BY <2>2, <2>3, <2>4 DEF PulseInv
<1>5. CASE wr_state = WR_WAIT_DONE
  <2>1. ~wr_req
    BY <1>5 DEF wr_req
  <2>2. CASE Sent /\ Sticky
    <3>1. Sent' /\ Over'
      BY <2>1, <2>2, SentStays, PulseMoves
    <3>2. wr_state' = WR_RD_CFG
      BY <1>1, <1>5, <2>2 DEF Edge, WrState, Sticky, Pulse
    <3>3. QED BY <3>1, <3>2 DEF PulseInv
  <2>3. CASE Sent /\ (Rising \/ Local)
    <3>1. Sent' /\ (Local' \/ Sticky')
      BY <2>1, <2>3, SentStays, PulseMoves
    <3>2. wr_state' = WR_WAIT_DONE
      BY <1>1, <1>5, <2>3 DEF Edge, WrState, Rising, Local, Pulse
    <3>3. QED BY <3>1, <3>2 DEF PulseInv
  <2>4. CASE ~Sent
    <3>1. Silent
      BY <1>5, <2>4 DEF PulseInv
    <3>2. wr_state' = WR_WAIT_DONE
      BY <1>1, <1>5, <3>1 DEF Edge, WrState, Silent
    <3>3. /\ all_writes_done_d'[0] = FALSE /\ wr_done_local'[0] = FALSE
          /\ wr_done_sticky'[0] = FALSE
      <4>1. wr_done_local[0] \in BOOLEAN
        BY OneMasterWires DEF TypeInv, TypeOK
      <4>2. wr_done_sticky'[0] = FALSE
        BY <3>1, <4>1, OneMasterEdge DEF Silent
      <4>3. all_writes_done_d'[0] = FALSE
        BY <2>4, OneMasterEdge
      <4>4. wr_done_local'[0] = FALSE
        BY <2>4, OneMasterEdge
      <4>5. QED BY <4>2, <4>3, <4>4
    <3>4. Rising' /\ Silent'
      BY <3>3 DEF Rising, Pulse, Silent
    <3>5. QED BY <3>2, <3>4 DEF PulseInv
  <2>5. QED BY <1>5, <2>2, <2>3, <2>4 DEF PulseInv
<1>6. QED BY <1>1, <1>2, <1>3, <1>4, <1>5

\* A layer is counted only when all of it is sent.
LEMMA CountedOnSent ==
  ASSUME OneMaster, TypeInv, PulseInv, write_idx_inc
  PROVE  Sent /\ ~wr_req
<1>1. wr_state = WR_WAIT_DONE /\ wr_done_sticky[0]
  BY OneMasterWires DEF write_idx_inc
<1>2. QED BY <1>1 DEF PulseInv, Silent, wr_req

\* What is still to be sent goes on belonging to the layer being written.
LEMMA OwnerPreserved ==
  ASSUME OneMaster, TypeInv, NEW start \in BOOLEAN, NEW rd_ready \in BOOLEAN,
         NEW issuing \in Issuing, NEW moving \in SUBSET AXI,
         Edge(start, rd_ready, issuing, moving), PulseInv, OwnerInv
  PROVE  OwnerInv'
<1>1. CASE write_idx_inc
  <2>1. Sent'
    BY <1>1, CountedOnSent, SentStays
  <2>2. QED BY <2>1 DEF Sent, AllFree, OwnerInv
<1>2. CASE ~write_idx_inc
  <2>1. wr_cfg_idx' = wr_cfg_idx
    BY <1>2 DEF Edge, WriteCounters, Counted
  <2>2. \A i \in PU : unissued'[i] # NONE => unissued'[i] = wr_cfg_idx
    BY OneMasterEdge DEF OwnerInv
  <2>3. sending'[0] # <<>> => sending'[0][1] = wr_cfg_idx
    <3>1. CASE issuing # {}
      <4>1. PICK i \in PU :
              unissued[i] # NONE /\ sending'[0] = <<unissued[i], SEND_EDGES>>
        BY <3>1, OneMasterEdge
      <4>2. QED BY <4>1 DEF OwnerInv
    <3>2. CASE issuing = {}
      <4>1. \/ sending'[0] = sending[0]
            \/ sending'[0] = <<>>
            \/ /\ sending[0] # <<>>
               /\ sending'[0] = <<sending[0][1], sending[0][2] - 1>>
        BY <3>2, OneMasterEdge
      <4>2. QED BY <4>1 DEF OwnerInv
    <3>3. QED BY <3>1, <3>2
  <2>4. QED BY <2>1, <2>2, <2>3 DEF OwnerInv
<1>3. QED BY <1>1, <1>2

\* The throttle is never so far behind that a layer is read early.
LEMMA ThrottlePreserved ==
  ASSUME OneMaster, TypeInv, NEW start \in BOOLEAN, NEW rd_ready \in BOOLEAN,
         NEW issuing \in Issuing, NEW moving \in SUBSET AXI,
         Edge(start, rd_ready, issuing, moving), PulseInv
  PROVE  ThrottleInv'
<1> SUFFICES ASSUME rd_state' \in {BUSY_BUFFER, BUSY_STREAM}, ~read_throttle_d'
             PROVE  rd_cfg_idx' <= wr_cfg_idx' \/ Sent'
  BY DEF ThrottleInv
<1>1. rd_cfg_idx \in Nat /\ wr_cfg_idx \in Nat
  BY SetupTypes DEF TypeInv, TypeOK
<1>2. rd_cfg_idx <= wr_cfg_idx
  <2>1. ~read_throttle
    BY Zenon DEF Edge, ReadCounters
  <2>2. QED BY <1>1, <2>1 DEF read_throttle
<1>3. rd_cfg_idx' = rd_cfg_idx
  <2>1. rd_state = BUSY_STREAM => ~loop0_inc(rd_ready)
    BY DEF Edge, RdState
  <2>2. ~read_idx_inc(rd_ready)
    BY <2>1 DEF read_idx_inc, loop2_inc, loop1_inc, loop0_inc
  <2>3. QED BY <2>2 DEF Edge, ReadCounters, Counted
<1>4. CASE write_idx_inc
  BY <1>4, CountedOnSent, SentStays
<1>5. CASE ~write_idx_inc
  BY <1>2, <1>3, <1>5 DEF Edge, WriteCounters, Counted
<1>6. QED BY <1>4, <1>5

\* A quotient and a rest are the only ones.
LEMMA RestIsUnique ==
  ASSUME NEW n \in Nat \ {0}, NEW c \in Nat, NEW q \in Nat, NEW r \in 0 .. n - 1,
         c = q * n + r
  PROVE  c % n = r
<1> DEFINE p == c \div n
           s == c % n
<1>1. p \in Nat /\ s \in 0 .. n - 1 /\ c = p * n + s
  OBVIOUS
<1>2. CASE p = q
  BY <1>1, <1>2
<1>3. CASE p > q
  <2>1. PICK d \in Nat : p = q + 1 + d
    <3>1. p - q - 1 \in Nat /\ p = q + 1 + (p - q - 1)
      BY <1>1, <1>3
    <3>2. QED BY <3>1
  <2>2. p * n = q * n + n + d * n /\ d * n \in Nat /\ q * n \in Nat
    BY <2>1
  <2>3. QED BY <1>1, <2>2
<1>4. CASE p < q
  <2>1. PICK d \in Nat : q = p + 1 + d
    <3>1. q - p - 1 \in Nat /\ q = p + 1 + (q - p - 1)
      BY <1>1, <1>4
    <3>2. QED BY <3>1
  <2>2. q * n = p * n + n + d * n /\ d * n \in Nat /\ p * n \in Nat
    BY <1>1, <2>1
  <2>3. QED BY <1>1, <2>2
<1>5. QED BY <1>1, <1>2, <1>3, <1>4

\* The place of a unit in the turn, when the count of requests moves on.
LEMMA NextInTurn ==
  ASSUME NEW n \in Nat \ {0}, NEW c \in Nat
  PROVE  (c + 1) % n = IF c % n = n - 1 THEN 0 ELSE (c % n) + 1
<1> DEFINE q == c \div n
           r == c % n
<1>1. q \in Nat /\ r \in 0 .. n - 1 /\ c = q * n + r
  OBVIOUS
<1>2. CASE r = n - 1
  <2>1. c + 1 = (q + 1) * n + 0 /\ q + 1 \in Nat /\ 0 \in 0 .. n - 1 /\ c + 1 \in Nat
    BY <1>1, <1>2
  <2>2. (c + 1) % n = 0
    BY <2>1, RestIsUnique
  <2>3. QED BY <1>2, <2>2
<1>3. CASE r # n - 1
  <2>1. c + 1 = q * n + (r + 1) /\ r + 1 \in 0 .. n - 1 /\ c + 1 \in Nat
    BY <1>1, <1>3
  <2>2. (c + 1) % n = r + 1
    BY <1>1, <2>1, RestIsUnique
  <2>3. QED BY <1>3, <2>2
<1>4. QED BY <1>2, <1>3

\* The next write request has the address and the unit of its place.
LEMMA NextWritePreserved ==
  ASSUME OneMaster, TypeInv, NEW start \in BOOLEAN, NEW rd_ready \in BOOLEAN,
         NEW issuing \in Issuing, NEW moving \in SUBSET AXI,
         Edge(start, rd_ready, issuing, moving), PulseInv, NextWriteInv
  PROVE  NextWriteInv'
<1> DEFINE w == setup.write[wr_cfg_idx]
<1>1. /\ wr_state \in 0 .. 3 /\ w \in WriteConfigs /\ wr_pu_id \in PU
      /\ wr_cfg_idx \in 0 .. cfg_idx_max /\ stream_wr_count \in 0 .. w.max
      /\ w.max \in Nat /\ w.base \in Nat /\ w.offset \in Nat
  BY SetupTypes, EntryTypes, OneMasterWires DEF TypeInv, TypeOK
<1>2. wr_state = WR_BUSY \/ (wr_state = WR_RD_CFG /\ wr_state_d = WR_RD_CFG) => write_cfg = w
  BY DEF TypeInv, WriteRomInv
<1>3. write_cfg' = w
  BY DEF Edge, WriteCounters
<1>4. CASE wr_state' = WR_BUSY /\ wr_state # WR_BUSY
  <2>1. wr_state = WR_RD_CFG /\ wr_state_d = WR_RD_CFG
    BY <1>1, <1>4 DEF Edge, WrState
  <2>2. ~wr_req /\ ~write_idx_inc /\ stream_wr_count = 0 /\ wr_pu_id_count = 0 /\ Sent
    BY <2>1 DEF wr_req, write_idx_inc, TypeInv, WriteRomInv, PulseInv, NextWriteInv
  <2>3. wr_addr' = w.base /\ stream_wr_count' = 0
    BY <1>2, <2>1, <2>2 DEF Edge, WriteCounters, Counted
  <2>4. wr_pu_id_count' = 0
    BY <2>2 DEF Edge, WrPuId, Counted
  <2>5. w.base = w.base + w.offset * 0 /\ 0 % NUM_PU = 0
    <3>1. 0 % NUM_PU = 0
      BY RestIsUnique
    <3>2. QED BY <1>1, <3>1
  <2>6. Sent'
    BY <2>2, SentStays
  <2>7. wr_pu_id' \in PU
    BY <2>4, <1>1 DEF wr_pu_id, PU
  <2>8. unissued'[wr_pu_id'] = NONE
    BY <2>6, <2>7 DEF Sent, AllFree
  <2>9. QED BY <1>3, <1>4, <2>3, <2>4, <2>5, <2>8 DEF NextWriteInv
<1>5. CASE wr_state' = WR_BUSY /\ wr_state = WR_BUSY /\ wr_req
  <2>1. stream_wr_count # w.max /\ write_cfg = w /\ ~write_idx_inc
    BY <1>2, <1>5 DEF Edge, WrState, next_stream_write, write_idx_inc
  <2>2. stream_wr_count' = stream_wr_count + 1
    BY <1>5, <2>1 DEF Edge, WriteCounters, Counted
  <2>3. wr_addr' = wr_addr + w.offset
    BY <1>5, <2>1 DEF Edge, WriteCounters
  <2>4. wr_addr = w.base + w.offset * stream_wr_count
        /\ wr_pu_id_count = stream_wr_count % NUM_PU
    BY <1>5, <2>1 DEF NextWriteInv
  <2>5. w.offset * (stream_wr_count + 1) = w.offset * stream_wr_count + w.offset
        /\ w.offset * stream_wr_count \in Nat
    BY <1>1
  <2>6. wr_addr' = w.base + w.offset * stream_wr_count'
    BY <1>1, <2>2, <2>3, <2>4, <2>5
  <2>7. wr_pu_id_count' = IF wr_pu_id_count = NUM_PU - 1 THEN 0 ELSE wr_pu_id_count + 1
    BY <1>5, <2>1 DEF Edge, WrPuId, Counted
  <2>8. wr_pu_id_count' = stream_wr_count' % NUM_PU
    <3>1. stream_wr_count \in Nat /\ NUM_PU \in Nat \ {0}
      BY <1>1
    <3>2. (stream_wr_count + 1) % NUM_PU =
            IF stream_wr_count % NUM_PU = NUM_PU - 1 THEN 0 ELSE (stream_wr_count % NUM_PU) + 1
      BY ONLY <3>1, NextInTurn
    <3>3. QED BY ONLY <2>2, <2>4, <2>7, <3>2
  <2>9. wr_ready_axi'[0] = FALSE
    BY <1>5, OneMasterEdge
  <2>10. QED BY <1>3, <1>5, <2>6, <2>8, <2>9 DEF NextWriteInv
<1>6. CASE wr_state' = WR_BUSY /\ wr_state = WR_BUSY /\ ~wr_req
  <2>1. write_cfg = w /\ ~write_idx_inc
    BY <1>2, <1>6 DEF write_idx_inc
  <2>2. stream_wr_count' = stream_wr_count /\ wr_addr' = wr_addr
        /\ wr_pu_id_count' = wr_pu_id_count
    BY <1>6, <2>1 DEF Edge, WriteCounters, WrPuId, Counted
  <2>3. wr_pu_id' = wr_pu_id
    BY <1>3, <2>1, <2>2 DEF wr_pu_id
  <2>4. wr_ready_axi'[0] => unissued[wr_pu_id] = NONE
    BY OneMasterEdge
  <2>5. wr_ready_axi'[0] => unissued'[wr_pu_id] = NONE
    BY <1>1, <1>6, <2>4, OneMasterEdge
  <2>6. QED BY <1>3, <1>6, <2>1, <2>2, <2>3, <2>5 DEF NextWriteInv
<1>7. CASE wr_state' \in {WR_IDLE, WR_RD_CFG}
  <2>1. wr_state = WR_WAIT_DONE => write_idx_inc
    BY <1>7 DEF Edge, WrState, write_idx_inc
  <2>2. wr_state # WR_WAIT_DONE => wr_state \in {WR_IDLE, WR_RD_CFG} /\ ~wr_req
    BY <1>1, <1>7 DEF Edge, WrState, wr_req
  <2>3. wr_pu_id_count' = 0
    BY <2>1, <2>2 DEF Edge, WrPuId, Counted, NextWriteInv
  <2>4. QED BY <1>7, <2>3 DEF NextWriteInv
<1>8. QED BY <1>4, <1>5, <1>6, <1>7 DEF NextWriteInv

\* Every step preserves the invariant.
LEMMA StepPreserves == OneMaster /\ IInv /\ [NextOrReset]_vars => IInv'
<1> SUFFICES ASSUME OneMaster, IInv, [NextOrReset]_vars PROVE IInv'
  OBVIOUS
<1>1. TypeInv /\ PulseInv /\ OwnerInv /\ ThrottleInv /\ NextWriteInv /\ TypeInv'
  BY TypesInductive DEF IInv
<1>2. CASE Next
  <2>1. PICK start \in BOOLEAN, rd_ready \in BOOLEAN, issuing \in Issuing,
             moving \in SUBSET AXI : Edge(start, rd_ready, issuing, moving)
    BY <1>2 DEF Next
  <2>2. PulseInv' /\ OwnerInv' /\ ThrottleInv' /\ NextWriteInv'
    BY <1>1, <2>1, PulsePreserved, OwnerPreserved, ThrottlePreserved, NextWritePreserved
  <2>3. QED BY <1>1, <2>2 DEF IInv
<1>3. CASE Reset
  BY <1>1, <1>3, ResetEstablishes
<1>4. CASE UNCHANGED vars
  <2>1. PulseInv' /\ OwnerInv' /\ ThrottleInv'
    BY <1>1, <1>4
    DEF vars, rvars, wvars, avars, PulseInv, OwnerInv, ThrottleInv, Sent, AllFree,
        Rising, Local, Sticky, Over, Pulse, Silent
  <2>2. NextWriteInv'
    BY <1>1, <1>4 DEF vars, rvars, wvars, avars, NextWriteInv, wr_pu_id
  <2>3. QED BY <1>1, <2>1, <2>2 DEF IInv
<1>5. QED BY <1>2, <1>3, <1>4 DEF NextOrReset

\* With one master, the invariant holds throughout.
LEMMA Invariant ==
  ASSUME OneMaster
  PROVE  Spec => []IInv
<1>1. Init => IInv
  BY InitEstablishes
<1>2. IInv /\ [NextOrReset]_vars => IInv'
  BY StepPreserves
<1>3. QED BY <1>1, <1>2, PTL DEF Spec

-----------------------------------------------------------------------------
(* The theorems. *)

\* For every network, number of units and time a master takes to send: a layer
\* is counted as written only when its last beat has left the master.
THEOREM CountedIsWrittenHolds ==
  ASSUME OneMaster
  PROVE  Spec => []CountedIsWritten
<1>1. IInv => CountedIsWritten
  <2> SUFFICES ASSUME IInv, write_idx_inc
               PROVE  /\ \A i \in PU : unissued[i] = NONE
                      /\ \A g \in AXI : sending[g] = <<>>
    BY DEF CountedIsWritten
  <2>1. TypeInv /\ PulseInv
    BY DEF IInv
  <2>2. Sent
    BY <2>1, CountedOnSent
  <2>3. AXI = {0}
    BY <2>1, OneMasterWires
  <2>4. QED BY <2>2, <2>3 DEF Sent, AllFree
<1>2. QED BY <1>1, Invariant, PTL

\* For every network, number of units and time a master takes to send: when a
\* layer is read, the results of the layers below it have left the master.
THEOREM ReadAfterWriteHolds ==
  ASSUME OneMaster
  PROVE  Spec => []ReadAfterWrite
<1>1. IInv => ReadAfterWrite
  <2> SUFFICES ASSUME IInv, rd_req(TRUE)
               PROVE  /\ \A i \in PU : unissued[i] # NONE => unissued[i] >= rd_cfg_idx
                      /\ \A g \in AXI : sending[g] # <<>> => sending[g][1] >= rd_cfg_idx
    BY DEF ReadAfterWrite
  <2>1. TypeInv /\ OwnerInv /\ ThrottleInv
    BY DEF IInv
  <2>2. AXI = {0}
    BY <2>1, OneMasterWires
  <2>3. rd_state \in {BUSY_BUFFER, BUSY_STREAM} /\ ~read_throttle_d
    BY DEF rd_req, loop0_inc, buffer_rd_count_inc
  <2>4. CASE Sent
    BY <2>2, <2>4 DEF Sent, AllFree
  <2>5. CASE rd_cfg_idx <= wr_cfg_idx
    <3>1. rd_cfg_idx \in 0 .. cfg_idx_max /\ wr_cfg_idx \in 0 .. cfg_idx_max
          /\ cfg_idx_max \in Nat
      BY <2>1, SetupTypes DEF TypeInv, TypeOK
    <3>2. QED BY <2>1, <2>2, <2>5, <3>1 DEF OwnerInv
  <2>6. QED BY <2>1, <2>3, <2>4, <2>5 DEF ThrottleInv
<1>2. QED BY <1>1, Invariant, PTL

\* For every network and number of units: a write request goes to a free unit,
\* the next in turn, with the address of its place in the layer.
THEOREM WriteIsRightHolds ==
  ASSUME OneMaster
  PROVE  Spec => []WriteIsRight
<1>1. IInv => WriteIsRight
  <2> DEFINE w == setup.write[wr_cfg_idx]
  <2> SUFFICES ASSUME IInv, wr_req
               PROVE  /\ wr_addr = w.base + w.offset * stream_wr_count
                      /\ write_cfg.size = w.size
                      /\ wr_pu_id = IF w.l_type = 2 THEN 0 ELSE stream_wr_count % NUM_PU
                      /\ unissued[wr_pu_id] = NONE
    BY DEF WriteIsRight
  <2>1. TypeInv /\ NextWriteInv
    BY DEF IInv
  <2>2. wr_state = WR_BUSY /\ wr_ready_axi[0]
    BY <2>1, OneMasterWires DEF wr_req
  <2>3. write_cfg = w
    BY <2>1, <2>2 DEF TypeInv, WriteRomInv
  <2>4. /\ wr_addr = write_cfg.base + write_cfg.offset * stream_wr_count
        /\ wr_pu_id_count = stream_wr_count % NUM_PU
        /\ unissued[wr_pu_id] = NONE
    BY <2>1, <2>2 DEF NextWriteInv
  <2>5. wr_pu_id = IF w.l_type = 2 THEN 0 ELSE stream_wr_count % NUM_PU
    BY <2>3, <2>4 DEF wr_pu_id
  <2>6. QED BY <2>3, <2>4, <2>5
<1>2. QED BY <1>1, Invariant, PTL

-----------------------------------------------------------------------------
(* Which layer is read and which is written, with one master. *)

\* The layer being written has been read, or is being read, and when it is being
\* read it is not counted as written: one of its requests waits for results.
TurnInv ==
  /\ rd_state = IDLE => /\ rd_cfg_idx = 0 /\ buffer_rd_count = 0
                        /\ stream_rd_loop0_count = 0 /\ stream_rd_loop1_count = 0
                        /\ stream_rd_loop2_count = 0
  /\ rd_state # IDLE => layers_read = rd_cfg_idx
  /\ may_start => rd_state = IDLE /\ layers_read = 0
  /\ wr_cfg_idx <= layers_read
  /\ wr_state = WR_WAIT_DONE /\ layers_read <= wr_cfg_idx => ~AllFree
  /\ rd_state \in {BUSY_BUFFER, BUSY_STREAM} /\ ~read_throttle_d =>
       rd_cfg_idx <= wr_cfg_idx

-----------------------------------------------------------------------------
(* The address and the size of the next read request. *)

layer == setup.read[rd_cfg_idx]

\* Where the loops stand.
pass == stream_rd_loop0_count + (layer.max_0 + 1) * stream_rd_loop1_count
BufferAt == layer.buffer_base + layer.buffer_offset * pass
Loop2At == layer.stream_base + layer.offset_2 * stream_rd_loop2_count
Loop1At == Loop2At + layer.offset_1 * stream_rd_loop1_count
StreamAt == Loop1At + layer.offset_0 * stream_rd_loop0_count

\* The first and the later edges of a state.
Entered(s) == rd_state = s /\ rd_state_d # s
Settled(s) == rd_state = s /\ rd_state_d = s

\* A layer has just been begun and may not be read before the one below it is
\* written: there is time for the ROM and the loops.
Early ==
  /\ stream_rd_loop0_count = 0 /\ stream_rd_loop1_count = 0
  /\ stream_rd_loop2_count = 0
  /\ read_throttle

\* The ROM's output lags only then.
LateInv ==
  /\ Entered(RD_CFG_BUFFER) =>
       rd_cfg = layer \/ (Early /\ ~write_idx_inc)
  /\ Settled(RD_CFG_BUFFER) => rd_cfg = layer
  /\ rd_state = BUSY_BUFFER => rd_state_d \in {RD_CFG_BUFFER, BUSY_BUFFER}
  /\ rd_state = BUSY_STREAM => rd_state_d \in {RD_CFG_STREAM, BUSY_STREAM}

LoopInv ==
  /\ Entered(RD_CFG_BUFFER) => stream_rd_loop2_count = 0 \/ stream_rd_loop2_addr = Loop2At
  /\ Settled(RD_CFG_BUFFER) =>
       stream_rd_loop2_addr = Loop2At \/ Early
  /\ rd_state \in {BUSY_BUFFER, RD_CFG_STREAM, BUSY_STREAM} => stream_rd_loop2_addr = Loop2At
  /\ rd_state # IDLE /\ stream_rd_loop1_count # 0 => stream_rd_loop1_addr = Loop1At
  /\ Entered(BUSY_BUFFER) => stream_rd_loop1_addr = Loop1At \/ read_throttle_d
  /\ Settled(BUSY_BUFFER) \/ rd_state \in {RD_CFG_STREAM, BUSY_STREAM} =>
       stream_rd_loop1_addr = Loop1At
  /\ rd_state # IDLE /\ stream_rd_loop0_count # 0 => stream_read_address = StreamAt
  /\ Settled(RD_CFG_STREAM) \/ rd_state = BUSY_STREAM => stream_read_address = StreamAt

StreamRequestInv ==
  /\ Settled(RD_CFG_STREAM) \/ rd_state = BUSY_STREAM => rd_req_size = layer.stream_size
  /\ rd_state = BUSY_STREAM => rd_addr = StreamAt

BufferRequestInv ==
  layer.l_type # 2 =>
    /\ Entered(RD_CFG_BUFFER) =>
         \/ stream_rd_loop0_count = 0 /\ stream_rd_loop1_count = 0
         \/ buffer_read_address = BufferAt
    /\ Settled(RD_CFG_BUFFER) => buffer_read_address = BufferAt \/ Early
    /\ rd_state = BUSY_BUFFER => buffer_read_address = BufferAt
    /\ rd_state \in {RD_CFG_STREAM, BUSY_STREAM} =>
         buffer_read_address = BufferAt + layer.buffer_offset
    /\ Entered(BUSY_BUFFER) => rd_addr = BufferAt \/ read_throttle_d
    /\ Settled(BUSY_BUFFER) => rd_addr = BufferAt
    /\ rd_state = BUSY_BUFFER => rd_req_size = layer.buffer_size

ReadInv == TurnInv /\ LateInv /\ LoopInv /\ StreamRequestInv /\ BufferRequestInv

-----------------------------------------------------------------------------
(* Every edge keeps the order of the layers. *)

\* The numbers the order is about.
LEMMA TurnTypes ==
  ASSUME TypeInv
  PROVE  /\ cfg_idx_max \in Nat /\ setup.layers = cfg_idx_max + 1
         /\ rd_cfg_idx \in 0 .. cfg_idx_max /\ wr_cfg_idx \in 0 .. cfg_idx_max
         /\ layers_read \in 0 .. cfg_idx_max + 1
         /\ rd_state \in 0 .. 4 /\ wr_state \in 0 .. 3
         /\ read_throttle_d \in BOOLEAN /\ may_start \in BOOLEAN
<1>1. setup.layers \in Nat \ {0} /\ cfg_idx_max \in Nat
  BY SetupTypes DEF TypeInv, TypeOK
<1>2. setup.layers = cfg_idx_max + 1
  BY <1>1 DEF cfg_idx_max
<1>3. QED BY <1>1, <1>2 DEF TypeInv, TypeOK

\* A layer is counted as written after it has been read.
LEMMA CountedAfterRead ==
  ASSUME OneMaster, TypeInv, PulseInv, TurnInv, write_idx_inc
  PROVE  /\ wr_cfg_idx < layers_read
         /\ done => rd_state = IDLE /\ ~may_start
<1>1. wr_cfg_idx < layers_read
  <2>1. Sent /\ wr_state = WR_WAIT_DONE
    BY CountedOnSent DEF write_idx_inc
  <2>2. ~(layers_read <= wr_cfg_idx)
    BY <2>1 DEF Sent, TurnInv
  <2>3. QED BY <2>2, TurnTypes
<1>2. done => layers_read = cfg_idx_max + 1
  BY <1>1, TurnTypes DEF done
<1>3. QED BY <1>1, <1>2, TurnTypes DEF TurnInv

\* The read of a layer ends while it is being written.
LEMMA ReadEndsInTurn ==
  ASSUME OneMaster, TypeInv, PulseInv, TurnInv, NEW rd_ready \in BOOLEAN,
         read_idx_inc(rd_ready)
  PROVE  /\ rd_state = BUSY_STREAM /\ ~read_throttle_d
         /\ wr_cfg_idx = rd_cfg_idx /\ layers_read = rd_cfg_idx
         /\ ~write_idx_inc
<1>1. rd_state = BUSY_STREAM /\ ~read_throttle_d
  BY DEF read_idx_inc, loop2_inc, loop1_inc, loop0_inc
<1>2. rd_cfg_idx <= wr_cfg_idx /\ layers_read = rd_cfg_idx /\ wr_cfg_idx <= layers_read
  BY <1>1 DEF TurnInv
<1>3. wr_cfg_idx = rd_cfg_idx
  <2>1. wr_cfg_idx \in Int /\ rd_cfg_idx \in Int
    BY TurnTypes
  <2>2. QED BY <1>2, <2>1
<1>4. ~write_idx_inc
  BY <1>2, <1>3, TurnTypes, CountedAfterRead
<1>5. QED BY <1>1, <1>2, <1>3, <1>4

\* As long as a layer is being read one of the last requests of it waits.
LEMMA LastWaits ==
  ASSUME OneMaster, TypeInv, PulseInv, OwnerInv, NEW start \in BOOLEAN,
         NEW rd_ready \in BOOLEAN, NEW issuing \in Issuing, NEW moving \in SUBSET AXI,
         Edge(start, rd_ready, issuing, moving),
         wr_state = WR_WAIT_DONE, layers_read <= wr_cfg_idx, ~AllFree
  PROVE  ~AllFree'
<1>1. unissued' = [i \in PU |->
        IF wr_req /\ wr_pu_id = i THEN wr_cfg_idx
        ELSE IF i \in issuing THEN NONE ELSE unissued[i]]
  BY DEF Edge, Writes
<1>2. ~wr_req
  BY DEF wr_req
<1>3. PICK j \in PU : unissued[j] # NONE
  BY DEF AllFree
<1>4. unissued[j] = wr_cfg_idx
  BY <1>3 DEF OwnerInv
<1>5. \E i \in PU : i \notin issuing /\ unissued[i] # NONE
  <2> DEFINE asked == {i \in PU : unissued[i] # NONE}
             unread == {i \in asked : layers_read <= unissued[i]}
  <2>1. j \in unread
    BY <1>3, <1>4
  <2>2. issuing \cap unread # {} => unread \ issuing # {}
    BY DEF Issuing
  <2>3. unread \subseteq PU /\ \A i \in unread : unissued[i] # NONE
    OBVIOUS
  <2> HIDE DEF unread
  <2>4. QED BY <2>1, <2>2, <2>3
<1>6. QED BY <1>1, <1>2, <1>5 DEF AllFree

\* Every edge keeps the order.
LEMMA TurnKept ==
  ASSUME OneMaster, TypeInv, PulseInv, OwnerInv, TurnInv, ReadRomInv,
         NEW start \in BOOLEAN, NEW rd_ready \in BOOLEAN, start => may_start,
         NEW issuing \in Issuing, NEW moving \in SUBSET AXI,
         Edge(start, rd_ready, issuing, moving)
  PROVE  TurnInv'
<1> DEFINE inc == read_idx_inc(rd_ready)
<1>1. /\ cfg_idx_max \in Nat /\ setup.layers = cfg_idx_max + 1
      /\ rd_cfg_idx \in 0 .. cfg_idx_max /\ wr_cfg_idx \in 0 .. cfg_idx_max
      /\ layers_read \in 0 .. cfg_idx_max + 1
      /\ rd_state \in 0 .. 4 /\ wr_state \in 0 .. 3
      /\ read_throttle_d \in BOOLEAN /\ may_start \in BOOLEAN
  BY TurnTypes
<1>2. /\ rd_cfg_idx' = Counted(rd_cfg_idx, inc, cfg_idx_max)
      /\ wr_cfg_idx' = Counted(wr_cfg_idx, write_idx_inc, cfg_idx_max)
      /\ layers_read' = IF done THEN 0 ELSE Counted(layers_read, inc, setup.layers)
      /\ may_start' <=> (done \/ (may_start /\ ~start))
  <2>1. may_start' = (done \/ (may_start /\ ~start))
    BY DEF Edge, Progress
  <2>2. may_start' <=> (done \/ (may_start /\ ~start))
    BY <2>1, Zenon
  <2>3. QED BY <2>2 DEF Edge, Progress, ReadCounters, WriteCounters
<1>3. /\ rd_state = IDLE => rd_state' = IF start THEN RD_CFG_BUFFER ELSE IDLE
      /\ rd_state # IDLE => (rd_state' = IDLE <=> inc /\ rd_cfg_idx = cfg_idx_max)
  BY <1>1 DEF Edge, RdState, read_idx_inc, loop2_inc, loop1_inc, loop0_inc
<1>4. inc => /\ rd_state = BUSY_STREAM /\ ~read_throttle_d
             /\ wr_cfg_idx = rd_cfg_idx /\ layers_read = rd_cfg_idx
             /\ ~write_idx_inc
  BY ReadEndsInTurn
<1>5. write_idx_inc => /\ wr_cfg_idx < layers_read
                       /\ done => rd_state = IDLE /\ ~may_start
  BY CountedAfterRead
<1>6. done => write_idx_inc /\ wr_cfg_idx = cfg_idx_max
  BY DEF done
<1>7. /\ rd_state = IDLE => rd_cfg_idx = 0
      /\ rd_state # IDLE => layers_read = rd_cfg_idx
      /\ may_start => rd_state = IDLE /\ layers_read = 0
      /\ wr_cfg_idx <= layers_read
  BY DEF TurnInv
<1> HIDE DEF inc
<1>8. rd_state' # IDLE => layers_read' = rd_cfg_idx'
  BY <1>1, <1>2, <1>3, <1>4, <1>5, <1>6, <1>7 DEF Counted
<1>9. may_start' => rd_state' = IDLE /\ layers_read' = 0
  BY <1>1, <1>2, <1>3, <1>4, <1>5, <1>6, <1>7 DEF Counted
<1>10. wr_cfg_idx' <= layers_read'
  BY <1>1, <1>2, <1>4, <1>5, <1>6, <1>7 DEF Counted, done
<1>11. rd_state' = IDLE =>
         /\ rd_cfg_idx' = 0 /\ buffer_rd_count' = 0 /\ stream_rd_loop0_count' = 0
         /\ stream_rd_loop1_count' = 0 /\ stream_rd_loop2_count' = 0
  <2>1. CASE rd_state = IDLE
    <3>1. /\ ~inc /\ ~buffer_rd_count_inc(rd_ready) /\ ~loop0_inc(rd_ready)
          /\ ~loop1_inc(rd_ready) /\ ~loop2_inc(rd_ready)
      BY <2>1 DEF inc, buffer_rd_count_inc, read_idx_inc, loop2_inc, loop1_inc, loop0_inc
    <3>2. /\ rd_cfg_idx' = rd_cfg_idx /\ buffer_rd_count' = buffer_rd_count
          /\ stream_rd_loop0_count' = stream_rd_loop0_count
          /\ stream_rd_loop1_count' = stream_rd_loop1_count
          /\ stream_rd_loop2_count' = stream_rd_loop2_count
      BY <1>2, <3>1 DEF Edge, ReadCounters, Counted
    <3>3. QED BY <2>1, <3>2 DEF TurnInv
  <2>2. CASE rd_state # IDLE
    <3> SUFFICES ASSUME inc, rd_cfg_idx = cfg_idx_max
                 PROVE  /\ rd_cfg_idx' = 0 /\ buffer_rd_count' = 0
                        /\ stream_rd_loop0_count' = 0
                        /\ stream_rd_loop1_count' = 0 /\ stream_rd_loop2_count' = 0
      BY <1>3, <2>2
    <3>1. /\ loop0_inc(rd_ready) /\ stream_rd_loop0_count = rd_cfg.max_0
          /\ loop1_inc(rd_ready) /\ stream_rd_loop1_count = rd_cfg.max_1
          /\ loop2_inc(rd_ready) /\ stream_rd_loop2_count = rd_cfg.max_2
      BY DEF inc, read_idx_inc, loop2_inc, loop1_inc
    <3>2. buffer_rd_count = 0 /\ ~buffer_rd_count_inc(rd_ready)
      BY <1>4 DEF ReadRomInv, buffer_rd_count_inc
    <3>3. QED BY <1>2, <3>1, <3>2 DEF Edge, ReadCounters, Counted
  <2>3. QED BY <2>1, <2>2
<1>12. wr_state' = WR_WAIT_DONE /\ layers_read' <= wr_cfg_idx' => ~AllFree'
  <2> SUFFICES ASSUME wr_state' = WR_WAIT_DONE, layers_read' <= wr_cfg_idx'
               PROVE  ~AllFree'
    OBVIOUS
  <2>1. \/ wr_state = WR_BUSY /\ wr_req
        \/ wr_state = WR_WAIT_DONE /\ ~wr_done
    BY <1>1 DEF Edge, WrState
  <2>2. CASE wr_state = WR_BUSY /\ wr_req
    BY <2>2, OneMasterEdge
  <2>3. CASE wr_state = WR_WAIT_DONE /\ ~wr_done
    <3>1. ~write_idx_inc /\ ~done
      BY <2>3 DEF write_idx_inc, done
    <3>2. layers_read <= wr_cfg_idx
      BY <1>1, <1>2, <1>4, <3>1 DEF Counted
    <3>3. ~AllFree
      BY <2>3, <3>2 DEF TurnInv
    <3>4. QED BY <2>3, <3>2, <3>3, LastWaits
  <2>4. QED BY <2>1, <2>2, <2>3
<1>13. rd_state' \in {BUSY_BUFFER, BUSY_STREAM} /\ ~read_throttle_d' =>
         rd_cfg_idx' <= wr_cfg_idx'
  <2> SUFFICES ASSUME rd_state' \in {BUSY_BUFFER, BUSY_STREAM}, ~read_throttle_d'
               PROVE  rd_cfg_idx' <= wr_cfg_idx'
    OBVIOUS
  <2>1. ~read_throttle
    BY Zenon DEF Edge, ReadCounters
  <2>2. rd_cfg_idx <= wr_cfg_idx
    BY <1>1, <2>1 DEF read_throttle
  <2>3. ~inc /\ rd_state # IDLE
    <3>1. rd_state = BUSY_STREAM => ~loop0_inc(rd_ready)
      BY DEF Edge, RdState
    <3>2. QED BY <1>3, <3>1 DEF inc, read_idx_inc, loop2_inc, loop1_inc, loop0_inc
  <2>4. ~done
    BY <1>5, <1>6, <2>3
  <2>5. QED BY <1>1, <1>2, <1>6, <2>2, <2>3, <2>4 DEF Counted, done
<1>14. QED BY <1>8, <1>9, <1>10, <1>11, <1>12, <1>13 DEF TurnInv

-----------------------------------------------------------------------------
(* Every edge keeps the requests with the loops. *)

\* What is there of the layer being read.
LEMMA LayerTypes ==
  ASSUME TypeInv
  PROVE  /\ layer \in ReadConfigs
         /\ stream_rd_loop0_count \in 0 .. layer.max_0
         /\ stream_rd_loop1_count \in 0 .. layer.max_1
         /\ stream_rd_loop2_count \in 0 .. layer.max_2
         /\ buffer_rd_count \in 0 .. layer.buffer_max
         /\ layer.max_0 \in Nat /\ layer.max_1 \in Nat /\ layer.max_2 \in Nat
         /\ layer.buffer_max \in Nat
         /\ layer.stream_base \in Nat /\ layer.buffer_base \in Nat
         /\ layer.offset_0 \in Nat /\ layer.offset_1 \in Nat /\ layer.offset_2 \in Nat
         /\ layer.buffer_offset \in Nat
         /\ layer.buffer_max > 0 => layer.l_type = 2 \/ layer.buffer_offset = 0
<1>1. /\ setup \in Setups /\ rd_cfg_idx \in 0 .. cfg_idx_max
      /\ stream_rd_loop0_count \in 0 .. layer.max_0
      /\ stream_rd_loop1_count \in 0 .. layer.max_1
      /\ stream_rd_loop2_count \in 0 .. layer.max_2
      /\ buffer_rd_count \in 0 .. layer.buffer_max
  BY DEF TypeInv, TypeOK, layer
<1>2. layer \in ReadConfigs /\ (layer.buffer_max > 0 => layer.l_type = 2 \/ layer.buffer_offset = 0)
  BY <1>1 DEF layer, cfg_idx_max
<1>3. QED BY <1>1, <1>2 DEF ReadConfigs

\* The places in the loops, at the first pass of each.
LEMMA Starts ==
  ASSUME TypeInv
  PROVE  /\ Loop2At \in Nat /\ Loop1At \in Nat /\ StreamAt \in Nat /\ BufferAt \in Nat
         /\ stream_rd_loop2_count = 0 => Loop2At = layer.stream_base
         /\ stream_rd_loop1_count = 0 => Loop1At = Loop2At
         /\ stream_rd_loop0_count = 0 => StreamAt = Loop1At
         /\ stream_rd_loop0_count = 0 /\ stream_rd_loop1_count = 0 =>
              BufferAt = layer.buffer_base
<1> DEFINE c0 == stream_rd_loop0_count
           c1 == stream_rd_loop1_count
           c2 == stream_rd_loop2_count
<1>1. /\ c0 \in Nat /\ c1 \in Nat /\ c2 \in Nat
      /\ layer.stream_base \in Nat /\ layer.buffer_base \in Nat
      /\ layer.offset_0 \in Nat /\ layer.offset_1 \in Nat /\ layer.offset_2 \in Nat
      /\ layer.buffer_offset \in Nat /\ layer.max_0 \in Nat
  BY LayerTypes
<1>2. /\ layer.offset_2 * c2 \in Nat /\ layer.offset_1 * c1 \in Nat
      /\ layer.offset_0 * c0 \in Nat /\ (layer.max_0 + 1) * c1 \in Nat
      /\ layer.offset_2 * 0 = 0 /\ layer.offset_1 * 0 = 0
      /\ layer.offset_0 * 0 = 0 /\ layer.buffer_offset * 0 = 0 /\ (layer.max_0 + 1) * 0 = 0
  BY <1>1
<1>3. pass \in Nat /\ (c0 = 0 /\ c1 = 0 => pass = 0)
  BY <1>1, <1>2 DEF pass
<1>4. layer.buffer_offset * pass \in Nat
  BY <1>1, <1>3
<1>5. /\ Loop2At = layer.stream_base + layer.offset_2 * c2
      /\ Loop1At = Loop2At + layer.offset_1 * c1
      /\ StreamAt = Loop1At + layer.offset_0 * c0
      /\ BufferAt = layer.buffer_base + layer.buffer_offset * pass
  BY DEF Loop2At, Loop1At, StreamAt, BufferAt
<1>6. Loop2At \in Nat /\ Loop1At \in Nat /\ StreamAt \in Nat /\ BufferAt \in Nat
  BY <1>1, <1>2, <1>4, <1>5
<1>7. c2 = 0 => Loop2At = layer.stream_base
  <2> SUFFICES ASSUME c2 = 0 PROVE Loop2At = layer.stream_base
    OBVIOUS
  <2>1. layer.offset_2 * c2 = 0
    BY <1>2
  <2> HIDE DEF c2
  <2>2. QED BY <1>1, <1>5, <2>1
<1>8. c1 = 0 => Loop1At = Loop2At
  <2> SUFFICES ASSUME c1 = 0 PROVE Loop1At = Loop2At
    OBVIOUS
  <2>1. layer.offset_1 * c1 = 0
    BY <1>2
  <2> HIDE DEF c1
  <2>2. QED BY <1>6, <1>5, <2>1
<1>9. c0 = 0 => StreamAt = Loop1At
  <2> SUFFICES ASSUME c0 = 0 PROVE StreamAt = Loop1At
    OBVIOUS
  <2>1. layer.offset_0 * c0 = 0
    BY <1>2
  <2> HIDE DEF c0
  <2>2. QED BY <1>6, <1>5, <2>1
<1>10. c0 = 0 /\ c1 = 0 => BufferAt = layer.buffer_base
  <2> SUFFICES ASSUME c0 = 0, c1 = 0 PROVE BufferAt = layer.buffer_base
    OBVIOUS
  <2>1. pass = 0
    BY <1>3
  <2>2. layer.buffer_offset * pass = 0
    BY <1>2, <2>1
  <2>3. QED BY <1>1, <1>5, <2>2
<1>11. QED BY <1>6, <1>7, <1>8, <1>9, <1>10

\* An edge on which no loop goes on leaves the places where they are.
LEMMA LoopsRest ==
  ASSUME TypeInv, NEW start \in BOOLEAN, NEW rd_ready \in BOOLEAN,
         NEW issuing \in Issuing, NEW moving \in SUBSET AXI,
         Edge(start, rd_ready, issuing, moving), ~loop0_inc(rd_ready)
  PROVE  /\ stream_rd_loop0_count' = stream_rd_loop0_count
         /\ stream_rd_loop1_count' = stream_rd_loop1_count
         /\ stream_rd_loop2_count' = stream_rd_loop2_count
         /\ rd_cfg_idx' = rd_cfg_idx /\ layer' = layer /\ rd_cfg' = layer
         /\ Loop2At' = Loop2At /\ Loop1At' = Loop1At /\ StreamAt' = StreamAt
         /\ BufferAt' = BufferAt
<1>1. ~loop1_inc(rd_ready) /\ ~loop2_inc(rd_ready) /\ ~read_idx_inc(rd_ready)
  BY DEF read_idx_inc, loop2_inc, loop1_inc
<1>2. /\ stream_rd_loop0_count' = stream_rd_loop0_count
      /\ stream_rd_loop1_count' = stream_rd_loop1_count
      /\ stream_rd_loop2_count' = stream_rd_loop2_count
      /\ rd_cfg_idx' = rd_cfg_idx /\ setup' = setup
  BY <1>1 DEF Edge, ReadCounters, Counted
<1>3. layer' = layer /\ rd_cfg' = layer
  BY <1>2 DEF Edge, ReadCounters, layer
<1>4. Loop2At' = Loop2At
  BY <1>2, <1>3 DEF Loop2At
<1>5. Loop1At' = Loop1At
  BY <1>2, <1>3, <1>4 DEF Loop1At
<1>6. StreamAt' = StreamAt
  BY <1>2, <1>3, <1>5 DEF StreamAt
<1>7. BufferAt' = BufferAt
  BY <1>2, <1>3 DEF BufferAt, pass
<1>8. QED BY <1>2, <1>3, <1>4, <1>5, <1>6, <1>7

\* An edge on which a stream request goes out moves the innermost loop that is
\* not at its end, and restarts those within it.
LEMMA LoopsGoOn ==
  ASSUME TypeInv, NEW start \in BOOLEAN, NEW rd_ready \in BOOLEAN,
         NEW issuing \in Issuing, NEW moving \in SUBSET AXI,
         Edge(start, rd_ready, issuing, moving), loop0_inc(rd_ready)
  PROVE  /\ rd_state = BUSY_STREAM /\ ~read_throttle_d /\ rd_cfg = layer
         /\ rd_state' = IDLE \/ Entered(RD_CFG_BUFFER)'
         /\ \/ /\ ~loop1_inc(rd_ready) /\ ~loop2_inc(rd_ready) /\ ~read_idx_inc(rd_ready)
               /\ layer' = layer /\ rd_cfg' = layer
               /\ stream_rd_loop0_count' = stream_rd_loop0_count + 1
               /\ stream_rd_loop1_count' = stream_rd_loop1_count
               /\ stream_rd_loop2_count' = stream_rd_loop2_count
            \/ /\ loop1_inc(rd_ready) /\ ~loop2_inc(rd_ready) /\ ~read_idx_inc(rd_ready)
               /\ layer' = layer /\ rd_cfg' = layer
               /\ stream_rd_loop0_count = layer.max_0 /\ stream_rd_loop0_count' = 0
               /\ stream_rd_loop1_count' = stream_rd_loop1_count + 1
               /\ stream_rd_loop2_count' = stream_rd_loop2_count
            \/ /\ loop1_inc(rd_ready) /\ loop2_inc(rd_ready) /\ ~read_idx_inc(rd_ready)
               /\ layer' = layer /\ rd_cfg' = layer
               /\ stream_rd_loop0_count' = 0 /\ stream_rd_loop1_count' = 0
               /\ stream_rd_loop2_count' = stream_rd_loop2_count + 1
            \/ /\ read_idx_inc(rd_ready)
               /\ stream_rd_loop0_count' = 0 /\ stream_rd_loop1_count' = 0
               /\ stream_rd_loop2_count' = 0
<1>1. rd_state = BUSY_STREAM /\ ~read_throttle_d
  BY DEF loop0_inc
<1>2. rd_cfg = layer
  BY <1>1 DEF TypeInv, ReadRomInv, layer
<1>3. rd_state' = IDLE \/ Entered(RD_CFG_BUFFER)'
  BY <1>1 DEF Edge, RdState, Entered
<1>4. /\ stream_rd_loop0_count' = Counted(stream_rd_loop0_count, TRUE, layer.max_0)
      /\ stream_rd_loop1_count' =
           Counted(stream_rd_loop1_count, loop1_inc(rd_ready), layer.max_1)
      /\ stream_rd_loop2_count' =
           Counted(stream_rd_loop2_count, loop2_inc(rd_ready), layer.max_2)
      /\ rd_cfg_idx' = Counted(rd_cfg_idx, read_idx_inc(rd_ready), cfg_idx_max)
      /\ rd_cfg' = layer /\ setup' = setup
  BY <1>2 DEF Edge, ReadCounters, layer, Counted
<1>5. /\ loop1_inc(rd_ready) <=> stream_rd_loop0_count = layer.max_0
      /\ loop2_inc(rd_ready) <=> loop1_inc(rd_ready) /\ stream_rd_loop1_count = layer.max_1
      /\ read_idx_inc(rd_ready) <=> loop2_inc(rd_ready) /\ stream_rd_loop2_count = layer.max_2
  BY <1>2 DEF read_idx_inc, loop2_inc, loop1_inc
<1>6. ~read_idx_inc(rd_ready) => layer' = layer
  BY <1>4 DEF Counted, layer
<1>7. CASE ~loop1_inc(rd_ready)
  BY <1>1, <1>2, <1>3, <1>4, <1>5, <1>6, <1>7 DEF Counted
<1>8. CASE loop1_inc(rd_ready) /\ ~loop2_inc(rd_ready)
  BY <1>1, <1>2, <1>3, <1>4, <1>5, <1>6, <1>8 DEF Counted
<1>9. CASE loop2_inc(rd_ready) /\ ~read_idx_inc(rd_ready)
  BY <1>1, <1>2, <1>3, <1>4, <1>5, <1>6, <1>9 DEF Counted
<1>10. CASE read_idx_inc(rd_ready)
  BY <1>1, <1>2, <1>3, <1>4, <1>5, <1>10 DEF Counted
<1>11. QED BY <1>5, <1>7, <1>8, <1>9, <1>10

\* On every edge the ROM's output lags behind the index only early in a layer.
LEMMA LateKept ==
  ASSUME OneMaster, TypeInv, PulseInv, OwnerInv, TurnInv, LateInv, TypeInv', PulseInv',
         NEW start \in BOOLEAN, NEW rd_ready \in BOOLEAN,
         NEW issuing \in Issuing, NEW moving \in SUBSET AXI,
         Edge(start, rd_ready, issuing, moving)
  PROVE  LateInv'
<1>1. rd_state_d' = rd_state /\ rd_state \in 0 .. 4
  BY DEF Edge, RdState, TypeInv, TypeOK
<1>2. Entered(RD_CFG_BUFFER)' => rd_cfg' = layer' \/ (Early' /\ ~write_idx_inc')
  <2>1. CASE ~loop0_inc(rd_ready)
    BY <2>1, LoopsRest
  <2>2. CASE loop0_inc(rd_ready) /\ ~read_idx_inc(rd_ready)
    BY <2>2, LoopsGoOn
  <2>3. CASE loop0_inc(rd_ready) /\ read_idx_inc(rd_ready)
    <3> SUFFICES ASSUME Entered(RD_CFG_BUFFER)' PROVE Early' /\ ~write_idx_inc'
      OBVIOUS
    <3>1. /\ rd_state = BUSY_STREAM /\ wr_cfg_idx = rd_cfg_idx
          /\ layers_read = rd_cfg_idx /\ ~write_idx_inc
      BY <2>3, ReadEndsInTurn
    <3>2. rd_cfg_idx # cfg_idx_max
      BY <2>3, <3>1 DEF Edge, RdState, Entered
    <3>3. rd_cfg_idx' = rd_cfg_idx + 1 /\ wr_cfg_idx' = wr_cfg_idx
      BY <2>3, <3>1, <3>2 DEF Edge, ReadCounters, WriteCounters, Counted
    <3>4. read_throttle'
      BY <3>1, <3>3, TurnTypes DEF read_throttle
    <3>5. Early'
      BY <2>3, <3>4, LoopsGoOn DEF Early
    <3>6. wr_state' = WR_WAIT_DONE => ~AllFree'
      <4>1. wr_state' = WR_WAIT_DONE => (wr_state = WR_BUSY /\ wr_req) \/ wr_state = WR_WAIT_DONE
        BY TurnTypes DEF Edge, WrState
      <4>2. layers_read <= wr_cfg_idx
        BY <3>1, TurnTypes
      <4>3. wr_state = WR_WAIT_DONE => ~AllFree
        BY <4>2 DEF TurnInv
      <4>4. wr_req => ~AllFree'
        BY OneMasterEdge
      <4>5. QED BY <4>1, <4>2, <4>3, <4>4, LastWaits
    <3>7. write_idx_inc' => AllFree'
      <4>1. AXI' = {0}
        BY OneMasterWires DEF Edge, AXI
      <4>2. write_idx_inc' => wr_state' = WR_WAIT_DONE /\ wr_done_sticky'[0]
        BY <4>1 DEF write_idx_inc, wr_done
      <4>3. QED BY <4>2 DEF PulseInv, Silent, Sent
    <3>8. write_idx_inc' => wr_state' = WR_WAIT_DONE
      BY DEF write_idx_inc
    <3>9. QED BY <3>5, <3>6, <3>7, <3>8
  <2>4. QED BY <2>1, <2>2, <2>3
<1>3. Settled(RD_CFG_BUFFER)' => rd_cfg' = layer'
  <2> SUFFICES ASSUME Settled(RD_CFG_BUFFER)' PROVE rd_cfg' = layer'
    OBVIOUS
  <2>1. rd_state = RD_CFG_BUFFER
    BY <1>1 DEF Settled
  <2>2. ~loop0_inc(rd_ready)
    BY <2>1 DEF loop0_inc
  <2>3. QED BY <2>2, LoopsRest
<1>4. /\ rd_state' = BUSY_BUFFER => rd_state_d' \in {RD_CFG_BUFFER, BUSY_BUFFER}
      /\ rd_state' = BUSY_STREAM => rd_state_d' \in {RD_CFG_STREAM, BUSY_STREAM}
  BY <1>1 DEF Edge, RdState
<1>5. QED BY <1>2, <1>3, <1>4 DEF LateInv
\* What the addresses of the loops become when the innermost loop not at its end
\* goes on.
LEMMA PlacesGoOn ==
  ASSUME TypeInv, TypeInv', layer' = layer
  PROVE  /\ stream_rd_loop2_count' = stream_rd_loop2_count => Loop2At' = Loop2At
         /\ stream_rd_loop2_count' = stream_rd_loop2_count + 1 =>
              Loop2At' = Loop2At + layer.offset_2
         /\ stream_rd_loop2_count' = stream_rd_loop2_count
            /\ stream_rd_loop1_count' = stream_rd_loop1_count => Loop1At' = Loop1At
         /\ stream_rd_loop2_count' = stream_rd_loop2_count
            /\ stream_rd_loop1_count' = stream_rd_loop1_count + 1 =>
              Loop1At' = Loop1At + layer.offset_1
         /\ stream_rd_loop2_count' = stream_rd_loop2_count
            /\ stream_rd_loop1_count' = stream_rd_loop1_count
            /\ stream_rd_loop0_count' = stream_rd_loop0_count + 1 =>
              StreamAt' = StreamAt + layer.offset_0
<1> DEFINE c0 == stream_rd_loop0_count
           c1 == stream_rd_loop1_count
           c2 == stream_rd_loop2_count
<1>1. /\ c0 \in Nat /\ c1 \in Nat /\ c2 \in Nat
      /\ layer.stream_base \in Nat
      /\ layer.offset_0 \in Nat /\ layer.offset_1 \in Nat /\ layer.offset_2 \in Nat
  BY LayerTypes
<1>2. /\ layer.offset_2 * (c2 + 1) = layer.offset_2 * c2 + layer.offset_2
      /\ layer.offset_1 * (c1 + 1) = layer.offset_1 * c1 + layer.offset_1
      /\ layer.offset_0 * (c0 + 1) = layer.offset_0 * c0 + layer.offset_0
      /\ layer.offset_2 * c2 \in Nat /\ layer.offset_1 * c1 \in Nat
      /\ layer.offset_0 * c0 \in Nat
  <2>1. \A a, c \in Nat : a * (c + 1) = a * c + a /\ a * c \in Nat
    OBVIOUS
  <2> HIDE DEF c0, c1, c2
  <2>2. QED BY ONLY <1>1, <2>1
<1>3. Loop2At \in Nat /\ Loop1At \in Nat /\ StreamAt \in Nat
  BY Starts
<1>4. /\ Loop2At = layer.stream_base + layer.offset_2 * c2
      /\ Loop1At = Loop2At + layer.offset_1 * c1
      /\ StreamAt = Loop1At + layer.offset_0 * c0
  BY DEF Loop2At, Loop1At, StreamAt
<1>5. /\ Loop2At' = layer.stream_base + layer.offset_2 * c2'
      /\ Loop1At' = Loop2At' + layer.offset_1 * c1'
      /\ StreamAt' = Loop1At' + layer.offset_0 * c0'
  BY DEF Loop2At, Loop1At, StreamAt
<1> HIDE DEF c0, c1, c2
<1>6. c2' = c2 => Loop2At' = Loop2At
  BY <1>4, <1>5
<1>7. c2' = c2 + 1 => Loop2At' = Loop2At + layer.offset_2
  <2> SUFFICES ASSUME c2' = c2 + 1 PROVE Loop2At' = Loop2At + layer.offset_2
    OBVIOUS
  <2>1. layer.offset_2 * c2' = layer.offset_2 * c2 + layer.offset_2
    BY <1>2
  <2>2. PICK sum \in Nat : sum = layer.offset_2 * c2
    BY <1>2
  <2>3. Loop2At = layer.stream_base + sum
    BY <1>4, <2>2
  <2>4. Loop2At' = layer.stream_base + (sum + layer.offset_2)
    BY <1>5, <2>1, <2>2
  <2>5. QED BY <1>1, <2>3, <2>4
<1>8. c2' = c2 /\ c1' = c1 => Loop1At' = Loop1At
  BY <1>4, <1>5, <1>6
<1>9. c2' = c2 /\ c1' = c1 + 1 => Loop1At' = Loop1At + layer.offset_1
  <2> SUFFICES ASSUME c2' = c2, c1' = c1 + 1 PROVE Loop1At' = Loop1At + layer.offset_1
    OBVIOUS
  <2>1. layer.offset_1 * c1' = layer.offset_1 * c1 + layer.offset_1
    BY <1>2
  <2>2. QED BY <1>1, <1>2, <1>3, <1>4, <1>5, <1>6, <2>1
<1>10. c2' = c2 /\ c1' = c1 /\ c0' = c0 + 1 => StreamAt' = StreamAt + layer.offset_0
  <2> SUFFICES ASSUME c2' = c2, c1' = c1, c0' = c0 + 1
               PROVE  StreamAt' = StreamAt + layer.offset_0
    OBVIOUS
  <2>1. layer.offset_0 * c0' = layer.offset_0 * c0 + layer.offset_0
    BY <1>2
  <2>2. QED BY <1>1, <1>2, <1>3, <1>4, <1>5, <1>8, <2>1
<1>11. QED BY <1>6, <1>7, <1>8, <1>9, <1>10 DEF c0, c1, c2

\* The pass over the buffer when one of the two inner loops goes on.
LEMMA PassGoesOn ==
  ASSUME TypeInv, TypeInv', layer' = layer,
         \/ /\ stream_rd_loop0_count' = stream_rd_loop0_count + 1
            /\ stream_rd_loop1_count' = stream_rd_loop1_count
         \/ /\ stream_rd_loop0_count = layer.max_0 /\ stream_rd_loop0_count' = 0
            /\ stream_rd_loop1_count' = stream_rd_loop1_count + 1
  PROVE  BufferAt' = BufferAt + layer.buffer_offset
<1> DEFINE c0 == stream_rd_loop0_count
           c1 == stream_rd_loop1_count
           m == layer.max_0 + 1
           b == layer.buffer_offset
<1>1. /\ c0 \in Nat /\ c1 \in Nat /\ m \in Nat /\ b \in Nat
      /\ layer.max_0 \in Nat /\ layer.buffer_base \in Nat
  BY LayerTypes
<1>2. m * (c1 + 1) = m * c1 + m /\ m * c1 \in Nat
  BY <1>1
<1>3. pass = c0 + m * c1 /\ pass' = c0' + m * c1'
  BY DEF pass
<1>4. pass' = pass + 1 /\ pass \in Nat
  <2>1. CASE c0' = c0 + 1 /\ c1' = c1
    BY <1>1, <1>2, <1>3, <2>1
  <2>2. CASE c0 = layer.max_0 /\ c0' = 0 /\ c1' = c1 + 1
    <3>1. m * c1' = m * c1 + m
      BY <1>2, <2>2
    <3> HIDE DEF c0, c1
    <3>2. QED BY <1>1, <1>2, <1>3, <2>2, <3>1
  <2>3. QED BY <2>1, <2>2
<1>5. b * (pass + 1) = b * pass + b /\ b * pass \in Nat
  BY <1>1, <1>4
<1>6. BufferAt = layer.buffer_base + b * pass /\ BufferAt' = layer.buffer_base + b * pass'
  BY DEF BufferAt
<1>7. b * pass' = b * pass + b
  BY <1>4, <1>5
<1> HIDE DEF b
<1>8. BufferAt' = BufferAt + b
  BY <1>1, <1>5, <1>6, <1>7
<1>9. QED BY <1>8 DEF b
\* On an edge without a stream request the ROM's output becomes that of the layer
\* wherever it matters, and early in a layer stays early as long as it must.
LEMMA RestingEdge ==
  ASSUME TypeInv, TurnInv, LateInv, NEW start \in BOOLEAN, NEW rd_ready \in BOOLEAN,
         NEW issuing \in Issuing, NEW moving \in SUBSET AXI,
         Edge(start, rd_ready, issuing, moving), ~loop0_inc(rd_ready)
  PROVE  /\ rd_state_d' = rd_state
         /\ rd_state \in {BUSY_BUFFER, RD_CFG_STREAM, BUSY_STREAM} \/ Settled(RD_CFG_BUFFER) =>
              rd_cfg = layer
         /\ rd_state' = RD_CFG_BUFFER =>
              rd_state \in {IDLE, BUSY_BUFFER} \/ Entered(RD_CFG_BUFFER)
         /\ rd_state' = BUSY_BUFFER => Settled(RD_CFG_BUFFER) \/ rd_state = BUSY_BUFFER
         /\ rd_state' = RD_CFG_STREAM => rd_state \in {BUSY_BUFFER, RD_CFG_STREAM}
         /\ rd_state' = BUSY_STREAM => Settled(RD_CFG_STREAM) \/ rd_state = BUSY_STREAM
         /\ Early /\ ~write_idx_inc => Early'
         /\ Early => read_throttle_d'
<1>1. rd_state_d' = rd_state /\ rd_state \in 0 .. 4
  BY DEF Edge, RdState, TypeInv, TypeOK
<1>2. rd_state \in {BUSY_BUFFER, RD_CFG_STREAM, BUSY_STREAM} \/ Settled(RD_CFG_BUFFER) =>
        rd_cfg = layer
  BY DEF TypeInv, ReadRomInv, LateInv, layer, Settled
<1>3. /\ rd_state' = RD_CFG_BUFFER =>
           rd_state \in {IDLE, BUSY_BUFFER} \/ Entered(RD_CFG_BUFFER)
      /\ rd_state' = BUSY_BUFFER => Settled(RD_CFG_BUFFER) \/ rd_state = BUSY_BUFFER
      /\ rd_state' = RD_CFG_STREAM => rd_state \in {BUSY_BUFFER, RD_CFG_STREAM}
      /\ rd_state' = BUSY_STREAM => Settled(RD_CFG_STREAM) \/ rd_state = BUSY_STREAM
  BY <1>1 DEF Edge, RdState, Settled, Entered, read_idx_inc, loop2_inc, loop1_inc
<1>4. Early /\ ~write_idx_inc => Early'
  <2>1. ~write_idx_inc => wr_cfg_idx' = wr_cfg_idx
    BY DEF Edge, WriteCounters, Counted
  <2>2. QED BY <2>1, LoopsRest DEF Early, read_throttle
<1>5. Early => read_throttle_d'
  <2>1. read_throttle_d' = (read_throttle \/ rd_req(rd_ready))
    BY DEF Edge, ReadCounters
  <2>2. read_throttle => read_throttle_d'
    BY <2>1, Zenon
  <2>3. QED BY <2>2 DEF Early
<1>6. QED BY <1>1, <1>2, <1>3, <1>4, <1>5

\* The registers of the addresses, on an edge without a stream request.
LEMMA RegistersRest ==
  ASSUME NEW start \in BOOLEAN, NEW rd_ready \in BOOLEAN,
         NEW issuing \in Issuing, NEW moving \in SUBSET AXI,
         Edge(start, rd_ready, issuing, moving), ~loop0_inc(rd_ready)
  PROVE  /\ stream_rd_loop2_addr' =
              IF rd_state # RD_CFG_STREAM /\ stream_rd_loop2_count = 0
                THEN rd_cfg.stream_base ELSE stream_rd_loop2_addr
         /\ stream_rd_loop1_addr' =
              IF rd_state # RD_CFG_STREAM /\ stream_rd_loop1_count = 0
                THEN stream_rd_loop2_addr ELSE stream_rd_loop1_addr
         /\ stream_read_address' =
              IF rd_state = RD_CFG_STREAM /\ stream_rd_loop0_count = 0
                THEN stream_rd_loop1_addr ELSE stream_read_address
<1>1. ~loop1_inc(rd_ready) /\ ~loop2_inc(rd_ready)
  BY DEF loop2_inc, loop1_inc
<1>2. QED BY <1>1 DEF Edge, Loop2Address, Loop1Address, StreamAddress

\* On every edge the registers of the loops follow the loops.
LEMMA LoopKept ==
  ASSUME TypeInv, TypeInv', TurnInv, LateInv, LoopInv,
         NEW start \in BOOLEAN, NEW rd_ready \in BOOLEAN,
         NEW issuing \in Issuing, NEW moving \in SUBSET AXI,
         Edge(start, rd_ready, issuing, moving)
  PROVE  LoopInv'
<1> DEFINE c0 == stream_rd_loop0_count
           c1 == stream_rd_loop1_count
           c2 == stream_rd_loop2_count
<1>1. /\ c2 = 0 => Loop2At = layer.stream_base
      /\ c1 = 0 => Loop1At = Loop2At
      /\ c0 = 0 => StreamAt = Loop1At
      /\ rd_state \in 0 .. 4
      /\ rd_state = IDLE => c0 = 0 /\ c1 = 0 /\ c2 = 0
  BY Starts DEF TurnInv, TypeInv, TypeOK
<1>2. CASE ~loop0_inc(rd_ready)
  <2>1. /\ c0' = c0 /\ c1' = c1 /\ c2' = c2
        /\ Loop2At' = Loop2At /\ Loop1At' = Loop1At /\ StreamAt' = StreamAt
    BY <1>2, LoopsRest
  <2>2. /\ stream_rd_loop2_addr' =
             IF rd_state # RD_CFG_STREAM /\ c2 = 0
               THEN rd_cfg.stream_base ELSE stream_rd_loop2_addr
        /\ stream_rd_loop1_addr' =
             IF rd_state # RD_CFG_STREAM /\ c1 = 0
               THEN stream_rd_loop2_addr ELSE stream_rd_loop1_addr
        /\ stream_read_address' =
             IF rd_state = RD_CFG_STREAM /\ c0 = 0
               THEN stream_rd_loop1_addr ELSE stream_read_address
    BY <1>2, RegistersRest
  <2>3. /\ rd_state_d' = rd_state
        /\ rd_state \in {BUSY_BUFFER, RD_CFG_STREAM, BUSY_STREAM} \/ Settled(RD_CFG_BUFFER) =>
             rd_cfg = layer
        /\ rd_state' = RD_CFG_BUFFER =>
             rd_state \in {IDLE, BUSY_BUFFER} \/ Entered(RD_CFG_BUFFER)
        /\ rd_state' = BUSY_BUFFER => Settled(RD_CFG_BUFFER) \/ rd_state = BUSY_BUFFER
        /\ rd_state' = RD_CFG_STREAM => rd_state \in {BUSY_BUFFER, RD_CFG_STREAM}
        /\ rd_state' = BUSY_STREAM => Settled(RD_CFG_STREAM) \/ rd_state = BUSY_STREAM
        /\ Early /\ ~write_idx_inc => Early'
        /\ Early => read_throttle_d'
    BY <1>2, RestingEdge
  <2>4. Entered(RD_CFG_BUFFER)' => c2' = 0 \/ stream_rd_loop2_addr' = Loop2At'
    BY <1>1, <2>1, <2>2, <2>3 DEF LoopInv, Entered
  <2>5. Settled(RD_CFG_BUFFER)' => stream_rd_loop2_addr' = Loop2At' \/ Early'
    <3> SUFFICES ASSUME Settled(RD_CFG_BUFFER)'
                 PROVE  stream_rd_loop2_addr' = Loop2At' \/ Early'
      OBVIOUS
    <3>1. Entered(RD_CFG_BUFFER)
      BY <2>3 DEF Settled
    <3>2. CASE c2 # 0
      BY <2>1, <2>2, <3>1, <3>2 DEF LoopInv
    <3>3. CASE c2 = 0 /\ rd_cfg = layer
      BY <1>1, <2>1, <2>2, <3>1, <3>3 DEF Entered
    <3>4. CASE rd_cfg # layer
      BY <2>3, <3>1, <3>4 DEF LateInv
    <3>5. QED BY <3>2, <3>3, <3>4
  <2>6. rd_state' \in {BUSY_BUFFER, RD_CFG_STREAM, BUSY_STREAM} =>
          stream_rd_loop2_addr' = Loop2At'
    BY <1>1, <2>1, <2>2, <2>3 DEF LoopInv, Settled, Early
  <2>7. rd_state' # IDLE /\ c1' # 0 => stream_rd_loop1_addr' = Loop1At'
    BY <1>1, <2>1, <2>2 DEF LoopInv
  <2>8. Entered(BUSY_BUFFER)' => stream_rd_loop1_addr' = Loop1At' \/ read_throttle_d'
    <3> SUFFICES ASSUME Entered(BUSY_BUFFER)'
                 PROVE  stream_rd_loop1_addr' = Loop1At' \/ read_throttle_d'
      OBVIOUS
    <3>1. Settled(RD_CFG_BUFFER)
      BY <2>3 DEF Entered
    <3>2. stream_rd_loop2_addr = Loop2At \/ Early
      BY <3>1 DEF LoopInv
    <3>3. QED BY <1>1, <2>1, <2>2, <2>3, <3>1, <3>2 DEF LoopInv, Settled
  <2>9. Settled(BUSY_BUFFER)' \/ rd_state' \in {RD_CFG_STREAM, BUSY_STREAM} =>
          stream_rd_loop1_addr' = Loop1At'
    BY <1>1, <2>1, <2>2, <2>3 DEF LoopInv, Settled
  <2>10. rd_state' # IDLE /\ c0' # 0 => stream_read_address' = StreamAt'
    BY <1>1, <2>1, <2>2 DEF LoopInv
  <2>11. Settled(RD_CFG_STREAM)' \/ rd_state' = BUSY_STREAM =>
           stream_read_address' = StreamAt'
    BY <1>1, <2>1, <2>2, <2>3 DEF LoopInv, Settled
  <2>12. QED
    BY <2>4, <2>5, <2>6, <2>7, <2>8, <2>9, <2>10, <2>11 DEF LoopInv
<1>3. CASE loop0_inc(rd_ready)
  <2>1. /\ rd_state = BUSY_STREAM /\ rd_cfg = layer
        /\ rd_state' = IDLE \/ Entered(RD_CFG_BUFFER)'
    BY <1>3, LoopsGoOn
  <2>2. /\ stream_rd_loop2_addr = Loop2At /\ stream_rd_loop1_addr = Loop1At
        /\ stream_read_address = StreamAt
    BY <2>1 DEF LoopInv
  <2>3. c2' = 0 \/ stream_rd_loop2_addr' = Loop2At'
    <3>1. CASE ~loop2_inc(rd_ready) /\ ~read_idx_inc(rd_ready)
      <4>1. c2' = c2 /\ Loop2At' = Loop2At
        BY <1>3, <3>1, LoopsGoOn, PlacesGoOn
      <4>2. QED BY <2>1, <2>2, <3>1, <4>1 DEF Edge, Loop2Address
    <3>2. CASE loop2_inc(rd_ready) /\ ~read_idx_inc(rd_ready)
      <4>1. Loop2At' = Loop2At + layer.offset_2
        BY <1>3, <3>2, LoopsGoOn, PlacesGoOn
      <4>2. QED BY <2>1, <2>2, <3>2, <4>1 DEF Edge, Loop2Address
    <3>3. CASE read_idx_inc(rd_ready)
      BY <1>3, <3>3, LoopsGoOn
    <3>4. QED BY <3>1, <3>2, <3>3
  <2>4. c1' = 0 \/ stream_rd_loop1_addr' = Loop1At'
    <3>1. CASE ~loop1_inc(rd_ready)
      <4>1. c1' = c1 /\ Loop1At' = Loop1At
        BY <1>3, <3>1, LoopsGoOn, PlacesGoOn DEF read_idx_inc, loop2_inc
      <4>2. QED BY <2>1, <2>2, <3>1, <4>1 DEF Edge, Loop1Address
    <3>2. CASE loop1_inc(rd_ready) /\ ~loop2_inc(rd_ready) /\ ~read_idx_inc(rd_ready)
      <4>1. Loop1At' = Loop1At + layer.offset_1
        BY <1>3, <3>2, LoopsGoOn, PlacesGoOn
      <4>2. QED BY <2>1, <2>2, <3>2, <4>1 DEF Edge, Loop1Address
    <3>3. CASE loop2_inc(rd_ready) \/ read_idx_inc(rd_ready)
      BY <1>3, <3>3, LoopsGoOn
    <3>4. QED BY <3>1, <3>2, <3>3
  <2>5. c0' = 0 \/ stream_read_address' = StreamAt'
    <3>1. CASE ~loop1_inc(rd_ready)
      <4>1. StreamAt' = StreamAt + layer.offset_0
        BY <1>3, <3>1, LoopsGoOn, PlacesGoOn DEF read_idx_inc, loop2_inc
      <4>2. QED BY <1>3, <2>1, <2>2, <4>1 DEF Edge, StreamAddress
    <3>2. CASE loop1_inc(rd_ready)
      BY <1>3, <3>2, LoopsGoOn
    <3>3. QED BY <3>1, <3>2
  <2>6. QED BY <2>1, <2>3, <2>4, <2>5 DEF LoopInv, Entered, Settled
<1>4. QED BY <1>2, <1>3
\* On every edge the next stream request follows the loops.
LEMMA StreamRequestKept ==
  ASSUME TypeInv, TypeInv', TurnInv, LateInv, LoopInv, StreamRequestInv,
         NEW start \in BOOLEAN, NEW rd_ready \in BOOLEAN,
         NEW issuing \in Issuing, NEW moving \in SUBSET AXI,
         Edge(start, rd_ready, issuing, moving)
  PROVE  StreamRequestInv'
<1>1. CASE ~loop0_inc(rd_ready)
  <2>1. layer' = layer /\ StreamAt' = StreamAt
    BY <1>1, LoopsRest
  <2>2. /\ rd_state_d' = rd_state
        /\ rd_state \in {RD_CFG_STREAM, BUSY_STREAM} => rd_cfg = layer
        /\ rd_state' = BUSY_STREAM => Settled(RD_CFG_STREAM) \/ rd_state = BUSY_STREAM
    BY <1>1, RestingEdge
  <2>3. Settled(RD_CFG_STREAM)' \/ rd_state' = BUSY_STREAM =>
          rd_req_size' = layer'.stream_size
    BY <2>1, <2>2 DEF Edge, ReadRequest, StreamRequestInv, Settled
  <2>4. rd_state' = BUSY_STREAM => rd_addr' = StreamAt'
    <3>1. CASE Settled(RD_CFG_STREAM)
      BY <2>1, <3>1 DEF Edge, ReadRequest, LoopInv, Settled
    <3>2. CASE rd_state = BUSY_STREAM
      BY <2>1, <3>2 DEF Edge, ReadRequest, LoopInv, LateInv, StreamRequestInv
    <3>3. QED BY <2>2, <3>1, <3>2
  <2>5. QED BY <2>3, <2>4 DEF StreamRequestInv
<1>2. CASE loop0_inc(rd_ready)
  BY <1>2, LoopsGoOn DEF StreamRequestInv, Entered, Settled
<1>3. QED BY <1>1, <1>2

\* On every edge the next buffer request follows the loops.
LEMMA BufferRequestKept ==
  ASSUME TypeInv, TypeInv', TurnInv, LateInv, BufferRequestInv,
         NEW start \in BOOLEAN, NEW rd_ready \in BOOLEAN,
         NEW issuing \in Issuing, NEW moving \in SUBSET AXI,
         Edge(start, rd_ready, issuing, moving)
  PROVE  BufferRequestInv'
<1> DEFINE inc == buffer_rd_count_inc(rd_ready)
           c0 == stream_rd_loop0_count
           c1 == stream_rd_loop1_count
<1> SUFFICES ASSUME layer'.l_type # 2
             PROVE  BufferRequestInv'
  BY DEF BufferRequestInv
<1>1. /\ c0 = 0 /\ c1 = 0 => BufferAt = layer.buffer_base
      /\ BufferAt \in Nat
      /\ rd_state \in 0 .. 4
      /\ rd_state = IDLE => c0 = 0 /\ c1 = 0
      /\ layer.buffer_max > 0 => layer.l_type = 2 \/ layer.buffer_offset = 0
      /\ buffer_rd_count \in 0 .. layer.buffer_max /\ layer.buffer_max \in Nat
  BY Starts, LayerTypes DEF TurnInv, TypeInv, TypeOK
<1>2. CASE ~loop0_inc(rd_ready)
  <2>1. c0' = c0 /\ c1' = c1 /\ layer' = layer /\ BufferAt' = BufferAt
    BY <1>2, LoopsRest
  <2>2. /\ rd_state_d' = rd_state
        /\ rd_state \in {BUSY_BUFFER, RD_CFG_STREAM, BUSY_STREAM} \/ Settled(RD_CFG_BUFFER) =>
             rd_cfg = layer
        /\ rd_state' = RD_CFG_BUFFER =>
             rd_state \in {IDLE, BUSY_BUFFER} \/ Entered(RD_CFG_BUFFER)
        /\ rd_state' = BUSY_BUFFER => Settled(RD_CFG_BUFFER) \/ rd_state = BUSY_BUFFER
        /\ rd_state' = RD_CFG_STREAM => rd_state \in {BUSY_BUFFER, RD_CFG_STREAM}
        /\ rd_state' = BUSY_STREAM => Settled(RD_CFG_STREAM) \/ rd_state = BUSY_STREAM
        /\ Early /\ ~write_idx_inc => Early'
        /\ Early => read_throttle_d'
    BY <1>2, RestingEdge
  <2>3. buffer_read_address' =
          IF rd_state = RD_CFG_BUFFER /\ c0 = 0 /\ c1 = 0 THEN rd_cfg.buffer_base
          ELSE IF inc THEN buffer_read_address + rd_cfg.buffer_offset
          ELSE buffer_read_address
    BY DEF Edge, BufferAddress
  <2>4. inc => rd_state = BUSY_BUFFER
    BY DEF buffer_rd_count_inc
  <2>5. BUSY_BUFFER = rd_state =>
          \/ inc /\ rd_state' \in {RD_CFG_STREAM, RD_CFG_BUFFER}
          \/ ~inc /\ rd_state' = BUSY_BUFFER
    BY DEF Edge, RdState
  <2> HIDE DEF inc
  <2>6. /\ Entered(RD_CFG_BUFFER) =>
             \/ c0 = 0 /\ c1 = 0
             \/ buffer_read_address = BufferAt
        /\ Settled(RD_CFG_BUFFER) => buffer_read_address = BufferAt \/ Early
        /\ rd_state = BUSY_BUFFER => buffer_read_address = BufferAt
        /\ rd_state \in {RD_CFG_STREAM, BUSY_STREAM} =>
             buffer_read_address = BufferAt + layer.buffer_offset
        /\ Entered(BUSY_BUFFER) => rd_addr = BufferAt \/ read_throttle_d
        /\ Settled(BUSY_BUFFER) => rd_addr = BufferAt
        /\ rd_state = BUSY_BUFFER => rd_req_size = layer.buffer_size
    BY <2>1 DEF BufferRequestInv
  <2>7. Entered(RD_CFG_BUFFER)' =>
          \/ c0' = 0 /\ c1' = 0
          \/ buffer_read_address' = BufferAt'
    <3> SUFFICES ASSUME Entered(RD_CFG_BUFFER)'
                 PROVE  (c0' = 0 /\ c1' = 0) \/ buffer_read_address' = BufferAt'
      OBVIOUS
    <3>1. rd_state \in {IDLE, BUSY_BUFFER}
      BY <2>2 DEF Entered
    <3>2. CASE rd_state = BUSY_BUFFER
      <4>1. inc /\ buffer_rd_count # layer.buffer_max
        BY <2>2, <3>2 DEF Edge, RdState, Entered, inc
      <4>2. layer.buffer_offset = 0
        BY <1>1, <2>1, <4>1
      <4>3. QED BY <1>1, <2>1, <2>2, <2>3, <2>6, <3>2, <4>1, <4>2
    <3>3. QED BY <1>1, <2>1, <3>1, <3>2
  <2>8. Settled(RD_CFG_BUFFER)' => buffer_read_address' = BufferAt' \/ Early'
    <3> SUFFICES ASSUME Settled(RD_CFG_BUFFER)'
                 PROVE  buffer_read_address' = BufferAt' \/ Early'
      OBVIOUS
    <3>1. Entered(RD_CFG_BUFFER)
      BY <2>2 DEF Settled
    <3>2. CASE ~(c0 = 0 /\ c1 = 0)
      BY <2>1, <2>3, <2>4, <2>6, <3>1, <3>2 DEF Entered
    <3>3. CASE c0 = 0 /\ c1 = 0 /\ rd_cfg = layer
      BY <1>1, <2>1, <2>3, <3>1, <3>3 DEF Entered
    <3>4. CASE rd_cfg # layer
      BY <2>2, <3>1, <3>4 DEF LateInv
    <3>5. QED BY <3>2, <3>3, <3>4
  <2>9. rd_state' = BUSY_BUFFER => buffer_read_address' = BufferAt'
    <3>1. CASE Settled(RD_CFG_BUFFER)
      <4>1. rd_cfg = layer /\ rd_state = RD_CFG_BUFFER
        BY <2>2, <3>1 DEF Settled
      <4>2. ~(c0 = 0 /\ c1 = 0) => buffer_read_address = BufferAt
        BY <2>6, <3>1 DEF Early
      <4>3. QED BY <1>1, <2>1, <2>3, <2>4, <4>1, <4>2
    <3>2. CASE rd_state = BUSY_BUFFER
      BY <2>1, <2>3, <2>5, <2>6, <3>2
    <3>3. QED BY <2>2, <3>1, <3>2
  <2>10. rd_state' \in {RD_CFG_STREAM, BUSY_STREAM} =>
           buffer_read_address' = BufferAt' + layer'.buffer_offset
    <3>1. CASE rd_state = BUSY_BUFFER
      BY <2>1, <2>2, <2>3, <2>5, <2>6, <3>1
    <3>2. CASE rd_state \in {RD_CFG_STREAM, BUSY_STREAM}
      BY <2>1, <2>3, <2>4, <2>6, <3>2
    <3>3. QED BY <2>2, <3>1, <3>2 DEF Settled
  <2>11. Entered(BUSY_BUFFER)' => rd_addr' = BufferAt' \/ read_throttle_d'
    <3> SUFFICES ASSUME Entered(BUSY_BUFFER)'
                 PROVE  rd_addr' = BufferAt' \/ read_throttle_d'
      OBVIOUS
    <3>1. Settled(RD_CFG_BUFFER)
      BY <2>2 DEF Entered
    <3>2. rd_addr' = buffer_read_address
      BY <3>1 DEF Edge, ReadRequest, Settled
    <3>3. QED BY <2>1, <2>2, <2>6, <3>1, <3>2
  <2>12. Settled(BUSY_BUFFER)' => rd_addr' = BufferAt'
    <3> SUFFICES ASSUME Settled(BUSY_BUFFER)' PROVE rd_addr' = BufferAt'
      OBVIOUS
    <3>1. rd_state = BUSY_BUFFER /\ rd_state_d \in {RD_CFG_BUFFER, BUSY_BUFFER}
      BY <2>2 DEF Settled, LateInv
    <3>2. QED BY <2>1, <2>6, <3>1 DEF Edge, ReadRequest, Settled
  <2>13. rd_state' = BUSY_BUFFER => rd_req_size' = layer'.buffer_size
    <3>1. rd_state' = BUSY_BUFFER => rd_state \in {RD_CFG_BUFFER, BUSY_BUFFER} /\ rd_cfg = layer
      BY <2>2 DEF Settled
    <3>2. QED BY <2>1, <2>6, <3>1 DEF Edge, ReadRequest
  <2>14. QED
    BY <2>7, <2>8, <2>9, <2>10, <2>11, <2>12, <2>13 DEF BufferRequestInv
<1>3. CASE loop0_inc(rd_ready)
  <2>1. /\ rd_state = BUSY_STREAM
        /\ rd_state' = IDLE \/ Entered(RD_CFG_BUFFER)'
    BY <1>3, LoopsGoOn
  <2>2. buffer_read_address' = buffer_read_address
    BY <2>1 DEF Edge, BufferAddress, buffer_rd_count_inc
  <2>3. (c0' = 0 /\ c1' = 0) \/ buffer_read_address' = BufferAt'
    <3>1. CASE loop2_inc(rd_ready) \/ read_idx_inc(rd_ready)
      BY <1>3, <3>1, LoopsGoOn
    <3>2. CASE ~loop2_inc(rd_ready) /\ ~read_idx_inc(rd_ready)
      <4>1. layer' = layer /\ BufferAt' = BufferAt + layer.buffer_offset
        BY <1>3, <3>2, LoopsGoOn, PassGoesOn
      <4>2. QED BY <2>1, <2>2, <4>1 DEF BufferRequestInv
    <3>3. QED BY <3>1, <3>2
  <2>4. QED BY <2>1, <2>3 DEF BufferRequestInv, Entered, Settled
<1>4. QED BY <1>2, <1>3

\* Out of reset and under it nothing is read.
LEMMA IdleReads ==
  /\ Init => ReadInv
  /\ TypeInv /\ Reset => ReadInv'
<1>1. Init => ReadInv
  <2> SUFFICES ASSUME Init PROVE ReadInv
    OBVIOUS
  <2>1. TurnInv
    BY DEF Init, TurnInv
  <2>2. rd_state = IDLE
    BY DEF Init
  <2>3. LateInv /\ LoopInv /\ StreamRequestInv /\ BufferRequestInv
    BY <2>2 DEF LateInv, LoopInv, StreamRequestInv, BufferRequestInv, Entered, Settled
  <2>4. QED BY <2>1, <2>3 DEF ReadInv
<1>2. TypeInv /\ Reset => ReadInv'
  <2> SUFFICES ASSUME TypeInv, Reset PROVE ReadInv'
    OBVIOUS
  <2>1. TurnInv'
    BY DEF Reset, TurnInv
  <2>2. rd_state' = IDLE
    BY DEF Reset
  <2>3. LateInv' /\ LoopInv' /\ StreamRequestInv' /\ BufferRequestInv'
    BY <2>2 DEF LateInv, LoopInv, StreamRequestInv, BufferRequestInv, Entered, Settled
  <2>4. QED BY <2>1, <2>3 DEF ReadInv
<1>3. QED BY <1>1, <1>2

\* Every step preserves what the requests rest on.
LEMMA ReadPreserved ==
  ASSUME OneMaster, IInv, ReadInv, [NextOrReset]_vars
  PROVE  ReadInv'
<1>1. /\ TypeInv /\ PulseInv /\ OwnerInv /\ ReadRomInv
      /\ TypeInv' /\ PulseInv'
      /\ TurnInv /\ LateInv /\ LoopInv /\ StreamRequestInv /\ BufferRequestInv
  BY StepPreserves DEF IInv, ReadInv, TypeInv
<1>2. CASE Next
  <2>1. PICK start \in BOOLEAN, rd_ready \in BOOLEAN, issuing \in Issuing,
             moving \in SUBSET AXI :
               (start => may_start) /\ Edge(start, rd_ready, issuing, moving)
    BY <1>2 DEF Next
  <2>2. TurnInv'
    BY <1>1, <2>1, TurnKept
  <2>3. LateInv'
    BY <1>1, <2>1, LateKept
  <2>4. LoopInv' /\ StreamRequestInv' /\ BufferRequestInv'
    BY <1>1, <2>1, LoopKept, StreamRequestKept, BufferRequestKept
  <2>5. QED BY <2>2, <2>3, <2>4 DEF ReadInv
<1>3. CASE Reset
  BY <1>1, <1>3, IdleReads
<1>4. CASE UNCHANGED vars
  <2>1. TurnInv'
    BY <1>1, <1>4 DEF vars, rvars, wvars, avars, TurnInv, AllFree
  <2>2. layer' = layer /\ Loop2At' = Loop2At /\ Loop1At' = Loop1At /\ StreamAt' = StreamAt
        /\ BufferAt' = BufferAt /\ (Early' <=> Early) /\ (write_idx_inc' <=> write_idx_inc)
    BY <1>4 DEF vars, rvars, wvars, avars, layer, Loop2At, Loop1At, StreamAt, BufferAt, pass,
                Early, read_throttle, write_idx_inc, wr_done, AXI
  <2>3. LateInv' /\ LoopInv'
    BY <1>1, <1>4, <2>2 DEF vars, rvars, LateInv, LoopInv, Entered, Settled
  <2>4. StreamRequestInv' /\ BufferRequestInv'
    BY <1>1, <1>4, <2>2
    DEF vars, rvars, StreamRequestInv, BufferRequestInv, Entered, Settled
  <2>5. QED BY <2>1, <2>3, <2>4 DEF ReadInv
<1>5. QED BY <1>2, <1>3, <1>4 DEF NextOrReset

\* For every network: every read request is the one the loops of its layer have
\* come to.
THEOREM ReadIsRightHolds ==
  ASSUME OneMaster
  PROVE  Spec => []ReadIsRight
<1>1. Init => IInv /\ ReadInv
  BY InitEstablishes, IdleReads
<1>2. IInv /\ ReadInv /\ [NextOrReset]_vars => (IInv /\ ReadInv)'
  BY StepPreserves, ReadPreserved
<1>3. IInv /\ ReadInv => ReadIsRight
  <2> SUFFICES ASSUME IInv, ReadInv, rd_req(TRUE)
               PROVE  IF rd_state = BUSY_BUFFER
                        THEN rd_addr = BufferAt /\ rd_req_size = layer.buffer_size
                        ELSE /\ rd_addr = layer.stream_base
                                            + layer.offset_0 * stream_rd_loop0_count
                                            + layer.offset_1 * stream_rd_loop1_count
                                            + layer.offset_2 * stream_rd_loop2_count
                             /\ rd_req_size = layer.stream_size
    BY DEF ReadIsRight, layer, BufferAt, pass
  <2>1. /\ TypeInv /\ StreamRequestInv /\ BufferRequestInv
        /\ rd_state \in {BUSY_BUFFER, BUSY_STREAM} /\ ~read_throttle_d
        /\ rd_state = BUSY_BUFFER => rd_cfg.l_type # 2
    BY DEF IInv, ReadInv, rd_req, loop0_inc, buffer_rd_count_inc
  <2>2. CASE rd_state = BUSY_BUFFER
    <3>1. layer.l_type # 2
      BY <2>1, <2>2 DEF TypeInv, ReadRomInv, layer
    <3>2. QED BY <2>1, <2>2, <3>1 DEF BufferRequestInv, Entered, Settled
  <2>3. CASE rd_state = BUSY_STREAM
    <3> DEFINE p0 == layer.offset_0 * stream_rd_loop0_count
               p1 == layer.offset_1 * stream_rd_loop1_count
               p2 == layer.offset_2 * stream_rd_loop2_count
    <3>1. layer.stream_base \in Nat /\ p0 \in Nat /\ p1 \in Nat /\ p2 \in Nat
      <4>1. \A a, c \in Nat : a * c \in Nat
        OBVIOUS
      <4>2. QED BY <2>1, <4>1, LayerTypes
    <3>2. StreamAt = ((layer.stream_base + p2) + p1) + p0
      BY DEF StreamAt, Loop1At, Loop2At
    <3>3. rd_addr = StreamAt /\ rd_req_size = layer.stream_size
      BY <2>1, <2>3 DEF StreamRequestInv
    <3> HIDE DEF p0, p1, p2
    <3>4. StreamAt = layer.stream_base + p0 + p1 + p2
      BY <3>1, <3>2
    <3>5. QED BY <2>3, <3>3, <3>4 DEF p0, p1, p2
  <2>4. QED BY <2>1, <2>2, <2>3
<1>4. QED BY <1>1, <1>2, <1>3, PTL DEF Spec
=============================================================================
