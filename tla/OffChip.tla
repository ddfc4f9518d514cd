------------------------------ MODULE OffChip ------------------------------
(***************************************************************************)
(* The off-chip memory controller, hdl/mem_controller.v, with the write    *)
(* requests routed by axi_master_wrapper.v.  For every layer of a network  *)
(* it reads coefficients (buffer) and feature maps (stream) in three       *)
(* nested loops, and writes the layer's results; it reads no layer before  *)
(* the one below it is written.  A step is one clock edge, outside reset   *)
(* or under it.                                                            *)
(*                                                                         *)
(* The read and write side of axi_master.v are what AxiRead and AxiWrite   *)
(* promise: rd_ready comes and goes, a unit is free for its next request   *)
(* when its last burst is issued, and the master pulses when all is sent.  *)
(***************************************************************************)
EXTENDS Integers

CONSTANTS
  NUM_PU,      \* processing units
  Setups,      \* NUM_AXI and the two configuration ROMs, see SetupAssumption
  SEND_EDGES,  \* external: edges from the issue of a last burst to its last beat
  NONE         \* no layer

IDLE == 0
RD_CFG_BUFFER == 1
RD_CFG_STREAM == 2
BUSY_BUFFER == 3
BUSY_STREAM == 4

WR_IDLE == 0
WR_RD_CFG == 1
WR_BUSY == 2
WR_WAIT_DONE == 3

PU == 0 .. NUM_PU - 1

ReadConfigs ==
  [l_type : 0 .. 3,
   stream_base : Nat, stream_size : Nat, offset_0 : Nat, offset_1 : Nat, offset_2 : Nat,
   max_0 : Nat, max_1 : Nat, max_2 : Nat,
   buffer_base : Nat, buffer_size : Nat, buffer_offset : Nat, buffer_max : Nat]

WriteConfigs == [l_type : 0 .. 3, base : Nat, size : Nat, offset : Nat, max : Nat]

\* As many layers are written as are read, and several reads of a layer's
\* buffer do not advance through the memory: see the README on both.  With
\* several masters a layer writes through each of them, and comes back to one.
ASSUME SetupAssumption ==
  /\ NUM_PU \in Nat \ {0} /\ SEND_EDGES \in Nat /\ SEND_EDGES > 1 /\ NONE \notin Nat
  /\ \A s \in Setups :
       /\ s.NUM_AXI \in 1 .. NUM_PU /\ NUM_PU % s.NUM_AXI = 0
       /\ s.layers \in Nat \ {0}
       /\ \A n \in 0 .. s.layers - 1 :
            LET r == s.read[n] w == s.write[n] IN
            /\ r \in ReadConfigs /\ w \in WriteConfigs
            /\ r.buffer_max > 0 => r.l_type = 2 \/ r.buffer_offset = 0
            /\ s.NUM_AXI > 1 =>
                 w.l_type # 2 /\ w.max + 1 \in s.NUM_AXI .. s.NUM_AXI + 1

VARIABLES
  setup,                        \* the parameters, never changed
  \* read
  rd_state, rd_state_d,
  rd_cfg_idx, rd_cfg,           \* the layer being read, its entry one edge later
  buffer_rd_count,
  stream_rd_loop0_count, stream_rd_loop1_count, stream_rd_loop2_count,
  read_throttle_d,
  buffer_read_address, stream_read_address,
  stream_rd_loop1_addr, stream_rd_loop2_addr,
  rd_req_size, rd_addr,
  \* write
  wr_state, wr_state_d,
  wr_cfg_idx, write_cfg,
  stream_wr_count, wr_pu_id_count,
  wr_addr,
  \* axi_master_wrapper and its masters
  wr_done_sticky, wr_ready_axi, all_writes_done_d, wr_done_local,
  unissued,    \* per unit: the layer of the request not issued, or NONE
  sending,     \* per master: <<layer, edges to go>> of what was issued, or <<>>
  \* external
  layers_read, \* layers read completely since the last done
  may_start    \* start has not been given since the last done

rvars == <<rd_state, rd_state_d, rd_cfg_idx, rd_cfg, buffer_rd_count,
           stream_rd_loop0_count, stream_rd_loop1_count, stream_rd_loop2_count,
           read_throttle_d, buffer_read_address, stream_read_address,
           stream_rd_loop1_addr, stream_rd_loop2_addr, rd_req_size, rd_addr>>
wvars == <<wr_state, wr_state_d, wr_cfg_idx, write_cfg, stream_wr_count,
           wr_pu_id_count, wr_addr>>
avars == <<wr_done_sticky, wr_ready_axi, all_writes_done_d, wr_done_local,
           unissued, sending>>
vars == <<setup, rvars, wvars, avars, layers_read, may_start>>

AXI == 0 .. setup.NUM_AXI - 1
cfg_idx_max == setup.layers - 1

-----------------------------------------------------------------------------
(* Wires of the write side. *)

\* Seeded fault: the first master that has pulsed speaks for all.
wr_done_Any == \E g \in AXI : wr_done_sticky[g]

\* All masters have pulsed since the last wr_done.
wr_done == \A g \in AXI : wr_done_sticky[g]

wr_pu_id == IF write_cfg.l_type = 2 THEN 0 ELSE wr_pu_id_count
axi_of(i) == i % setup.NUM_AXI
wr_ready == wr_ready_axi[axi_of(wr_pu_id)]
wr_req == ~wr_done /\ wr_ready /\ wr_state = WR_BUSY
next_stream_write == stream_wr_count = write_cfg.max
write_idx_inc == wr_state = WR_WAIT_DONE /\ wr_done
done == write_idx_inc /\ wr_cfg_idx = cfg_idx_max

-----------------------------------------------------------------------------
(* Wires of the read side. *)

buffer_rd_count_inc(rd_ready) ==
  rd_state = BUSY_BUFFER /\ rd_ready /\ ~read_throttle_d
loop0_inc(rd_ready) == rd_state = BUSY_STREAM /\ rd_ready /\ ~read_throttle_d
loop1_inc(rd_ready) ==
  loop0_inc(rd_ready) /\ stream_rd_loop0_count = rd_cfg.max_0
loop2_inc(rd_ready) ==
  loop1_inc(rd_ready) /\ stream_rd_loop1_count = rd_cfg.max_1
read_idx_inc(rd_ready) ==
  loop2_inc(rd_ready) /\ stream_rd_loop2_count = rd_cfg.max_2
rd_req(rd_ready) ==
  loop0_inc(rd_ready) \/ (buffer_rd_count_inc(rd_ready) /\ rd_cfg.l_type # 2)

\* Seeded fault: the layer after the one being written may be read.
read_throttle_Ahead == rd_cfg_idx > wr_cfg_idx + 1

\* Seeded fault: the layer being written may not be read.
read_throttle_Behind == rd_cfg_idx >= wr_cfg_idx

read_throttle == rd_cfg_idx > wr_cfg_idx

-----------------------------------------------------------------------------
(* Registers. *)

\* Seeded fault: a counter that does not come back to its MIN_COUNT.
Counted_NoWrap(count, inc, max) == IF inc THEN count + 1 ELSE count

\* counter.v with INC only, from 0 to max.
Counted(count, inc, max) ==
  IF ~inc THEN count ELSE IF count = max THEN 0 ELSE count + 1

RdState(start, rd_ready) ==
  LET inc == buffer_rd_count_inc(rd_ready) IN
  /\ rd_state_d' = rd_state
  /\ rd_state' =
       CASE rd_state = IDLE -> IF start THEN RD_CFG_BUFFER ELSE IDLE
         [] rd_state = RD_CFG_BUFFER ->
              IF rd_state_d = RD_CFG_BUFFER THEN BUSY_BUFFER ELSE RD_CFG_BUFFER
         [] rd_state = BUSY_BUFFER ->
              IF inc /\ buffer_rd_count = rd_cfg.buffer_max THEN RD_CFG_STREAM
              ELSE IF inc THEN RD_CFG_BUFFER
              ELSE BUSY_BUFFER
         [] rd_state = RD_CFG_STREAM ->
              IF rd_state_d = RD_CFG_STREAM THEN BUSY_STREAM ELSE RD_CFG_STREAM
         [] rd_state = BUSY_STREAM ->
              IF read_idx_inc(rd_ready) /\ rd_cfg_idx = cfg_idx_max THEN IDLE
              ELSE IF loop0_inc(rd_ready) THEN RD_CFG_BUFFER
              ELSE BUSY_STREAM

\* The ROM is read on every edge: rd_cfg is one edge behind rd_cfg_idx.
ReadCounters(rd_ready) ==
  /\ buffer_rd_count' =
       Counted(buffer_rd_count, buffer_rd_count_inc(rd_ready), rd_cfg.buffer_max)
  /\ stream_rd_loop0_count' =
       Counted(stream_rd_loop0_count, loop0_inc(rd_ready), rd_cfg.max_0)
  /\ stream_rd_loop1_count' =
       Counted(stream_rd_loop1_count, loop1_inc(rd_ready), rd_cfg.max_1)
  /\ stream_rd_loop2_count' =
       Counted(stream_rd_loop2_count, loop2_inc(rd_ready), rd_cfg.max_2)
  /\ rd_cfg_idx' = Counted(rd_cfg_idx, read_idx_inc(rd_ready), cfg_idx_max)
  /\ rd_cfg' = setup.read[rd_cfg_idx]
  /\ read_throttle_d' = (read_throttle \/ rd_req(rd_ready))

BufferAddress(rd_ready) ==
  buffer_read_address' =
    IF rd_state = RD_CFG_BUFFER /\ stream_rd_loop0_count = 0
                                /\ stream_rd_loop1_count = 0
      THEN rd_cfg.buffer_base
    ELSE IF buffer_rd_count_inc(rd_ready)
      THEN buffer_read_address + rd_cfg.buffer_offset
    ELSE buffer_read_address

\* Each loop starts from where the loop around it stands.
StreamAddress(rd_ready) ==
  stream_read_address' =
    IF rd_state = RD_CFG_STREAM /\ stream_rd_loop0_count = 0
      THEN stream_rd_loop1_addr
    ELSE IF loop0_inc(rd_ready) THEN stream_read_address + rd_cfg.offset_0
    ELSE stream_read_address

\* Seeded fault: the middle loop starts from the base only between two layers.
Loop1Address_Keep(rd_ready) ==
  stream_rd_loop1_addr' =
    IF loop1_inc(rd_ready) THEN stream_rd_loop1_addr + rd_cfg.offset_1
    ELSE IF rd_state # RD_CFG_STREAM /\ stream_rd_loop1_count = 0
                                     /\ stream_rd_loop2_count = 0
      THEN stream_rd_loop2_addr
    ELSE stream_rd_loop1_addr

Loop1Address(rd_ready) ==
  stream_rd_loop1_addr' =
    IF loop1_inc(rd_ready) THEN stream_rd_loop1_addr + rd_cfg.offset_1
    ELSE IF rd_state # RD_CFG_STREAM /\ stream_rd_loop1_count = 0
      THEN stream_rd_loop2_addr
    ELSE stream_rd_loop1_addr

Loop2Address(rd_ready) ==
  stream_rd_loop2_addr' =
    IF loop2_inc(rd_ready) THEN stream_rd_loop2_addr + rd_cfg.offset_2
    ELSE IF rd_state # RD_CFG_STREAM /\ stream_rd_loop2_count = 0
      THEN rd_cfg.stream_base
    ELSE stream_rd_loop2_addr

\* What the request says, one edge after the registers it is taken from.
ReadRequest ==
  /\ rd_req_size' =
       CASE rd_state = RD_CFG_BUFFER -> rd_cfg.buffer_size
         [] rd_state = RD_CFG_STREAM -> rd_cfg.stream_size
         [] OTHER -> rd_req_size
  /\ rd_addr' =
       CASE rd_state_d = RD_CFG_BUFFER -> buffer_read_address
         [] rd_state_d = RD_CFG_STREAM -> stream_read_address
         [] OTHER -> rd_addr

\* all_writes_done, the way back to WR_IDLE, is up only in WR_WAIT_DONE, where
\* it is not looked at.
WrState ==
  /\ wr_state_d' = wr_state
  /\ wr_state' =
       CASE wr_state = WR_IDLE -> IF wr_ready /\ rd_state # IDLE THEN WR_RD_CFG ELSE WR_IDLE
         [] wr_state = WR_RD_CFG -> IF wr_state_d = WR_RD_CFG THEN WR_BUSY ELSE WR_RD_CFG
         [] wr_state = WR_BUSY ->
              IF wr_req /\ next_stream_write THEN WR_WAIT_DONE ELSE WR_BUSY
         [] wr_state = WR_WAIT_DONE -> IF wr_done THEN WR_RD_CFG ELSE WR_WAIT_DONE

\* Seeded fault: the units go on in turn from layer to layer.
WrPuId_NoClear ==
  wr_pu_id_count' = Counted(wr_pu_id_count, wr_req, NUM_PU - 1)

WrPuId ==
  wr_pu_id_count' =
    IF write_idx_inc THEN 0 ELSE Counted(wr_pu_id_count, wr_req, NUM_PU - 1)

WriteCounters ==
  /\ stream_wr_count' = Counted(stream_wr_count, wr_req, write_cfg.max)
  /\ wr_cfg_idx' = Counted(wr_cfg_idx, write_idx_inc, cfg_idx_max)
  /\ write_cfg' = setup.write[wr_cfg_idx]
  /\ wr_addr' =
       IF wr_state = WR_RD_CFG THEN write_cfg.base
       ELSE IF wr_req THEN wr_addr + write_cfg.offset
       ELSE wr_addr

\* axi_master_wrapper: a pulse is kept until all masters have pulsed.
WrDoneSticky ==
  wr_done_sticky' =
    [g \in AXI |-> wr_done_local[g] \/ (wr_done_sticky[g] /\ ~wr_done)]

\* Every master's wr_ready speaks of the unit it would serve next.
WrReadyAxi ==
  wr_ready_axi' = [g \in AXI |->
    /\ unissued[(wr_pu_id \div setup.NUM_AXI) * setup.NUM_AXI + g] = NONE
    /\ ~(wr_req /\ axi_of(wr_pu_id) = g /\ wr_ready)]

\* One pulse of a master follows the last beat of all it was asked for.
WrDoneLocal ==
  LET all_writes_done == [g \in AXI |->
        /\ \A i \in PU : axi_of(i) = g => unissued[i] = NONE
        /\ sending[g] = <<>>]
  IN  /\ all_writes_done_d' = all_writes_done
      /\ wr_done_local' = [g \in AXI |-> all_writes_done[g] /\ ~all_writes_done_d[g]]

\* The units in issuing have their last burst issued, and the masters in moving
\* come one edge closer to the end of what was issued.
Writes(issuing, moving) ==
  /\ unissued' = [i \in PU |->
       IF wr_req /\ wr_pu_id = i THEN wr_cfg_idx
       ELSE IF i \in issuing THEN NONE
       ELSE unissued[i]]
  /\ sending' = [g \in AXI |->
       IF \E i \in issuing : axi_of(i) = g
         THEN <<unissued[CHOOSE i \in issuing : axi_of(i) = g], SEND_EDGES>>
       ELSE IF sending[g] = <<>> \/ g \notin moving THEN sending[g]
       ELSE IF sending[g][2] = 1 THEN <<>>
       ELSE <<sending[g][1], sending[g][2] - 1>>]

\* The accelerator around the controller.
Progress(start, rd_ready) ==
  /\ layers_read' =
       IF done THEN 0 ELSE Counted(layers_read, read_idx_inc(rd_ready), setup.layers)
  /\ may_start' = (done \/ (may_start /\ ~start))

-----------------------------------------------------------------------------

\* Out of a reset of a few edges.  wr_done_local pulses once although nothing
\* was written: all_writes_done_d is reset to 0.
Init ==
  /\ setup \in Setups
  /\ rd_state = IDLE /\ rd_state_d = IDLE
  /\ rd_cfg_idx = 0 /\ rd_cfg = setup.read[0]
  /\ buffer_rd_count = 0
  /\ stream_rd_loop0_count = 0 /\ stream_rd_loop1_count = 0 /\ stream_rd_loop2_count = 0
  /\ read_throttle_d = FALSE
  /\ buffer_read_address = 0 /\ stream_read_address = 0
  /\ stream_rd_loop1_addr = 0 /\ stream_rd_loop2_addr = 0
  /\ rd_req_size = 0 /\ rd_addr = 0
  /\ wr_state = WR_IDLE /\ wr_state_d = WR_IDLE
  /\ wr_cfg_idx = 0 /\ write_cfg = setup.write[0]
  /\ stream_wr_count = 0 /\ wr_pu_id_count = 0
  /\ wr_addr = 0
  /\ wr_done_sticky = [g \in AXI |-> FALSE]
  /\ wr_ready_axi = [g \in AXI |-> TRUE]
  /\ all_writes_done_d = [g \in AXI |-> FALSE]
  /\ wr_done_local = [g \in AXI |-> FALSE]
  /\ unissued = [i \in PU |-> NONE]
  /\ sending = [g \in AXI |-> <<>>]
  /\ layers_read = 0
  /\ may_start = TRUE

Edge(start, rd_ready, issuing, moving) ==
  /\ RdState(start, rd_ready)
  /\ ReadCounters(rd_ready)
  /\ BufferAddress(rd_ready)
  /\ StreamAddress(rd_ready) /\ Loop1Address(rd_ready) /\ Loop2Address(rd_ready)
  /\ ReadRequest
  /\ WrState /\ WriteCounters /\ WrPuId
  /\ WrReadyAxi /\ WrDoneLocal /\ WrDoneSticky /\ Writes(issuing, moving)
  /\ Progress(start, rd_ready)
  /\ UNCHANGED setup

\* An edge under reset.  The ROM outputs, the delayed states, the throttle and
\* wr_ready are not reset: they follow what was there before.
Reset ==
  /\ rd_state' = IDLE /\ rd_state_d' = rd_state
  /\ rd_cfg_idx' = 0 /\ rd_cfg' = setup.read[rd_cfg_idx]
  /\ buffer_rd_count' = 0
  /\ stream_rd_loop0_count' = 0 /\ stream_rd_loop1_count' = 0 /\ stream_rd_loop2_count' = 0
  /\ read_throttle_d' \in {read_throttle \/ rd_req(rd_ready) : rd_ready \in BOOLEAN}
  /\ buffer_read_address' = 0 /\ stream_read_address' = 0
  /\ stream_rd_loop1_addr' = 0 /\ stream_rd_loop2_addr' = 0
  /\ rd_req_size' = 0 /\ rd_addr' = 0
  /\ wr_state' = WR_IDLE /\ wr_state_d' = wr_state
  /\ wr_cfg_idx' = 0 /\ write_cfg' = setup.write[wr_cfg_idx]
  /\ stream_wr_count' = 0 /\ wr_pu_id_count' = 0
  /\ wr_addr' = 0
  /\ wr_done_sticky' = [g \in AXI |-> FALSE]
  /\ WrReadyAxi
  /\ all_writes_done_d' = [g \in AXI |-> FALSE]
  /\ wr_done_local' = [g \in AXI |-> FALSE]
  /\ unissued' = [i \in PU |-> NONE]
  /\ sending' = [g \in AXI |-> <<>>]
  /\ layers_read' = 0 /\ may_start' = TRUE
  /\ UNCHANGED setup

\* The units that issue on one edge, at most one of each master.  Results are
\* there while their layer is read, the last of them only after its last read.
Issuing ==
  LET asked == {i \in PU : unissued[i] # NONE}
      unread == {i \in asked : layers_read <= unissued[i]}
  IN  {s \in SUBSET asked :
         /\ \A i, j \in s : axi_of(i) = axi_of(j) => i = j
         /\ s \cap unread # {} =>
              /\ rd_state # IDLE
              /\ wr_state = WR_WAIT_DONE => unread \ s # {}}

\* The controller is started again only after done.
Next ==
  \E start, rd_ready \in BOOLEAN, issuing \in Issuing, moving \in SUBSET AXI :
    /\ start => may_start
    /\ Edge(start, rd_ready, issuing, moving)

\* A reset of any length at any time.
NextOrReset == Next \/ Reset

\* An edge on which every master moves on.
BusyEdge ==
  \E start \in BOOLEAN, issuing \in Issuing :
    /\ start => may_start
    /\ \A s \in Issuing : issuing \subseteq s => s = issuing
    /\ Edge(start, TRUE, issuing, AXI)

\* The clock runs, and the masters go on taking reads and sending results.
Spec == Init /\ [][NextOrReset]_vars /\ WF_vars(Next) /\ WF_vars(BusyEdge)

-----------------------------------------------------------------------------
(* Properties. *)

\* The counters stay within the loops of the layer they count for.
TypeOK ==
  /\ setup \in Setups
  /\ rd_state \in 0 .. 4 /\ rd_state_d \in 0 .. 4
  /\ wr_state \in 0 .. 3 /\ wr_state_d \in 0 .. 3
  /\ rd_cfg_idx \in 0 .. cfg_idx_max /\ wr_cfg_idx \in 0 .. cfg_idx_max
  /\ LET r == setup.read[rd_cfg_idx] w == setup.write[wr_cfg_idx] IN
     /\ buffer_rd_count \in 0 .. r.buffer_max
     /\ stream_rd_loop0_count \in 0 .. r.max_0
     /\ stream_rd_loop1_count \in 0 .. r.max_1
     /\ stream_rd_loop2_count \in 0 .. r.max_2
     /\ stream_wr_count \in 0 .. w.max
  /\ wr_pu_id_count \in PU
  /\ unissued \in [PU -> 0 .. cfg_idx_max \cup {NONE}]
  /\ sending \in [AXI -> {<<>>} \cup ((0 .. cfg_idx_max) \X (1 .. SEND_EDGES))]
  /\ \A f \in {wr_done_sticky, wr_ready_axi, all_writes_done_d, wr_done_local} :
       f \in [AXI -> BOOLEAN]
  /\ read_throttle_d \in BOOLEAN /\ may_start \in BOOLEAN
  /\ layers_read \in 0 .. setup.layers

\* Every read request is the one the loops of its layer have come to: the entry
\* of the ROM, the bases of the loops and the request are registered one after
\* another, and the first request of a layer, a loop or a buffer must not go out
\* with an address or a size of the one before.
ReadIsRight ==
  LET r == setup.read[rd_cfg_idx]
      pass == stream_rd_loop0_count + (r.max_0 + 1) * stream_rd_loop1_count
  IN  rd_req(TRUE) =>
        IF rd_state = BUSY_BUFFER
          THEN /\ rd_addr = r.buffer_base + r.buffer_offset * pass
               /\ rd_req_size = r.buffer_size
          ELSE /\ rd_addr = r.stream_base + r.offset_0 * stream_rd_loop0_count
                                          + r.offset_1 * stream_rd_loop1_count
                                          + r.offset_2 * stream_rd_loop2_count
               /\ rd_req_size = r.stream_size

\* Every write request goes to a free unit, the units in turn from the first of
\* the layer on, with the address of its place in the layer.
WriteIsRight ==
  LET w == setup.write[wr_cfg_idx] IN
  wr_req =>
    /\ wr_addr = w.base + w.offset * stream_wr_count
    /\ write_cfg.size = w.size
    /\ wr_pu_id = IF w.l_type = 2 THEN 0 ELSE stream_wr_count % NUM_PU
    /\ unissued[wr_pu_id] = NONE

\* "Throttles the read to wait for write to finish": when a layer is read, the
\* results of the layers below it have left the masters to the last beat.
ReadAfterWrite ==
  rd_req(TRUE) =>
    /\ \A i \in PU : unissued[i] # NONE => unissued[i] >= rd_cfg_idx
    /\ \A g \in AXI : sending[g] # <<>> => sending[g][1] >= rd_cfg_idx

\* A layer is counted as written when all its requests are: no pulse of an
\* earlier request, of one master alone or of the reset is taken for the last.
CountedIsWritten ==
  write_idx_inc =>
    /\ \A i \in PU : unissued[i] = NONE
    /\ \A g \in AXI : sending[g] = <<>>

\* The two sides, each waiting for the other's index, come to the end of the
\* network, or are reset: the controller can be started again.
RunEnds == ~may_start ~> may_start
=============================================================================
