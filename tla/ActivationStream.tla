-------------------------- MODULE ActivationStream --------------------------
(***************************************************************************)
(* The activation side of onchip/src/top/mem_controller.v in mode 1.  A    *)
(* picture is a grid of blocks of 3 x 3 activations, ROW_BLOCKS in a row.  *)
(* It is stored sparse: a word of flags per block and, in a memory of its  *)
(* own for each of the 9 places of a block (column_parallel.v), the        *)
(* activations whose flag is 1, without the zeros.  The blocks of a row    *)
(* are read one per clock into parallel_array_reg, ahead of their use; en  *)
(* or the end of a kernel moves them to parallel_array, which is shown,    *)
(* and starts reading the next row.  A step is one clock edge outside      *)
(* reset.                                                                  *)
(*                                                                         *)
(* The memories are written before `start' and hold the picture.  The      *)
(* activation in block b is the number b + 1, a missing one 0.             *)
(***************************************************************************)
EXTENDS Integers, FiniteSets

CONSTANTS
  ROW_BLOCKS, \* blocks in a row, 6
  ROWS,       \* block rows in memory
  Places,     \* the places of a block that are modelled, of the 9 alike
  Pictures    \* the flags of the pictures: functions from blocks to places

Blocks == 0 .. ROW_BLOCKS * ROWS - 1

ASSUME PictureAssumption ==
  /\ ROW_BLOCKS \in Nat \ {0} /\ ROWS \in Nat \ {0}
  /\ Pictures \subseteq [Blocks -> SUBSET Places]

VARIABLES
  picture,              \* the memories ram_flag
  reading,              \* state_parallel = PARALLEL_READ
  rd_addr_pflag,
  flag_state_parallel, flag_state_parallel_d,
  rd_act_flag_p,        \* places with a flag in the block read last
  flag_d,               \* the same, one edge later
  rd_addr,              \* per place, the address of its next activation
  rd_data,              \* per place, the output register of its memory
  parallel_array_reg,   \* the row read ahead, its first block in slot 0
  parallel_array,       \* the row shown
  row_index_signed,
  act_index_base

avars == <<picture, reading, rd_addr_pflag, flag_state_parallel, flag_state_parallel_d,
           rd_act_flag_p, flag_d, rd_addr, rd_data, parallel_array_reg, parallel_array,
           row_index_signed, act_index_base>>

Slots == 0 .. ROW_BLOCKS - 1

Nothing == [p \in Places |-> 0]

\* Two's complement in n bits.
Signed(v, n) == IF v >= 2 ^ (n - 1) THEN v - 2 ^ n ELSE v

\* A memory past the end of the picture holds whatever it held: no flag is
\* modelled there.
FlagsOf(b) == IF b \in Blocks THEN picture[b] ELSE {}

\* The activation at address a of the memory of place p: the a-th from 0.
Stored(p, a) ==
  LET at == {b \in Blocks : /\ p \in picture[b]
                            /\ Cardinality({c \in 0 .. b - 1 : p \in picture[c]}) = a}
  IN  IF at = {} THEN 0 ELSE (CHOOSE b \in at : TRUE) + 1

-----------------------------------------------------------------------------
(* Wires. *)

parallel_row_read_finish == (rd_addr_pflag + 1) % ROW_BLOCKS = 0

\* The activations on parallel_in: 0 where no flag was set.
parallel_in == [p \in Places |-> IF p \in flag_d THEN rd_data[p] ELSE 0]

-----------------------------------------------------------------------------
(* Registers. *)

\* Seeded fault: a row is read ahead only after `start'.
StateParallel_OnlyAtStart(start, en, row_index_count_3) ==
  reading' = IF reading THEN ~parallel_row_read_finish ELSE start

\* A row of blocks is read at `start', at en and at the end of every kernel.
StateParallel(start, en, row_index_count_3) ==
  reading' = IF reading THEN ~parallel_row_read_finish
             ELSE start \/ en \/ row_index_count_3

ReadFlags ==
  /\ rd_addr_pflag' = IF reading THEN rd_addr_pflag + 1 ELSE rd_addr_pflag
  /\ rd_act_flag_p' = IF reading THEN FlagsOf(rd_addr_pflag) ELSE {}
  /\ flag_state_parallel' = reading
  /\ flag_state_parallel_d' = flag_state_parallel

\* Seeded fault: the address is that of the block, not of the activation.
ReadActivations_Dense ==
  /\ flag_d' = rd_act_flag_p
  /\ rd_addr' = [p \in Places |-> IF flag_state_parallel THEN rd_addr[p] + 1 ELSE rd_addr[p]]
  /\ rd_data' = [p \in Places |->
                   IF p \in rd_act_flag_p THEN Stored(p, rd_addr[p]) ELSE rd_data[p]]

\* column_parallel.v: a set flag reads the next activation of its place.
ReadActivations ==
  /\ flag_d' = rd_act_flag_p
  /\ rd_addr' = [p \in Places |-> IF p \in rd_act_flag_p THEN rd_addr[p] + 1 ELSE rd_addr[p]]
  /\ rd_data' = [p \in Places |->
                   IF p \in rd_act_flag_p THEN Stored(p, rd_addr[p]) ELSE rd_data[p]]

\* The flag register and the memory are two edges behind the read.
ReadAhead ==
  parallel_array_reg' =
    IF flag_state_parallel_d
      THEN [s \in Slots |-> IF s = ROW_BLOCKS - 1 THEN parallel_in
                                                  ELSE parallel_array_reg[s + 1]]
      ELSE parallel_array_reg

ShowRow(en, row_index_count_3) ==
  /\ parallel_array' = IF en \/ row_index_count_3 THEN parallel_array_reg ELSE parallel_array
  /\ row_index_signed' =
       IF row_index_count_3 THEN Signed((row_index_signed + 3) % 32, 5)
       ELSE row_index_signed

\* Seeded fault: the base is not reset at the end of a kernel row.
ActIndexBase_NoReset(row_finish_done_0, row_cal_done) ==
  act_index_base' =
    IF ~row_finish_done_0 THEN act_index_base
    ELSE IF act_index_base >= 12 THEN 0
    ELSE act_index_base + 3

ActIndexBase(row_finish_done_0, row_cal_done) ==
  act_index_base' =
    IF row_cal_done THEN 0
    ELSE IF ~row_finish_done_0 THEN act_index_base
    ELSE IF act_index_base >= 12 THEN 0
    ELSE act_index_base + 3

-----------------------------------------------------------------------------

\* Out of reset in mode 1, with the picture in memory.
ActivationInit ==
  /\ picture \in Pictures
  /\ reading = FALSE
  /\ rd_addr_pflag = 0
  /\ flag_state_parallel = FALSE /\ flag_state_parallel_d = FALSE
  /\ rd_act_flag_p = {} /\ flag_d = {}
  /\ rd_addr = Nothing /\ rd_data = Nothing
  /\ parallel_array_reg = [s \in Slots |-> Nothing]
  /\ parallel_array = [s \in Slots |-> Nothing]
  /\ row_index_signed = 2
  /\ act_index_base = 0

ActivationEdge(start, en, row_index_count_3, row_finish_done_0, row_cal_done) ==
  /\ UNCHANGED picture
  /\ StateParallel(start, en, row_index_count_3)
  /\ ReadFlags
  /\ ReadActivations
  /\ ReadAhead
  /\ ShowRow(en, row_index_count_3)
  /\ ActIndexBase(row_finish_done_0, row_cal_done)
=============================================================================
