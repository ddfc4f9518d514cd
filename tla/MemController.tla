---------------------------- MODULE MemController ----------------------------
(***************************************************************************)
(* onchip/src/top/mem_controller.v in mode 1: the activation side of       *)
(* ActivationStream and the weight side of WeightStream on one clock, with *)
(* the PE array that multiplies what they show.  The first row of blocks   *)
(* read makes the weight side read its kernel; the end of the scan (en)    *)
(* shows the first row; from then on three rows of the kernel are shown    *)
(* against one row of blocks, and the next row of blocks is read under     *)
(* them.                                                                   *)
(***************************************************************************)
EXTENDS ActivationStream, WeightStream

VARIABLES
  started, \* external: start has been given
  passes,  \* external: passes the PE array has made over the row
  clocks   \* external: clocks of the pass under way

vars == <<avars, wvars, started, passes, clocks>>

-----------------------------------------------------------------------------

\* A kernel has been shown against the row of blocks.
row_index_count_3 == state = "WAIT" /\ row_index_count = 3

act_index == act_index_base + wei_index_d

zero_flag == row_val_num = 15

(* The PE array, external, after the testbench: a row with n weights takes 5 *)
(* passes of n clocks, one for every third column of activations; a row      *)
(* without weights takes one clock.  It stops before the last row of the     *)
(* last row of blocks would end: the next picture begins with a reset.       *)

LastRow == row_index_signed = 3 * ROWS - 1 /\ row_index_count = 2

PassEnds == state = "COMP" /\ (zero_flag \/ clocks = row_val_num)

row_finish_done_0 == PassEnds /\ ~LastRow
row_cal_done == row_finish_done_0 /\ (zero_flag \/ passes = 4)

PeArray ==
  /\ clocks' = IF state = "COMP" /\ ~PassEnds THEN clocks + 1 ELSE 0
  /\ passes' = IF row_cal_done THEN 0
               ELSE IF row_finish_done_0 THEN passes + 1
               ELSE passes

-----------------------------------------------------------------------------

Init ==
  /\ ActivationInit
  /\ WeightInit
  /\ started = FALSE
  /\ passes = 0 /\ clocks = 0

Edge(start) ==
  /\ ActivationEdge(start, en, row_index_count_3, row_finish_done_0, row_cal_done)
  /\ WeightEdge(parallel_row_read_finish, row_cal_done)
  /\ PeArray
  /\ started' = (started \/ start)

Next == \E start \in BOOLEAN : (start => ~started) /\ Edge(start)

\* The clock runs.
Spec == Init /\ [][Next]_vars /\ WF_vars(Next)

-----------------------------------------------------------------------------
(* Properties. *)

\* The registers of the activation side hold values they may hold.
TypeOK ==
  /\ rd_addr_pflag \in 0 .. ROW_BLOCKS * (ROWS + 1)
  /\ rd_act_flag_p \subseteq Places /\ flag_d \subseteq Places
  /\ rd_addr \in [Places -> 0 .. ROW_BLOCKS * ROWS]
  /\ row_index_signed \in {3 * r - 1 : r \in 1 .. ROWS}
  /\ act_index_base \in {0, 3, 6, 9, 12}
  /\ passes \in 0 .. 4

\* The row of blocks that row_index names, 3 rows of activations each.
BlockRow == (row_index_signed - 2) \div 3

\* While the PE array computes, all blocks of the row that row_index names are
\* shown, each activation at its place: the row was completely read before it
\* was needed, by a read that runs under the rows of the kernel.
RowIsShown ==
  state = "COMP" =>
    \A s \in Slots, p \in Places :
      LET b == ROW_BLOCKS * BlockRow + s
      IN  parallel_array[s][p] = IF p \in picture[b] THEN b + 1 ELSE 0

\* The flags of the row that is due, in the order of their weights.
Due == RowOf(row)
DueAt(k) == CHOOSE f \in Due : Cardinality({g \in Due : g > f}) = k

\* Every weight of the row that is due meets every third column exactly once:
\* on the k-th clock of a pass the k-th weight of the row is shown, with the
\* activation column of that weight in that pass.
EachPairOnce ==
  state = "COMP" /\ Due # {} =>
    /\ clocks < Cardinality(Due)
    /\ <<serial_out_reg, wei_index_d>> = PairOf(DueAt(clocks))
    /\ act_index = 3 * passes + wei_index_d

\* Once started, the stream reaches the last row of the picture.
PictureIsStreamed == started ~> LastRow
=============================================================================
