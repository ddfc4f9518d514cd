----------------------------- MODULE DenseStream -----------------------------
(***************************************************************************)
(* onchip/src/top/mem_controller.v in mode 0, where all 9 weights of a     *)
(* kernel are shown at once, zeros filled in, against the activations of   *)
(* one row of the picture after the other.  Both are stored sparse, as in  *)
(* mode 1: flags, and the values whose flag is 1.  The kernel is unpacked  *)
(* once, after `start'.  The flags of a row are read ahead from the three  *)
(* places of its blocks that belong to it, put in the order of the columns *)
(* and scanned, one activation per clock.  A step is one clock edge        *)
(* outside reset.                                                          *)
(*                                                                         *)
(* The memories are written before `start'.  The activation in row r and   *)
(* column c is the pair <<r, c>>; the k-th stored weight is the number k.  *)
(***************************************************************************)
EXTENDS Integers, FiniteSets, FiniteSetsExt

CONSTANTS
  IF_WIDTH, \* rows and columns of a picture; column numbers wrap there
  Kernels,  \* the kernels: sets of flags
  Pictures  \* the pictures: functions from rows to sets of columns

KERNEL_WIDTH == 3
KERNEL_SIZE  == KERNEL_WIDTH * KERNEL_WIDTH

\* Blocks of 3 x 3 in a row of blocks, the last one padded: READ_FLAG_LENGTH.
ROW_BLOCKS == IF_WIDTH \div KERNEL_WIDTH + 1

Flags   == 0 .. KERNEL_SIZE - 1
Places  == 0 .. KERNEL_SIZE - 1
Slots   == 0 .. ROW_BLOCKS - 1
Columns == 0 .. IF_WIDTH - 1
Rows    == 0 .. IF_WIDTH - 1

ASSUME DenseAssumption ==
  /\ IF_WIDTH \in Nat /\ IF_WIDTH > 1
  /\ Kernels \subseteq SUBSET Flags
  /\ Pictures \subseteq [Rows -> SUBSET Columns]

VARIABLES
  kernel, picture,          \* the memories
  started,                  \* external: start has been given
  clocks,                   \* external: clocks the PE array has spent on the row
  serial_read,              \* state_serial = SERIAL_READ
  rd_req_wei, rd_addr_sflag, read_wei_finish_d,
  flag_serial,              \* the output register of ram_sflag
  k, s_read_req, s_read_req_d, rd_addr_s,
  s_read_data,              \* the output register of ram_bank
  flag_stream_wei, flag_stream_wei_d,
  serial_array_full, m,     \* the kernel shown
  en, flag_en,
  state, row_index_count, row_index_signed, row_val_num_a,
  reading,                  \* state_parallel = PARALLEL_READ
  rd_addr_pflag, shift_pflag, shift_pflag_d,
  rd_act_flag_s,            \* per place, the blocks of a row whose flag is 1
  row_act_flag_reg,         \* columns of the row still to be scanned
  valid_act_index_reg, valid_act_index_d,
  rd_addr,                  \* per place, the address of its next activation
  rd_data,                  \* per place, the output register of its memory
  column_parallel_index

weights == <<serial_read, rd_req_wei, rd_addr_sflag, read_wei_finish_d, flag_serial, k,
             s_read_req, s_read_req_d, rd_addr_s, s_read_data, flag_stream_wei,
             flag_stream_wei_d, serial_array_full, m, en, flag_en>>

activations == <<state, row_index_count, row_index_signed, row_val_num_a, reading,
                 rd_addr_pflag, shift_pflag, shift_pflag_d, rd_act_flag_s,
                 row_act_flag_reg, valid_act_index_reg, valid_act_index_d, rd_addr,
                 rd_data, column_parallel_index>>

vars == <<kernel, picture, started, clocks, weights, activations>>

\* What a memory holds past what was written.
X == -1
NoActivation == <<X, X>>

StoredWeight(a) == IF a < Cardinality(kernel) THEN a + 1 ELSE X

\* The flag of place p in block b, the blocks counted row by row.
FlagOf(b, p) ==
  LET r == KERNEL_WIDTH * (b \div ROW_BLOCKS) + p \div KERNEL_WIDTH
      c == KERNEL_WIDTH * (b % ROW_BLOCKS) + (p % KERNEL_WIDTH)
  IN  r \in Rows /\ c \in picture[r]

\* The cells that fall on a place of their block, the activations among them, and
\* the one at address a of the memory of the place.
Cells ==
  [p \in Places |-> {x \in Rows \X Columns : /\ x[1] % KERNEL_WIDTH = p \div KERNEL_WIDTH
                                             /\ x[2] % KERNEL_WIDTH = p % KERNEL_WIDTH}]

AtPlace(p) == {x \in Cells[p] : x[2] \in picture[x[1]]}

Before(x, y) == x[1] < y[1] \/ (x[1] = y[1] /\ x[2] < y[2])

Stored(p, a) ==
  LET at == {x \in AtPlace(p) : Cardinality({y \in AtPlace(p) : Before(y, x)}) = a}
  IN  IF at = {} THEN NoActivation ELSE CHOOSE x \in at : TRUE

-----------------------------------------------------------------------------
(* Wires. *)

row_index_count_2 == state = "WAIT" /\ row_index_count = 2

\* row_val_num_a - 1, as wide as a column number: a row of no activation and a
\* row of IF_WIDTH have the same.
row_val_num == (row_val_num_a - 1) % IF_WIDTH
zero_flag == row_val_num = IF_WIDTH - 1

\* The remainder of the negative row before en is 3 in its two bits.
block_index == IF row_index_signed < 0 THEN 3 ELSE row_index_signed % KERNEL_WIDTH

\* The flags read, in the order of the columns.
row_act_flag ==
  {f \in 0 .. KERNEL_WIDTH * ROW_BLOCKS - 1 :
     f \div KERNEL_WIDTH \in rd_act_flag_s[KERNEL_WIDTH * shift_pflag_d + (f % KERNEL_WIDTH)]}

position_1_act == IF row_act_flag_reg = {} THEN 0 ELSE Min(row_act_flag_reg) % IF_WIDTH

valid_act_index == (position_1_act + valid_act_index_reg) % IF_WIDTH

\* The place that is read: a column of the blocks of the row.
ActPlace == KERNEL_WIDTH * block_index + (valid_act_index % KERNEL_WIDTH)

\* The activation shown and its column.
serial_out ==
  IF column_parallel_index \in Places THEN rd_data[column_parallel_index] ELSE NoActivation
act_index == valid_act_index_d

(* The PE array, external, after the testbench: a row of n activations takes *)
(* n clocks, an empty row one.  It stops in the last row: the next picture   *)
(* begins with a reset.                                                      *)

LastRow == row_index_signed = IF_WIDTH - 1

RowEnds == state = "COMP" /\ (zero_flag \/ clocks = row_val_num)

row_cal_done == RowEnds /\ ~LastRow
PictureDone  == RowEnds /\ LastRow

\* The weights have been read, or a row is finished.
read_wei_finish == rd_addr_sflag = KERNEL_SIZE \/ row_cal_done

-----------------------------------------------------------------------------
(* The kernel. *)

ReadKernel(start) ==
  /\ serial_read' = IF serial_read THEN ~read_wei_finish_d ELSE start
  /\ rd_req_wei' = start
  /\ rd_addr_sflag' = IF serial_read THEN rd_addr_sflag + 1 ELSE rd_addr_sflag
  /\ read_wei_finish_d' = read_wei_finish
  /\ flag_serial' = IF rd_req_wei THEN kernel ELSE flag_serial

\* A flag per clock, k, asks for the next stored weight; the last flag is asked
\* again for ever.
ReadWeights ==
  /\ k' = IF flag_serial # {} /\ k < KERNEL_SIZE - 1 THEN k + 1 ELSE k
  /\ s_read_req' = (k \in flag_serial)
  /\ rd_addr_s' = IF s_read_req THEN (rd_addr_s + 1) % 16 ELSE rd_addr_s
  /\ s_read_data' = IF s_read_req THEN StoredWeight(rd_addr_s) ELSE s_read_data

\* Seeded fault: no zeros are filled in, as in mode 1.
FillKernel_FlaggedOnly ==
  /\ s_read_req_d' = s_read_req
  /\ flag_stream_wei' = (flag_stream_wei \/ flag_serial # {})
  /\ flag_stream_wei_d' = flag_stream_wei
  /\ IF s_read_req_d /\ m < Cardinality(kernel)
       THEN /\ serial_array_full' = [serial_array_full EXCEPT ![m] = s_read_data]
            /\ m' = m + 1
       ELSE UNCHANGED <<serial_array_full, m>>

\* Two edges behind the flag its weight, or a zero, takes its slot.
FillKernel ==
  /\ s_read_req_d' = s_read_req
  /\ flag_stream_wei' = (flag_stream_wei \/ flag_serial # {})
  /\ flag_stream_wei_d' = flag_stream_wei
  /\ IF flag_stream_wei_d /\ m < KERNEL_SIZE
       THEN /\ serial_array_full' =
                 [serial_array_full EXCEPT ![m] = IF s_read_req_d THEN s_read_data ELSE 0]
            /\ m' = m + 1
       ELSE UNCHANGED <<serial_array_full, m>>

\* Seeded fault: the stream starts one weight earlier.
Enable_Early ==
  LET done == ~flag_en /\ m = 5
  IN  en' = done /\ flag_en' = (flag_en \/ done)

\* The pulse that starts the stream, ahead of the last three weights.
Enable ==
  LET done == ~flag_en /\ m = 6
  IN  en' = done /\ flag_en' = (flag_en \/ done)

-----------------------------------------------------------------------------
(* The rows. *)

RowState ==
  /\ state' = CASE state = "PREP" -> IF en THEN "WAIT" ELSE "PREP"
                [] state = "COMP" -> IF row_cal_done THEN "WAIT" ELSE "COMP"
                [] state = "WAIT" -> "COMP"
  /\ row_index_count' = IF ~row_cal_done THEN row_index_count
                        ELSE IF row_index_count < 3 THEN row_index_count + 1
                        ELSE 1
  /\ row_index_signed' = IF en \/ row_cal_done THEN row_index_signed + 1
                         ELSE row_index_signed
  /\ row_val_num_a' = IF state = "WAIT" THEN Cardinality(row_act_flag) ELSE row_val_num_a

\* Seeded fault: the next row of blocks is read after three rows, not ahead.
FlagAddress_AfterThird ==
  /\ reading' = (~reading /\ read_wei_finish)
  /\ rd_addr_pflag' = IF reading /\ state = "WAIT" /\ row_index_count = 3
                        THEN rd_addr_pflag + ROW_BLOCKS ELSE rd_addr_pflag
  /\ shift_pflag' = IF en \/ row_cal_done THEN (row_index_signed + 2) % KERNEL_WIDTH
                    ELSE shift_pflag
  /\ shift_pflag_d' = shift_pflag

\* The rows are read one ahead: the row of the blocks moves with every row shown,
\* the blocks with every third.
FlagAddress ==
  /\ reading' = (~reading /\ read_wei_finish)
  /\ rd_addr_pflag' = IF reading /\ row_index_count_2 THEN rd_addr_pflag + ROW_BLOCKS
                      ELSE rd_addr_pflag
  /\ shift_pflag' = IF en \/ row_cal_done THEN (row_index_signed + 2) % KERNEL_WIDTH
                    ELSE shift_pflag
  /\ shift_pflag_d' = shift_pflag

\* ram_flag.v: the places that are not asked for read 0.
ReadFlags ==
  rd_act_flag_s' =
    [p \in Places |-> IF p \div KERNEL_WIDTH = shift_pflag
                        THEN {s \in Slots : FlagOf(rd_addr_pflag + s, p)} ELSE {}]

\* The lowest flag is shifted out with the zeros below it.  The column counter
\* goes on from where it is, over the rows.
ScanRow ==
  /\ row_act_flag_reg' =
       IF en \/ row_cal_done THEN row_act_flag
       ELSE {f - position_1_act - 1 : f \in {g \in row_act_flag_reg : g > position_1_act}}
  /\ valid_act_index_reg' = IF row_act_flag_reg # {} THEN (valid_act_index + 1) % IF_WIDTH
                            ELSE valid_act_index_reg
  /\ valid_act_index_d' = valid_act_index

\* Seeded fault: the address moves with every read, the idle ones included.
ReadActivation_Idle ==
  /\ column_parallel_index' = ActPlace
  /\ IF ActPlace \in Places
       THEN /\ rd_data' = [rd_data EXCEPT ![ActPlace] = Stored(ActPlace, rd_addr[ActPlace])]
            /\ rd_addr' = [rd_addr EXCEPT ![ActPlace] = @ + 1]
       ELSE UNCHANGED <<rd_data, rd_addr>>

\* column_parallel.v: the memory of the place is read on every clock, its address
\* moves only while flags are left.
ReadActivation ==
  /\ column_parallel_index' = ActPlace
  /\ IF ActPlace \in Places
       THEN /\ rd_data' = [rd_data EXCEPT ![ActPlace] = Stored(ActPlace, rd_addr[ActPlace])]
            /\ rd_addr' = IF row_act_flag_reg = {} THEN rd_addr
                          ELSE [rd_addr EXCEPT ![ActPlace] = @ + 1]
       ELSE UNCHANGED <<rd_data, rd_addr>>

PeArray == clocks' = IF state = "COMP" /\ ~RowEnds THEN clocks + 1 ELSE 0

-----------------------------------------------------------------------------

\* Out of reset in mode 0, with kernel and picture in memory.
Init ==
  /\ kernel \in Kernels /\ picture \in Pictures
  /\ started = FALSE /\ clocks = 0
  /\ serial_read = FALSE /\ rd_req_wei = FALSE /\ rd_addr_sflag = 0
  /\ read_wei_finish_d = FALSE /\ flag_serial = {}
  /\ k = 0 /\ s_read_req = FALSE /\ s_read_req_d = FALSE /\ rd_addr_s = 0 /\ s_read_data = 0
  /\ flag_stream_wei = FALSE /\ flag_stream_wei_d = FALSE
  /\ serial_array_full = [f \in Flags |-> 0] /\ m = 0
  /\ en = FALSE /\ flag_en = FALSE
  /\ state = "PREP" /\ row_index_count = 0 /\ row_index_signed = -1 /\ row_val_num_a = 0
  /\ reading = FALSE /\ rd_addr_pflag = 0 /\ shift_pflag = 0 /\ shift_pflag_d = 0
  /\ rd_act_flag_s = [p \in Places |-> {}]
  /\ row_act_flag_reg = {} /\ valid_act_index_reg = 0 /\ valid_act_index_d = 0
  /\ rd_addr = [p \in Places |-> 0] /\ rd_data = [p \in Places |-> NoActivation]
  /\ column_parallel_index = 0

Edge(start) ==
  /\ UNCHANGED <<kernel, picture>>
  /\ started' = (started \/ start)
  /\ ReadKernel(start)
  /\ ReadWeights
  /\ FillKernel
  /\ Enable
  /\ RowState
  /\ FlagAddress
  /\ ReadFlags
  /\ ScanRow
  /\ ReadActivation
  /\ PeArray

Stream == ~PictureDone /\ \E start \in BOOLEAN : (start => ~started) /\ Edge(start)

\* The picture is over and the controller waits for its reset.
Finished == PictureDone /\ UNCHANGED vars

Next == Stream \/ Finished

\* The clock runs.
Spec == Init /\ [][Next]_vars /\ WF_vars(Stream)

-----------------------------------------------------------------------------
(* Properties. *)

\* Every register holds a value it may hold.
TypeOK ==
  /\ flag_serial \in {{}, kernel} /\ rd_addr_sflag \in 0 .. KERNEL_SIZE + 2
  /\ k \in 0 .. KERNEL_SIZE - 1 /\ m \in 0 .. KERNEL_SIZE /\ rd_addr_s \in 0 .. 15
  /\ serial_array_full \in [Flags -> 0 .. KERNEL_SIZE]
  /\ state \in {"PREP", "COMP", "WAIT"} /\ row_index_count \in 0 .. 3
  /\ row_index_signed \in -1 .. IF_WIDTH - 1 /\ row_val_num_a \in 0 .. IF_WIDTH
  /\ rd_addr_pflag \in {ROW_BLOCKS * b : b \in Slots}
  /\ shift_pflag \in 0 .. 2 /\ shift_pflag_d \in 0 .. 2
  /\ row_act_flag_reg \subseteq Columns
  /\ valid_act_index_reg \in Columns /\ valid_act_index_d \in Columns
  /\ \A p \in Places : rd_addr[p] \in 0 .. Cardinality(AtPlace(p))
  /\ clocks \in Columns

\* While the PE array computes, the whole kernel is shown, each weight in the
\* slot of its flag: the last one arrives on the very edge on which the first
\* activation does.
KernelIsComplete ==
  state = "COMP" =>
    serial_array_full =
      [f \in Flags |-> IF f \in kernel THEN Cardinality({g \in kernel : g <= f}) ELSE 0]

\* The c-th activation of row r, from 0, by its column.
ColumnAt(r, c) == CHOOSE x \in picture[r] : Cardinality({y \in picture[r] : y < x}) = c

\* While the PE array computes, it is told the number of activations in the row
\* that row_index names and sees each of them once, in order, with its column:
\* the flags read ahead, the address of each place and the column counter agree.
RowIsScanned ==
  state = "COMP" =>
    /\ row_val_num_a = Cardinality(picture[row_index_signed])
    /\ picture[row_index_signed] # {} =>
         /\ clocks < row_val_num_a
         /\ act_index = ColumnAt(row_index_signed, clocks)
         /\ serial_out = <<row_index_signed, act_index>>

\* Once started, the stream reaches the end of the picture.
PictureIsScanned == started ~> PictureDone
=============================================================================
