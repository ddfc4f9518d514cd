---------------------------- MODULE WeightStream ----------------------------
(***************************************************************************)
(* The weight side of onchip/src/top/mem_controller.v in mode 1, where one *)
(* kernel of 3 x 3 weights is streamed against activations.  A kernel is   *)
(* stored sparse: a word of 9 flags, bit 8 for the first weight of the     *)
(* first row, and the weights whose flag is 1, without the zeros.  The     *)
(* flags are scanned from bit 0 up, one weight per clock; then the rows of *)
(* the kernel are shown in turn, each until the PE array has finished with *)
(* it, as pairs of a weight and its column.  A step is one clock edge      *)
(* outside reset.                                                          *)
(*                                                                         *)
(* The two memories are written before `start' and hold the kernel.  Flags *)
(* are sets of bit positions and shift registers are functions from slots; *)
(* the k-th stored weight is the number k.                                 *)
(***************************************************************************)
EXTENDS Integers, FiniteSets, FiniteSetsExt

CONSTANT Kernels \* the kernels: sets of flags in 0 .. KERNEL_SIZE - 1

KERNEL_WIDTH == 3
KERNEL_SIZE  == KERNEL_WIDTH * KERNEL_WIDTH

Flags == 0 .. KERNEL_SIZE - 1

ASSUME KernelAssumption == Kernels \subseteq SUBSET Flags

VARIABLES
  kernel,                   \* the word in ram_sflag
  serial_read,              \* state_serial = SERIAL_READ
  flag_wei_read,
  rd_req_wei,
  flag_serial,              \* the output register of ram_sflag
  flag_refresh_flag_serial,
  flag_serial_reg,          \* flags still to be scanned
  valid_wei_index_d,
  wei_index_array_full,     \* columns, the last scanned in slot 0
  s_read_req, s_read_req_d, rd_addr_s,
  s_read_data,              \* the output register of ram_bank
  serial_array_full, m,     \* weights, the first stored in slot 0
  en, flag_en,
  state,
  row_index_count,
  row_val_num_a, j, count_array,
  wei_index_array, serial_array, \* columns and weights of the row shown
  i,
  wei_index_d, serial_out_reg    \* the pair shown

wvars == <<kernel, serial_read, flag_wei_read, rd_req_wei, flag_serial,
           flag_refresh_flag_serial, flag_serial_reg, valid_wei_index_d,
           wei_index_array_full, s_read_req, s_read_req_d, rd_addr_s, s_read_data,
           serial_array_full, m, en, flag_en, state, row_index_count, row_val_num_a, j,
           count_array, wei_index_array, serial_array, i, wei_index_d, serial_out_reg>>

\* The Verilog value x: a register before it is loaded, a bit past the end.
X == -1

Words == 0 .. KERNEL_SIZE \* 0 where no weight has been stored

-----------------------------------------------------------------------------
(* Wires. *)

\* The position of the lowest flag.
valid_index == IF flag_serial_reg = {} THEN 0 ELSE Min(flag_serial_reg)

valid_wei_index == (valid_index + valid_wei_index_d) % KERNEL_WIDTH

valid_wei_index_back == 2 - valid_wei_index

\* The flags of row r, and the field of valid_row that counts them.
RowFlags(r) == {f \in flag_serial : f \div KERNEL_WIDTH = 2 - r}
valid_row(r) == Cardinality(RowFlags(r))

\* row_val_num_a - 1 in 4 bits: 15, the zero_flag, for a row of zeros.
row_val_num == (row_val_num_a - 1) % 16

wei_index == IF i \in DOMAIN wei_index_array THEN wei_index_array[i] ELSE 0

-----------------------------------------------------------------------------
(* Reading and scanning the kernel. *)

\* One kernel is read after each reset.
ReadKernel(parallel_row_read_finish) ==
  /\ LET go == parallel_row_read_finish /\ ~flag_wei_read
     IN  /\ serial_read' = (~serial_read /\ go)
         /\ flag_wei_read' = (flag_wei_read \/ (~serial_read /\ go))
         /\ rd_req_wei' = go
  /\ flag_refresh_flag_serial' = serial_read
  /\ flag_serial' = IF rd_req_wei THEN kernel ELSE flag_serial

\* The lowest flag is shifted out, with the zeros below it.
ScanFlags ==
  flag_serial_reg' =
    IF flag_refresh_flag_serial THEN flag_serial
    ELSE {f - valid_index - 1 : f \in {g \in flag_serial_reg : g > valid_index}}

\* The column of the flag scanned enters the stack of columns.
StackColumn ==
  IF flag_serial_reg # {}
    THEN /\ valid_wei_index_d' = valid_wei_index + 1
         /\ wei_index_array_full' =
              [k \in Flags |-> IF k = 0 THEN valid_wei_index_back
                                        ELSE wei_index_array_full[k - 1]]
    ELSE UNCHANGED <<valid_wei_index_d, wei_index_array_full>>

\* One stored weight is read per flag scanned, two edges behind it, and stored
\* one edge later.
ReadWeights ==
  /\ s_read_req' = (flag_serial_reg # {})
  /\ s_read_req_d' = s_read_req
  /\ rd_addr_s' = IF s_read_req THEN rd_addr_s + 1 ELSE rd_addr_s
  /\ s_read_data' = IF s_read_req THEN rd_addr_s + 1 ELSE s_read_data
  /\ IF s_read_req_d
       THEN /\ serial_array_full' = [serial_array_full EXCEPT ![m] = s_read_data]
            /\ m' = m + 1
       ELSE UNCHANGED <<serial_array_full, m>>

\* Seeded fault: the pulse also waits for a column in the first slot.
Enable_FirstSlot ==
  LET done == ~flag_en /\ flag_serial_reg = {} /\ wei_index_array_full[0] # 0
  IN  en' = done /\ flag_en' = (flag_en \/ done)

\* One pulse of en starts the stream once the scan is over: nothing is left to
\* scan and something has been stacked.
Enable ==
  LET done == /\ ~flag_en
              /\ flag_serial_reg = {}
              /\ \E k \in Flags : wei_index_array_full[k] # 0
  IN  en' = done /\ flag_en' = (flag_en \/ done)

-----------------------------------------------------------------------------
(* Showing the rows. *)

State(row_cal_done) ==
  state' =
    CASE state = "PREP" -> IF en THEN "WAIT" ELSE "PREP"
      [] state = "COMP" -> IF row_cal_done THEN "WAIT" ELSE "COMP"
      [] state = "WAIT" -> "COMP"

RowIndexCount(row_cal_done) ==
  row_index_count' =
    IF ~row_cal_done THEN row_index_count
    ELSE IF row_index_count < 3 THEN row_index_count + 1
    ELSE 1

\* Seeded fault: j wraps one row late.
LoadRow_LateWrap(row_cal_done) ==
  IF en \/ row_cal_done
    THEN /\ row_val_num_a' \in IF j <= 4 THEN {valid_row(j \div 2)} ELSE 0 .. 3
         /\ wei_index_array' = [k \in 0 .. 2 |-> wei_index_array_full[count_array + k]]
         /\ serial_array' = [k \in 0 .. 2 |-> serial_array_full[count_array + k]]
         /\ j' = IF en \/ j <= 2 * row_val_num_a THEN j + 2 ELSE 0
    ELSE UNCHANGED <<row_val_num_a, wei_index_array, serial_array, j>>

\* The next row is loaded.  A j past the three fields of valid_row selects bits
\* that do not exist, of which the build may make anything.
LoadRow(row_cal_done) ==
  IF en \/ row_cal_done
    THEN /\ row_val_num_a' \in IF j <= 4 THEN {valid_row(j \div 2)} ELSE 0 .. 3
         /\ wei_index_array' = [k \in 0 .. 2 |-> wei_index_array_full[count_array + k]]
         /\ serial_array' = [k \in 0 .. 2 |-> serial_array_full[count_array + k]]
         /\ j' = IF en \/ j < 2 * row_val_num_a THEN j + 2 ELSE 0
    ELSE UNCHANGED <<row_val_num_a, wei_index_array, serial_array, j>>

\* Seeded fault: the offset wraps as soon as it meets the last row.
CountArray_Strict ==
  count_array' =
    IF state # "WAIT" THEN count_array
    ELSE IF count_array + row_val_num_a < valid_row(0) + valid_row(1)
      THEN count_array + row_val_num_a
    ELSE 0

\* The place of the next row among the stored weights.
CountArray ==
  count_array' =
    IF state # "WAIT" THEN count_array
    ELSE IF count_array + row_val_num_a <= valid_row(0) + valid_row(1)
      THEN count_array + row_val_num_a
    ELSE 0

\* Seeded fault: the last weight of a row is left out.
Loop_Short(row_cal_done) ==
  i' = IF en \/ row_cal_done THEN 0 ELSE IF i + 1 < row_val_num THEN i + 1 ELSE 0

Loop(row_cal_done) ==
  i' = IF en \/ row_cal_done THEN 0 ELSE IF i < row_val_num THEN i + 1 ELSE 0

ShowPair ==
  /\ wei_index_d' = wei_index
  /\ serial_out_reg' = IF i \in DOMAIN serial_array THEN serial_array[i] ELSE X

-----------------------------------------------------------------------------

\* Out of reset, with the kernel in memory and `start' given.
WeightInit ==
  /\ kernel \in Kernels
  /\ serial_read = FALSE /\ flag_wei_read = FALSE /\ rd_req_wei = FALSE
  /\ flag_serial = {} /\ flag_refresh_flag_serial = FALSE /\ flag_serial_reg = {}
  /\ valid_wei_index_d = 0
  /\ wei_index_array_full = [k \in Flags |-> 0]
  /\ s_read_req = FALSE /\ s_read_req_d = FALSE /\ rd_addr_s = 0 /\ s_read_data = 0
  /\ serial_array_full = [k \in Flags |-> 0] /\ m = 0
  /\ en = FALSE /\ flag_en = FALSE
  /\ state = "PREP"
  /\ row_index_count = 0
  /\ row_val_num_a = 0 /\ j = 0 /\ count_array = 0
  /\ wei_index_array = [k \in 0 .. 2 |-> 0]
  /\ serial_array = [k \in 0 .. 2 |-> X]
  /\ i = 0
  /\ wei_index_d = 0 /\ serial_out_reg = 0

\* One clock edge.  The PE array, external, ends a row only while it computes.
WeightEdge(parallel_row_read_finish, row_cal_done) ==
  /\ row_cal_done => state = "COMP"
  /\ UNCHANGED kernel
  /\ ReadKernel(parallel_row_read_finish)
  /\ ScanFlags
  /\ StackColumn
  /\ ReadWeights
  /\ Enable
  /\ State(row_cal_done)
  /\ RowIndexCount(row_cal_done)
  /\ LoadRow(row_cal_done)
  /\ CountArray
  /\ Loop(row_cal_done)
  /\ ShowPair

\* The activation side may finish a row, and the PE array one, on any edge.
WeightNext ==
  \E parallel_row_read_finish, row_cal_done \in BOOLEAN :
    WeightEdge(parallel_row_read_finish, row_cal_done)

\* The clock runs; nothing obliges the PE array to finish.
WeightSpec == WeightInit /\ [][WeightNext]_wvars /\ WF_wvars(WeightNext)

-----------------------------------------------------------------------------
(* Properties. *)

\* Every register holds a value it may hold: in particular the weights fit in
\* their array and j selects one of the three fields of valid_row.
WeightTypeOK ==
  /\ kernel \in Kernels /\ flag_serial \in {{}, kernel} /\ flag_serial_reg \subseteq Flags
  /\ valid_wei_index_d \in 0 .. KERNEL_WIDTH
  /\ wei_index_array_full \in [Flags -> 0 .. 2]
  /\ rd_addr_s \in 0 .. KERNEL_SIZE /\ s_read_data \in Words
  /\ serial_array_full \in [Flags -> Words] /\ m \in 0 .. KERNEL_SIZE
  /\ state \in {"PREP", "COMP", "WAIT"}
  /\ row_index_count \in 0 .. 3
  /\ row_val_num_a \in 0 .. 3 /\ j \in {0, 2, 4} /\ count_array \in 0 .. 6
  /\ wei_index_array \in [0 .. 2 -> 0 .. 2] /\ serial_array \in [0 .. 2 -> Words \cup {X}]
  /\ i \in 0 .. 15
  /\ wei_index_d \in 0 .. 2 /\ serial_out_reg \in Words \cup {X}

\* The row that is due: the rows finished so far, modulo 3.
row == row_index_count % 3

\* A flag of the kernel as the pair it stands for: its weight, which is stored
\* behind those of all higher flags, and its column.
PairOf(f) == <<Cardinality({g \in kernel : g >= f}), 2 - (f % KERNEL_WIDTH)>>

RowOf(r) == {f \in kernel : f \div KERNEL_WIDTH = 2 - r}

\* While the PE array computes, the controller shows the row that is due: the
\* number of its weights, and one of them with its own column.  The number, the
\* place among the stored weights and the row are counted by four registers
\* (j, count_array, row_val_num_a, row_index_count), each with its own wrap.
RowIsRight ==
  state = "COMP" =>
    /\ row_val_num_a = Cardinality(RowOf(row))
    /\ RowOf(row) # {} => <<serial_out_reg, wei_index_d>> \in {PairOf(f) : f \in RowOf(row)}

\* The pairs of a row are shown in turn, from first to last, round and round,
\* until the PE array ends the row.
PairsGoRound ==
  [][state = "COMP" /\ state' = "COMP" =>
       \A f \in RowOf(row) :
         <<serial_out_reg, wei_index_d>> = PairOf(f) =>
           LET after == {g \in RowOf(row) : g < f}
           IN  <<serial_out_reg', wei_index_d'>> =
                 PairOf(Max(IF after # {} THEN after ELSE RowOf(row)))]_wvars

\* Once a kernel has been read, the stream starts.
StreamStarts == flag_wei_read ~> flag_en
=============================================================================
