------------------------- MODULE MemControllerProofs -------------------------
(***************************************************************************)
(* Mode 1 shows what is stored, for every picture, every number of places  *)
(* of a block and every kernel that the rows' counters serve (Served).     *)
(*                                                                         *)
(* Two chains of registers meet in one place, the row shown.  The weights: *)
(* the scan enters column after column into a stack (ScanInv) and weight   *)
(* after weight into an array (StoreInv), so that the place of a weight in *)
(* both is the number of higher flags; j and count_array select the row's  *)
(* part of them (RowsInv), and i goes round in it (PairInv).  The          *)
(* activations: behind the address of the block read next follow the       *)
(* flags, the addresses of the places and the row read ahead (AheadInv).   *)
(* What joins the two is time (PhaseInv): a row of blocks is read while    *)
(* the rows of the kernel are shown, and nothing in the code waits for it. *)
(*                                                                         *)
(* The weight side is also right alone, whenever a row may end (WeightInv, *)
(* where TurnInv takes the place of PairInv): the theorems of WeightSpec.  *)
(***************************************************************************)
EXTENDS MemController, FiniteSetTheorems, TLAPS

-----------------------------------------------------------------------------
(* What is assumed. *)

\* The weights in row r of kernel K.
RowWeights(K, r) == Cardinality({f \in K : f \div 3 = 2 - r})

\* The kernels whose rows j selects right and whose rows take long enough to
\* read the next row of blocks.
KernelsServed ==
  \A K \in Kernels :
    \/ RowWeights(K, 0) >= 2 /\ RowWeights(K, 1) <= 2 /\ RowWeights(K, 2) >= 1
    \/ RowWeights(K, 0) = 1 /\ RowWeights(K, 1) <= 1 /\ RowWeights(K, 2) = 1

\* Those, and rows of blocks as built: a row of 6, and no more rows than
\* row_index can count.
Served == ROW_BLOCKS = 6 /\ ROWS <= 5 /\ KernelsServed

-----------------------------------------------------------------------------
(* The invariant: the weights. *)

\* The weights in row r of the kernel, and those in the rows before it.
Weights(r) == Cardinality(RowOf(r))
Before(r) == IF r = 0 THEN 0 ELSE IF r = 1 THEN Weights(0) ELSE Weights(0) + Weights(1)

\* The flags above f, those between f and d, those below d.
Above(f) == Cardinality({g \in kernel : g > f})
Between(f, d) == Cardinality({g \in kernel : f < g /\ g < d})
Below(d) == Cardinality({g \in kernel : g < d})

NextRow(r) == IF r = 2 THEN 0 ELSE r + 1
Bit(b) == IF b THEN 1 ELSE 0

\* The kernel is read once.
FetchInv ==
  /\ kernel \in Kernels
  /\ serial_read \in BOOLEAN /\ flag_wei_read \in BOOLEAN
  /\ rd_req_wei \in BOOLEAN /\ flag_refresh_flag_serial \in BOOLEAN
  /\ rd_req_wei <=> serial_read
  /\ ~flag_wei_read => ~serial_read /\ ~flag_refresh_flag_serial
  /\ serial_read => ~flag_refresh_flag_serial
  /\ flag_serial = IF flag_wei_read /\ ~serial_read THEN kernel ELSE {}

\* No flag has reached the register that is scanned.
Unscanned == ~flag_wei_read \/ serial_read \/ flag_refresh_flag_serial

Blank ==
  /\ flag_serial_reg = {}
  /\ valid_wei_index_d = 0
  /\ wei_index_array_full = [k \in Flags |-> 0]
  /\ ~s_read_req /\ ~s_read_req_d /\ rd_addr_s = 0
  /\ ~flag_en

\* The flags from d up are still to be scanned, counted from d.
Rest(d) == {f - d : f \in {g \in kernel : g >= d}}

\* The flags below d have been scanned: each has its column in the stack, under
\* those of the higher ones, and its weight is read.
Scanned(d) ==
  /\ flag_serial_reg = Rest(d)
  /\ valid_wei_index_d \in 0 .. 3 /\ valid_wei_index_d % 3 = d % 3
  /\ \A f \in kernel : f < d => wei_index_array_full[Between(f, d)] = 2 - (f % 3)
  /\ rd_addr_s = Below(d) - Bit(s_read_req)

ScanInv ==
  /\ wei_index_array_full \in [Flags -> 0 .. 2]
  /\ s_read_req \in BOOLEAN
  /\ Unscanned => Blank
  /\ ~Unscanned => \E d \in 0 .. 9 : Scanned(d)

\* Slot k holds the weight k + 1, up to the last one read.
StoreInv ==
  /\ rd_addr_s \in 0 .. 9 /\ s_read_data = rd_addr_s
  /\ s_read_req_d \in BOOLEAN
  /\ m = rd_addr_s - Bit(s_read_req_d) /\ m >= 0
  /\ serial_array_full \in [Flags -> 0 .. 9]
  /\ \A k \in Flags : k < m => serial_array_full[k] = k + 1

\* The stream is started by the one pulse of en, when all flags are scanned and
\* all weights but the last are stored.
EnableInv ==
  /\ en \in BOOLEAN /\ flag_en \in BOOLEAN
  /\ state = "PREP" => (flag_en <=> en)
  /\ state # "PREP" => ~en /\ flag_en /\ ~s_read_req_d
  /\ flag_en => flag_serial_reg = {} /\ ~s_read_req

KernelInv == FetchInv /\ ScanInv /\ StoreInv /\ EnableInv

\* The row shown is r, and j is x: it selects the field of valid_row for the
\* next row, or one that counts as many weights.
Selects(x, r) ==
  IF Weights(0) >= 2 THEN x = 2 * NextRow(r)
  ELSE /\ x \in {0, 2}
       /\ Weights(1) = 0 => (x = 2 <=> r = 0)

Loaded(r) ==
  /\ row_val_num_a = Weights(r)
  /\ DOMAIN wei_index_array = 0 .. 2 /\ DOMAIN serial_array = 0 .. 2
  /\ \A k \in 0 .. 2 : k < Weights(r) =>
       /\ serial_array[k] = Before(r) + k + 1
       /\ wei_index_array[k] = wei_index_array_full[Before(r) + k]
  /\ Selects(j, r)

RowsInv ==
  /\ state \in {"PREP", "WAIT", "COMP"} /\ row_index_count \in 0 .. 3
  /\ state = "PREP" => row_index_count = 0 /\ j = 0 /\ count_array = 0
  /\ state = "WAIT" => Loaded(row) /\ count_array = Before(row)
  /\ state = "COMP" => Loaded(row) /\ count_array = Before(NextRow(row))

\* Weight c of the row is shown, the next one selected.
ShowsAt(c) ==
  /\ c < Weights(row)
  /\ i = IF c + 1 < Weights(row) THEN c + 1 ELSE 0
  /\ serial_out_reg = serial_array[c]
  /\ wei_index_d = wei_index_array[c]

\* The weight side alone, whoever ends a row.
TurnInv ==
  /\ state = "WAIT" => i = 0
  /\ state = "COMP" /\ Weights(row) > 0 => \E c \in 0 .. 2 : ShowsAt(c)

\* The registers of the row and of the pair hold values they may hold.
PairTypes ==
  /\ row_val_num_a \in 0 .. 3
  /\ wei_index_array \in [0 .. 2 -> 0 .. 2] /\ serial_array \in [0 .. 2 -> Words \cup {X}]
  /\ i \in 0 .. 15
  /\ wei_index_d \in 0 .. 2 /\ serial_out_reg \in Words \cup {X}

WeightInv == KernelInv /\ RowsInv /\ TurnInv /\ PairTypes

\* With the PE array the pair shown follows the clocks of the pass, and the base
\* follows the passes.
PairInv ==
  /\ passes \in 0 .. 4 /\ act_index_base = 3 * passes /\ clocks \in 0 .. 2
  /\ state # "COMP" => passes = 0 /\ clocks = 0
  /\ state = "WAIT" => i = 0
  /\ state = "COMP" /\ Weights(row) = 0 => passes = 0 /\ clocks = 0
  /\ state = "COMP" /\ Weights(row) > 0 => ShowsAt(clocks)

-----------------------------------------------------------------------------
(* The invariant: the activations. *)

\* Block b as it is shown, and the activations of a place before block c.
Value(b) == [p \in Places |-> IF p \in FlagsOf(b) THEN b + 1 ELSE 0]
CountOf(p, c) == Cardinality({b \in 0 .. c - 1 : p \in FlagsOf(b)})

\* The rows of blocks whose read has been begun.
Reads == IF ~started THEN 0 ELSE IF state = "PREP" THEN 1 ELSE 2 + BlockRow

\* A read is k edges old, 8 when it has left all registers.
Age(k) ==
  /\ reading <=> k < 6
  /\ flag_state_parallel <=> k \in 1 .. 6
  /\ flag_state_parallel_d <=> k \in 2 .. 7
  /\ rd_addr_pflag = 6 * (Reads - 1) + (IF k < 6 THEN k ELSE 6)

\* What the weight side is doing when the read is k edges old.
InTime(k) ==
  /\ ~started => k = 8
  /\ started /\ state = "PREP" =>
       /\ ~flag_wei_read => k <= 5
       /\ serial_read => k = 6
       /\ flag_refresh_flag_serial => k = 7
       /\ flag_wei_read /\ ~serial_read /\ ~flag_refresh_flag_serial => k = 8
  /\ state = "WAIT" /\ row_index_count = 3 => k = 8
  /\ state = "COMP" /\ row = 0 => k >= passes
  /\ state = "WAIT" /\ row = 1 => k >= 5
  /\ state = "COMP" /\ row = 1 => k >= 6
  /\ state = "WAIT" /\ row = 2 => k >= 7
  /\ state = "COMP" /\ row = 2 => k = 8

PhaseInv ==
  /\ started \in BOOLEAN /\ reading \in BOOLEAN
  /\ flag_state_parallel \in BOOLEAN /\ flag_state_parallel_d \in BOOLEAN
  /\ ~started => ~flag_wei_read /\ state = "PREP"
  /\ \E k \in 0 .. 8 : Age(k) /\ InTime(k)

\* The blocks whose flags, and whose activations, have been read.
Got == rd_addr_pflag - Bit(flag_state_parallel)
Pushed == Got - Bit(flag_state_parallel_d)

AheadInv ==
  /\ picture \in Pictures
  /\ rd_act_flag_p = IF flag_state_parallel THEN FlagsOf(Got) ELSE {}
  /\ flag_d = IF flag_state_parallel_d THEN FlagsOf(Pushed) ELSE {}
  /\ rd_addr = [p \in Places |-> CountOf(p, Got)]
  /\ DOMAIN rd_data = Places /\ \A p \in flag_d : rd_data[p] = Pushed + 1
  /\ parallel_array_reg = [s \in Slots |-> Value(Pushed - 6 + s)]

\* row_index names a row of the picture, and its blocks are shown.
ShownInv ==
  /\ BlockRow \in 0 .. ROWS - 1 /\ row_index_signed = 3 * BlockRow + 2
  /\ state = "PREP" => BlockRow = 0
  /\ row_index_count_3 => BlockRow < ROWS - 1
  /\ state # "PREP" => parallel_array = [s \in Slots |-> Value(6 * BlockRow + s)]

IInv == KernelInv /\ RowsInv /\ PairInv /\ PhaseInv /\ AheadInv /\ ShownInv

-----------------------------------------------------------------------------
(* Counting the flags of a kernel. *)

\* A kernel is 3 x 3.
LEMMA Sizes == KERNEL_WIDTH = 3 /\ KERNEL_SIZE = 9 /\ Flags = 0 .. 8
  BY DEF KERNEL_WIDTH, KERNEL_SIZE, Flags

\* A kernel and its parts are finite.
LEMMA Few ==
  ASSUME NEW S \in SUBSET (0 .. 8)
  PROVE  IsFiniteSet(S) /\ Cardinality(S) \in 0 .. 9
<1>1. IsFiniteSet(0 .. 8) /\ Cardinality(0 .. 8) = IF 0 > 8 THEN 0 ELSE (8 - 0) + 1
  <2>1. 0 \in Int /\ 8 \in Int
    OBVIOUS
  <2>2. QED BY <2>1, FS_Interval
<1>2. Cardinality(0 .. 8) = 9
  BY <1>1
<1>3. IsFiniteSet(S) /\ Cardinality(S) <= Cardinality(0 .. 8)
  BY <1>1, FS_Subset
<1>4. Cardinality(S) \in Nat
  BY <1>3, FS_CardinalityType
<1>5. QED BY <1>2, <1>3, <1>4

\* Two parts without a common flag.
LEMMA TwoParts ==
  ASSUME NEW S \in SUBSET (0 .. 8), NEW T \in SUBSET (0 .. 8), S \cap T = {}
  PROVE  Cardinality(S \cup T) = Cardinality(S) + Cardinality(T)
<1>1. IsFiniteSet(S) /\ IsFiniteSet(T) /\ Cardinality(S) \in Int /\ Cardinality(T) \in Int
  BY Few
<1>2. Cardinality(S \cup T) = Cardinality(S) + Cardinality(T) - Cardinality(S \cap T)
  BY <1>1, FS_Union
<1>3. Cardinality(S \cap T) = 0
  BY FS_EmptySet
<1>4. QED BY <1>1, <1>2, <1>3

\* The rows of a kernel are its flags 6 .. 8, 3 .. 5 and 0 .. 2.
LEMMA RowsOfKernel ==
  ASSUME kernel \in SUBSET (0 .. 8)
  PROVE  /\ \A f : f \in RowOf(0) <=> f \in kernel /\ f \in 6 .. 8
         /\ \A f : f \in RowOf(1) <=> f \in kernel /\ f \in 3 .. 5
         /\ \A f : f \in RowOf(2) <=> f \in kernel /\ f \in 0 .. 2
<1>1. \A f \in 0 .. 8 : /\ f \div 3 = 2 - 0 <=> f \in 6 .. 8
                        /\ f \div 3 = 2 - 1 <=> f \in 3 .. 5
                        /\ f \div 3 = 2 - 2 <=> f \in 0 .. 2
  OBVIOUS
<1>2. \A r, f : f \in RowOf(r) <=> f \in kernel /\ f \div 3 = 2 - r
  BY Sizes DEF RowOf
<1>3. \A f \in kernel : f \in 0 .. 8
  OBVIOUS
<1>4. QED BY <1>1, <1>2, <1>3

\* A row has at most 3 weights, the kernel those of its rows.
LEMMA WeightsAdd ==
  ASSUME kernel \in SUBSET (0 .. 8)
  PROVE  /\ Weights(0) \in 0 .. 3 /\ Weights(1) \in 0 .. 3 /\ Weights(2) \in 0 .. 3
         /\ Cardinality(kernel) = Weights(0) + Weights(1) + Weights(2)
<1>1. \A f \in kernel : f \in 0 .. 8
  OBVIOUS
<1>2. \A r \in 0 .. 2 : RowOf(r) \in SUBSET (0 .. 8) /\ Weights(r) = Cardinality(RowOf(r))
  BY DEF RowOf, Weights
<1>3. \A r \in 0 .. 2 : Weights(r) \in 0 .. 3
  <2>1. \A a \in 0 .. 6 : IsFiniteSet(a .. a + 2) /\ Cardinality(a .. a + 2) = 3
    <3> SUFFICES ASSUME NEW a \in 0 .. 6
                 PROVE  IsFiniteSet(a .. a + 2) /\ Cardinality(a .. a + 2) = 3
      OBVIOUS
    <3>1. a \in Int /\ a + 2 \in Int /\ ~(a > a + 2) /\ (a + 2) - a + 1 = 3
      OBVIOUS
    <3>2. /\ IsFiniteSet(a .. a + 2)
          /\ Cardinality(a .. a + 2) = IF a > a + 2 THEN 0 ELSE (a + 2) - a + 1
      BY <3>1, FS_Interval
    <3>3. QED BY <3>1, <3>2
  <2>2. \A r \in 0 .. 2 : \E a \in 0 .. 6 : RowOf(r) \subseteq a .. a + 2
    <3>1. 6 + 2 = 8 /\ 3 + 2 = 5 /\ 0 + 2 = 2
      OBVIOUS
    <3>2. /\ RowOf(0) \subseteq 6 .. 8 /\ RowOf(1) \subseteq 3 .. 5
          /\ RowOf(2) \subseteq 0 .. 2
      BY RowsOfKernel, Zenon
    <3>3. QED BY <3>1, <3>2
  <2>3. TAKE r \in 0 .. 2
  <2>4. PICK a \in 0 .. 6 : RowOf(r) \subseteq a .. a + 2
    BY <2>2
  <2>5. Cardinality(RowOf(r)) <= 3
    BY <2>1, <2>4, FS_Subset
  <2>6. Cardinality(RowOf(r)) \in 0 .. 9
    BY <1>2, Few
  <2>7. QED BY <1>2, <2>5, <2>6
<1>4. Cardinality(kernel) = Weights(0) + Weights(1) + Weights(2)
  <2>1. /\ kernel = (RowOf(0) \cup RowOf(1)) \cup RowOf(2)
        /\ RowOf(0) \cap RowOf(1) = {}
        /\ (RowOf(0) \cup RowOf(1)) \cap RowOf(2) = {}
    <3>1. \A f \in kernel : f \in 6 .. 8 \/ f \in 3 .. 5 \/ f \in 0 .. 2
      BY <1>1
    <3>2. \A f : /\ ~(f \in 6 .. 8 /\ f \in 3 .. 5)
                 /\ ~(f \in 6 .. 8 /\ f \in 0 .. 2)
                 /\ ~(f \in 3 .. 5 /\ f \in 0 .. 2)
      OBVIOUS
    <3>3. QED BY <3>1, <3>2, RowsOfKernel, Zenon
  <2>2. Cardinality(RowOf(0) \cup RowOf(1)) = Weights(0) + Weights(1)
    BY <1>2, <2>1, TwoParts
  <2>3. RowOf(0) \cup RowOf(1) \in SUBSET (0 .. 8)
    BY <1>2
  <2>4. QED BY <1>2, <2>1, <2>2, <2>3, TwoParts
<1>5. QED BY <1>3, <1>4

\* The flags above flag f of row r are those of the rows before and those of
\* the row that are higher.
LEMMA AboveInRow ==
  ASSUME kernel \in SUBSET (0 .. 8), NEW r \in 0 .. 2, NEW f \in RowOf(r)
  PROVE  /\ f \in kernel
         /\ Above(f) = Before(r) + Cardinality({g \in RowOf(r) : g > f})
<1>1. \A g \in kernel : g \in 0 .. 8
  OBVIOUS
<1>2. f \in kernel /\ f \in 0 .. 8
  BY DEF RowOf
<1>3. PICK E : E = {g \in RowOf(r) : g > f}
  OBVIOUS
<1>4. E \in SUBSET (0 .. 8) /\ \A g : g \in E <=> g \in RowOf(r) /\ g > f
  BY <1>1, <1>3 DEF RowOf
<1>5. PICK A : A = {g \in kernel : g > f}
  OBVIOUS
<1>6. Above(f) = Cardinality(A) /\ \A g : g \in A <=> g \in kernel /\ g > f
  BY <1>5 DEF Above
<1>7. PICK R0, R1, R2 : R0 = RowOf(0) /\ R1 = RowOf(1) /\ R2 = RowOf(2)
  OBVIOUS
<1>8. /\ \A g : g \in R0 <=> g \in kernel /\ g \in 6 .. 8
      /\ \A g : g \in R1 <=> g \in kernel /\ g \in 3 .. 5
      /\ \A g : g \in R2 <=> g \in kernel /\ g \in 0 .. 2
  BY <1>7, RowsOfKernel
<1>9. /\ R0 \in SUBSET (0 .. 8) /\ R1 \in SUBSET (0 .. 8)
      /\ Weights(0) = Cardinality(R0) /\ Weights(1) = Cardinality(R1)
      /\ Weights(0) \in Int /\ Weights(1) \in Int
  BY <1>1, <1>7, <1>8, WeightsAdd DEF Weights
<1>10. Cardinality(E) \in Int
  BY <1>4, Few
<1>11. CASE r = 0
  <2>1. f \in 6 .. 8 /\ \A g : g \in E <=> g \in R0 /\ g > f
    BY <1>4, <1>7, <1>8, <1>11
  <2>2. \A g : g \in A <=> g \in E
    <3>1. \A g \in 0 .. 8 : g > f => g \in 6 .. 8
      BY <2>1
    <3>2. QED BY <1>1, <1>6, <1>8, <2>1, <3>1
  <2>3. A = E
    BY <1>5, <2>2
  <2>4. QED BY <1>2, <1>3, <1>6, <1>10, <1>11, <2>3 DEF Before
<1>12. CASE r = 1
  <2>1. f \in 3 .. 5 /\ \A g : g \in E <=> g \in R1 /\ g > f
    BY <1>4, <1>7, <1>8, <1>12
  <2>2. \A g : g \in A <=> g \in R0 \cup E
    <3>1. \A g \in 0 .. 8 : g > f <=> g \in 6 .. 8 \/ (g \in 3 .. 5 /\ g > f)
      BY <2>1
    <3>2. QED BY <1>1, <1>6, <1>8, <2>1, <3>1
  <2>3. A = R0 \cup E
    BY <1>5, <2>2
  <2>4. R0 \cap E = {}
    <3>1. \A g : ~(g \in 6 .. 8 /\ g \in 3 .. 5)
      OBVIOUS
    <3>2. QED BY <1>8, <2>1, <3>1, Zenon
  <2>5. Cardinality(R0 \cup E) = Cardinality(R0) + Cardinality(E)
    BY <1>4, <1>9, <2>4, TwoParts
  <2>6. QED BY <1>2, <1>3, <1>6, <1>9, <1>12, <2>3, <2>5 DEF Before
<1>13. CASE r = 2
  <2>1. f \in 0 .. 2 /\ \A g : g \in E <=> g \in R2 /\ g > f
    BY <1>4, <1>7, <1>8, <1>13
  <2>2. \A g : g \in A <=> g \in (R0 \cup R1) \cup E
    <3>1. \A g \in 0 .. 8 : g > f <=> g \in 6 .. 8 \/ g \in 3 .. 5 \/ (g \in 0 .. 2 /\ g > f)
      BY <2>1
    <3>2. QED BY <1>1, <1>6, <1>8, <2>1, <3>1
  <2>3. A = (R0 \cup R1) \cup E
    BY <1>5, <2>2
  <2>4. R0 \cap R1 = {} /\ (R0 \cup R1) \cap E = {}
    <3>1. \A g : /\ ~(g \in 6 .. 8 /\ g \in 3 .. 5)
                 /\ ~(g \in 6 .. 8 /\ g \in 0 .. 2)
                 /\ ~(g \in 3 .. 5 /\ g \in 0 .. 2)
      OBVIOUS
    <3>2. R0 \cap R1 = {}
      BY <1>8, <3>1, Zenon
    <3>3. (R0 \cup R1) \cap E = {}
      BY <1>8, <2>1, <3>1, Zenon
    <3>4. QED BY <3>2, <3>3
  <2>5. Cardinality(R0 \cup R1) = Cardinality(R0) + Cardinality(R1)
    BY <1>9, <2>4, TwoParts
  <2>6. R0 \cup R1 \in SUBSET (0 .. 8)
    BY <1>9
  <2>7. Cardinality((R0 \cup R1) \cup E) = Cardinality(R0 \cup R1) + Cardinality(E)
    BY <1>4, <2>4, <2>6, TwoParts
  <2>8. Cardinality(A) = Weights(0) + Weights(1) + Cardinality(E)
    BY <1>9, <1>10, <2>3, <2>5, <2>7
  <2>9. QED BY <1>2, <1>3, <1>6, <1>13, <2>8 DEF Before
<1>14. QED BY <1>11, <1>12, <1>13

\* Ranking a row by the number of higher flags numbers it from 0 on.
LEMMA RankInRow ==
  ASSUME NEW S \in SUBSET (0 .. 8), NEW n \in Nat, n < Cardinality(S)
  PROVE  \E f \in S : Cardinality({g \in S : g > f}) = n
<1> DEFINE higher(f) == {g \in S : g > f}
           rank == [f \in S |-> Cardinality(higher(f))]
           N == Cardinality(S)
<1>1. IsFiniteSet(S) /\ N \in Nat /\ \A f \in S : f \in 0 .. 8
  BY Few
<1>2. \A f \in S : higher(f) \in SUBSET S /\ f \notin higher(f)
  BY <1>1
<1>3. \A f \in S : Cardinality(higher(f)) \in 0 .. N - 1
  <2> SUFFICES ASSUME NEW f \in S PROVE Cardinality(higher(f)) \in 0 .. N - 1
    OBVIOUS
  <2>1. Cardinality(higher(f)) <= N /\ Cardinality(higher(f)) # N
    BY <1>1, <1>2, FS_Subset
  <2>2. Cardinality(higher(f)) \in Nat
    BY <1>1, <1>2, FS_Subset, FS_CardinalityType
  <2> HIDE DEF higher, N
  <2>3. QED BY <1>1, <2>1, <2>2
<1>4. \A f, g \in S : f < g => Cardinality(higher(f)) # Cardinality(higher(g))
  <2> SUFFICES ASSUME NEW f \in S, NEW g \in S, f < g
               PROVE  Cardinality(higher(f)) # Cardinality(higher(g))
    OBVIOUS
  <2>1. higher(g) \in SUBSET higher(f) /\ g \in higher(f) /\ g \notin higher(g)
    <3>1. /\ \A x \in S : x > g => x > f
          /\ g > f /\ ~(g > g)
      BY <1>1
    <3>2. QED BY <3>1
  <2>2. IsFiniteSet(higher(f))
    BY <1>1, <1>2, FS_Subset
  <2> HIDE DEF higher
  <2>3. QED BY <2>1, <2>2, FS_Subset
<1>5. \A f, g \in S : f # g => Cardinality(higher(f)) # Cardinality(higher(g))
  <2>1. \A f, g \in S : f # g => f < g \/ g < f
    BY <1>1
  <2> HIDE DEF higher
  <2>2. QED BY <1>4, <2>1
<1>6. rank \in Injection(S, 0 .. N - 1)
  <2> HIDE DEF higher, N
  <2>1. rank \in [S -> 0 .. N - 1]
    BY <1>3
  <2>2. \A f, g \in S : rank[f] = rank[g] => f = g
    BY <1>5
  <2> HIDE DEF rank
  <2>3. QED BY <2>1, <2>2 DEF Injection, IsInjective
<1>7. IsFiniteSet(0 .. N - 1) /\ Cardinality(0 .. N - 1) = N
  <2> HIDE DEF N
  <2>1. 0 \in Int /\ N - 1 \in Int
    BY <1>1
  <2>2. /\ IsFiniteSet(0 .. N - 1)
        /\ Cardinality(0 .. N - 1) = IF 0 > N - 1 THEN 0 ELSE (N - 1) - 0 + 1
    BY <2>1, FS_Interval
  <2>3. QED BY <1>1, <2>2
<1>8. rank \in Surjection(S, 0 .. N - 1)
  <2> HIDE DEF rank
  <2>1. QED BY <1>6, <1>7, FS_Injection
<1>9. n \in 0 .. N - 1
  BY <1>1
<1>10. \E f \in S : rank[f] = n
  <2> HIDE DEF rank, N
  <2>1. QED BY <1>8, <1>9 DEF Surjection
<1>11. QED BY <1>10

-----------------------------------------------------------------------------
(* One flag more is scanned. *)

\* The smallest of some numbers.
LEMMA MinOfNaturals ==
  ASSUME NEW S \in SUBSET Nat, S # {}
  PROVE  Min(S) \in S /\ \A y \in S : Min(S) <= y
<1> DEFINE Low(x) == {y \in S : y <= x}
           T == {Low(x) : x \in S}
<1>1. \A x \in S : Low(x) \in FiniteSubsetsOf(S)
  BY FS_BoundedSetOfNaturals DEF FiniteSubsetsOf
<1>2. T \subseteq FiniteSubsetsOf(S) /\ T # {}
  BY <1>1
<1>3. IsWellFoundedOn(StrictSubsetOrdering(S), FiniteSubsetsOf(S))
  BY FS_StrictSubsetOrderingWellFounded
<1> HIDE DEF T
<1>4. PICK t \in T : \A u \in T : <<u, t>> \notin StrictSubsetOrdering(S)
  BY <1>2, <1>3, WFMin
<1>5. PICK x \in S : t = Low(x)
  BY DEF T
<1>6. \A y \in S : x <= y
  <2> SUFFICES ASSUME NEW y \in S, y < x PROVE FALSE
    OBVIOUS
  <2>1. Low(y) \in T
    BY DEF T
  <2>2. Low(y) \subseteq Low(x) /\ Low(y) # Low(x)
    <3>1. \A z \in S : z <= y => z <= x
      OBVIOUS
    <3>2. x \in Low(x) /\ x \notin Low(y)
      OBVIOUS
    <3>3. QED BY <3>1, <3>2
  <2>3. <<Low(y), Low(x)>> \in StrictSubsetOrdering(S)
    BY <2>2 DEF StrictSubsetOrdering
  <2>4. QED BY <1>4, <1>5, <2>1, <2>3
<1>7. QED BY <1>6 DEF Min

\* What is counted as scanned before anything is, and when nothing is left.
LEMMA ScanEnds ==
  ASSUME kernel \in SUBSET (0 .. 8)
  PROVE  /\ Rest(0) = kernel /\ Below(0) = 0
         /\ \A d \in 0 .. 9 : Rest(d) = {} =>
              /\ \A f \in kernel : f < d /\ Between(f, d) = Above(f)
              /\ Below(d) = Cardinality(kernel)
<1>1. \A f \in kernel : f \in 0 .. 8
  OBVIOUS
<1>2. Rest(0) = kernel
  <2>1. \A f \in kernel : f >= 0 /\ f - 0 = f
    BY <1>1
  <2>2. {g \in kernel : g >= 0} = kernel
    BY <2>1
  <2>3. QED BY <2>1, <2>2 DEF Rest
<1>3. Below(0) = 0
  <2>1. {g \in kernel : g < 0} = {}
    <3>1. \A g \in kernel : ~(g < 0)
      BY <1>1
    <3>2. QED BY <3>1
  <2>2. QED BY <2>1, FS_EmptySet DEF Below
<1>4. ASSUME NEW d \in 0 .. 9, Rest(d) = {}
      PROVE  /\ \A f \in kernel : f < d /\ Between(f, d) = Above(f)
             /\ Below(d) = Cardinality(kernel)
  <2>1. \A f \in kernel : f < d
    <3>1. \A f \in kernel : ~(f >= d)
      BY <1>4 DEF Rest
    <3>2. QED BY <1>1, <3>1
  <2>2. \A f \in kernel : Between(f, d) = Above(f)
    <3>1. \A f \in kernel : {g \in kernel : f < g /\ g < d} = {g \in kernel : g > f}
      <4>1. \A f, g \in kernel : f < g /\ g < d <=> g > f
        BY <1>1, <2>1
      <4>2. QED BY <4>1
    <3>2. QED BY <3>1 DEF Between, Above
  <2>3. {g \in kernel : g < d} = kernel
    BY <2>1
  <2>4. QED BY <2>1, <2>2, <2>3 DEF Below
<1>5. QED BY <1>2, <1>3, <1>4

\* How many flags there are below d and above a flag.
LEMMA CountBounds ==
  ASSUME kernel \in SUBSET (0 .. 8), NEW d \in 0 .. 9
  PROVE  /\ Below(d) \in 0 .. 9
         /\ \A f \in kernel : Between(f, d) \in 0 .. 8 /\ Above(f) \in 0 .. 8
<1>1. \A f \in kernel : f \in 0 .. 8
  OBVIOUS
<1>2. Below(d) \in 0 .. 9
  <2>1. {g \in kernel : g < d} \in SUBSET (0 .. 8)
    OBVIOUS
  <2>2. QED BY <2>1, Few DEF Below
<1>3. ASSUME NEW f \in kernel, NEW S, S \subseteq kernel \ {f}
      PROVE  Cardinality(S) \in 0 .. 8
  <2>1. S \in SUBSET (0 .. 8) /\ S \cup {f} \in SUBSET (0 .. 8) /\ f \notin S
    BY <1>3
  <2>2. /\ IsFiniteSet(S) /\ Cardinality(S) \in 0 .. 9
        /\ Cardinality(S \cup {f}) \in 0 .. 9
    BY <2>1, Few
  <2>3. Cardinality(S \cup {f}) = Cardinality(S) + 1
    BY <2>1, <2>2, FS_AddElement
  <2>4. QED BY <2>2, <2>3
<1>4. \A f \in kernel : /\ {g \in kernel : f < g /\ g < d} \subseteq kernel \ {f}
                        /\ {g \in kernel : g > f} \subseteq kernel \ {f}
  <2>1. \A f \in kernel : ~(f < f) /\ ~(f > f)
    BY <1>1
  <2>2. QED BY <2>1
<1>5. QED BY <1>2, <1>3, <1>4 DEF Between, Above

\* The lowest flag that is left, f = v + d, is shifted out: the scan goes on
\* behind it, and every higher one counts one more.
LEMMA ScanNext ==
  ASSUME kernel \in SUBSET (0 .. 8), NEW d \in 0 .. 9, Rest(d) # {}
  PROVE  \E f \in kernel, v \in 0 .. 8 :
           /\ v = Min(Rest(d)) /\ f = v + d /\ f \in 0 .. 8
           /\ Rest(f + 1) = {x - v - 1 : x \in {g \in Rest(d) : g > v}}
           /\ Below(f + 1) = Below(d) + 1
           /\ Between(f, f + 1) = 0
           /\ \A g \in kernel : g < f + 1 => g = f \/ g < d
           /\ \A g \in kernel : g < d => Between(g, f + 1) = Between(g, d) + 1
<1>1. \A f \in kernel : f \in 0 .. 8
  OBVIOUS
<1>2. \A x : x \in Rest(d) <=> x \in Nat /\ x + d \in kernel
  <2>1. \A x : x \in Rest(d) <=> \E f \in kernel : f >= d /\ x = f - d
    BY DEF Rest
  <2>2. \A x : (\E f \in kernel : f >= d /\ x = f - d) => x \in Nat /\ x + d \in kernel
    BY <1>1
  <2>3. \A x \in Nat : x + d >= d /\ x = (x + d) - d
    OBVIOUS
  <2>4. QED BY <2>1, <2>2, <2>3
<1>3. PICK v : v = Min(Rest(d))
  OBVIOUS
<1>4. v \in Rest(d) /\ \A x \in Rest(d) : v <= x
  BY <1>2, <1>3, MinOfNaturals
<1>5. PICK f \in kernel : f = v + d /\ f \in 0 .. 8 /\ v \in 0 .. 8
  BY <1>1, <1>2, <1>4
<1>6. \A g \in kernel : g >= d => g >= f
  <2> SUFFICES ASSUME NEW g \in kernel, g >= d PROVE g >= f
    OBVIOUS
  <2>1. g - d \in Nat /\ (g - d) + d = g /\ g \in 0 .. 8
    BY <1>1
  <2>2. v <= g - d
    BY <1>2, <1>4, <2>1
  <2>3. QED BY <1>5, <2>1, <2>2
<1>7. /\ \A g \in kernel : g < f + 1 <=> g = f \/ g < d
      /\ ~(f < d)
  BY <1>1, <1>5, <1>6
<1>8. Rest(f + 1) = {x - v - 1 : x \in {g \in Rest(d) : g > v}}
  <2>1. \A x : x \in Rest(f + 1) => \E y \in Rest(d) : y > v /\ x = y - v - 1
    <3> SUFFICES ASSUME NEW g \in kernel, g >= f + 1
                 PROVE  \E y \in Rest(d) : y > v /\ g - (f + 1) = y - v - 1
      BY DEF Rest
    <3>1. g \in 0 .. 8
      BY <1>1
    <3>2. g - d \in Nat /\ (g - d) + d = g /\ g - d > v /\ g - (f + 1) = (g - d) - v - 1
      BY <1>5, <3>1
    <3>3. g - d \in Rest(d)
      BY <1>2, <3>2
    <3>4. QED BY <3>2, <3>3
  <2>2. \A y \in Rest(d) : y > v => y - v - 1 \in Rest(f + 1)
    <3> SUFFICES ASSUME NEW y \in Rest(d), y > v PROVE y - v - 1 \in Rest(f + 1)
      OBVIOUS
    <3>1. y \in Nat /\ y + d \in kernel
      BY <1>2
    <3>2. y + d >= f + 1 /\ y - v - 1 = (y + d) - (f + 1)
      BY <1>5, <3>1
    <3>3. QED BY <3>1, <3>2 DEF Rest
  <2>3. QED BY <2>1, <2>2
<1>9. Below(f + 1) = Below(d) + 1
  <2>1. /\ {g \in kernel : g < f + 1} = {g \in kernel : g < d} \cup {f}
        /\ f \notin {g \in kernel : g < d}
    BY <1>7
  <2>2. IsFiniteSet({g \in kernel : g < d})
    <3>1. {g \in kernel : g < d} \in SUBSET (0 .. 8)
      OBVIOUS
    <3>2. QED BY <3>1, Few
  <2>3. QED BY <2>1, <2>2, FS_AddElement DEF Below
<1>10. Between(f, f + 1) = 0
  <2>1. {g \in kernel : f < g /\ g < f + 1} = {}
    <3>1. \A g \in kernel : ~(f < g /\ g < f + 1)
      BY <1>1, <1>5
    <3>2. QED BY <3>1
  <2>2. QED BY <2>1, FS_EmptySet DEF Between
<1>11. ASSUME NEW g \in kernel, g < d
       PROVE  Between(g, f + 1) = Between(g, d) + 1
  <2>1. g < f
    BY <1>1, <1>5, <1>7, <1>11
  <2>2. /\ {h \in kernel : g < h /\ h < f + 1} = {h \in kernel : g < h /\ h < d} \cup {f}
        /\ f \notin {h \in kernel : g < h /\ h < d}
    BY <1>7, <2>1
  <2>3. IsFiniteSet({h \in kernel : g < h /\ h < d})
    <3>1. {h \in kernel : g < h /\ h < d} \in SUBSET (0 .. 8)
      OBVIOUS
    <3>2. QED BY <3>1, Few
  <2>4. QED BY <2>2, <2>3, FS_AddElement DEF Between
<1>12. QED BY <1>3, <1>5, <1>7, <1>8, <1>9, <1>10, <1>11

-----------------------------------------------------------------------------
(* The kernel is read, scanned and stored. *)

\* The kernel in memory is one of those served.
LEMMA KernelType ==
  ASSUME KernelsServed, kernel \in Kernels
  PROVE  /\ kernel \in SUBSET (0 .. 8)
         /\ Weights(0) \in 0 .. 3 /\ Weights(1) \in 0 .. 3 /\ Weights(2) \in 0 .. 3
         /\ \/ Weights(0) >= 2 /\ Weights(1) <= 2 /\ Weights(2) >= 1
            \/ Weights(0) = 1 /\ Weights(1) <= 1 /\ Weights(2) = 1
<1>1. kernel \in SUBSET (0 .. 8)
  BY Sizes, KernelAssumption
<1>2. \A r : RowWeights(kernel, r) = Weights(r)
  BY Sizes DEF RowWeights, Weights, RowOf
<1>3. QED BY <1>1, <1>2, WeightsAdd DEF KernelsServed

\* The registers of the read of the kernel after an edge.
LEMMA FetchEdge ==
  ASSUME NEW fin \in BOOLEAN, NEW done \in BOOLEAN, WeightEdge(fin, done)
  PROVE  /\ kernel' = kernel
         /\ serial_read' <=> ~serial_read /\ fin /\ ~flag_wei_read
         /\ flag_wei_read' <=> flag_wei_read \/ (~serial_read /\ fin /\ ~flag_wei_read)
         /\ rd_req_wei' <=> fin /\ ~flag_wei_read
         /\ flag_refresh_flag_serial' <=> serial_read
  BY Zenon DEF WeightEdge, ReadKernel

\* An edge of the read of the kernel.
LEMMA FetchKept ==
  ASSUME FetchInv, NEW fin \in BOOLEAN, NEW done \in BOOLEAN, WeightEdge(fin, done)
  PROVE  /\ FetchInv'
         /\ kernel' = kernel
         /\ Unscanned' <=> ~flag_wei_read \/ serial_read
<1>1. /\ kernel' = kernel
      /\ serial_read' = (~serial_read /\ fin /\ ~flag_wei_read)
      /\ flag_wei_read' = (flag_wei_read \/ (~serial_read /\ fin /\ ~flag_wei_read))
      /\ rd_req_wei' = (fin /\ ~flag_wei_read)
      /\ flag_refresh_flag_serial' = serial_read
      /\ flag_serial' = IF rd_req_wei THEN kernel ELSE flag_serial
  BY Zenon DEF WeightEdge, ReadKernel
<1>2. /\ serial_read' \in BOOLEAN /\ flag_wei_read' \in BOOLEAN
      /\ rd_req_wei' \in BOOLEAN /\ flag_refresh_flag_serial' \in BOOLEAN
  BY <1>1, Zenon DEF FetchInv
<1>3. /\ serial_read' <=> ~serial_read /\ fin /\ ~flag_wei_read
      /\ flag_wei_read' <=> flag_wei_read \/ (~serial_read /\ fin /\ ~flag_wei_read)
      /\ rd_req_wei' <=> fin /\ ~flag_wei_read
      /\ flag_refresh_flag_serial' <=> serial_read
  BY FetchEdge
<1>4. rd_req_wei' <=> serial_read'
  BY <1>3, Zenon DEF FetchInv
<1>5. ~flag_wei_read' => ~serial_read' /\ ~flag_refresh_flag_serial'
  BY <1>3, Zenon DEF FetchInv
<1>6. serial_read' => ~flag_refresh_flag_serial'
  BY <1>3, Zenon
<1>7. flag_serial' = IF flag_wei_read' /\ ~serial_read' THEN kernel ELSE {}
  <2>1. CASE serial_read
    BY <1>1, <1>3, <2>1, Zenon DEF FetchInv
  <2>2. CASE ~serial_read /\ flag_wei_read
    BY <1>1, <1>3, <2>2 DEF FetchInv
  <2>3. CASE ~serial_read /\ ~flag_wei_read
    BY <1>1, <1>3, <2>3 DEF FetchInv
  <2>4. QED BY <2>1, <2>2, <2>3
<1>8. Unscanned' <=> ~flag_wei_read \/ serial_read
  BY <1>3, Zenon DEF Unscanned, FetchInv
<1>9. FetchInv'
  <2>1. kernel' \in Kernels
    BY <1>1 DEF FetchInv
  <2>2. flag_serial' = IF flag_wei_read' /\ ~serial_read' THEN kernel' ELSE {}
    BY <1>1, <1>7
  <2>3. QED BY <1>2, <1>4, <1>5, <1>6, <2>1, <2>2, Zenon DEF FetchInv
<1>10. QED BY <1>1, <1>8, <1>9

\* The registers of the scan after an edge.
LEMMA ScanEdge ==
  ASSUME NEW fin \in BOOLEAN, NEW done \in BOOLEAN, WeightEdge(fin, done)
  PROVE  /\ flag_serial_reg' =
              IF flag_refresh_flag_serial THEN flag_serial
              ELSE {f - valid_index - 1 : f \in {g \in flag_serial_reg : g > valid_index}}
         /\ flag_serial_reg # {} =>
              /\ valid_wei_index_d' = valid_wei_index + 1
              /\ wei_index_array_full' = [k \in Flags |-> IF k = 0 THEN valid_wei_index_back
                                                            ELSE wei_index_array_full[k - 1]]
         /\ flag_serial_reg = {} =>
              valid_wei_index_d' = valid_wei_index_d /\ wei_index_array_full' = wei_index_array_full
         /\ s_read_req' = (flag_serial_reg # {})
         /\ s_read_req_d' = s_read_req
         /\ rd_addr_s' = IF s_read_req THEN rd_addr_s + 1 ELSE rd_addr_s
<1>1. ScanFlags /\ StackColumn /\ ReadWeights
  BY DEF WeightEdge
<1>2. flag_serial_reg # {} => /\ valid_wei_index_d' = valid_wei_index + 1
              /\ wei_index_array_full' = [k \in Flags |-> IF k = 0 THEN valid_wei_index_back
                                                            ELSE wei_index_array_full[k - 1]]
  BY <1>1 DEF StackColumn
<1>3. flag_serial_reg = {} =>
              valid_wei_index_d' = valid_wei_index_d /\ wei_index_array_full' = wei_index_array_full
  BY <1>1 DEF StackColumn
<1>4. /\ s_read_req' = (flag_serial_reg # {}) /\ s_read_req_d' = s_read_req
      /\ rd_addr_s' = IF s_read_req THEN rd_addr_s + 1 ELSE rd_addr_s
  BY <1>1 DEF ReadWeights
<1>5. QED BY <1>1, <1>2, <1>3, <1>4 DEF ScanFlags

\* The stream is not enabled while the stack is empty.
LEMMA EnableEdge ==
  ASSUME NEW fin \in BOOLEAN, NEW done \in BOOLEAN, WeightEdge(fin, done)
  PROVE  /\ en' \in BOOLEAN
         /\ en' <=> /\ ~flag_en /\ flag_serial_reg = {}
                    /\ \E k \in Flags : wei_index_array_full[k] # 0
         /\ flag_en \in BOOLEAN => flag_en' \in BOOLEAN
         /\ flag_en' <=> flag_en \/ en'
<1>1. Enable
  BY DEF WeightEdge
<1>2. PICK b \in BOOLEAN : b = (/\ ~flag_en /\ flag_serial_reg = {}
                                /\ \E k \in Flags : wei_index_array_full[k] # 0)
  OBVIOUS
<1>3. en' = b /\ flag_en' = (flag_en \/ b)
  BY <1>1, <1>2 DEF Enable
<1>4. QED BY <1>2, <1>3, Zenon

\* Before the flags have reached the register nothing is stacked or read.
LEMMA BlankKept ==
  ASSUME Blank, NEW fin \in BOOLEAN, NEW done \in BOOLEAN, WeightEdge(fin, done)
  PROVE  /\ wei_index_array_full' = [k \in Flags |-> 0] /\ valid_wei_index_d' = 0
         /\ ~s_read_req' /\ ~s_read_req_d' /\ rd_addr_s' = 0
         /\ ~en' /\ ~flag_en'
         /\ ~flag_refresh_flag_serial => flag_serial_reg' = {}
<1>1. /\ flag_serial_reg = {} /\ valid_wei_index_d = 0
      /\ wei_index_array_full = [k \in Flags |-> 0]
      /\ ~s_read_req /\ ~s_read_req_d /\ rd_addr_s = 0 /\ ~flag_en
  BY DEF Blank
<1>2. /\ wei_index_array_full' = [k \in Flags |-> 0] /\ valid_wei_index_d' = 0
      /\ s_read_req' = FALSE /\ s_read_req_d' = s_read_req /\ rd_addr_s' = 0
  BY <1>1, ScanEdge
<1>3. ~flag_refresh_flag_serial => flag_serial_reg' = {}
  BY <1>1, ScanEdge
<1>4. ~en' /\ ~flag_en'
  <2>1. ~ \E k \in Flags : wei_index_array_full[k] # 0
    BY <1>1
  <2>2. QED BY <1>1, <2>1, EnableEdge, Zenon
<1>5. QED BY <1>1, <1>2, <1>3, <1>4

\* The scan starts from bit 0.
LEMMA ScanBegins ==
  ASSUME kernel \in SUBSET (0 .. 8), FetchInv, ScanInv, flag_refresh_flag_serial,
         NEW fin \in BOOLEAN, NEW done \in BOOLEAN, WeightEdge(fin, done)
  PROVE  Scanned(0)' /\ wei_index_array_full' = wei_index_array_full /\ s_read_req' = FALSE
<1>1. Blank /\ flag_serial = kernel /\ kernel' = kernel
  BY FetchKept DEF Unscanned, ScanInv, FetchInv
<1>2. flag_serial_reg' = kernel
  BY <1>1, ScanEdge
<1>3. /\ wei_index_array_full' = [k \in Flags |-> 0] /\ valid_wei_index_d' = 0
      /\ ~s_read_req' /\ rd_addr_s' = 0
  BY <1>1, BlankKept
<1>4. s_read_req' = FALSE
  BY <1>1, ScanEdge DEF Blank
<1>5. Rest(0) = kernel /\ Below(0) = 0
  BY ScanEnds
<1>6. Rest(0)' = Rest(0) /\ Below(0)' = Below(0)
  BY <1>1 DEF Rest, Below
<1>7. Bit(s_read_req)' = 0
  BY <1>3 DEF Bit
<1>8. \A f \in kernel : ~(f < 0)
  <2>1. \A f \in kernel : f \in 0 .. 8
    OBVIOUS
  <2>2. QED BY <2>1
<1>9. Scanned(0)'
  BY <1>1, <1>2, <1>3, <1>5, <1>6, <1>7, <1>8 DEF Scanned
<1>10. QED BY <1>1, <1>3, <1>4, <1>9 DEF Blank

\* Nothing is left to scan.
LEMMA ScanRests ==
  ASSUME kernel \in SUBSET (0 .. 8), kernel' = kernel, ~flag_refresh_flag_serial,
         flag_serial_reg = {}, s_read_req \in BOOLEAN,
         NEW d \in 0 .. 9, Scanned(d),
         NEW fin \in BOOLEAN, NEW done \in BOOLEAN, WeightEdge(fin, done)
  PROVE  Scanned(d)'
<1>1. /\ flag_serial_reg' = {} /\ valid_wei_index_d' = valid_wei_index_d
      /\ wei_index_array_full' = wei_index_array_full
      /\ s_read_req' = FALSE
      /\ rd_addr_s' = IF s_read_req THEN rd_addr_s + 1 ELSE rd_addr_s
  BY ScanEdge
<1>2. Rest(d)' = Rest(d) /\ Below(d)' = Below(d) /\ \A f : Between(f, d)' = Between(f, d)
  BY DEF Rest, Below, Between
<1>3. rd_addr_s' = Below(d) - 0
  <2>1. Below(d) \in Int
    BY CountBounds
  <2>2. rd_addr_s = Below(d) - Bit(s_read_req)
    BY DEF Scanned
  <2>3. QED BY <1>1, <2>1, <2>2 DEF Bit
<1>4. Bit(s_read_req)' = 0
  BY <1>1 DEF Bit
<1>5. QED BY <1>1, <1>2, <1>3, <1>4 DEF Scanned

\* A flag is scanned.
LEMMA ScanGoes ==
  ASSUME kernel \in SUBSET (0 .. 8), kernel' = kernel, ~flag_refresh_flag_serial,
         flag_serial_reg # {}, s_read_req \in BOOLEAN,
         wei_index_array_full \in [Flags -> 0 .. 2],
         NEW d \in 0 .. 9, Scanned(d),
         NEW fin \in BOOLEAN, NEW done \in BOOLEAN, WeightEdge(fin, done)
  PROVE  /\ \E e \in 0 .. 9 : Scanned(e)'
         /\ wei_index_array_full' \in [Flags -> 0 .. 2]
<1>1. PICK f \in kernel, v \in 0 .. 8 :
           /\ v = Min(Rest(d)) /\ f = v + d /\ f \in 0 .. 8
           /\ Rest(f + 1) = {x - v - 1 : x \in {g \in Rest(d) : g > v}}
           /\ Below(f + 1) = Below(d) + 1
           /\ Between(f, f + 1) = 0
           /\ \A g \in kernel : g < f + 1 => g = f \/ g < d
           /\ \A g \in kernel : g < d => Between(g, f + 1) = Between(g, d) + 1
  BY ScanNext DEF Scanned
<1>2. flag_serial_reg = Rest(d) /\ valid_index = v
  BY <1>1 DEF Scanned, valid_index, Min
<1>3. PICK w \in 0 .. 3 : w = valid_wei_index_d /\ w % 3 = d % 3
  BY DEF Scanned
<1>4. valid_wei_index = f % 3 /\ valid_wei_index_back = 2 - (f % 3)
  <2>1. (v + w) % 3 = (v + d) % 3
    BY <1>1, <1>3
  <2>2. valid_wei_index = (v + w) % 3
    BY <1>2, <1>3, Sizes DEF valid_wei_index
  <2>3. QED BY <1>1, <2>1, <2>2 DEF valid_wei_index_back
<1>5. /\ flag_serial_reg' = Rest(f + 1)
      /\ valid_wei_index_d' = (f % 3) + 1
      /\ wei_index_array_full' =
           [k \in Flags |-> IF k = 0 THEN 2 - (f % 3) ELSE wei_index_array_full[k - 1]]
      /\ s_read_req' = TRUE
      /\ rd_addr_s' = IF s_read_req THEN rd_addr_s + 1 ELSE rd_addr_s
  <2>1. /\ flag_serial_reg' = {x - valid_index - 1 : x \in {g \in flag_serial_reg : g > valid_index}}
        /\ valid_wei_index_d' = valid_wei_index + 1
        /\ wei_index_array_full' = [k \in Flags |-> IF k = 0 THEN valid_wei_index_back
                                                            ELSE wei_index_array_full[k - 1]]
        /\ s_read_req' = TRUE
        /\ rd_addr_s' = IF s_read_req THEN rd_addr_s + 1 ELSE rd_addr_s
    BY ScanEdge
  <2>2. QED BY <1>1, <1>2, <1>4, <2>1
<1>6. /\ f + 1 \in 0 .. 9 /\ (f % 3) + 1 \in 0 .. 3 /\ 2 - (f % 3) \in 0 .. 2
      /\ ((f % 3) + 1) % 3 = (f + 1) % 3
  <2>1. f \in 0 .. 8
    BY <1>1
  <2>2. f % 3 \in 0 .. 2 /\ f + 1 \in 0 .. 9
    BY <2>1
  <2>3. ((f % 3) + 1) % 3 = (f + 1) % 3
    BY <2>1
  <2>4. QED BY <2>2, <2>3
<1>7. /\ Rest(f + 1)' = Rest(f + 1) /\ Below(f + 1)' = Below(f + 1)
      /\ \A g : Between(g, f + 1)' = Between(g, f + 1)
  BY DEF Rest, Below, Between
<1>8. wei_index_array_full' \in [Flags -> 0 .. 2]
  <2>1. \A k \in 0 .. 8 : k # 0 => k - 1 \in 0 .. 8
    OBVIOUS
  <2>2. QED BY <1>5, <1>6, <2>1, Sizes
<1>9. \A g \in kernel : g < f + 1 => wei_index_array_full'[Between(g, f + 1)] = 2 - (g % 3)
  <2> SUFFICES ASSUME NEW g \in kernel, g < f + 1
               PROVE  wei_index_array_full'[Between(g, f + 1)] = 2 - (g % 3)
    OBVIOUS
  <2>1. CASE g = f
    BY <1>1, <1>5, <2>1, Sizes
  <2>2. CASE g < d
    <3>1. PICK a \in 0 .. 8 : a = Between(g, d)
      BY CountBounds
    <3>2. Between(g, f + 1) = a + 1 /\ wei_index_array_full[a] = 2 - (g % 3)
      BY <1>1, <2>2, <3>1 DEF Scanned
    <3>3. a + 1 \in 0 .. 8
      BY <1>6, <3>2, CountBounds
    <3>4. a + 1 # 0 /\ (a + 1) - 1 = a
      OBVIOUS
    <3>5. wei_index_array_full'[a + 1] = wei_index_array_full[a]
      BY <1>5, <3>3, <3>4, Sizes
    <3>6. QED BY <3>2, <3>5
  <2>3. QED BY <1>1, <2>1, <2>2
<1>10. rd_addr_s' = Below(f + 1) - 1
  <2>1. Below(d) \in Int
    BY CountBounds
  <2>2. rd_addr_s = Below(d) - Bit(s_read_req)
    BY DEF Scanned
  <2>3. QED BY <1>1, <1>5, <2>1, <2>2 DEF Bit
<1>11. Bit(s_read_req)' = 1
  BY <1>5 DEF Bit
<1>12. Scanned(f + 1)'
  BY <1>5, <1>6, <1>7, <1>9, <1>10, <1>11 DEF Scanned
<1>13. QED BY <1>6, <1>8, <1>12

\* An edge of the scan.
LEMMA ScanKept ==
  ASSUME kernel \in SUBSET (0 .. 8), FetchInv, ScanInv,
         NEW fin \in BOOLEAN, NEW done \in BOOLEAN, WeightEdge(fin, done)
  PROVE  ScanInv'
<1>1. kernel' = kernel /\ (Unscanned' <=> ~flag_wei_read \/ serial_read)
  BY FetchKept
<1>2. s_read_req' \in BOOLEAN
  BY ScanEdge
<1>3. CASE ~flag_wei_read \/ serial_read
  <2>1. Blank /\ ~flag_refresh_flag_serial
    BY <1>3 DEF ScanInv, Unscanned, FetchInv
  <2>2. Blank' /\ wei_index_array_full' = wei_index_array_full
    BY <2>1, BlankKept DEF Blank
  <2>3. QED BY <1>1, <1>2, <1>3, <2>2 DEF ScanInv
<1>4. CASE flag_refresh_flag_serial /\ ~(~flag_wei_read \/ serial_read)
  <2>1. ~Unscanned'
    BY <1>1, <1>4
  <2>2. \E d \in 0 .. 9 : Scanned(d)'
    <3>1. 0 \in 0 .. 9
      OBVIOUS
    <3>2. Scanned(0)'
      BY <1>4, ScanBegins
    <3>3. QED BY <3>1, <3>2
  <2>3. wei_index_array_full' = wei_index_array_full
    BY <1>4, ScanBegins
  <2>4. QED BY <1>2, <2>1, <2>2, <2>3 DEF ScanInv
<1>5. CASE ~Unscanned
  <2>1. PICK d \in 0 .. 9 : Scanned(d)
    BY <1>5 DEF ScanInv
  <2>2. ~Unscanned' /\ ~flag_refresh_flag_serial
    BY <1>1, <1>5 DEF Unscanned
  <2>3. s_read_req \in BOOLEAN /\ wei_index_array_full \in [Flags -> 0 .. 2]
    BY DEF ScanInv
  <2>4. CASE flag_serial_reg = {}
    <3>1. Scanned(d)' /\ wei_index_array_full' = wei_index_array_full
      BY <1>1, <2>1, <2>2, <2>3, <2>4, ScanRests, ScanEdge
    <3>2. QED BY <1>2, <2>2, <2>3, <3>1 DEF ScanInv
  <2>5. CASE flag_serial_reg # {}
    <3>1. /\ \E e \in 0 .. 9 : Scanned(e)'
          /\ wei_index_array_full' \in [Flags -> 0 .. 2]
      BY <1>1, <2>1, <2>2, <2>3, <2>5, ScanGoes
    <3>2. QED BY <1>2, <2>2, <3>1 DEF ScanInv
  <2>6. QED BY <2>4, <2>5
<1>6. QED BY <1>3, <1>4, <1>5 DEF Unscanned

\* No more weights are asked for than a kernel can have.
LEMMA ReadsBounded ==
  ASSUME kernel \in SUBSET (0 .. 8), ScanInv, StoreInv
  PROVE  rd_addr_s \in 0 .. 9 /\ (s_read_req => rd_addr_s < 9)
<1>1. rd_addr_s \in 0 .. 9
  BY DEF StoreInv
<1>2. s_read_req => rd_addr_s < 9
  <2> SUFFICES ASSUME s_read_req PROVE rd_addr_s < 9
    OBVIOUS
  <2>1. ~Unscanned
    BY DEF ScanInv, Blank
  <2>2. PICK d \in 0 .. 9 : rd_addr_s = Below(d) - Bit(s_read_req)
    BY <2>1 DEF ScanInv, Scanned
  <2>3. Below(d) \in 0 .. 9
    BY CountBounds
  <2>4. rd_addr_s = Below(d) - 1
    BY <2>2 DEF Bit
  <2>5. QED BY <1>1, <2>3, <2>4
<1>3. QED BY <1>1, <1>2

\* An edge of the weights' array.
LEMMA StoreKept ==
  ASSUME kernel \in SUBSET (0 .. 8), ScanInv, StoreInv,
         NEW fin \in BOOLEAN, NEW done \in BOOLEAN, WeightEdge(fin, done)
  PROVE  StoreInv'
<1>1. PICK a \in 0 .. 9 : a = rd_addr_s /\ (s_read_req => a < 9)
  BY ReadsBounded
<1>2. /\ s_read_req_d' = s_read_req
      /\ rd_addr_s' = IF s_read_req THEN a + 1 ELSE a
      /\ s_read_data' = IF s_read_req THEN a + 1 ELSE a
  BY <1>1 DEF WeightEdge, ReadWeights, StoreInv
<1>3. s_read_req \in BOOLEAN /\ s_read_req_d \in BOOLEAN
  BY DEF ScanInv, StoreInv
<1>4. rd_addr_s' \in 0 .. 9 /\ s_read_data' = rd_addr_s' /\ s_read_req_d' \in BOOLEAN
  BY <1>1, <1>2, <1>3
<1>5. PICK b \in 0 .. 9 : b = m /\ b = a - Bit(s_read_req_d)
  BY <1>1, <1>3 DEF StoreInv, Bit
<1>6. /\ s_read_req_d => /\ serial_array_full' = [serial_array_full EXCEPT ![b] = a]
                         /\ m' = b + 1
      /\ ~s_read_req_d => serial_array_full' = serial_array_full /\ m' = b
  <2>1. ReadWeights /\ s_read_data = a
    BY <1>1 DEF WeightEdge, StoreInv
  <2>2. QED BY <1>5, <2>1 DEF ReadWeights
<1>7. m' = a
  BY <1>5, <1>6, <1>3 DEF Bit
<1>8. a = rd_addr_s' - Bit(s_read_req_d)'
  BY <1>1, <1>2, <1>3 DEF Bit
<1>9. /\ serial_array_full \in [0 .. 8 -> 0 .. 9]
      /\ \A k \in 0 .. 8 : k < b => serial_array_full[k] = k + 1
  BY <1>5, Sizes DEF StoreInv
<1>10. /\ serial_array_full' \in [0 .. 8 -> 0 .. 9]
       /\ \A k \in 0 .. 8 : k < a => serial_array_full'[k] = k + 1
  <2>1. CASE s_read_req_d
    <3>1. a = b + 1 /\ b \in 0 .. 8
      BY <1>5, <2>1 DEF Bit
    <3>2. serial_array_full' = [serial_array_full EXCEPT ![b] = a]
      BY <1>6, <2>1
    <3>3. \A k \in 0 .. 8 : k < a => k < b \/ k = b
      BY <3>1
    <3>4. serial_array_full' \in [0 .. 8 -> 0 .. 9]
      BY <1>9, <3>1, <3>2
    <3>5. \A k \in 0 .. 8 : serial_array_full'[k] = IF k = b THEN a ELSE serial_array_full[k]
      BY <1>9, <3>2
    <3>6. QED BY <1>9, <3>1, <3>3, <3>4, <3>5
  <2>2. CASE ~s_read_req_d
    BY <1>5, <1>6, <1>9, <2>2 DEF Bit
  <2>3. QED BY <1>3, <2>1, <2>2
<1>11. QED BY <1>4, <1>7, <1>8, <1>10, Sizes DEF StoreInv

\* The stream's state after an edge.
LEMMA StateEdge ==
  ASSUME state \in {"PREP", "WAIT", "COMP"},
         NEW fin \in BOOLEAN, NEW done \in BOOLEAN, WeightEdge(fin, done)
  PROVE  /\ done => state = "COMP"
         /\ state = "PREP" => state' = IF en THEN "WAIT" ELSE "PREP"
         /\ state = "WAIT" => state' = "COMP"
         /\ state = "COMP" => state' = IF done THEN "WAIT" ELSE "COMP"
         /\ state' \in {"PREP", "WAIT", "COMP"}
<1>1. /\ done => state = "COMP"
      /\ state' = CASE state = "PREP" -> IF en THEN "WAIT" ELSE "PREP"
                    [] state = "COMP" -> IF done THEN "WAIT" ELSE "COMP"
                    [] state = "WAIT" -> "COMP"
  BY DEF WeightEdge, State
<1>2. QED BY <1>1

\* An edge of the start of the stream.
LEMMA EnableKept ==
  ASSUME state \in {"PREP", "WAIT", "COMP"}, ScanInv, EnableInv,
         NEW fin \in BOOLEAN, NEW done \in BOOLEAN, WeightEdge(fin, done)
  PROVE  EnableInv'
<1>1. /\ en' \in BOOLEAN /\ flag_en' \in BOOLEAN
      /\ en' => ~flag_en /\ flag_serial_reg = {}
      /\ flag_en' <=> flag_en \/ en'
  BY EnableEdge DEF EnableInv
<1>2. /\ state' = "PREP" => state = "PREP" /\ ~en
      /\ state' # "PREP" => state # "PREP" \/ en
  BY StateEdge
<1>3. state' = "PREP" => (flag_en' <=> en')
  BY <1>1, <1>2 DEF EnableInv
<1>4. state' # "PREP" => flag_en
  BY <1>2 DEF EnableInv
<1>5. s_read_req_d' = s_read_req
  BY ScanEdge
<1>6. state' # "PREP" => ~en' /\ flag_en' /\ ~s_read_req_d'
  BY <1>1, <1>4, <1>5 DEF EnableInv
<1>7. flag_en' => flag_serial_reg' = {} /\ ~s_read_req'
  <2> SUFFICES ASSUME flag_en' PROVE flag_serial_reg' = {} /\ ~s_read_req'
    OBVIOUS
  <2>1. flag_serial_reg = {}
    BY <1>1 DEF EnableInv
  <2>2. ~Blank
    <3>1. flag_en => ~Blank
      BY DEF Blank
    <3>2. Blank => ~flag_en'
      BY BlankKept
    <3>3. QED BY <3>2
  <2>3. ~flag_refresh_flag_serial
    BY <2>2 DEF ScanInv, Unscanned
  <2>4. flag_serial_reg' = {} /\ s_read_req' = FALSE
    BY <2>1, <2>3, ScanEdge
  <2>5. QED BY <2>4
<1>8. QED BY <1>1, <1>3, <1>6, <1>7 DEF EnableInv

\* When the stream is started the kernel is there: in the stack every column at
\* the number of higher flags, in the array every weight but perhaps the last.
LEMMA KernelIsThere ==
  ASSUME kernel \in SUBSET (0 .. 8), KernelInv, flag_en
  PROVE  /\ flag_serial = kernel
         /\ \A f \in kernel : wei_index_array_full[Above(f)] = 2 - (f % 3)
         /\ m \in Int /\ m >= Cardinality(kernel) - 1
         /\ state # "PREP" => m = Cardinality(kernel)
         /\ \A k \in 0 .. 8 : k < m => serial_array_full[k] = k + 1
<1>1. ~Unscanned /\ flag_serial_reg = {} /\ ~s_read_req
  BY DEF KernelInv, EnableInv, ScanInv, Blank
<1>2. flag_serial = kernel
  BY <1>1 DEF Unscanned, KernelInv, FetchInv
<1>3. PICK d \in 0 .. 9 : Scanned(d)
  BY <1>1 DEF KernelInv, ScanInv
<1>4. /\ \A f \in kernel : f < d /\ Between(f, d) = Above(f)
      /\ Below(d) = Cardinality(kernel)
  BY <1>1, <1>3, ScanEnds DEF Scanned
<1>5. \A f \in kernel : wei_index_array_full[Above(f)] = 2 - (f % 3)
  BY <1>3, <1>4 DEF Scanned
<1>6. Cardinality(kernel) \in Int
  BY Few
<1>7. rd_addr_s = Cardinality(kernel)
  BY <1>1, <1>3, <1>4, <1>6 DEF Scanned, Bit
<1>8. m = Cardinality(kernel) - Bit(s_read_req_d) /\ s_read_req_d \in BOOLEAN
  BY <1>7 DEF KernelInv, StoreInv
<1>9. state # "PREP" => ~s_read_req_d
  BY DEF KernelInv, EnableInv
<1>10. \A k \in 0 .. 8 : k < m => serial_array_full[k] = k + 1
  BY Sizes DEF KernelInv, StoreInv
<1>11. QED BY <1>2, <1>5, <1>6, <1>8, <1>9, <1>10 DEF Bit

\* An edge of the read of the kernel, of the scan and of the start.
LEMMA KernelKept ==
  ASSUME KernelsServed, KernelInv,
         NEW fin \in BOOLEAN, NEW done \in BOOLEAN, WeightEdge(fin, done),
         state \in {"PREP", "WAIT", "COMP"}
  PROVE  KernelInv'
<1>1. FetchInv /\ ScanInv /\ StoreInv /\ EnableInv /\ kernel \in SUBSET (0 .. 8)
  BY KernelType DEF KernelInv, FetchInv
<1>2. FetchInv'
  BY <1>1, FetchKept
<1>3. ScanInv'
  BY <1>1, ScanKept
<1>4. StoreInv'
  BY <1>1, StoreKept
<1>5. EnableInv'
  BY <1>1, EnableKept
<1>6. QED BY <1>2, <1>3, <1>4, <1>5 DEF KernelInv

-----------------------------------------------------------------------------
(* The rows are loaded in turn. *)

\* A field of valid_row counts the weights of its row.
LEMMA ValidRowIs ==
  ASSUME flag_serial = kernel, NEW r
  PROVE  valid_row(r) = Weights(r)
<1>1. RowFlags(r) = RowOf(r)
  BY DEF RowFlags, RowOf
<1>2. valid_row(r) = Cardinality(RowFlags(r))
  BY DEF valid_row
<1>3. Weights(r) = Cardinality(RowOf(r))
  BY DEF Weights
<1>4. QED BY <1>1, <1>2, <1>3

\* j selects the number of weights of the next row, and then that of the one
\* behind it.
LEMMA SelectsNext ==
  ASSUME KernelsServed, kernel \in Kernels, NEW r \in 0 .. 2, NEW x, Selects(x, r)
  PROVE  /\ x \in {0, 2, 4} /\ Weights(x \div 2) = Weights(NextRow(r))
         /\ Selects(IF x < 2 * Weights(r) THEN x + 2 ELSE 0, NextRow(r))
<1>1. PICK a, b, c \in 0 .. 3 : /\ a = Weights(0) /\ b = Weights(1) /\ c = Weights(2)
                               /\ \/ a >= 2 /\ b <= 2 /\ c >= 1
                                  \/ a = 1 /\ b <= 1 /\ c = 1
  BY KernelType
<1>2. x \in {0, 2, 4} /\ x \div 2 \in 0 .. 2
  <2>1. x \in {0, 2, 4}
    BY DEF Selects, NextRow
  <2>2. QED BY <2>1
<1>3. /\ r = 0 => Weights(r) = a /\ NextRow(r) = 1 /\ Weights(NextRow(r)) = b
      /\ r = 1 => Weights(r) = b /\ NextRow(r) = 2 /\ Weights(NextRow(r)) = c
      /\ r = 2 => Weights(r) = c /\ NextRow(r) = 0 /\ Weights(NextRow(r)) = a
  <2>1. NextRow(0) = 1 /\ NextRow(1) = 2 /\ NextRow(2) = 0
    BY DEF NextRow
  <2>2. QED BY <1>1, <2>1, Zenon
<1>4. /\ x = 0 => x \div 2 = 0 /\ Weights(x \div 2) = a
      /\ x = 2 => x \div 2 = 1 /\ Weights(x \div 2) = b
      /\ x = 4 => x \div 2 = 2 /\ Weights(x \div 2) = c
  <2>1. 0 \div 2 = 0 /\ 2 \div 2 = 1 /\ 4 \div 2 = 2
    OBVIOUS
  <2>2. QED BY <1>1, <2>1, Zenon
<1>5. CASE a >= 2
  <2>1. x = 2 * NextRow(r)
    BY <1>1, <1>5 DEF Selects
  <2>2. Weights(x \div 2) = Weights(NextRow(r))
    BY <1>3, <1>4, <2>1
  <2>3. b <= 2 /\ c >= 1
    BY <1>1, <1>5
  <2>4. (IF x < 2 * Weights(r) THEN x + 2 ELSE 0) = 2 * NextRow(NextRow(r))
    <3>1. CASE r = 0
      BY <1>1, <1>3, <1>5, <2>1, <3>1 DEF NextRow
    <3>2. CASE r = 1
      BY <1>1, <1>3, <1>5, <2>1, <2>3, <3>2 DEF NextRow
    <3>3. CASE r = 2
      BY <1>1, <1>3, <1>5, <2>1, <2>3, <3>3 DEF NextRow
    <3>4. QED BY <3>1, <3>2, <3>3
  <2>5. QED BY <1>1, <1>2, <1>5, <2>2, <2>4 DEF Selects
<1>6. CASE a = 1
  <2>1. b <= 1 /\ c = 1
    BY <1>1, <1>6
  <2>2. x \in {0, 2} /\ (b = 0 => (x = 2 <=> r = 0))
    BY <1>1, <1>6 DEF Selects
  <2>3. Weights(x \div 2) = Weights(NextRow(r))
    BY <1>1, <1>3, <1>4, <1>6, <2>1, <2>2
  <2>4. PICK y : y = IF x < 2 * Weights(r) THEN x + 2 ELSE 0
    OBVIOUS
  <2>5. y \in {0, 2} /\ (b = 0 => (y = 2 <=> NextRow(r) = 0))
    <3>1. CASE r = 0
      BY <1>1, <1>3, <1>6, <2>1, <2>2, <2>4, <3>1
    <3>2. CASE r = 1
      BY <1>1, <1>3, <1>6, <2>1, <2>2, <2>4, <3>2
    <3>3. CASE r = 2
      BY <1>1, <1>3, <1>6, <2>1, <2>2, <2>4, <3>3
    <3>4. QED BY <3>1, <3>2, <3>3
  <2>6. Selects(y, NextRow(r))
    BY <1>1, <1>6, <2>5 DEF Selects
  <2>7. QED BY <1>2, <2>3, <2>4, <2>6
<1>7. QED BY <1>1, <1>5, <1>6

\* The registers of the row after an edge.
LEMMA RowEdge ==
  ASSUME NEW fin \in BOOLEAN, NEW done \in BOOLEAN, WeightEdge(fin, done)
  PROVE  /\ row_index_count' = IF ~done THEN row_index_count
                               ELSE IF row_index_count < 3 THEN row_index_count + 1 ELSE 1
         /\ en \/ done =>
              /\ row_val_num_a' \in IF j <= 4 THEN {valid_row(j \div 2)} ELSE 0 .. 3
              /\ wei_index_array' = [k \in 0 .. 2 |-> wei_index_array_full[count_array + k]]
              /\ serial_array' = [k \in 0 .. 2 |-> serial_array_full[count_array + k]]
              /\ j' = IF en \/ j < 2 * row_val_num_a THEN j + 2 ELSE 0
         /\ ~(en \/ done) => /\ row_val_num_a' = row_val_num_a /\ j' = j
                             /\ wei_index_array' = wei_index_array
                             /\ serial_array' = serial_array
         /\ count_array' =
              IF state # "WAIT" THEN count_array
              ELSE IF count_array + row_val_num_a <= valid_row(0) + valid_row(1)
                THEN count_array + row_val_num_a
              ELSE 0
         /\ i' = IF en \/ done THEN 0 ELSE IF i < row_val_num THEN i + 1 ELSE 0
         /\ wei_index_d' = wei_index
         /\ serial_out_reg' = IF i \in DOMAIN serial_array THEN serial_array[i] ELSE X
<1>1. /\ RowIndexCount(done) /\ LoadRow(done) /\ CountArray /\ Loop(done) /\ ShowPair
  BY DEF WeightEdge
<1>2. /\ en \/ done =>
              /\ row_val_num_a' \in IF j <= 4 THEN {valid_row(j \div 2)} ELSE 0 .. 3
              /\ wei_index_array' = [k \in 0 .. 2 |-> wei_index_array_full[count_array + k]]
              /\ serial_array' = [k \in 0 .. 2 |-> serial_array_full[count_array + k]]
              /\ j' = IF en \/ j < 2 * row_val_num_a THEN j + 2 ELSE 0
      /\ ~(en \/ done) => /\ row_val_num_a' = row_val_num_a /\ j' = j
                          /\ wei_index_array' = wei_index_array
                          /\ serial_array' = serial_array
  BY <1>1 DEF LoadRow
<1>3. QED BY <1>1, <1>2, Zenon DEF RowIndexCount, CountArray, Loop, ShowPair

\* A row that is selected and whose weights are stored is loaded.
LEMMA RowIsLoaded ==
  ASSUME kernel \in SUBSET (0 .. 8), KernelInv, flag_en,
         NEW fin \in BOOLEAN, NEW done \in BOOLEAN, WeightEdge(fin, done),
         en \/ done, NEW r \in 0 .. 2, count_array = Before(r),
         j \in {0, 2, 4}, Weights(j \div 2) = Weights(r), Before(r) + Weights(r) <= m
  PROVE  /\ row_val_num_a' = Weights(r)
         /\ DOMAIN wei_index_array' = 0 .. 2 /\ DOMAIN serial_array' = 0 .. 2
         /\ \A k \in 0 .. 2 : k < Weights(r) =>
              /\ serial_array'[k] = Before(r) + k + 1
              /\ wei_index_array'[k] = wei_index_array_full[Before(r) + k]
<1>1. /\ flag_serial = kernel
      /\ \A k \in 0 .. 8 : k < m => serial_array_full[k] = k + 1
  BY KernelIsThere
<1>2. row_val_num_a' = Weights(r)
  <2>1. j <= 4 /\ row_val_num_a' \in IF j <= 4 THEN {valid_row(j \div 2)} ELSE 0 .. 3
    BY RowEdge
  <2>2. QED BY <1>1, <2>1, ValidRowIs
<1>3. /\ wei_index_array' = [k \in 0 .. 2 |-> wei_index_array_full[Before(r) + k]]
      /\ serial_array' = [k \in 0 .. 2 |-> serial_array_full[Before(r) + k]]
  BY RowEdge
<1>4. \A k \in 0 .. 2 : k < Weights(r) => serial_array_full[Before(r) + k] = Before(r) + k + 1
  <2> SUFFICES ASSUME NEW k \in 0 .. 2, k < Weights(r)
               PROVE  serial_array_full[Before(r) + k] = Before(r) + k + 1
    OBVIOUS
  <2>1. PICK a, b, c \in 0 .. 3 : a = Weights(0) /\ b = Weights(1) /\ c = Weights(2)
    BY WeightsAdd
  <2>2. Before(r) \in 0 .. 6 /\ Weights(r) \in 0 .. 3
    BY <2>1 DEF Before
  <2>3. Before(r) + k \in 0 .. 8
    BY <2>2
  <2>4. m \in Int
    BY KernelIsThere
  <2>5. Before(r) + k < m
    BY <2>2, <2>4
  <2>6. QED BY <1>1, <2>3, <2>5
<1>5. QED BY <1>2, <1>3, <1>4

\* Where the rows lie among the weights.
LEMMA BeforeNext ==
  ASSUME KernelsServed, kernel \in Kernels, NEW r \in 0 .. 2
  PROVE  /\ NextRow(r) \in 0 .. 2 /\ Weights(r) \in 0 .. 3 /\ Before(r) \in 0 .. 6
         /\ Before(r) + Weights(r) <= Cardinality(kernel)
         /\ r = 0 => Before(r) + Weights(r) <= Cardinality(kernel) - 1
         /\ Before(NextRow(r)) = IF Before(r) + Weights(r) <= Weights(0) + Weights(1)
                                   THEN Before(r) + Weights(r) ELSE 0
<1>1. PICK a, b, c \in 0 .. 3 : /\ a = Weights(0) /\ b = Weights(1) /\ c = Weights(2)
                               /\ c >= 1
  BY KernelType
<1>2. Cardinality(kernel) = a + b + c
  BY <1>1, KernelType, WeightsAdd
<1>3. NextRow(0) = 1 /\ NextRow(1) = 2 /\ NextRow(2) = 0
  BY DEF NextRow
<1>4. Before(0) = 0 /\ Before(1) = a /\ Before(2) = a + b
  BY <1>1 DEF Before
<1>5. CASE r = 0
  BY <1>1, <1>2, <1>3, <1>4, <1>5
<1>6. CASE r = 1
  BY <1>1, <1>2, <1>3, <1>4, <1>6
<1>7. CASE r = 2
  BY <1>1, <1>2, <1>3, <1>4, <1>7
<1>8. QED BY <1>5, <1>6, <1>7

\* The rows go round.
LEMMA RowTurns ==
  ASSUME NEW c \in 0 .. 3
  PROVE  /\ c % 3 \in 0 .. 2
         /\ (IF c < 3 THEN c + 1 ELSE 1) % 3 = NextRow(c % 3)
         /\ (IF c < 3 THEN c + 1 ELSE 1) \in 0 .. 3
<1>1. c = 0 \/ c = 1 \/ c = 2 \/ c = 3
  OBVIOUS
<1>2. 0 % 3 = 0 /\ 1 % 3 = 1 /\ 2 % 3 = 2 /\ 3 % 3 = 0
  OBVIOUS
<1>3. NextRow(0) = 1 /\ NextRow(1) = 2 /\ NextRow(2) = 0
  BY DEF NextRow
<1>4. CASE c = 0
  BY <1>2, <1>3, <1>4
<1>5. CASE c = 1
  BY <1>2, <1>3, <1>5
<1>6. CASE c = 2
  BY <1>2, <1>3, <1>6
<1>7. CASE c = 3
  BY <1>2, <1>3, <1>7
<1>8. QED BY <1>1, <1>4, <1>5, <1>6, <1>7

\* The kernel does not change, and its stack no more once the stream is started.
LEMMA KernelSame ==
  ASSUME FetchInv, NEW fin \in BOOLEAN, NEW done \in BOOLEAN, WeightEdge(fin, done)
  PROVE  /\ kernel' = kernel
         /\ \A r : Weights(r)' = Weights(r) /\ Before(r)' = Before(r)
         /\ \A x, r : Selects(x, r)' <=> Selects(x, r)
         /\ EnableInv /\ flag_en => wei_index_array_full' = wei_index_array_full
<1>1. kernel' = kernel
  BY FetchKept
<1>2. \A r : RowOf(r)' = RowOf(r)
  BY <1>1 DEF RowOf
<1>3. \A r : Weights(r)' = Weights(r)
  BY <1>2 DEF Weights
<1>4. \A r : Before(r)' = Before(r)
  BY <1>3 DEF Before
<1>5. \A x, r : Selects(x, r)' <=> Selects(x, r)
  BY <1>3 DEF Selects
<1>6. EnableInv /\ flag_en => wei_index_array_full' = wei_index_array_full
  BY ScanEdge DEF EnableInv
<1>7. QED BY <1>1, <1>3, <1>4, <1>5, <1>6

\* A row stays loaded while no other is.
LEMMA LoadedKept ==
  ASSUME KernelInv, flag_en,
         NEW fin \in BOOLEAN, NEW done \in BOOLEAN, WeightEdge(fin, done), ~en, ~done,
         NEW r \in 0 .. 2, Loaded(r)
  PROVE  Loaded(r)'
<1>1. /\ row_val_num_a' = row_val_num_a /\ j' = j
      /\ wei_index_array' = wei_index_array /\ serial_array' = serial_array
  BY RowEdge
<1>2. /\ \A s : Weights(s)' = Weights(s) /\ Before(s)' = Before(s)
      /\ \A x, s : Selects(x, s)' <=> Selects(x, s)
      /\ wei_index_array_full' = wei_index_array_full
  BY KernelSame DEF KernelInv
<1>3. Selects(j, r)'
  <2>1. Selects(j, r)
    BY DEF Loaded
  <2>2. PICK x : x = j
    OBVIOUS
  <2>3. Selects(x, r)'
    BY <1>2, <2>1, <2>2
  <2>4. QED BY <1>1, <2>2, <2>3
<1>4. QED BY <1>1, <1>2, <1>3 DEF Loaded

\* The first row is loaded by en, the next one when one is done.
LEMMA LoadsFirst ==
  ASSUME KernelsServed, KernelInv, RowsInv, state = "PREP", en,
         NEW fin \in BOOLEAN, NEW done \in BOOLEAN, WeightEdge(fin, done)
  PROVE  Loaded(0)'
<1>1. kernel \in Kernels /\ kernel \in SUBSET (0 .. 8) /\ flag_en /\ j = 0 /\ count_array = Before(0)
  BY KernelType DEF KernelInv, FetchInv, EnableInv, RowsInv, Before
<1>2. 0 \in 0 .. 2 /\ j \in {0, 2, 4} /\ j \div 2 = 0
  BY <1>1
<1>3. Before(0) + Weights(0) <= m
  <2>1. Before(0) + Weights(0) <= Cardinality(kernel) - 1
    BY <1>1, <1>2, BeforeNext
  <2>2. m \in Int /\ m >= Cardinality(kernel) - 1
    BY <1>1, KernelIsThere
  <2>3. Before(0) \in 0 .. 6 /\ Weights(0) \in 0 .. 3 /\ Cardinality(kernel) \in Int
    BY <1>1, <1>2, BeforeNext, Few
  <2>4. QED BY <2>1, <2>2, <2>3
<1>4. /\ row_val_num_a' = Weights(0)
      /\ DOMAIN wei_index_array' = 0 .. 2 /\ DOMAIN serial_array' = 0 .. 2
      /\ \A k \in 0 .. 2 : k < Weights(0) =>
              /\ serial_array'[k] = Before(0) + k + 1
              /\ wei_index_array'[k] = wei_index_array_full[Before(0) + k]
  BY <1>1, <1>2, <1>3, RowIsLoaded
<1>5. j' = 2
  BY <1>1, RowEdge
<1>6. Selects(2, 0)
  BY DEF Selects, NextRow
<1>7. /\ Weights(0)' = Weights(0) /\ Before(0)' = Before(0)
      /\ Selects(2, 0)'
      /\ wei_index_array_full' = wei_index_array_full
  BY <1>1, <1>6, KernelSame DEF KernelInv
<1>8. Selects(j, 0)'
  BY <1>5, <1>7 DEF Selects
<1>9. QED BY <1>4, <1>7, <1>8 DEF Loaded

LEMMA LoadsNext ==
  ASSUME KernelsServed, KernelInv, NEW r \in 0 .. 2, state = "COMP", Loaded(r),
         count_array = Before(NextRow(r)),
         NEW fin \in BOOLEAN, WeightEdge(fin, TRUE)
  PROVE  Loaded(NextRow(r))'
<1>1. kernel \in Kernels /\ kernel \in SUBSET (0 .. 8) /\ flag_en /\ ~en
  BY KernelType DEF KernelInv, FetchInv, EnableInv
<1>2. PICK n \in 0 .. 2 : n = NextRow(r)
  BY DEF NextRow
<1>3. row_val_num_a = Weights(r) /\ Selects(j, r)
  BY DEF Loaded
<1>4. PICK x : x = IF j < 2 * Weights(r) THEN j + 2 ELSE 0
  OBVIOUS
<1>5. j \in {0, 2, 4} /\ Weights(j \div 2) = Weights(n) /\ Selects(x, n)
  BY <1>1, <1>2, <1>3, <1>4, SelectsNext
<1>6. Before(n) + Weights(n) <= m
  BY <1>1, <1>2, BeforeNext, KernelIsThere
<1>7. /\ row_val_num_a' = Weights(n)
      /\ DOMAIN wei_index_array' = 0 .. 2 /\ DOMAIN serial_array' = 0 .. 2
      /\ \A k \in 0 .. 2 : k < Weights(n) =>
              /\ serial_array'[k] = Before(n) + k + 1
              /\ wei_index_array'[k] = wei_index_array_full[Before(n) + k]
  BY <1>1, <1>2, <1>5, <1>6, RowIsLoaded
<1>8. j' = x
  BY <1>1, <1>3, <1>4, RowEdge
<1>9. /\ Weights(n)' = Weights(n) /\ Before(n)' = Before(n)
      /\ Selects(x, n)'
      /\ wei_index_array_full' = wei_index_array_full
  BY <1>1, <1>5, KernelSame DEF KernelInv
<1>10. Selects(j, n)'
  BY <1>8, <1>9 DEF Selects
<1>11. Loaded(n)'
  BY <1>7, <1>9, <1>10 DEF Loaded
<1>12. QED BY <1>2, <1>11

\* An edge of the rows.
LEMMA RowsKept ==
  ASSUME KernelsServed, KernelInv, RowsInv,
         NEW fin \in BOOLEAN, NEW done \in BOOLEAN, WeightEdge(fin, done)
  PROVE  RowsInv'
<1>1. /\ state \in {"PREP", "WAIT", "COMP"} /\ row_index_count \in 0 .. 3
      /\ kernel \in Kernels
  BY DEF RowsInv, KernelInv, FetchInv
<1>2. /\ done => state = "COMP"
      /\ state = "PREP" => state' = IF en THEN "WAIT" ELSE "PREP"
      /\ state = "WAIT" => state' = "COMP"
      /\ state = "COMP" => state' = IF done THEN "WAIT" ELSE "COMP"
      /\ state' \in {"PREP", "WAIT", "COMP"}
  BY <1>1, StateEdge
<1>3. /\ row \in 0 .. 2
      /\ ~done => row_index_count' = row_index_count /\ row' = row
      /\ done => row' = NextRow(row)
      /\ row_index_count' \in 0 .. 3
  BY <1>1, RowEdge, RowTurns DEF row
<1>4. \A r : Before(r)' = Before(r)
  BY KernelSame DEF KernelInv
<1>5. /\ state # "PREP" => flag_en /\ ~en
      /\ en /\ state = "PREP" => flag_en
  BY DEF KernelInv, EnableInv
<1>6. CASE state = "PREP" /\ ~en
  <2>1. ~done /\ state' = "PREP" /\ row_index_count' = 0 /\ j' = 0 /\ count_array' = 0
    BY <1>2, <1>3, <1>6, RowEdge DEF RowsInv
  <2>2. QED BY <1>3, <2>1 DEF RowsInv
<1>7. CASE state = "PREP" /\ en
  <2>1. /\ ~done /\ state' = "WAIT" /\ row_index_count' = 0
        /\ count_array' = 0
    BY <1>2, <1>3, <1>7, RowEdge DEF RowsInv
  <2>2. row' = 0
    BY <2>1 DEF row
  <2>3. Loaded(0)'
    BY <1>7, LoadsFirst
  <2>4. Before(0)' = 0
    BY DEF Before
  <2>5. Loaded(row)' /\ count_array' = Before(row)'
    BY <2>1, <2>2, <2>3, <2>4 DEF Loaded, Before
  <2>6. QED BY <1>3, <2>1, <2>5 DEF RowsInv
<1>8. CASE state = "WAIT"
  <2>1. PICK r \in 0 .. 2 : r = row /\ Loaded(r) /\ count_array = Before(r)
    BY <1>3, <1>8 DEF RowsInv
  <2>2. ~done /\ state' = "COMP" /\ row' = r
    BY <1>2, <1>3, <1>8, <2>1
  <2>3. Loaded(r)'
    BY <1>5, <1>8, <2>1, <2>2, LoadedKept
  <2>4. count_array' = Before(NextRow(r))
    <3>1. valid_row(0) = Weights(0) /\ valid_row(1) = Weights(1)
      <4>1. flag_serial = kernel
        BY <1>1, <1>5, <1>8, KernelIsThere, KernelType
      <4>2. QED BY <4>1, ValidRowIs
    <3>2. row_val_num_a = Weights(r)
      BY <2>1 DEF Loaded
    <3>3. count_array' = IF Before(r) + Weights(r) <= Weights(0) + Weights(1)
                           THEN Before(r) + Weights(r) ELSE 0
      BY <1>8, <2>1, <3>1, <3>2, RowEdge
    <3>4. QED BY <1>1, <3>3, BeforeNext
  <2>5. /\ Loaded(row)' <=> Loaded(r)'
        /\ Before(NextRow(row))' = Before(NextRow(r))'
    BY <2>2 DEF Loaded, Before, NextRow
  <2>6. count_array' = Before(NextRow(row))'
    BY <1>4, <2>4, <2>5
  <2>7. QED BY <1>3, <2>2, <2>3, <2>5, <2>6 DEF RowsInv
<1>9. CASE state = "COMP"
  <2>1. PICK r \in 0 .. 2 : r = row /\ Loaded(r) /\ count_array = Before(NextRow(r))
    BY <1>3, <1>9 DEF RowsInv
  <2>2. count_array' = count_array
    BY <1>9, RowEdge
  <2>3. CASE ~done
    <3>1. state' = "COMP" /\ row' = r
      BY <1>2, <1>3, <1>9, <2>1, <2>3
    <3>2. Loaded(r)'
      BY <1>5, <1>9, <2>1, <2>3, LoadedKept
    <3>3. /\ Loaded(row)' <=> Loaded(r)'
          /\ Before(NextRow(row))' = Before(NextRow(r))'
      BY <3>1 DEF Loaded, Before, NextRow
    <3>4. count_array' = Before(NextRow(row))'
      BY <1>4, <2>1, <2>2, <3>3
    <3>5. QED BY <1>3, <3>1, <3>2, <3>3, <3>4 DEF RowsInv
  <2>4. CASE done
    <3>1. PICK n : n = NextRow(r)
      OBVIOUS
    <3>2. state' = "WAIT" /\ row' = n
      BY <1>2, <1>3, <1>9, <2>1, <2>4, <3>1
    <3>3. done = TRUE
      BY <2>4
    <3>4. Loaded(NextRow(r))'
      BY <1>9, <2>1, <3>3, LoadsNext
    <3>5. Loaded(row)' /\ Before(row)' = Before(n)'
      BY <3>1, <3>2, <3>4 DEF Loaded, Before
    <3>6. count_array' = Before(row)'
      BY <1>4, <2>1, <2>2, <3>1, <3>5
    <3>7. QED BY <1>3, <3>2, <3>5, <3>6 DEF RowsInv
  <2>5. QED BY <2>3, <2>4
<1>10. QED BY <1>1, <1>6, <1>7, <1>8, <1>9

-----------------------------------------------------------------------------
(* The pairs are shown in turn. *)

\* An edge of the controller is one of the weight side.
LEMMA EdgeOfWeights ==
  ASSUME NEW start \in BOOLEAN, Edge(start)
  PROVE  \E fin \in BOOLEAN, done \in BOOLEAN : /\ fin <=> parallel_row_read_finish
                                                /\ done <=> row_cal_done
                                                /\ WeightEdge(fin, done)
<1>1. row_cal_done \in BOOLEAN /\ parallel_row_read_finish \in BOOLEAN
  BY DEF row_cal_done, parallel_row_read_finish
<1>2. PICK fin \in BOOLEAN, done \in BOOLEAN :
        fin = parallel_row_read_finish /\ done = row_cal_done
  BY <1>1
<1>3. WeightEdge(parallel_row_read_finish, row_cal_done)
  BY DEF Edge
<1>4. WeightEdge(fin, done)
  BY <1>2, <1>3
<1>5. QED BY <1>2, <1>4

\* When a pass and a row end.
LEMMA PassIs ==
  ASSUME NEW w \in 0 .. 3, row_val_num_a = w, clocks \in 0 .. 2
  PROVE  /\ w = 0 => row_val_num = 15
         /\ w > 0 => row_val_num = w - 1
         /\ PassEnds <=> state = "COMP" /\ (w = 0 \/ clocks = w - 1)
         /\ row_finish_done_0 => PassEnds
         /\ row_cal_done <=> row_finish_done_0 /\ (w = 0 \/ passes = 4)
<1>1. row_val_num = (w - 1) % 16
  BY DEF row_val_num
<1>2. (w = 0 => row_val_num = 15) /\ (w > 0 => row_val_num = w - 1)
  BY <1>1
<1>3. zero_flag <=> w = 0
  BY <1>2 DEF zero_flag
<1>4. PassEnds <=> state = "COMP" /\ (w = 0 \/ clocks = w - 1)
  BY <1>2, <1>3 DEF PassEnds
<1>5. QED BY <1>2, <1>3, <1>4 DEF row_finish_done_0, row_cal_done

\* No pass and no row ends while none is computed.
LEMMA NoPass ==
  ASSUME state # "COMP"
  PROVE  ~PassEnds /\ ~row_finish_done_0 /\ ~row_cal_done
  BY DEF PassEnds, row_finish_done_0, row_cal_done

\* The counters of the PE array and the base after an edge.
LEMMA PassEdge ==
  ASSUME NEW start \in BOOLEAN, Edge(start)
  PROVE  /\ clocks' = IF state = "COMP" /\ ~PassEnds THEN clocks + 1 ELSE 0
         /\ passes' = IF row_cal_done THEN 0 ELSE IF row_finish_done_0 THEN passes + 1 ELSE passes
         /\ act_index_base' = IF row_cal_done THEN 0
                              ELSE IF ~row_finish_done_0 THEN act_index_base
                              ELSE IF act_index_base >= 12 THEN 0 ELSE act_index_base + 3
<1>1. PeArray /\ ActIndexBase(row_finish_done_0, row_cal_done)
  BY DEF Edge, ActivationEdge
<1>2. QED BY <1>1, Zenon DEF PeArray, ActIndexBase

\* The row and its weights stay while it is not done.
LEMMA SameRow ==
  ASSUME KernelInv, NEW fin \in BOOLEAN, NEW done \in BOOLEAN, WeightEdge(fin, done), ~done,
         NEW r, r = row
  PROVE  row' = r /\ Weights(row)' = Weights(r)
<1>1. row' = r
  BY RowEdge DEF row
<1>2. Weights(r)' = Weights(r)
  BY KernelSame DEF KernelInv
<1>3. RowOf(row)' = RowOf(r)'
  BY <1>1 DEF RowOf
<1>4. Weights(row)' = Weights(r)'
  BY <1>3 DEF Weights
<1>5. QED BY <1>1, <1>2, <1>4

\* The clock and the pair after an edge within a row.
LEMMA PairNext ==
  ASSUME NEW w \in 1 .. 3, row_val_num_a = w, NEW c \in 0 .. 2, c < w, i = c,
         DOMAIN wei_index_array = 0 .. 2, DOMAIN serial_array = 0 .. 2,
         NEW fin \in BOOLEAN, NEW done \in BOOLEAN, WeightEdge(fin, done), ~en, ~done
  PROVE  /\ i' = IF c + 1 < w THEN c + 1 ELSE 0
         /\ serial_out_reg' = serial_array'[c]
         /\ wei_index_d' = wei_index_array'[c]
<1>1. row_val_num = w - 1
  BY DEF row_val_num
<1>2. i' = IF c < w - 1 THEN c + 1 ELSE 0
  BY <1>1, RowEdge
<1>3. i' = IF c + 1 < w THEN c + 1 ELSE 0
  BY <1>2
<1>4. serial_array' = serial_array /\ wei_index_array' = wei_index_array
  BY RowEdge
<1>5. serial_out_reg' = serial_array[c] /\ wei_index_d' = wei_index_array[c]
  BY RowEdge DEF wei_index
<1>6. QED BY <1>3, <1>4, <1>5

\* An edge of the pair shown.
LEMMA PairKept ==
  ASSUME Served, KernelInv, RowsInv, PairInv, NEW start \in BOOLEAN, Edge(start)
  PROVE  PairInv'
<1>1. PICK fin \in BOOLEAN, done \in BOOLEAN :
        /\ fin <=> parallel_row_read_finish
        /\ done <=> row_cal_done
        /\ WeightEdge(fin, done)
  BY EdgeOfWeights
<1>2. /\ state \in {"PREP", "WAIT", "COMP"} /\ row_index_count \in 0 .. 3
      /\ kernel \in Kernels /\ row \in 0 .. 2
  BY RowTurns DEF RowsInv, KernelInv, FetchInv, row
<1>3. /\ state = "PREP" => state' = IF en THEN "WAIT" ELSE "PREP"
      /\ state = "WAIT" => state' = "COMP"
      /\ state = "COMP" => state' = IF done THEN "WAIT" ELSE "COMP"
  BY <1>1, <1>2, StateEdge
<1>4. /\ clocks' = IF state = "COMP" /\ ~PassEnds THEN clocks + 1 ELSE 0
      /\ passes' = IF done THEN 0 ELSE IF row_finish_done_0 THEN passes + 1 ELSE passes
      /\ act_index_base' = IF done THEN 0
                           ELSE IF ~row_finish_done_0 THEN act_index_base
                           ELSE IF act_index_base >= 12 THEN 0 ELSE act_index_base + 3
  BY <1>1, PassEdge
<1>5. PICK q \in 0 .. 4, c \in 0 .. 2 : q = passes /\ c = clocks /\ act_index_base = 3 * q
  BY DEF PairInv, ShowsAt
<1>6. CASE state = "PREP"
  <2>1. ~done /\ ~PassEnds /\ ~row_finish_done_0 /\ q = 0 /\ c = 0
    BY <1>1, <1>5, <1>6, NoPass DEF PairInv, ShowsAt
  <2>2. passes' = 0 /\ clocks' = 0 /\ act_index_base' = 0 /\ state' # "COMP"
    BY <1>3, <1>4, <1>5, <1>6, <2>1
  <2>3. state' = "WAIT" => i' = 0
    BY <1>1, <1>3, <1>6, RowEdge
  <2>4. QED BY <2>2, <2>3 DEF PairInv, ShowsAt
<1>7. CASE state # "PREP"
  <2>1. ~en /\ flag_en
    BY <1>7 DEF KernelInv, EnableInv
  <2>2. PICK r \in 0 .. 2 : r = row /\ Loaded(r)
    BY <1>2, <1>7 DEF RowsInv
  <2>3. PICK w \in 0 .. 3 : w = Weights(r) /\ row_val_num_a = w
    BY <1>2, <2>2, KernelType, WeightsAdd DEF Served, Loaded
  <2>4. DOMAIN wei_index_array = 0 .. 2 /\ DOMAIN serial_array = 0 .. 2
    BY <2>2 DEF Loaded
  <2>5. /\ PassEnds <=> state = "COMP" /\ (w = 0 \/ c = w - 1)
        /\ row_finish_done_0 => PassEnds
        /\ done <=> row_finish_done_0 /\ (w = 0 \/ q = 4)
    BY <1>1, <1>5, <2>3, PassIs
  <2>6. ~done => row' = r /\ Weights(row)' = w
    BY <1>1, <2>2, <2>3, SameRow
  <2>7. CASE state = "WAIT"
    <3>1. ~done /\ ~PassEnds /\ ~row_finish_done_0 /\ q = 0 /\ c = 0 /\ i = 0
      BY <1>1, <1>5, <2>7, NoPass DEF PairInv, ShowsAt
    <3>2. passes' = 0 /\ clocks' = 0 /\ act_index_base' = 0 /\ state' = "COMP"
      BY <1>3, <1>4, <1>5, <2>7, <3>1
    <3>3. w > 0 => /\ i' = IF 0 + 1 < w THEN 0 + 1 ELSE 0
                   /\ serial_out_reg' = serial_array'[0]
                   /\ wei_index_d' = wei_index_array'[0]
      BY <1>1, <2>1, <2>3, <2>4, <3>1, PairNext
    <3>4. QED BY <2>6, <3>1, <3>2, <3>3 DEF PairInv, ShowsAt
  <2>8. CASE state = "COMP" /\ done
    <3>1. PassEnds
      BY <2>5, <2>8
    <3>2. passes' = 0 /\ clocks' = 0 /\ act_index_base' = 0 /\ state' = "WAIT"
      BY <1>3, <1>4, <2>8, <3>1
    <3>3. i' = 0
      BY <1>1, <2>8, RowEdge
    <3>4. QED BY <3>2, <3>3 DEF PairInv, ShowsAt
  <2>9. CASE state = "COMP" /\ ~done /\ w = 0
    <3>1. ~row_finish_done_0 /\ PassEnds /\ q = 0
      BY <1>5, <2>2, <2>3, <2>5, <2>9 DEF PairInv, ShowsAt
    <3>2. passes' = 0 /\ clocks' = 0 /\ act_index_base' = 0 /\ state' = "COMP"
      BY <1>3, <1>4, <1>5, <2>9, <3>1
    <3>3. QED BY <2>6, <2>9, <3>2 DEF PairInv, ShowsAt
  <2>10. CASE state = "COMP" /\ ~done /\ w > 0
    <3>1. c < w /\ i = IF c + 1 < w THEN c + 1 ELSE 0
      BY <1>5, <2>2, <2>3, <2>10 DEF PairInv, ShowsAt
    <3>2. PICK e \in 0 .. 2 : e = i /\ e < w /\ e = IF c + 1 < w THEN c + 1 ELSE 0
      BY <2>10, <3>1
    <3>3. clocks' = e /\ state' = "COMP"
      BY <1>3, <1>4, <1>5, <2>5, <2>10, <3>1, <3>2
    <3>4. /\ i' = IF e + 1 < w THEN e + 1 ELSE 0
          /\ serial_out_reg' = serial_array'[e]
          /\ wei_index_d' = wei_index_array'[e]
      BY <1>1, <2>1, <2>3, <2>4, <2>10, <3>2, PairNext
    <3>5. passes' \in 0 .. 4 /\ act_index_base' = 3 * passes'
      <4>1. CASE row_finish_done_0
        <5>1. q \in 0 .. 3
          BY <2>5, <2>10, <4>1
        <5>2. passes' = q + 1 /\ act_index_base' = 3 * q + 3
          BY <1>4, <1>5, <2>10, <4>1, <5>1
        <5>3. QED BY <5>1, <5>2
      <4>2. CASE ~row_finish_done_0
        BY <1>4, <1>5, <2>10, <4>2
      <4>3. QED BY <4>1, <4>2
    <3>6. QED BY <2>6, <2>10, <3>2, <3>3, <3>4, <3>5 DEF PairInv, ShowsAt
  <2>11. QED BY <1>2, <1>7, <2>7, <2>8, <2>9, <2>10
<1>8. QED BY <1>6, <1>7

-----------------------------------------------------------------------------
(* The next row of blocks is read in time. *)

\* row_index goes on to the next row of blocks when a kernel has been shown.
LEMMA BlockRowEdge ==
  ASSUME Served, ShownInv, NEW start \in BOOLEAN, Edge(start)
  PROVE  /\ BlockRow' = IF row_index_count_3 THEN BlockRow + 1 ELSE BlockRow
         /\ BlockRow' \in 0 .. ROWS - 1 /\ row_index_signed' = 3 * BlockRow' + 2
<1>1. ROWS \in 1 .. 5
  BY PictureAssumption DEF Served
<1>2. PICK b \in 0 .. 4 : b = BlockRow /\ b <= ROWS - 1 /\ row_index_signed = 3 * b + 2
                          /\ (row_index_count_3 => b < ROWS - 1)
  BY <1>1 DEF ShownInv
<1>3. row_index_signed' = IF row_index_count_3 THEN Signed((row_index_signed + 3) % 32, 5)
                          ELSE row_index_signed
  BY Zenon DEF Edge, ActivationEdge, ShowRow
<1>4. \A x \in 0 .. 4 : (3 * x + 2 - 2) \div 3 = x
  OBVIOUS
<1>5. CASE row_index_count_3
  <2>1. b + 1 \in 0 .. 4 /\ b + 1 <= ROWS - 1
    BY <1>1, <1>2, <1>5
  <2>2. (3 * b + 2 + 3) % 32 = 3 * (b + 1) + 2
    BY <2>1
  <2>3. 2 ^ (5 - 1) = 16 /\ 3 * (b + 1) + 2 < 16
    BY <2>1
  <2>4. Signed(3 * (b + 1) + 2, 5) = 3 * (b + 1) + 2
    BY <2>1, <2>3 DEF Signed
  <2>5. row_index_signed' = 3 * (b + 1) + 2
    BY <1>2, <1>3, <1>5, <2>2, <2>4
  <2>6. BlockRow' = b + 1
    BY <1>4, <2>1, <2>5 DEF BlockRow
  <2>7. QED BY <1>1, <1>2, <1>5, <2>1, <2>5, <2>6
<1>6. CASE ~row_index_count_3
  <2>1. row_index_signed' = 3 * b + 2
    BY <1>2, <1>3, <1>6
  <2>2. BlockRow' = b
    BY <1>4, <2>1 DEF BlockRow
  <2>3. QED BY <1>1, <1>2, <1>6, <2>1, <2>2
<1>7. QED BY <1>5, <1>6

\* The read ends on its sixth edge.
LEMMA FinishIs ==
  ASSUME Served, NEW k \in 0 .. 8, Age(k), Reads \in Nat
  PROVE  parallel_row_read_finish <=> k = 5
<1>1. PICK n \in Int : n = Reads - 1
  OBVIOUS
<1>2. PICK c \in 0 .. 6 : c = (IF k < 6 THEN k ELSE 6) /\ (c = 5 <=> k = 5)
  OBVIOUS
<1>3. rd_addr_pflag = 6 * n + c
  BY <1>1, <1>2 DEF Age
<1>4. (6 * n + c + 1) % 6 = 0 <=> c = 5
  BY ONLY n \in Int, c \in 0 .. 6
<1>5. QED BY <1>2, <1>3, <1>4 DEF parallel_row_read_finish, Served

\* A read is asked for.
Asked(start) == start \/ en \/ row_index_count_3

\* A read is begun or goes on.
LEMMA AgeKept ==
  ASSUME Served, NEW k \in 0 .. 8, Age(k), Reads \in Nat,
         NEW start \in BOOLEAN, Edge(start),
         Asked(start) => k = 8 /\ Reads' = Reads + 1,
         ~Asked(start) => Reads' = Reads,
         NEW e \in 0 .. 8, e = IF Asked(start) THEN 0 ELSE IF k < 8 THEN k + 1 ELSE 8
  PROVE  Age(e)'
<1>1. /\ reading' = IF reading THEN ~parallel_row_read_finish ELSE start \/ en \/ row_index_count_3
      /\ rd_addr_pflag' = IF reading THEN rd_addr_pflag + 1 ELSE rd_addr_pflag
      /\ flag_state_parallel' = reading
      /\ flag_state_parallel_d' = flag_state_parallel
  BY Zenon DEF Edge, ActivationEdge, StateParallel, ReadFlags
<1>2. reading' <=> IF k < 6 THEN k # 5 ELSE Asked(start)
  <2>1. parallel_row_read_finish <=> k = 5
    BY FinishIs
  <2>2. reading <=> k < 6
    BY DEF Age
  <2>3. CASE reading
    BY <1>1, <2>1, <2>2, <2>3
  <2>4. CASE ~reading
    BY <1>1, <2>2, <2>4 DEF Asked
  <2>5. QED BY <2>3, <2>4
<1>3. /\ flag_state_parallel' <=> k < 6
      /\ flag_state_parallel_d' <=> k \in 1 .. 6
  <2>1. flag_state_parallel' <=> reading
    BY <1>1, Zenon
  <2>2. flag_state_parallel_d' <=> flag_state_parallel
    BY <1>1, Zenon
  <2>3. QED BY <2>1, <2>2 DEF Age
<1>4. PICK n \in Nat : n = Reads
  OBVIOUS
<1>5. rd_addr_pflag' = 6 * (n - 1) + (IF k < 5 THEN k + 1 ELSE 6)
  <2>1. rd_addr_pflag = 6 * (n - 1) + (IF k < 6 THEN k ELSE 6) /\ (reading <=> k < 6)
    BY <1>4 DEF Age
  <2>2. CASE k < 6
    BY <1>1, <2>1, <2>2
  <2>3. CASE ~(k < 6)
    BY <1>1, <2>1, <2>3
  <2>4. QED BY <2>2, <2>3
<1>6. CASE Asked(start)
  <2>1. k = 8 /\ Reads' = n + 1
    BY <1>4, <1>6
  <2>2. rd_addr_pflag' = 6 * (Reads' - 1) + 0
    BY <1>5, <2>1
  <2>3. reading' /\ ~flag_state_parallel' /\ ~flag_state_parallel_d'
    BY <1>2, <1>3, <1>6, <2>1
  <2>4. Age(0)'
    BY <2>2, <2>3 DEF Age
  <2>5. QED BY <1>6, <2>4
<1>7. CASE ~Asked(start) /\ k < 8
  <2>1. Reads' = n
    BY <1>4, <1>7
  <2>2. e \in 1 .. 8 /\ e = k + 1
    BY <1>7
  <2>3. rd_addr_pflag' = 6 * (Reads' - 1) + (IF e < 6 THEN e ELSE 6)
    BY <1>5, <2>1, <2>2
  <2>4. /\ reading' <=> e < 6
        /\ flag_state_parallel' <=> e \in 1 .. 6
        /\ flag_state_parallel_d' <=> e \in 2 .. 7
    BY <1>2, <1>3, <1>7, <2>2
  <2>5. Age(e)'
    BY <2>3, <2>4 DEF Age
  <2>6. QED BY <1>7, <2>2, <2>5
<1>8. CASE ~Asked(start) /\ k = 8
  <2>1. Reads' = n
    BY <1>4, <1>8
  <2>2. rd_addr_pflag' = 6 * (Reads' - 1) + 6
    BY <1>5, <1>8, <2>1
  <2>3. ~reading' /\ ~flag_state_parallel' /\ ~flag_state_parallel_d'
    BY <1>2, <1>3, <1>8
  <2>4. Age(8)'
    BY <2>2, <2>3 DEF Age
  <2>5. QED BY <1>8, <2>4
<1>9. QED BY <1>6, <1>7, <1>8

\* en comes in PREP, with the flags of the first row of blocks read long since.
LEMMA WhenEnabled ==
  ASSUME KernelInv, PhaseInv, en
  PROVE  state = "PREP" /\ started /\ ~Unscanned
<1>1. state = "PREP" /\ flag_en
  BY DEF KernelInv, EnableInv
<1>2. ~Unscanned
  BY <1>1 DEF KernelInv, ScanInv, Blank
<1>3. started
  BY <1>2 DEF Unscanned, PhaseInv
<1>4. QED BY <1>1, <1>2, <1>3

\* A read is asked for only when the one before has left all registers.
LEMMA AskedInTime ==
  ASSUME Served, KernelInv, RowsInv, PhaseInv, ShownInv,
         NEW k \in 0 .. 8, Age(k), InTime(k),
         NEW start \in BOOLEAN, start => ~started, Edge(start)
  PROVE  /\ Reads \in Nat
         /\ Asked(start) => k = 8 /\ Reads' = Reads + 1
         /\ ~Asked(start) => Reads' = Reads
<1>1. PICK b \in Nat : b = BlockRow
  BY DEF ShownInv
<1>2. BlockRow' = IF row_index_count_3 THEN b + 1 ELSE b
  BY <1>1, BlockRowEdge
<1>3. PICK fin \in BOOLEAN, done \in BOOLEAN :
        /\ fin <=> parallel_row_read_finish
        /\ done <=> row_cal_done
        /\ WeightEdge(fin, done)
  BY EdgeOfWeights
<1>4. /\ state \in {"PREP", "WAIT", "COMP"}
      /\ state = "PREP" => state' = IF en THEN "WAIT" ELSE "PREP"
      /\ state # "PREP" => state' # "PREP"
  <2>1. state \in {"PREP", "WAIT", "COMP"}
    BY DEF RowsInv
  <2>2. QED BY <1>3, <2>1, StateEdge
<1>5. started' <=> started \/ start
  BY Zenon DEF Edge
<1>6. /\ en => state = "PREP" /\ started /\ ~Unscanned
      /\ row_index_count_3 => state = "WAIT" /\ row_index_count = 3
      /\ start => ~started /\ state = "PREP"
      /\ state # "PREP" => started
      /\ state = "PREP" => b = 0
  BY <1>1, WhenEnabled DEF row_index_count_3, PhaseInv, ShownInv
<1>7. Reads = IF ~started THEN 0 ELSE IF state = "PREP" THEN 1 ELSE 2 + b
  BY <1>1 DEF Reads
<1>8. Reads' = IF ~started' THEN 0 ELSE IF state' = "PREP" THEN 1 ELSE 2 + BlockRow'
  BY DEF Reads
<1>9. CASE start
  <2>1. k = 8
    BY <1>6, <1>9 DEF InTime
  <2>2. ~en /\ ~row_index_count_3 /\ state' = "PREP"
    BY <1>4, <1>6, <1>9
  <2>3. Reads' = 1 /\ Reads = 0
    BY <1>5, <1>6, <1>7, <1>8, <1>9, <2>2
  <2>4. QED BY <1>9, <2>1, <2>3 DEF Asked
<1>10. CASE en
  <2>1. k = 8
    BY <1>6, <1>10 DEF InTime, Unscanned
  <2>2. ~row_index_count_3 /\ state' = "WAIT" /\ b = 0 /\ BlockRow' = 0
    BY <1>2, <1>4, <1>6, <1>10
  <2>3. Reads' = 2 /\ Reads = 1
    BY <1>5, <1>6, <1>7, <1>8, <1>10, <2>2
  <2>4. QED BY <1>10, <2>1, <2>3 DEF Asked
<1>11. CASE row_index_count_3
  <2>1. k = 8
    BY <1>6, <1>11 DEF InTime
  <2>2. state' # "PREP" /\ state # "PREP" /\ BlockRow' = b + 1
    BY <1>2, <1>4, <1>6, <1>11
  <2>3. Reads' = 2 + (b + 1) /\ Reads = 2 + b
    BY <1>5, <1>6, <1>7, <1>8, <1>11, <2>2
  <2>4. QED BY <1>11, <2>1, <2>3 DEF Asked
<1>12. CASE ~start /\ ~en /\ ~row_index_count_3
  <2>1. /\ started' <=> started
        /\ state' = "PREP" <=> state = "PREP"
        /\ BlockRow' = b
    BY <1>2, <1>4, <1>5, <1>12
  <2>2. Reads' = Reads
    BY <1>7, <1>8, <2>1
  <2>3. Reads \in Nat
    BY <1>7
  <2>4. QED BY <1>12, <2>2, <2>3 DEF Asked
<1>13. QED BY <1>9, <1>10, <1>11, <1>12

\* While the stream is not started the kernel is read behind the first row of
\* blocks, an edge at a time.
LEMMA PrepInTime ==
  ASSUME Served, KernelInv, RowsInv, PhaseInv, ShownInv,
         NEW k \in 0 .. 8, Age(k), InTime(k), state = "PREP",
         NEW start \in BOOLEAN, start => ~started, Edge(start),
         NEW e \in 0 .. 8, e = IF Asked(start) THEN 0 ELSE IF k < 8 THEN k + 1 ELSE 8
  PROVE  InTime(e)' /\ (~started' => ~flag_wei_read' /\ state' = "PREP")
<1>1. PICK fin \in BOOLEAN, done \in BOOLEAN :
        /\ fin <=> parallel_row_read_finish
        /\ done <=> row_cal_done
        /\ WeightEdge(fin, done)
  BY EdgeOfWeights
<1>2. ~done /\ state' = IF en THEN "WAIT" ELSE "PREP"
  BY <1>1, StateEdge
<1>3. row_index_count' = 0 /\ row' = 0
  <2>1. row_index_count' = 0
    BY <1>1, <1>2, RowEdge DEF RowsInv
  <2>2. QED BY <2>1 DEF row
<1>4. started' <=> started \/ start
  BY Zenon DEF Edge
<1>5. parallel_row_read_finish <=> k = 5
  BY AskedInTime, FinishIs
<1>6. /\ serial_read' <=> ~serial_read /\ k = 5 /\ ~flag_wei_read
      /\ flag_wei_read' <=> flag_wei_read \/ (~serial_read /\ k = 5 /\ ~flag_wei_read)
      /\ flag_refresh_flag_serial' <=> serial_read
  BY <1>1, <1>5, FetchEdge
<1>7. ~row_index_count_3
  BY DEF row_index_count_3
<1>8. /\ serial_read => flag_wei_read /\ ~flag_refresh_flag_serial
      /\ flag_refresh_flag_serial => flag_wei_read
      /\ ~started => ~flag_wei_read /\ ~en
  BY WhenEnabled DEF KernelInv, FetchInv, PhaseInv
<1>9. ~started => k = 8
  BY DEF InTime
<1>10. CASE en
  <2>1. state' = "WAIT" /\ started'
    BY <1>2, <1>4, <1>10, WhenEnabled
  <2>2. QED BY <1>3, <2>1 DEF InTime
<1>11. CASE ~en /\ ~started
  <2>1. k = 8 /\ ~serial_read' /\ ~flag_wei_read' /\ ~flag_refresh_flag_serial'
    BY <1>6, <1>8, <1>9, <1>11
  <2>2. state' = "PREP" /\ (~started' => ~start)
    BY <1>2, <1>4, <1>11
  <2>3. /\ start => e = 0
        /\ ~start => e = 8
    BY <1>7, <1>11, <2>1 DEF Asked
  <2>4. ~started' => e = 8
    BY <2>2, <2>3
  <2>5. started' => e <= 5
    BY <1>4, <1>11, <2>3
  <2>6. QED BY <2>1, <2>2, <2>4, <2>5 DEF InTime
<1>12. CASE ~en /\ started
  <2>1. ~Asked(start) /\ state' = "PREP" /\ started'
    BY <1>2, <1>4, <1>7, <1>12 DEF Asked
  <2>2. /\ ~flag_wei_read => k <= 5
        /\ serial_read => k = 6
        /\ flag_refresh_flag_serial => k = 7
        /\ flag_wei_read /\ ~serial_read /\ ~flag_refresh_flag_serial => k = 8
    BY <1>12 DEF InTime
  <2>3. e = IF k < 8 THEN k + 1 ELSE 8
    BY <2>1
  <2>4. ~flag_wei_read' => e <= 5
    BY <1>6, <1>8, <2>2, <2>3
  <2>5. serial_read' => e = 6
    BY <1>6, <2>3
  <2>6. flag_refresh_flag_serial' => e = 7
    BY <1>6, <2>2, <2>3
  <2>7. flag_wei_read' /\ ~serial_read' /\ ~flag_refresh_flag_serial' => e = 8
    BY <1>6, <1>8, <2>2, <2>3
  <2>8. QED BY <2>1, <2>4, <2>5, <2>6, <2>7 DEF InTime
<1>13. QED BY <1>10, <1>11, <1>12

\* While the kernel is shown the next row of blocks is read: the first row of
\* the kernel takes at least five clocks, the two others an edge each at least.
LEMMA ShownInTime ==
  ASSUME Served, KernelInv, RowsInv, PairInv, PhaseInv, ShownInv,
         NEW k \in 0 .. 8, Age(k), InTime(k), state # "PREP",
         NEW start \in BOOLEAN, start => ~started, Edge(start),
         NEW e \in 0 .. 8, e = IF Asked(start) THEN 0 ELSE IF k < 8 THEN k + 1 ELSE 8
  PROVE  InTime(e)' /\ started' /\ state' # "PREP"
<1>1. PICK fin \in BOOLEAN, done \in BOOLEAN :
        /\ fin <=> parallel_row_read_finish
        /\ done <=> row_cal_done
        /\ WeightEdge(fin, done)
  BY EdgeOfWeights
<1>2. PICK c \in 0 .. 3 : c = row_index_count
  BY DEF RowsInv
<1>3. PICK r \in 0 .. 2 : r = row /\ r = c % 3
  BY <1>2, RowTurns DEF row
<1>4. /\ state \in {"WAIT", "COMP"}
      /\ state = "WAIT" => ~done /\ state' = "COMP"
      /\ state = "COMP" => state' = IF done THEN "WAIT" ELSE "COMP"
  <2>1. state \in {"WAIT", "COMP"}
    BY DEF RowsInv
  <2>2. QED BY <1>1, <2>1, StateEdge
<1>5. row_index_count' = IF ~done THEN c ELSE IF c < 3 THEN c + 1 ELSE 1
  BY <1>1, <1>2, RowEdge
<1>6. row' = IF done THEN NextRow(r) ELSE r
  BY <1>2, <1>3, <1>5, RowTurns DEF row
<1>7. started /\ started' /\ ~start
  BY Zenon DEF Edge, PhaseInv
<1>8. ~en /\ (Asked(start) <=> state = "WAIT" /\ c = 3)
  BY <1>2, <1>7 DEF KernelInv, EnableInv, Asked, row_index_count_3
<1>9. /\ state = "COMP" /\ r = 0 => k >= passes
      /\ state = "WAIT" /\ r = 1 => k >= 5
      /\ state = "COMP" /\ r = 1 => k >= 6
      /\ state = "WAIT" /\ r = 2 => k >= 7
      /\ state = "COMP" /\ r = 2 => k = 8
  BY <1>3 DEF InTime
<1>10. passes \in 0 .. 4 /\ (state = "WAIT" => passes = 0)
  BY DEF PairInv
<1>11. /\ done => passes' = 0
       /\ ~done => passes' = passes \/ passes' = passes + 1
       /\ done /\ r = 0 => passes = 4
  <2>1. passes' = IF done THEN 0 ELSE IF row_finish_done_0 THEN passes + 1 ELSE passes
    BY <1>1, PassEdge
  <2>2. done /\ r = 0 => passes = 4
    <3>1. Loaded(r)
      BY <1>3, <1>4 DEF RowsInv
    <3>2. kernel \in Kernels
      BY DEF KernelInv, FetchInv
    <3>3. PICK w \in 0 .. 3 : w = Weights(r) /\ row_val_num_a = w /\ (r = 0 => w >= 1)
      BY <3>1, <3>2, BeforeNext, KernelType DEF Served, Loaded
    <3>4. clocks \in 0 .. 2
      BY DEF PairInv
    <3>5. done => w = 0 \/ passes = 4
      BY <1>1, <3>3, <3>4, PassIs
    <3>6. QED BY <3>3, <3>5
  <2>3. QED BY <2>1, <2>2
<1>12. passes' \in 0 .. 4
  BY PairKept DEF PairInv
<1>13. CASE state = "WAIT"
  <2>1. ~done /\ state' = "COMP" /\ row' = r /\ row_index_count' = c
    BY <1>4, <1>5, <1>6, <1>13
  <2>2. r = 0 => passes' = 0
    <3>1. ~row_finish_done_0 /\ ~row_cal_done
      BY <1>13, NoPass
    <3>2. QED BY <1>10, <1>13, <3>1, PassEdge
  <2>3. r # 0 => c # 3 /\ e = IF k < 8 THEN k + 1 ELSE 8
    <3>1. 3 % 3 = 0
      OBVIOUS
    <3>2. QED BY <1>3, <1>8, <3>1
  <2>4. (r = 1 => e >= 6) /\ (r = 2 => e = 8)
    BY <1>9, <1>13, <2>3
  <2>5. QED BY <1>7, <2>1, <2>2, <2>4 DEF InTime
<1>14. CASE state = "COMP"
  <2>1. e = IF k < 8 THEN k + 1 ELSE 8
    BY <1>8, <1>14
  <2>2. CASE ~done
    <3>1. state' = "COMP" /\ row' = r
      BY <1>4, <1>6, <1>14, <2>2
    <3>2. r = 0 => e >= passes'
      BY <1>9, <1>10, <1>11, <1>12, <1>14, <2>1, <2>2
    <3>3. (r = 1 => e >= 6) /\ (r = 2 => e = 8)
      BY <1>9, <1>14, <2>1
    <3>4. QED BY <1>7, <3>1, <3>2, <3>3 DEF InTime
  <2>3. CASE done
    <3>1. state' = "WAIT" /\ row' = NextRow(r)
      BY <1>4, <1>6, <1>14, <2>3
    <3>2. NextRow(0) = 1 /\ NextRow(1) = 2 /\ NextRow(2) = 0
      BY DEF NextRow
    <3>3. (row' = 1 => e >= 5) /\ (row' = 2 => e >= 7)
      <4>1. r = 0 => row' = 1 /\ e >= 5
        BY <1>9, <1>11, <1>14, <2>1, <2>3, <3>1, <3>2
      <4>2. r = 1 => row' = 2 /\ e >= 7
        BY <1>9, <1>14, <2>1, <3>1, <3>2
      <4>3. r = 2 => row' = 0
        BY <3>1, <3>2
      <4>4. QED BY <4>1, <4>2, <4>3
    <3>4. row_index_count' = 3 => e = 8
      <4>1. row_index_count' = 3 => c = 2
        BY <1>5, <2>3
      <4>2. c = 2 => r = 2
        BY <1>3
      <4>3. QED BY <1>9, <1>14, <2>1, <4>1, <4>2
    <3>5. QED BY <1>7, <3>1, <3>3, <3>4 DEF InTime
  <2>4. QED BY <2>2, <2>3
<1>15. QED BY <1>4, <1>13, <1>14

\* An edge of the read ahead.
LEMMA PhaseKept ==
  ASSUME Served, KernelInv, RowsInv, PairInv, PhaseInv, ShownInv,
         NEW start \in BOOLEAN, start => ~started, Edge(start)
  PROVE  PhaseInv'
<1>1. PICK k \in 0 .. 8 : Age(k) /\ InTime(k)
  BY DEF PhaseInv
<1>2. PICK e \in 0 .. 8 : e = IF Asked(start) THEN 0 ELSE IF k < 8 THEN k + 1 ELSE 8
  OBVIOUS
<1>3. Age(e)'
  BY <1>1, <1>2, AskedInTime, AgeKept
<1>4. InTime(e)' /\ (~started' => ~flag_wei_read' /\ state' = "PREP")
  <2>1. CASE state = "PREP"
    BY <1>1, <1>2, <2>1, PrepInTime
  <2>2. CASE state # "PREP"
    BY <1>1, <1>2, <2>2, ShownInTime
  <2>3. QED BY <2>1, <2>2
<1>5. /\ started' \in BOOLEAN /\ reading' \in BOOLEAN
      /\ flag_state_parallel' \in BOOLEAN /\ flag_state_parallel_d' \in BOOLEAN
  <2>1. /\ started' = (started \/ start)
        /\ reading' = IF reading THEN ~parallel_row_read_finish ELSE start \/ en \/ row_index_count_3
        /\ flag_state_parallel' = reading
        /\ flag_state_parallel_d' = flag_state_parallel
    BY Zenon DEF Edge, ActivationEdge, StateParallel, ReadFlags
  <2>2. (start \/ en \/ row_index_count_3) \in BOOLEAN /\ (started \/ start) \in BOOLEAN
    OBVIOUS
  <2>3. QED BY <2>1, <2>2 DEF PhaseInv
<1>6. QED BY <1>3, <1>4, <1>5 DEF PhaseInv

-----------------------------------------------------------------------------
(* The activations of a place. *)

\* Block c adds its activation, if it has one.
LEMMA CountNext ==
  ASSUME NEW p \in Places, NEW c \in Int
  PROVE  /\ CountOf(p, c) \in Nat
         /\ CountOf(p, c + 1) = CountOf(p, c) + Bit(p \in FlagsOf(c))
<1> DEFINE before(n) == {b \in 0 .. n - 1 : p \in FlagsOf(b)}
<1>1. \A n \in Int : IsFiniteSet(before(n))
  <2> SUFFICES ASSUME NEW n \in Int PROVE IsFiniteSet(before(n))
    OBVIOUS
  <2>1. 0 \in Int /\ n - 1 \in Int
    OBVIOUS
  <2>2. IsFiniteSet(0 .. n - 1)
    BY <2>1, FS_Interval
  <2>3. before(n) \in SUBSET (0 .. n - 1)
    OBVIOUS
  <2>4. QED BY <2>2, <2>3, FS_Subset
<1>2. CountOf(p, c) \in Nat
  <2>1. CountOf(p, c) = Cardinality(before(c))
    BY DEF CountOf
  <2> HIDE DEF before
  <2>2. QED BY <1>1, <2>1, FS_CardinalityType
<1>3. p \in FlagsOf(c) => c >= 0
  BY PictureAssumption DEF FlagsOf, Blocks
<1>4. CASE p \in FlagsOf(c)
  <2>1. \A b : b \in before(c + 1) <=> b \in before(c) \/ b = c
    <3>1. \A b : b \in 0 .. (c + 1) - 1 <=> b \in 0 .. c - 1 \/ b = c
      BY <1>3, <1>4
    <3>2. QED BY <1>4, <3>1
  <2>2. before(c + 1) = before(c) \cup {c} /\ c \notin before(c)
    BY <2>1
  <2>3. CountOf(p, c + 1) = Cardinality(before(c + 1)) /\ CountOf(p, c) = Cardinality(before(c))
    BY DEF CountOf
  <2> HIDE DEF before
  <2>4. Cardinality(before(c + 1)) = Cardinality(before(c)) + 1
    BY <1>1, <2>2, FS_AddElement
  <2>5. QED BY <1>2, <1>4, <2>3, <2>4 DEF Bit
<1>5. CASE p \notin FlagsOf(c)
  <2>1. \A b : b \in before(c + 1) <=> b \in before(c)
    <3>1. \A b : b \in 0 .. (c + 1) - 1 => b \in 0 .. c - 1 \/ b = c
      OBVIOUS
    <3>2. \A b : b \in 0 .. c - 1 => b \in 0 .. (c + 1) - 1
      OBVIOUS
    <3>3. QED BY <1>5, <3>1, <3>2
  <2>2. before(c + 1) = before(c)
    BY <2>1
  <2>3. CountOf(p, c + 1) = CountOf(p, c)
    BY <2>2 DEF CountOf
  <2>4. QED BY <1>2, <1>5, <2>3 DEF Bit
<1>6. QED BY <1>2, <1>4, <1>5

\* A block with an activation of the place adds to the count before every later
\* block.
LEMMA CountGrows ==
  ASSUME NEW p \in Places, NEW b \in Int, NEW c \in Int, b < c, p \in FlagsOf(b)
  PROVE  CountOf(p, b) < CountOf(p, c)
<1> DEFINE before(n) == {x \in 0 .. n - 1 : p \in FlagsOf(x)}
<1>1. b >= 0
  BY PictureAssumption DEF FlagsOf, Blocks
<1>2. before(b) \subseteq before(c) /\ b \in before(c) /\ b \notin before(b)
  <2>1. \A x : x \in 0 .. b - 1 => x \in 0 .. c - 1
    OBVIOUS
  <2>2. b \in 0 .. c - 1 /\ b \notin 0 .. b - 1
    BY <1>1
  <2>3. QED BY <2>1, <2>2
<1>3. IsFiniteSet(before(c))
  <2>1. 0 \in Int /\ c - 1 \in Int
    OBVIOUS
  <2>2. IsFiniteSet(0 .. c - 1)
    BY <2>1, FS_Interval
  <2>3. before(c) \in SUBSET (0 .. c - 1)
    OBVIOUS
  <2>4. QED BY <2>2, <2>3, FS_Subset
<1>4. CountOf(p, b) = Cardinality(before(b)) /\ CountOf(p, c) = Cardinality(before(c))
  BY DEF CountOf
<1> HIDE DEF before
<1>5. /\ Cardinality(before(b)) <= Cardinality(before(c))
      /\ Cardinality(before(b)) # Cardinality(before(c))
  BY <1>2, <1>3, FS_Subset
<1>6. CountOf(p, b) \in Nat /\ CountOf(p, c) \in Nat
  BY CountNext
<1>7. QED BY <1>4, <1>5, <1>6

\* The memory of a place holds its activations without the holes: that of block
\* b is behind those of the blocks before.
LEMMA StoredIsIt ==
  ASSUME picture \in Pictures, NEW p \in Places, NEW b \in Int, p \in FlagsOf(b)
  PROVE  Stored(p, CountOf(p, b)) = b + 1
<1> DEFINE n == CountOf(p, b)
           at == {x \in Blocks : /\ p \in picture[x]
                                 /\ Cardinality({c \in 0 .. x - 1 : p \in picture[c]}) = n}
<1>1. b \in Blocks /\ p \in picture[b] /\ \A x \in Blocks : x \in Nat
  BY PictureAssumption DEF FlagsOf, Blocks
<1>2. \A x \in Blocks : {c \in 0 .. x - 1 : p \in picture[c]} = {c \in 0 .. x - 1 : p \in FlagsOf(c)}
  <2>1. \A x \in Blocks : \A c \in 0 .. x - 1 : c \in Blocks
    BY PictureAssumption DEF Blocks
  <2>2. QED BY <2>1 DEF FlagsOf
<1>3. \A x \in Blocks : x \in at <=> p \in FlagsOf(x) /\ CountOf(p, x) = n
  BY <1>2 DEF FlagsOf, CountOf
<1>4. \A x \in Blocks : p \in FlagsOf(x) /\ CountOf(p, x) = n => x = b
  <2> SUFFICES ASSUME NEW x \in Blocks, p \in FlagsOf(x), CountOf(p, x) = n, x # b
               PROVE  FALSE
    OBVIOUS
  <2>1. x \in Int /\ (x < b \/ b < x)
    BY <1>1
  <2>2. CountOf(p, x) < n \/ n < CountOf(p, x)
    BY <2>1, CountGrows
  <2>3. n \in Nat
    BY CountNext
  <2> HIDE DEF n
  <2>4. QED BY <2>2, <2>3
<1>5. at = {b}
  <2>1. b \in at
    BY <1>1, <1>3
  <2>2. \A x \in at : x = b
    BY <1>3, <1>4
  <2> HIDE DEF at
  <2>3. QED BY <2>1, <2>2
<1>6. Stored(p, n) = IF at = {} THEN 0 ELSE (CHOOSE x \in at : TRUE) + 1
  BY DEF Stored
<1> HIDE DEF n, at
<1>7. QED BY <1>5, <1>6 DEF n

\* An edge of the registers of the activations, as one step of the counters.
LEMMA AheadEdge ==
  ASSUME NEW start \in BOOLEAN, Edge(start)
  PROVE  /\ picture' = picture
         /\ rd_addr_pflag' = IF reading THEN rd_addr_pflag + 1 ELSE rd_addr_pflag
         /\ flag_state_parallel' = reading
         /\ flag_state_parallel_d' = flag_state_parallel
         /\ rd_act_flag_p' = IF reading THEN FlagsOf(rd_addr_pflag) ELSE {}
         /\ flag_d' = rd_act_flag_p
         /\ rd_addr' = [p \in Places |-> IF p \in rd_act_flag_p THEN rd_addr[p] + 1 ELSE rd_addr[p]]
         /\ rd_data' = [p \in Places |->
                          IF p \in rd_act_flag_p THEN Stored(p, rd_addr[p]) ELSE rd_data[p]]
         /\ parallel_array_reg' =
              IF flag_state_parallel_d
                THEN [s \in Slots |-> IF s = ROW_BLOCKS - 1 THEN parallel_in
                                                            ELSE parallel_array_reg[s + 1]]
                ELSE parallel_array_reg
  BY Zenon DEF Edge, ActivationEdge, ReadFlags, ReadActivations, ReadAhead

\* The picture does not change.
LEMMA PictureSame ==
  ASSUME picture' = picture
  PROVE  \A b : /\ FlagsOf(b)' = FlagsOf(b) /\ Value(b)' = Value(b)
                /\ \A p : CountOf(p, b)' = CountOf(p, b)
<1>1. ASSUME NEW b PROVE FlagsOf(b)' = FlagsOf(b)
  BY DEF FlagsOf, Blocks
<1>2. ASSUME NEW b PROVE Value(b)' = Value(b)
  BY <1>1 DEF Value
<1>3. ASSUME NEW b, NEW p PROVE CountOf(p, b)' = CountOf(p, b)
  BY <1>1 DEF CountOf
<1>4. QED BY <1>1, <1>2, <1>3

\* The counters follow each other, an edge apart.
LEMMA GotNext ==
  ASSUME rd_addr_pflag \in Int, reading \in BOOLEAN,
         flag_state_parallel \in BOOLEAN, flag_state_parallel_d \in BOOLEAN,
         NEW start \in BOOLEAN, Edge(start)
  PROVE  /\ Got \in Int /\ Pushed \in Int
         /\ Got' = rd_addr_pflag /\ rd_addr_pflag = Got + Bit(flag_state_parallel)
         /\ Pushed' = Got /\ Got = Pushed + Bit(flag_state_parallel_d)
<1>1. \A x : Bit(x) \in 0 .. 1
  BY DEF Bit
<1>2. /\ rd_addr_pflag' = rd_addr_pflag + Bit(reading)
      /\ flag_state_parallel' = reading
      /\ flag_state_parallel_d' = flag_state_parallel
  BY AheadEdge DEF Bit
<1>3. Bit(flag_state_parallel)' = Bit(reading) /\ Bit(flag_state_parallel_d)' = Bit(flag_state_parallel)
  BY <1>2 DEF Bit
<1>4. PICK n \in Int, x \in 0 .. 1, y \in 0 .. 1, z \in 0 .. 1 :
        /\ n = rd_addr_pflag
        /\ x = Bit(reading) /\ y = Bit(flag_state_parallel) /\ z = Bit(flag_state_parallel_d)
  BY <1>1
<1>5. Got = n - y /\ Pushed = (n - y) - z
  BY <1>4 DEF Got, Pushed
<1>6. Got' = (n + x) - x /\ Pushed' = ((n + x) - x) - y
  <2>1. Got' = rd_addr_pflag' - Bit(flag_state_parallel)'
    BY DEF Got
  <2>2. Pushed' = Got' - Bit(flag_state_parallel_d)'
    BY DEF Pushed
  <2>3. QED BY <1>2, <1>3, <1>4, <2>1, <2>2
<1>7. QED BY <1>4, <1>5, <1>6

\* An edge of the row read ahead.
LEMMA AheadKept ==
  ASSUME Served, PhaseInv, AheadInv, rd_addr_pflag \in Int,
         NEW start \in BOOLEAN, Edge(start)
  PROVE  AheadInv'
<1>1. /\ reading \in BOOLEAN
      /\ flag_state_parallel \in BOOLEAN /\ flag_state_parallel_d \in BOOLEAN
  BY DEF PhaseInv
<1>2. PICK g \in Int, u \in Int, n \in Int :
        /\ g = Got /\ u = Pushed /\ n = rd_addr_pflag
        /\ Got' = n /\ n = g + Bit(flag_state_parallel)
        /\ Pushed' = g /\ g = u + Bit(flag_state_parallel_d)
  BY <1>1, GotNext
<1>3. /\ rd_act_flag_p = IF flag_state_parallel THEN FlagsOf(g) ELSE {}
      /\ flag_d = IF flag_state_parallel_d THEN FlagsOf(u) ELSE {}
      /\ rd_addr = [p \in Places |-> CountOf(p, g)]
      /\ DOMAIN rd_data = Places /\ \A p \in flag_d : rd_data[p] = u + 1
      /\ parallel_array_reg = [s \in Slots |-> Value(u - 6 + s)]
  BY <1>2 DEF AheadInv
<1>4. picture \in Pictures /\ \A b \in Int : FlagsOf(b) \subseteq Places
  <2>1. picture \in Pictures
    BY DEF AheadInv
  <2>2. picture \in [Blocks -> SUBSET Places]
    BY <2>1, PictureAssumption
  <2>3. QED BY <2>1, <2>2 DEF FlagsOf
<1>5. \A b : /\ FlagsOf(b)' = FlagsOf(b) /\ Value(b)' = Value(b)
             /\ \A p : CountOf(p, b)' = CountOf(p, b)
  BY AheadEdge, PictureSame
<1>6. picture' \in Pictures
  BY <1>4, AheadEdge
<1>7. rd_act_flag_p' = IF flag_state_parallel' THEN FlagsOf(Got)' ELSE {}
  <2>1. rd_act_flag_p' = IF reading THEN FlagsOf(n) ELSE {}
    BY <1>2, AheadEdge
  <2>2. FlagsOf(Got)' = FlagsOf(n)'
    BY <1>2 DEF FlagsOf, Blocks
  <2>3. QED BY <1>5, <2>1, <2>2, AheadEdge
<1>8. flag_d' = IF flag_state_parallel_d' THEN FlagsOf(Pushed)' ELSE {}
  <2>1. flag_d' = IF flag_state_parallel THEN FlagsOf(g) ELSE {}
    BY <1>3, AheadEdge
  <2>2. FlagsOf(Pushed)' = FlagsOf(g)'
    BY <1>2 DEF FlagsOf, Blocks
  <2>3. QED BY <1>5, <2>1, <2>2, AheadEdge
<1>9. rd_addr' = [p \in Places |-> CountOf(p, n)]
  <2>1. \A p \in Places :
          CountOf(p, n) = IF p \in rd_act_flag_p THEN CountOf(p, g) + 1 ELSE CountOf(p, g)
    <3> SUFFICES ASSUME NEW p \in Places
                 PROVE  CountOf(p, n) = IF p \in rd_act_flag_p THEN CountOf(p, g) + 1
                                                                 ELSE CountOf(p, g)
      OBVIOUS
    <3>1. CountOf(p, g) \in Nat /\ CountOf(p, g + 1) = CountOf(p, g) + Bit(p \in FlagsOf(g))
      BY CountNext
    <3>2. CASE flag_state_parallel
      <4>1. n = g + 1 /\ rd_act_flag_p = FlagsOf(g)
        BY <1>2, <1>3, <3>2 DEF Bit
      <4>2. QED BY <3>1, <4>1 DEF Bit
    <3>3. CASE ~flag_state_parallel
      <4>1. n = g /\ rd_act_flag_p = {}
        BY <1>2, <1>3, <3>3 DEF Bit
      <4>2. QED BY <4>1
    <3>4. QED BY <3>2, <3>3
  <2>2. QED BY <1>3, <2>1, AheadEdge
<1>10. rd_addr' = [p \in Places |-> CountOf(p, Got)']
  <2>1. \A p \in Places : CountOf(p, Got)' = CountOf(p, n)'
    BY <1>2 DEF CountOf
  <2>2. QED BY <1>5, <1>9, <2>1
<1>11. DOMAIN rd_data' = Places /\ \A p \in flag_d' : rd_data'[p] = Pushed' + 1
  <2>1. DOMAIN rd_data' = Places
    BY AheadEdge
  <2>2. ASSUME NEW p \in flag_d' PROVE rd_data'[p] = Pushed' + 1
    <3>1. p \in rd_act_flag_p /\ p \in FlagsOf(g) /\ p \in Places
      BY <1>3, <1>4, <2>2, AheadEdge
    <3>2. rd_data'[p] = Stored(p, CountOf(p, g))
      BY <1>3, <3>1, AheadEdge
    <3>3. Stored(p, CountOf(p, g)) = g + 1
      BY <1>4, <3>1, StoredIsIt
    <3>4. QED BY <1>2, <3>2, <3>3
  <2>3. QED BY <2>1, <2>2
<1>12. parallel_array_reg' = [s \in Slots |-> Value(g - 6 + s)]
  <2>1. Slots = 0 .. 5 /\ ROW_BLOCKS - 1 = 5
    BY DEF Slots, Served
  <2>2. CASE flag_state_parallel_d
    <3>1. g = u + 1 /\ flag_d = FlagsOf(u)
      BY <1>2, <1>3, <2>2 DEF Bit
    <3>2. parallel_in = Value(u)
      BY <1>3, <1>4, <3>1 DEF parallel_in, Value
    <3>3. \A s \in Slots : s # 5 => s + 1 \in Slots /\ g - 6 + s = u - 6 + (s + 1)
      BY <2>1, <3>1
    <3>4. g - 6 + 5 = u
      BY <3>1
    <3>5. \A s \in Slots : (IF s = 5 THEN parallel_in ELSE parallel_array_reg[s + 1])
                             = Value(g - 6 + s)
      BY <1>3, <3>2, <3>3, <3>4
    <3>6. parallel_array_reg' = [s \in Slots |-> IF s = 5 THEN parallel_in
                                                          ELSE parallel_array_reg[s + 1]]
      BY <2>1, <2>2, AheadEdge
    <3>7. QED BY <3>5, <3>6
  <2>3. CASE ~flag_state_parallel_d
    <3>1. g = u
      BY <1>2, <2>3 DEF Bit
    <3>2. QED BY <1>3, <2>3, <3>1, AheadEdge
  <2>4. QED BY <2>2, <2>3
<1>13. parallel_array_reg' = [s \in Slots |-> Value(Pushed - 6 + s)']
  <2>1. \A s \in Slots : Value(Pushed - 6 + s)' = Value(g - 6 + s)'
    BY <1>2 DEF Value, FlagsOf, Blocks
  <2>2. QED BY <1>5, <1>12, <2>1
<1>14. QED BY <1>6, <1>7, <1>8, <1>10, <1>11, <1>13 DEF AheadInv

\* A row that has left all registers is complete: it is row Reads - 1.
LEMMA RowIsRead ==
  ASSUME Served, AheadInv, Reads \in Nat, Age(8)
  PROVE  parallel_array_reg = [s \in Slots |-> Value(6 * (Reads - 1) + s)]
<1>1. PICK n \in Int : n = 6 * (Reads - 1)
  OBVIOUS
<1>2. rd_addr_pflag = n + 6 /\ ~flag_state_parallel /\ ~flag_state_parallel_d
  BY <1>1 DEF Age
<1>3. Pushed = n + 6
  BY <1>2 DEF Pushed, Got, Bit
<1>4. \A s \in Slots : s \in Int /\ (n + 6) - 6 + s = n + s
  BY PictureAssumption DEF Slots
<1>5. parallel_array_reg = [s \in Slots |-> Value(Pushed - 6 + s)]
  BY DEF AheadInv
<1>6. QED BY <1>1, <1>3, <1>4, <1>5

\* An edge of the row shown.
LEMMA ShownKept ==
  ASSUME Served, KernelInv, RowsInv, PhaseInv, AheadInv, ShownInv,
         NEW start \in BOOLEAN, start => ~started, Edge(start)
  PROVE  ShownInv'
<1>1. PICK b \in 0 .. 4 : b = BlockRow /\ b <= ROWS - 1 /\ row_index_signed = 3 * b + 2
  BY PictureAssumption DEF ShownInv, Served
<1>2. /\ BlockRow' = IF row_index_count_3 THEN b + 1 ELSE b
      /\ BlockRow' \in 0 .. ROWS - 1 /\ row_index_signed' = 3 * BlockRow' + 2
  BY <1>1, BlockRowEdge
<1>3. PICK fin \in BOOLEAN, done \in BOOLEAN :
        /\ fin <=> parallel_row_read_finish
        /\ done <=> row_cal_done
        /\ WeightEdge(fin, done)
  BY EdgeOfWeights
<1>4. PICK c \in 0 .. 3 : c = row_index_count
  BY DEF RowsInv
<1>5. /\ state \in {"PREP", "WAIT", "COMP"}
      /\ state = "PREP" => ~done /\ c = 0 /\ state' = IF en THEN "WAIT" ELSE "PREP"
      /\ state = "WAIT" => ~done /\ state' = "COMP"
      /\ state = "COMP" => state' = IF done THEN "WAIT" ELSE "COMP"
  <2>1. state \in {"PREP", "WAIT", "COMP"} /\ (state = "PREP" => c = 0)
    BY <1>4 DEF RowsInv
  <2>2. QED BY <1>3, <2>1, StateEdge
<1>6. row_index_count' = IF ~done THEN c ELSE IF c < 3 THEN c + 1 ELSE 1
  BY <1>3, <1>4, RowEdge
<1>7. state' = "PREP" => BlockRow' = 0
  <2>1. state' = "PREP" => state = "PREP"
    BY <1>5
  <2>2. state = "PREP" => b = 0 /\ ~row_index_count_3
    BY <1>1 DEF ShownInv, row_index_count_3
  <2>3. QED BY <1>2, <2>1, <2>2
<1>8. row_index_count_3' => BlockRow' < ROWS - 1
  <2> SUFFICES ASSUME row_index_count_3' PROVE BlockRow' < ROWS - 1
    OBVIOUS
  <2>1. state' = "WAIT" /\ row_index_count' = 3
    BY DEF row_index_count_3
  <2>2. state = "COMP" /\ done /\ c = 2
    BY <1>5, <1>6, <2>1
  <2>3. ~LastRow
    BY <1>3, <2>2 DEF row_cal_done, row_finish_done_0
  <2>4. b # ROWS - 1
    BY <1>1, <1>4, <2>2, <2>3, PictureAssumption DEF LastRow
  <2>5. BlockRow' = b
    BY <1>2, <2>2 DEF row_index_count_3
  <2>6. QED BY <1>1, <2>4, <2>5, PictureAssumption
<1>9. /\ picture' = picture
      /\ parallel_array' = IF en \/ row_index_count_3 THEN parallel_array_reg ELSE parallel_array
  BY Zenon DEF Edge, ActivationEdge, ShowRow
<1>10. PICK k \in 0 .. 8 : Age(k) /\ InTime(k)
  BY DEF PhaseInv
<1>11. /\ Reads \in Nat
       /\ en \/ row_index_count_3 => k = 8
  BY <1>10, AskedInTime DEF Asked
<1>12. state' # "PREP" => parallel_array' = [s \in Slots |-> Value(6 * BlockRow' + s)]
  <2>1. CASE en
    <3>1. state = "PREP" /\ started /\ b = 0 /\ ~row_index_count_3
      BY <1>1, <2>1, WhenEnabled DEF ShownInv, row_index_count_3
    <3>2. Reads = 1 /\ BlockRow' = 0
      BY <1>2, <3>1 DEF Reads
    <3>3. 6 * (Reads - 1) = 6 * BlockRow'
      BY <3>2
    <3>4. parallel_array_reg = [s \in Slots |-> Value(6 * (Reads - 1) + s)]
      BY <1>10, <1>11, <2>1, RowIsRead
    <3>5. QED BY <1>9, <2>1, <3>3, <3>4
  <2>2. CASE row_index_count_3
    <3>1. state = "WAIT" /\ started
      BY <2>2 DEF row_index_count_3, PhaseInv
    <3>2. Reads = 2 + b /\ BlockRow' = b + 1
      BY <1>1, <1>2, <2>2, <3>1 DEF Reads
    <3>3. 6 * (Reads - 1) = 6 * BlockRow'
      BY <3>2
    <3>4. parallel_array_reg = [s \in Slots |-> Value(6 * (Reads - 1) + s)]
      BY <1>10, <1>11, <2>2, RowIsRead
    <3>5. QED BY <1>9, <2>2, <3>3, <3>4
  <2>3. CASE ~en /\ ~row_index_count_3
    <3>1. state' # "PREP" => state # "PREP"
      BY <1>5, <2>3
    <3>2. state # "PREP" => parallel_array = [s \in Slots |-> Value(6 * b + s)]
      BY <1>1 DEF ShownInv
    <3>3. BlockRow' = b
      BY <1>2, <2>3
    <3>4. QED BY <1>9, <2>3, <3>1, <3>2, <3>3
  <2>4. QED BY <2>1, <2>2, <2>3
<1>13. state' # "PREP" => parallel_array' = [s \in Slots |-> Value(6 * BlockRow + s)']
  <2>1. PICK d \in Int : d = BlockRow'
    BY <1>2
  <2>2. \A s \in Slots : Value(6 * BlockRow + s)' = Value(6 * d + s)'
    BY <2>1 DEF Value, FlagsOf, Blocks
  <2>3. \A x : Value(x)' = Value(x)
    BY <1>9, PictureSame
  <2>4. QED BY <1>12, <2>1, <2>2, <2>3
<1>14. QED BY <1>2, <1>7, <1>8, <1>13 DEF ShownInv

-----------------------------------------------------------------------------
(* The weight side alone. *)

\* The kernel is in memory and nothing has been read.
LEMMA FirstWeights ==
  ASSUME WeightInit
  PROVE  KernelInv /\ RowsInv /\ TurnInv /\ PairTypes
<1>1. FetchInv
  BY DEF WeightInit, FetchInv
<1>2. Blank /\ Unscanned
  BY DEF WeightInit, Blank, Unscanned
<1>3. ScanInv
  <2>1. wei_index_array_full = [k \in Flags |-> 0] /\ s_read_req \in BOOLEAN
    BY Zenon DEF WeightInit
  <2>2. wei_index_array_full \in [Flags -> 0 .. 2]
    BY <2>1
  <2>3. QED BY <1>2, <2>1, <2>2 DEF ScanInv
<1>4. StoreInv
  <2>1. /\ rd_addr_s = 0 /\ s_read_data = 0 /\ m = 0 /\ s_read_req_d = FALSE
        /\ serial_array_full = [k \in Flags |-> 0]
    BY DEF WeightInit
  <2>2. serial_array_full \in [Flags -> 0 .. 9] /\ \A k \in Flags : ~(k < 0)
    BY <2>1, Sizes
  <2>3. s_read_req_d \in BOOLEAN /\ Bit(s_read_req_d) = 0
    BY <2>1 DEF Bit
  <2>4. m = rd_addr_s - Bit(s_read_req_d) /\ m >= 0 /\ rd_addr_s \in 0 .. 9
    BY <2>1, <2>3
  <2>5. QED BY <2>1, <2>2, <2>3, <2>4 DEF StoreInv
<1>5. EnableInv
  BY DEF WeightInit, EnableInv
<1>6. RowsInv /\ TurnInv
  BY DEF WeightInit, RowsInv, TurnInv
<1>7. PairTypes
  BY Sizes DEF WeightInit, PairTypes, Words, X
<1>8. QED BY <1>1, <1>3, <1>4, <1>5, <1>6, <1>7 DEF KernelInv

\* A step of nothing.
LEMMA IdleWeights ==
  ASSUME KernelInv, RowsInv, UNCHANGED wvars
  PROVE  /\ KernelInv' /\ RowsInv' /\ \A c : ShowsAt(c)' <=> ShowsAt(c)
         /\ TurnInv' <=> TurnInv
         /\ PairTypes' <=> PairTypes
<1> USE DEF wvars
<1>1. FetchInv'
  BY DEF KernelInv, FetchInv
<1>2. (Unscanned' <=> Unscanned) /\ (Blank' <=> Blank)
  BY DEF Unscanned, Blank
<1>3. \A d : Scanned(d)' <=> Scanned(d)
  BY DEF Scanned, Rest, Between, Below, Bit
<1>4. ScanInv'
  BY <1>2, <1>3 DEF KernelInv, ScanInv
<1>5. StoreInv'
  BY DEF KernelInv, StoreInv, Bit
<1>6. EnableInv'
  BY DEF KernelInv, EnableInv
<1>7. row' = row /\ \A r : Weights(r)' = Weights(r) /\ Before(r)' = Before(r)
  BY DEF row, Weights, Before, RowOf
<1>8. /\ \A r : Loaded(r)' <=> Loaded(r)
      /\ Weights(row)' = Weights(row) /\ Before(row)' = Before(row)
      /\ Before(NextRow(row))' = Before(NextRow(row)) /\ Loaded(row)' = Loaded(row)
  BY <1>7 DEF Loaded, Selects, Weights, Before, RowOf
<1>9. RowsInv'
  BY <1>8 DEF RowsInv
<1>10. \A c : ShowsAt(c)' <=> ShowsAt(c)
  BY <1>8 DEF ShowsAt
<1>11. (TurnInv' <=> TurnInv) /\ (PairTypes' <=> PairTypes)
  <2>1. \A c \in 0 .. 2 : ShowsAt(c)' <=> ShowsAt(c)
    BY <1>10
  <2>2. state' = state /\ i' = i /\ Weights(row)' = Weights(row)
    BY <1>8
  <2>3. QED BY <2>1, <2>2 DEF TurnInv, PairTypes
<1>12. QED BY <1>1, <1>4, <1>5, <1>6, <1>9, <1>10, <1>11 DEF KernelInv

\* What the registers that select a row may hold.
LEMMA RowRegisters ==
  ASSUME KernelsServed, KernelInv, RowsInv
  PROVE  /\ kernel \in Kernels /\ kernel \in SUBSET (0 .. 8) /\ flag_serial \in {{}, kernel}
         /\ state \in {"PREP", "WAIT", "COMP"} /\ row \in 0 .. 2
         /\ j \in {0, 2, 4} /\ count_array \in 0 .. 6
<1>1. kernel \in Kernels /\ kernel \in SUBSET (0 .. 8) /\ flag_serial \in {{}, kernel}
  BY KernelType DEF KernelInv, FetchInv
<1>2. state \in {"PREP", "WAIT", "COMP"} /\ row \in 0 .. 2
  BY RowTurns DEF RowsInv, row
<1>3. CASE state = "PREP"
  BY <1>1, <1>2, <1>3 DEF RowsInv
<1>4. CASE state # "PREP"
  <2>1. PICK r \in 0 .. 2 : /\ r = row /\ Selects(j, r)
                            /\ count_array = Before(r) \/ count_array = Before(NextRow(r))
    BY <1>2, <1>4 DEF RowsInv, Loaded
  <2>2. j \in {0, 2, 4}
    <3>1. PICK x : x = j
      OBVIOUS
    <3>2. x \in {0, 2, 4}
      BY <1>1, <2>1, <3>1, SelectsNext
    <3>3. QED BY <3>1, <3>2
  <2>3. NextRow(r) \in 0 .. 2
    BY <1>1, BeforeNext
  <2>4. Before(r) \in 0 .. 6 /\ Before(NextRow(r)) \in 0 .. 6
    BY <1>1, <2>3, BeforeNext
  <2>5. QED BY <1>1, <1>2, <2>1, <2>2, <2>4
<1>5. QED BY <1>3, <1>4

\* An edge of the registers of the row and of the pair.
LEMMA PairTypesKept ==
  ASSUME KernelsServed, KernelInv, RowsInv, PairTypes,
         NEW fin \in BOOLEAN, NEW done \in BOOLEAN, WeightEdge(fin, done)
  PROVE  PairTypes'
<1>1. /\ kernel \in Kernels /\ kernel \in SUBSET (0 .. 8)
      /\ flag_serial \in {{}, kernel} /\ j \in {0, 2, 4} /\ count_array \in 0 .. 6
  BY RowRegisters
<1>2. valid_row(j \div 2) \in 0 .. 3
  <2>1. j \div 2 \in 0 .. 2
    BY <1>1
  <2>2. CASE flag_serial = {}
    <3>1. RowFlags(j \div 2) = {}
      BY <2>2 DEF RowFlags
    <3>2. QED BY <3>1, FS_EmptySet DEF valid_row
  <2>3. CASE flag_serial = kernel
    <3>1. valid_row(j \div 2) = Weights(j \div 2)
      BY <2>3, ValidRowIs
    <3>2. QED BY <1>1, <2>1, <3>1, WeightsAdd
  <2>4. QED BY <1>1, <2>2, <2>3
<1>3. row_val_num_a' \in 0 .. 3
  BY <1>1, <1>2, RowEdge DEF PairTypes
<1>4. wei_index_array' \in [0 .. 2 -> 0 .. 2] /\ serial_array' \in [0 .. 2 -> Words \cup {X}]
  <2>1. /\ wei_index_array_full \in [0 .. 8 -> 0 .. 2]
        /\ serial_array_full \in [0 .. 8 -> Words]
    BY Sizes DEF KernelInv, ScanInv, StoreInv, Words
  <2>2. CASE en \/ done
    <3>1. /\ wei_index_array' = [k \in 0 .. 2 |-> wei_index_array_full[count_array + k]]
          /\ serial_array' = [k \in 0 .. 2 |-> serial_array_full[count_array + k]]
      BY <2>2, RowEdge
    <3>2. \A k \in 0 .. 2 : count_array + k \in 0 .. 8
      BY <1>1
    <3>3. QED BY <2>1, <3>1, <3>2
  <2>3. CASE ~(en \/ done)
    BY <2>3, RowEdge DEF PairTypes
  <2>4. QED BY <2>2, <2>3
<1>5. i' \in 0 .. 15
  <2>1. row_val_num \in 0 .. 15 /\ i \in 0 .. 15
    BY DEF row_val_num, PairTypes
  <2>2. i' = IF en \/ done THEN 0 ELSE IF i < row_val_num THEN i + 1 ELSE 0
    BY RowEdge
  <2>3. i' = 0 \/ (i < row_val_num /\ i' = i + 1)
    BY <2>2
  <2>4. QED BY <2>1, <2>3
<1>6. wei_index_d' \in 0 .. 2 /\ serial_out_reg' \in Words \cup {X}
  <2>1. /\ wei_index_array \in [0 .. 2 -> 0 .. 2]
        /\ serial_array \in [0 .. 2 -> Words \cup {X}]
    BY DEF PairTypes
  <2>2. /\ wei_index_d' = wei_index
        /\ serial_out_reg' = IF i \in DOMAIN serial_array THEN serial_array[i] ELSE X
    BY RowEdge
  <2>3. QED BY <2>1, <2>2 DEF wei_index
<1>7. QED BY <1>3, <1>4, <1>5, <1>6 DEF PairTypes

\* The weight shown is followed by the next of its row, the last by the first.
LEMMA NextWeight ==
  ASSUME KernelsServed, KernelInv, RowsInv, state = "COMP",
         NEW c \in 0 .. 2, ShowsAt(c),
         NEW fin \in BOOLEAN, NEW done \in BOOLEAN, WeightEdge(fin, done), ~done,
         NEW e, e = IF c + 1 < Weights(row) THEN c + 1 ELSE 0
  PROVE  /\ e \in 0 .. 2 /\ e < Weights(row)
         /\ serial_out_reg' = serial_array[e] /\ wei_index_d' = wei_index_array[e]
         /\ ShowsAt(e)'
<1>1. ~en /\ flag_en
  BY DEF KernelInv, EnableInv
<1>2. PICK r \in 0 .. 2 : r = row /\ Loaded(r)
  BY RowRegisters DEF RowsInv
<1>3. PICK w \in 0 .. 3 : w = Weights(r) /\ row_val_num_a = w
  BY <1>2, RowRegisters, WeightsAdd DEF Loaded
<1>4. DOMAIN wei_index_array = 0 .. 2 /\ DOMAIN serial_array = 0 .. 2
  BY <1>2 DEF Loaded
<1>5. c < w /\ i = IF c + 1 < w THEN c + 1 ELSE 0
  BY <1>2, <1>3 DEF ShowsAt
<1>6. e \in 0 .. 2 /\ e < w /\ w \in 1 .. 3 /\ i = e
  BY <1>2, <1>3, <1>5
<1>7. /\ i' = IF e + 1 < w THEN e + 1 ELSE 0
      /\ serial_out_reg' = serial_array'[e] /\ wei_index_d' = wei_index_array'[e]
  BY <1>1, <1>3, <1>4, <1>6, PairNext
<1>8. serial_array' = serial_array /\ wei_index_array' = wei_index_array
  BY <1>1, RowEdge
<1>9. Weights(row)' = w
  BY <1>2, <1>3, SameRow
<1>10. QED BY <1>2, <1>3, <1>6, <1>7, <1>8, <1>9 DEF ShowsAt

\* An edge of the pair shown, whoever ends the row.
LEMMA TurnKept ==
  ASSUME KernelsServed, KernelInv, RowsInv, TurnInv,
         NEW fin \in BOOLEAN, NEW done \in BOOLEAN, WeightEdge(fin, done)
  PROVE  TurnInv'
<1>1. /\ state \in {"PREP", "WAIT", "COMP"} /\ row \in 0 .. 2
      /\ kernel \in SUBSET (0 .. 8)
  BY RowRegisters
<1>2. /\ done => state = "COMP"
      /\ state = "PREP" => state' = IF en THEN "WAIT" ELSE "PREP"
      /\ state = "WAIT" => state' = "COMP"
      /\ state = "COMP" => state' = IF done THEN "WAIT" ELSE "COMP"
  BY <1>1, StateEdge
<1>3. CASE state = "PREP" \/ done
  <2>1. state' # "COMP" /\ (state' = "WAIT" => en \/ done)
    BY <1>1, <1>2, <1>3
  <2>2. en \/ done => i' = 0
    BY RowEdge
  <2>3. QED BY <2>1, <2>2 DEF TurnInv
<1>4. CASE state # "PREP" /\ ~done
  <2>1. ~en /\ flag_en /\ state' = "COMP"
    BY <1>1, <1>2, <1>4 DEF KernelInv, EnableInv
  <2>2. PICK r \in 0 .. 2 : r = row /\ Loaded(r)
    BY <1>1, <1>4 DEF RowsInv
  <2>3. PICK w \in 0 .. 3 : w = Weights(r) /\ row_val_num_a = w
    BY <1>1, <2>2, WeightsAdd DEF Loaded
  <2>4. Weights(row)' = w
    BY <1>4, <2>2, <2>3, SameRow
  <2>5. CASE w = 0
    BY <2>1, <2>4, <2>5 DEF TurnInv
  <2>6. CASE w > 0 /\ state = "WAIT"
    <3>1. i = 0 /\ 0 \in 0 .. 2 /\ 0 < w /\ w \in 1 .. 3
      BY <2>6 DEF TurnInv
    <3>2. DOMAIN wei_index_array = 0 .. 2 /\ DOMAIN serial_array = 0 .. 2
      BY <2>2 DEF Loaded
    <3>3. /\ i' = IF 0 + 1 < w THEN 0 + 1 ELSE 0
          /\ serial_out_reg' = serial_array'[0] /\ wei_index_d' = wei_index_array'[0]
      BY <1>4, <2>1, <2>3, <3>1, <3>2, PairNext
    <3>4. ShowsAt(0)'
      BY <2>4, <3>1, <3>3 DEF ShowsAt
    <3>5. QED BY <2>1, <3>1, <3>4 DEF TurnInv
  <2>7. CASE w > 0 /\ state = "COMP"
    <3>1. PICK c \in 0 .. 2 : ShowsAt(c)
      BY <2>2, <2>3, <2>7 DEF TurnInv
    <3>2. PICK e : e = IF c + 1 < Weights(row) THEN c + 1 ELSE 0
      OBVIOUS
    <3>3. e \in 0 .. 2 /\ ShowsAt(e)'
      BY <1>4, <2>7, <3>1, <3>2, NextWeight
    <3>4. QED BY <2>1, <3>3 DEF TurnInv
  <2>8. QED BY <1>1, <1>4, <2>3, <2>5, <2>6, <2>7
<1>5. QED BY <1>3, <1>4

\* Steps of the weight side keep its invariant.
LEMMA WeightsKept ==
  ASSUME KernelsServed, WeightInv, [WeightNext]_wvars
  PROVE  WeightInv'
<1>1. CASE WeightNext
  <2>1. PICK fin \in BOOLEAN, done \in BOOLEAN : WeightEdge(fin, done)
    BY <1>1, Zenon DEF WeightNext
  <2>2. /\ KernelInv /\ RowsInv /\ TurnInv /\ PairTypes
        /\ state \in {"PREP", "WAIT", "COMP"}
    BY DEF WeightInv, RowsInv
  <2>3. KernelInv'
    BY <2>1, <2>2, KernelKept
  <2>4. RowsInv'
    BY <2>1, <2>2, RowsKept
  <2>5. TurnInv'
    BY <2>1, <2>2, TurnKept
  <2>6. PairTypes'
    BY <2>1, <2>2, PairTypesKept
  <2>7. QED BY <2>3, <2>4, <2>5, <2>6 DEF WeightInv
<1>2. CASE UNCHANGED wvars
  BY <1>2, IdleWeights DEF WeightInv
<1>3. QED BY <1>1, <1>2

LEMMA WeightsAreInvariant == ASSUME KernelsServed PROVE WeightSpec => []WeightInv
<1>1. WeightInit => WeightInv
  BY FirstWeights DEF WeightInv
<1>2. WeightInv /\ [WeightNext]_wvars => WeightInv'
  BY WeightsKept
<1>3. QED BY <1>1, <1>2, PTL DEF WeightSpec

-----------------------------------------------------------------------------
(* The invariant holds. *)

\* Nothing is read, stored or shown at first.
LEMMA FirstState ==
  ASSUME Served, Init
  PROVE  IInv
<1>1. /\ ActivationInit /\ WeightInit
      /\ started = FALSE /\ passes = 0 /\ clocks = 0
  BY DEF Init
<1>2. KernelInv /\ RowsInv
  BY <1>1, FirstWeights
<1>3. PairInv
  BY <1>1 DEF WeightInit, ActivationInit, PairInv
<1>4. PhaseInv
  <2>1. Reads = 0
    BY <1>1 DEF Reads
  <2>2. Age(8)
    BY <1>1, <2>1 DEF ActivationInit, Age
  <2>3. InTime(8)
    BY <1>1 DEF WeightInit, InTime
  <2>4. /\ reading \in BOOLEAN
        /\ flag_state_parallel \in BOOLEAN /\ flag_state_parallel_d \in BOOLEAN
        /\ started \in BOOLEAN /\ ~flag_wei_read /\ state = "PREP"
    BY <1>1, Zenon DEF WeightInit, ActivationInit
  <2>5. QED BY <2>2, <2>3, <2>4 DEF PhaseInv
<1>5. AheadInv
  <2>1. /\ picture \in Pictures /\ rd_addr_pflag = 0
        /\ ~flag_state_parallel /\ ~flag_state_parallel_d
        /\ rd_act_flag_p = {} /\ flag_d = {} /\ rd_addr = Nothing /\ rd_data = Nothing
        /\ parallel_array_reg = [s \in Slots |-> Nothing]
    BY <1>1 DEF ActivationInit
  <2>2. Got = 0 /\ Pushed = 0
    <3>1. Bit(flag_state_parallel) = 0 /\ Bit(flag_state_parallel_d) = 0
      BY <2>1 DEF Bit
    <3>2. QED BY <2>1, <3>1 DEF Got, Pushed
  <2>3. \A p \in Places : CountOf(p, 0) = 0
    <3> SUFFICES ASSUME NEW p \in Places PROVE CountOf(p, 0) = 0
      OBVIOUS
    <3>1. {b \in 0 .. 0 - 1 : p \in FlagsOf(b)} = {}
      OBVIOUS
    <3>2. QED BY <3>1, FS_EmptySet DEF CountOf
  <2>4. \A s \in Slots : Value(0 - 6 + s) = Nothing
    <3>1. \A s \in Slots : 0 - 6 + s \notin Blocks
      BY PictureAssumption DEF Slots, Blocks, Served
    <3>2. QED BY <3>1 DEF Value, FlagsOf, Nothing
  <2>5. rd_addr = [p \in Places |-> CountOf(p, Got)]
    BY <2>1, <2>2, <2>3 DEF Nothing
  <2>6. parallel_array_reg = [s \in Slots |-> Value(Pushed - 6 + s)]
    BY <2>1, <2>2, <2>4
  <2>7. DOMAIN rd_data = Places
    BY <2>1 DEF Nothing
  <2>8. QED BY <2>1, <2>5, <2>6, <2>7 DEF AheadInv
<1>6. ShownInv
  <2>1. row_index_signed = 2 /\ state = "PREP"
    BY <1>1 DEF ActivationInit, WeightInit
  <2>2. BlockRow = 0
    BY <2>1 DEF BlockRow
  <2>3. QED BY <2>1, <2>2, PictureAssumption DEF ShownInv, row_index_count_3
<1>7. QED BY <1>2, <1>3, <1>4, <1>5, <1>6 DEF IInv

\* An edge keeps it.
LEMMA EdgeKept ==
  ASSUME Served, IInv, NEW start \in BOOLEAN, start => ~started, Edge(start)
  PROVE  IInv'
<1>1. PICK fin \in BOOLEAN, done \in BOOLEAN :
        /\ fin <=> parallel_row_read_finish
        /\ done <=> row_cal_done
        /\ WeightEdge(fin, done)
  BY EdgeOfWeights
<1>2. /\ KernelInv /\ RowsInv /\ PairInv /\ PhaseInv /\ AheadInv /\ ShownInv
      /\ FetchInv /\ ScanInv /\ StoreInv /\ EnableInv
      /\ kernel \in Kernels /\ state \in {"PREP", "WAIT", "COMP"}
  BY DEF IInv, KernelInv, FetchInv, RowsInv
<1>3. kernel \in SUBSET (0 .. 8)
  BY <1>2, KernelType DEF Served
<1>4. KernelInv'
  BY <1>1, <1>2, KernelKept DEF Served
<1>5. RowsInv'
  BY <1>1, <1>2, RowsKept DEF Served
<1>6. PairInv'
  BY <1>2, PairKept
<1>7. PhaseInv'
  BY <1>2, PhaseKept
<1>8. AheadInv'
  <2>1. PICK k \in 0 .. 8 : Age(k) /\ InTime(k)
    BY <1>2 DEF PhaseInv
  <2>2. Reads \in Nat
    BY <1>2, <2>1, AskedInTime
  <2>3. rd_addr_pflag \in Int
    BY <2>1, <2>2 DEF Age
  <2>4. QED BY <1>2, <2>3, AheadKept
<1>9. ShownInv'
  BY <1>2, ShownKept
<1>10. QED BY <1>4, <1>5, <1>6, <1>7, <1>8, <1>9 DEF IInv

\* And so does a step of nothing.
LEMMA IdleKept ==
  ASSUME IInv, UNCHANGED vars
  PROVE  IInv'
<1> USE DEF vars, avars, wvars
<1>1. KernelInv' /\ RowsInv' /\ \A c : ShowsAt(c)' <=> ShowsAt(c)
  BY IdleWeights DEF IInv
<1>2. row' = row /\ BlockRow' = BlockRow /\ Reads' = Reads /\ Got' = Got /\ Pushed' = Pushed
  BY DEF row, BlockRow, Reads, Got, Pushed, Bit
<1>3. PairInv'
  <2>1. ShowsAt(clocks)' <=> ShowsAt(clocks)
    BY <1>1 DEF ShowsAt, Weights, RowOf, row
  <2>2. Weights(row)' = Weights(row)
    BY <1>2 DEF Weights, RowOf
  <2>3. QED BY <2>1, <2>2 DEF IInv, PairInv
<1>4. \A k : (Age(k)' <=> Age(k)) /\ (InTime(k)' <=> InTime(k))
  BY <1>2 DEF Age, InTime
<1>5. PhaseInv'
  BY <1>4 DEF IInv, PhaseInv
<1>6. AheadInv'
  BY <1>2 DEF IInv, AheadInv, FlagsOf, CountOf, Value, Blocks
<1>7. ShownInv'
  BY <1>2 DEF IInv, ShownInv, Value, FlagsOf, Blocks, row_index_count_3
<1>8. QED BY <1>1, <1>3, <1>5, <1>6, <1>7 DEF IInv

LEMMA StreamIsInvariant == ASSUME Served PROVE Spec => []IInv
<1>1. Init => IInv
  BY FirstState
<1>2. IInv /\ [Next]_vars => IInv'
  <2> SUFFICES ASSUME IInv, [Next]_vars PROVE IInv'
    OBVIOUS
  <2>1. CASE Next
    <3>1. PICK start \in BOOLEAN : (start => ~started) /\ Edge(start)
      BY <2>1, Zenon DEF Next
    <3>2. QED BY <3>1, EdgeKept
  <2>2. CASE UNCHANGED vars
    BY <2>2, IdleKept
  <2>3. QED BY <2>1, <2>2
<1>3. QED BY <1>1, <1>2, PTL DEF Spec

-----------------------------------------------------------------------------
(* What it means. *)

\* The pair of a flag: the weights of the rows before its own are stored before
\* its weight, and those of the higher flags of its row.
LEMMA PairOfRank ==
  ASSUME kernel \in SUBSET (0 .. 8), NEW r \in 0 .. 2, NEW f \in RowOf(r)
  PROVE  PairOf(f) = <<Before(r) + Cardinality({g \in RowOf(r) : g > f}) + 1, 2 - (f % 3)>>
<1>1. f \in kernel /\ Above(f) = Before(r) + Cardinality({g \in RowOf(r) : g > f})
  BY AboveInRow
<1>2. Cardinality({g \in kernel : g >= f}) = Above(f) + 1
  <2> DEFINE A == {g \in kernel : g > f}
  <2>1. {g \in kernel : g >= f} = A \cup {f} /\ f \notin A
    <3>1. \A g \in kernel : (g >= f <=> g > f \/ g = f) /\ ~(f > f)
      BY <1>1
    <3>2. QED BY <1>1, <3>1
  <2>2. A \in SUBSET (0 .. 8) /\ Above(f) = Cardinality(A)
    BY DEF Above
  <2> HIDE DEF A
  <2>3. IsFiniteSet(A)
    BY <2>2, Few
  <2>4. QED BY <2>1, <2>2, <2>3, FS_AddElement
<1>3. PairOf(f) = <<Cardinality({g \in kernel : g >= f}), 2 - (f % 3)>>
  BY Sizes DEF PairOf
<1>4. QED BY <1>1, <1>2, <1>3

\* The flag with n higher ones in its row is loaded in place n of the row.
LEMMA PairIsLoaded ==
  ASSUME kernel \in SUBSET (0 .. 8), KernelInv, flag_en,
         NEW r \in 0 .. 2, Loaded(r), NEW f \in RowOf(r),
         NEW n \in 0 .. 2, n < Weights(r), Cardinality({g \in RowOf(r) : g > f}) = n
  PROVE  PairOf(f) = <<serial_array[n], wei_index_array[n]>>
<1>1. f \in kernel /\ Above(f) = Before(r) + n
  BY AboveInRow
<1>2. wei_index_array_full[Above(f)] = 2 - (f % 3)
  BY <1>1, KernelIsThere
<1>3. /\ serial_array[n] = Before(r) + n + 1
      /\ wei_index_array[n] = wei_index_array_full[Before(r) + n]
  BY DEF Loaded
<1>4. PairOf(f) = <<Before(r) + n + 1, 2 - (f % 3)>>
  BY PairOfRank
<1>5. QED BY <1>1, <1>2, <1>3, <1>4

\* The highest flag of a part of the kernel.
LEMMA MaxOfFew ==
  ASSUME NEW S \in SUBSET (0 .. 8), S # {}
  PROVE  Max(S) \in S /\ \A g \in S : ~(g > Max(S))
<1>1. 0 \in Nat /\ 0 < Cardinality(S)
  <2>1. IsFiniteSet(S) /\ Cardinality(S) \in 0 .. 9
    BY Few
  <2>2. Cardinality(S) # 0
    BY <2>1, FS_EmptySet
  <2>3. QED BY <2>1, <2>2
<1>2. PICK f \in S : Cardinality({g \in S : g > f}) = 0
  BY <1>1, RankInRow
<1>3. {g \in S : g > f} = {}
  <2> DEFINE A == {g \in S : g > f}
  <2>1. A \in SUBSET (0 .. 8)
    OBVIOUS
  <2> HIDE DEF A
  <2>2. IsFiniteSet(A)
    BY <2>1, Few
  <2>3. QED BY <1>2, <2>2, FS_EmptySet DEF A
<1>4. \A g \in S : f >= g
  <2>1. \A g \in S : ~(g > f) /\ g \in 0 .. 8 /\ f \in 0 .. 8
    BY <1>3
  <2>2. QED BY <2>1
<1>5. PICK x : x = Max(S) /\ x \in S /\ \A g \in S : x >= g
  BY <1>4 DEF Max
<1>6. x \in 0 .. 8 /\ \A g \in S : g \in 0 .. 8
  BY <1>5
<1>7. \A g \in S : ~(g > x)
  BY <1>5, <1>6
<1>8. QED BY <1>5, <1>7

\* The highest flag below f has one more above it than f; when f is the last
\* one, the highest of all has none.
LEMMA RanksGoRound ==
  ASSUME NEW S \in SUBSET (0 .. 8), NEW f \in S,
         NEW c \in Nat, Cardinality({g \in S : g > f}) = c,
         NEW A, A = {g \in S : g < f},
         NEW x, x = Max(IF A # {} THEN A ELSE S),
         NEW e, e = IF c + 1 < Cardinality(S) THEN c + 1 ELSE 0
  PROVE  x \in S /\ Cardinality({g \in S : g > x}) = e
<1>1. \A g \in S : g \in 0 .. 8
  OBVIOUS
<1> DEFINE higher == {g \in S : g > f}
<1>2. higher \in SUBSET (0 .. 8) /\ f \notin higher /\ IsFiniteSet(higher)
  <2>1. higher \in SUBSET (0 .. 8)
    BY <1>1
  <2>2. f \notin higher
    <3>1. f \in 0 .. 8 /\ ~(f > f)
      BY <1>1
    <3>2. QED BY <3>1
  <2>3. QED BY <2>1, <2>2, Few
<1>3. Cardinality(higher \cup {f}) = c + 1
  <2>1. Cardinality(higher) = c
    OBVIOUS
  <2> HIDE DEF higher
  <2>2. QED BY <1>2, <2>1, FS_AddElement
<1>4. CASE A # {}
  <2>1. A \in SUBSET (0 .. 8) /\ x = Max(A)
    BY <1>1, <1>4
  <2>2. x \in A /\ \A g \in A : ~(g > x)
    BY <1>4, <2>1, MaxOfFew
  <2>3. x \in S /\ x < f
    BY <2>2
  <2>4. {g \in S : g > x} = higher \cup {f}
    <3>1. \A g \in S : g > x <=> g > f \/ g = f
      <4>1. \A g \in S : g < f => ~(g > x)
        BY <2>2
      <4>2. QED BY <1>1, <2>3, <4>1
    <3>2. QED BY <3>1
  <2>5. c + 1 < Cardinality(S)
    <3>1. higher \cup {f} \in SUBSET S /\ x \in S /\ x \notin higher \cup {f}
      BY <1>1, <2>3
    <3>2. IsFiniteSet(S) /\ Cardinality(S) \in 0 .. 9
      BY Few
    <3> HIDE DEF higher
    <3>3. Cardinality(higher \cup {f}) <= Cardinality(S) /\ Cardinality(higher \cup {f}) # Cardinality(S)
      BY <3>1, <3>2, FS_Subset
    <3>4. QED BY <1>3, <3>2, <3>3
  <2>6. QED BY <1>3, <2>3, <2>4, <2>5
<1>5. CASE A = {}
  <2>1. S # {} /\ x = Max(S)
    BY <1>5
  <2>2. x \in S /\ {g \in S : g > x} = {}
    BY <2>1, MaxOfFew
  <2>3. S = higher \cup {f}
    <3>1. \A g \in S : ~(g < f)
      BY <1>5
    <3>2. \A g \in S : g > f \/ g = f
      BY <1>1, <3>1
    <3>3. QED BY <3>2
  <2>4. e = 0
    <3>1. Cardinality(S) = c + 1
      BY <1>3, <2>3
    <3>2. QED BY <3>1
  <2>5. QED BY <2>2, <2>4, FS_EmptySet
<1>6. QED BY <1>4, <1>5

\* The weight side keeps its registers within their bounds.
LEMMA WeightsStayInBounds ==
  ASSUME KernelsServed, WeightInv
  PROVE  WeightTypeOK
<1>1. KernelInv /\ RowsInv /\ PairTypes
  BY DEF WeightInv
<1>2. /\ kernel \in Kernels /\ kernel \in SUBSET (0 .. 8) /\ flag_serial \in {{}, kernel}
      /\ state \in {"PREP", "WAIT", "COMP"}
      /\ j \in {0, 2, 4} /\ count_array \in 0 .. 6
  BY <1>1, RowRegisters
<1>3. /\ wei_index_array_full \in [Flags -> 0 .. 2]
      /\ flag_serial_reg \subseteq Flags /\ valid_wei_index_d \in 0 .. 3
  <2>1. Unscanned => flag_serial_reg \subseteq Flags /\ valid_wei_index_d \in 0 .. 3
    BY <1>1 DEF KernelInv, ScanInv, Blank
  <2>2. ~Unscanned => flag_serial_reg \subseteq Flags /\ valid_wei_index_d \in 0 .. 3
    <3> SUFFICES ASSUME ~Unscanned
                 PROVE  flag_serial_reg \subseteq Flags /\ valid_wei_index_d \in 0 .. 3
      OBVIOUS
    <3>1. PICK d \in 0 .. 9 : Scanned(d)
      BY <1>1 DEF KernelInv, ScanInv
    <3>2. \A f \in kernel : f >= d => f - d \in 0 .. 8
      <4>1. \A f \in kernel : f \in 0 .. 8
        BY <1>2
      <4>2. QED BY <4>1
    <3>3. QED BY <3>1, <3>2, Sizes DEF Scanned, Rest
  <2>3. QED BY <1>1, <2>1, <2>2 DEF KernelInv, ScanInv
<1>4. /\ rd_addr_s \in 0 .. 9 /\ s_read_data \in 0 .. 9
      /\ serial_array_full \in [Flags -> 0 .. 9] /\ m \in 0 .. 9
  <2>1. /\ rd_addr_s \in 0 .. 9 /\ s_read_data = rd_addr_s /\ s_read_req_d \in BOOLEAN
        /\ m = rd_addr_s - Bit(s_read_req_d) /\ m >= 0
        /\ serial_array_full \in [Flags -> 0 .. 9]
    BY <1>1 DEF KernelInv, StoreInv
  <2>2. Bit(s_read_req_d) \in 0 .. 1
    BY <2>1 DEF Bit
  <2>3. QED BY <2>1, <2>2
<1>5. row_index_count \in 0 .. 3
  BY <1>1 DEF RowsInv
<1>6. QED BY <1>1, <1>2, <1>3, <1>4, <1>5, Sizes DEF WeightTypeOK, PairTypes, Words

\* The row that is due and a pair of it are shown.
LEMMA ShowsTheDueRow ==
  ASSUME KernelsServed, WeightInv
  PROVE  RowIsRight
<1> SUFFICES ASSUME state = "COMP"
             PROVE  /\ row_val_num_a = Cardinality(RowOf(row))
                    /\ RowOf(row) # {} => <<serial_out_reg, wei_index_d>>
                                            \in {PairOf(f) : f \in RowOf(row)}
  BY DEF RowIsRight
<1>1. /\ KernelInv /\ RowsInv /\ flag_en
      /\ kernel \in SUBSET (0 .. 8) /\ row \in 0 .. 2
  BY RowRegisters DEF WeightInv, KernelInv, EnableInv
<1>2. PICK r \in 0 .. 2 : r = row /\ Loaded(r)
  BY <1>1 DEF RowsInv
<1>3. row_val_num_a = Cardinality(RowOf(row))
  BY <1>2 DEF Loaded, Weights
<1>4. ASSUME RowOf(row) # {}
      PROVE  <<serial_out_reg, wei_index_d>> \in {PairOf(f) : f \in RowOf(row)}
  <2>1. RowOf(r) \in SUBSET (0 .. 8) /\ RowOf(r) # {}
    BY <1>1, <1>2, <1>4 DEF RowOf
  <2>2. Weights(r) > 0
    <3>1. Weights(r) \in 0 .. 3
      BY <1>1, WeightsAdd
    <3>2. Weights(r) # 0
      BY <2>1, Few, FS_EmptySet DEF Weights
    <3>3. QED BY <3>1, <3>2
  <2>3. PICK c \in 0 .. 2 : /\ c < Weights(r)
                            /\ serial_out_reg = serial_array[c] /\ wei_index_d = wei_index_array[c]
    BY <1>2, <2>2 DEF WeightInv, TurnInv, ShowsAt
  <2>4. PICK f \in RowOf(r) : Cardinality({g \in RowOf(r) : g > f}) = c
    <3>1. c \in Nat /\ c < Cardinality(RowOf(r))
      BY <2>3 DEF Weights
    <3>2. QED BY <2>1, <3>1, RankInRow
  <2>5. PairOf(f) = <<serial_array[c], wei_index_array[c]>>
    BY <1>1, <1>2, <2>3, <2>4, PairIsLoaded
  <2>6. QED BY <1>2, <2>3, <2>5
<1>5. QED BY <1>3, <1>4

\* The pair shown is followed by that of the next flag below.
LEMMA ShowsTheNextPair ==
  ASSUME KernelsServed, WeightInv, [WeightNext]_wvars, state = "COMP", state' = "COMP",
         NEW f \in RowOf(row), <<serial_out_reg, wei_index_d>> = PairOf(f),
         ~UNCHANGED wvars,
         NEW x, x = Max(IF {g \in RowOf(row) : g < f} # {} THEN {g \in RowOf(row) : g < f}
                                                          ELSE RowOf(row))
  PROVE  <<serial_out_reg', wei_index_d'>> = PairOf(x)
<1>1. /\ KernelInv /\ RowsInv /\ flag_en
      /\ kernel \in SUBSET (0 .. 8) /\ row \in 0 .. 2
  BY RowRegisters DEF WeightInv, KernelInv, EnableInv
<1>2. PICK r \in 0 .. 2 : r = row /\ Loaded(r)
  BY <1>1 DEF RowsInv
<1>3. PICK S : S = RowOf(r) /\ S \in SUBSET (0 .. 8) /\ f \in S
  BY <1>1, <1>2 DEF RowOf
<1>4. PICK w \in 1 .. 3 : w = Cardinality(S) /\ w = Weights(r)
  <2>1. Weights(r) \in 0 .. 3
    BY <1>1, WeightsAdd
  <2>2. Weights(r) # 0
    BY <1>3, Few, FS_EmptySet DEF Weights
  <2>3. QED BY <1>3, <2>1, <2>2 DEF Weights
<1>5. PICK c \in 0 .. 2 : ShowsAt(c)
  BY <1>2, <1>4 DEF WeightInv, TurnInv
<1>6. c < w /\ serial_out_reg = Before(r) + c + 1
  BY <1>2, <1>4, <1>5 DEF ShowsAt, Loaded
<1>7. Cardinality({g \in S : g > f}) = c
  <2>1. PICK n : n = Cardinality({g \in S : g > f})
    OBVIOUS
  <2>2. n \in Nat
    <3>1. {g \in S : g > f} \in SUBSET (0 .. 8)
      BY <1>3
    <3>2. QED BY <2>1, <3>1, Few
  <2>3. PairOf(f) = <<Before(r) + n + 1, 2 - (f % 3)>>
    BY <1>1, <1>3, <2>1, PairOfRank
  <2>4. Before(r) \in 0 .. 6
    BY <1>1, RowRegisters, BeforeNext
  <2>5. Before(r) + n + 1 = Before(r) + c + 1
    BY <1>6, <2>3
  <2>6. QED BY <2>1, <2>2, <2>4, <2>5
<1>8. PICK e : e = IF c + 1 < w THEN c + 1 ELSE 0
  OBVIOUS
<1>9. x \in S /\ Cardinality({g \in S : g > x}) = e
  <2>1. PICK A : A = {g \in S : g < f}
    OBVIOUS
  <2>2. x = Max(IF A # {} THEN A ELSE S)
    BY <1>2, <1>3, <2>1
  <2>3. /\ c \in Nat /\ e = IF c + 1 < Cardinality(S) THEN c + 1 ELSE 0
        /\ S \in SUBSET (0 .. 8) /\ f \in S
    BY <1>3, <1>4, <1>8
  <2>4. QED BY <1>7, <2>1, <2>2, <2>3, RanksGoRound, SMTT(30)
<1>10. PICK fin \in BOOLEAN, done \in BOOLEAN : WeightEdge(fin, done)
  BY Zenon DEF WeightNext
<1>11. ~done
  BY <1>1, <1>10, RowRegisters, StateEdge
<1>12. /\ e \in 0 .. 2 /\ e < w
       /\ serial_out_reg' = serial_array[e] /\ wei_index_d' = wei_index_array[e]
  BY <1>1, <1>2, <1>4, <1>5, <1>8, <1>10, <1>11, NextWeight
<1>13. PairOf(x) = <<serial_array[e], wei_index_array[e]>>
  <2>1. x \in RowOf(r) /\ Cardinality({g \in RowOf(r) : g > x}) = e
    BY <1>3, <1>9
  <2>2. e \in 0 .. 2 /\ e < Weights(r)
    BY <1>4, <1>12
  <2>3. KernelInv /\ flag_en /\ kernel \in SUBSET (0 .. 8) /\ Loaded(r)
    BY <1>1, <1>2
  <2>4. QED BY <2>1, <2>2, <2>3, PairIsLoaded
<1>14. QED BY <1>12, <1>13

\* The row shown is complete: RowIsShown.
LEMMA ShowsTheRow ==
  ASSUME Served, IInv
  PROVE  RowIsShown
<1> SUFFICES ASSUME state = "COMP", NEW s \in Slots, NEW p \in Places
             PROVE  parallel_array[s][p] = IF p \in picture[6 * BlockRow + s]
                                             THEN (6 * BlockRow + s) + 1 ELSE 0
  BY DEF RowIsShown, Served
<1>1. PICK b \in Int : b = BlockRow /\ b >= 0 /\ b <= ROWS - 1
  BY DEF IInv, ShownInv
<1>2. PICK n \in Int : n = 6 * b + s
  BY <1>1, PictureAssumption DEF Slots
<1>3. n \in Blocks
  <2>1. s \in 0 .. 5 /\ ROWS \in Nat
    BY PictureAssumption DEF Slots, Served
  <2>2. 0 <= n /\ n <= 6 * ROWS - 1
    BY <1>1, <1>2, <2>1
  <2>3. QED BY <1>2, <2>1, <2>2 DEF Blocks, Served
<1>4. parallel_array[s][p] = Value(n)[p]
  BY <1>1, <1>2 DEF IInv, ShownInv
<1>5. QED BY <1>1, <1>2, <1>3, <1>4 DEF Value, FlagsOf

\* On clock n of a pass the flag with n higher ones in its row is shown.
LEMMA ShowsThePair ==
  ASSUME Served, IInv
  PROVE  EachPairOnce
<1> SUFFICES ASSUME state = "COMP", Due # {}
             PROVE  /\ clocks < Cardinality(Due)
                    /\ <<serial_out_reg, wei_index_d>> = PairOf(DueAt(clocks))
                    /\ act_index = 3 * passes + wei_index_d
  BY DEF EachPairOnce
<1>1. KernelInv /\ kernel \in Kernels /\ flag_en /\ kernel \in SUBSET (0 .. 8)
  BY KernelType DEF Served, IInv, KernelInv, FetchInv, EnableInv
<1>2. PICK r \in 0 .. 2 : r = row /\ Loaded(r)
  BY RowTurns DEF IInv, RowsInv, row
<1>3. Due = RowOf(r) /\ Due \in SUBSET (0 .. 8)
  BY <1>1, <1>2 DEF Due, RowOf
<1>4. Weights(r) = Cardinality(Due) /\ Weights(r) \in 0 .. 3 /\ Weights(r) > 0
  <2>1. Weights(r) = Cardinality(Due)
    BY <1>3 DEF Weights
  <2>2. Weights(r) \in 0 .. 3
    BY <1>1, WeightsAdd
  <2>3. IsFiniteSet(Due)
    BY <1>3, Few
  <2>4. Cardinality(Due) # 0
    BY <2>3, FS_EmptySet
  <2>5. QED BY <2>1, <2>2, <2>4
<1>5. PICK n \in 0 .. 2 :
        /\ n = clocks /\ n < Weights(r)
        /\ serial_out_reg = serial_array[n] /\ wei_index_d = wei_index_array[n]
        /\ act_index_base = 3 * passes
  BY <1>2, <1>4 DEF IInv, PairInv, ShowsAt
<1>6. n < Cardinality(Due)
  BY <1>4, <1>5
<1>7. PICK f \in Due : f = DueAt(n) /\ Cardinality({g \in Due : g > f}) = n
  <2>1. \E f \in Due : Cardinality({g \in Due : g > f}) = n
    BY <1>3, <1>6, RankInRow
  <2>2. QED BY <2>1 DEF DueAt
<1>8. <<serial_out_reg, wei_index_d>> = PairOf(DueAt(clocks))
  <2>1. f \in RowOf(r) /\ Cardinality({g \in RowOf(r) : g > f}) = n
    BY <1>3, <1>7
  <2>2. PairOf(f) = <<serial_array[n], wei_index_array[n]>>
    BY <1>1, <1>2, <1>5, <2>1, PairIsLoaded
  <2>3. QED BY <1>5, <1>7, <2>2
<1>9. act_index = 3 * passes + wei_index_d
  BY <1>5 DEF act_index
<1>10. QED BY <1>5, <1>6, <1>8, <1>9

\* The registers of the activation side are within their bounds.
LEMMA StaysInBounds ==
  ASSUME Served, IInv
  PROVE  TypeOK
<1>1. ROWS \in 1 .. 5 /\ ROW_BLOCKS = 6
  BY PictureAssumption DEF Served
<1>2. PICK b \in 0 .. 4 : b = BlockRow /\ b <= ROWS - 1 /\ row_index_signed = 3 * b + 2
  BY <1>1 DEF IInv, ShownInv
<1>3. PICK k \in 0 .. 8 : Age(k) /\ InTime(k)
  BY DEF IInv, PhaseInv
<1>4. PICK n \in 0 .. 6 : n = Reads /\ n <= ROWS + 1 /\ (n = 0 => k = 8)
  <2>1. ~started => k = 8
    BY <1>3 DEF InTime
  <2>2. QED BY <1>1, <1>2, <2>1 DEF Reads
<1>5. rd_addr_pflag \in 0 .. ROW_BLOCKS * (ROWS + 1)
  <2>1. PICK c \in 0 .. 6 : c = (IF k < 6 THEN k ELSE 6) /\ (n = 0 => c = 6)
    BY <1>4
  <2>2. rd_addr_pflag = 6 * (n - 1) + c
    BY <1>3, <1>4, <2>1 DEF Age
  <2>3. 0 <= 6 * (n - 1) + c /\ 6 * (n - 1) + c <= 6 * (ROWS + 1)
    BY <1>1, <1>4, <2>1
  <2>4. QED BY <1>1, <2>2, <2>3
<1>6. picture \in [Blocks -> SUBSET Places]
  BY PictureAssumption DEF IInv, AheadInv
<1>7. rd_act_flag_p \subseteq Places /\ flag_d \subseteq Places
  <2>1. \A x : FlagsOf(x) \subseteq Places
    BY <1>6 DEF FlagsOf
  <2>2. QED BY <2>1 DEF IInv, AheadInv
<1>8. rd_addr \in [Places -> 0 .. ROW_BLOCKS * ROWS]
  <2>1. \A p \in Places : \A c : CountOf(p, c) \in 0 .. ROW_BLOCKS * ROWS
    <3> SUFFICES ASSUME NEW p \in Places, NEW c PROVE CountOf(p, c) \in 0 .. ROW_BLOCKS * ROWS
      OBVIOUS
    <3> DEFINE B == {x \in 0 .. c - 1 : p \in FlagsOf(x)}
    <3>1. B \in SUBSET Blocks
      BY DEF FlagsOf
    <3>2. IsFiniteSet(Blocks) /\ Cardinality(Blocks) = 6 * ROWS
      <4>1. 0 \in Int /\ 6 * ROWS - 1 \in Int /\ ~(0 > 6 * ROWS - 1)
        BY <1>1
      <4>2. /\ IsFiniteSet(0 .. 6 * ROWS - 1)
            /\ Cardinality(0 .. 6 * ROWS - 1) = IF 0 > 6 * ROWS - 1 THEN 0
                                                ELSE (6 * ROWS - 1) - 0 + 1
        BY <4>1, FS_Interval
      <4>3. (6 * ROWS - 1) - 0 + 1 = 6 * ROWS
        BY <1>1
      <4>4. QED BY <1>1, <4>1, <4>2, <4>3 DEF Blocks
    <3>3. CountOf(p, c) = Cardinality(B)
      BY DEF CountOf
    <3> HIDE DEF B
    <3>4. IsFiniteSet(B) /\ Cardinality(B) <= 6 * ROWS
      BY <3>1, <3>2, FS_Subset
    <3>5. Cardinality(B) \in Nat
      BY <3>4, FS_CardinalityType
    <3>6. QED BY <1>1, <3>3, <3>4, <3>5
  <2>2. rd_addr = [p \in Places |-> CountOf(p, Got)]
    BY DEF IInv, AheadInv
  <2>3. QED BY <2>1, <2>2
<1>9. row_index_signed \in {3 * r - 1 : r \in 1 .. ROWS}
  <2>1. b + 1 \in 1 .. ROWS /\ 3 * (b + 1) - 1 = 3 * b + 2
    BY <1>1, <1>2
  <2>2. QED BY <1>2, <2>1
<1>10. passes \in 0 .. 4 /\ act_index_base \in {0, 3, 6, 9, 12}
  BY DEF IInv, PairInv
<1>11. QED BY <1>5, <1>7, <1>8, <1>9, <1>10 DEF TypeOK

\* WeightTypeOK: the weight side keeps its registers within their bounds, for
\* every kernel served and however long the rows take: j selects one of the
\* three fields of valid_row, and the weights fit in their array.
THEOREM WeightTypeCorrect == ASSUME KernelsServed PROVE WeightSpec => []WeightTypeOK
<1>1. WeightInv => WeightTypeOK
  BY WeightsStayInBounds
<1>2. QED BY <1>1, WeightsAreInvariant, PTL

\* RowIsRight: while the PE array computes, the row that is due is shown, the
\* number of its weights and one of them with its own column, although four
\* registers count rows, each with its own wrap.
THEOREM RowIsRightHolds == ASSUME KernelsServed PROVE WeightSpec => []RowIsRight
<1>1. WeightInv => RowIsRight
  BY ShowsTheDueRow
<1>2. QED BY <1>1, WeightsAreInvariant, PTL

\* PairsGoRound: the pairs of a row are shown from first to last, round and
\* round, until the PE array ends the row.
THEOREM PairsGoRoundHolds == ASSUME KernelsServed PROVE WeightSpec => PairsGoRound
<1>1. WeightInv /\ [WeightNext]_wvars =>
      (state = "COMP" /\ state' = "COMP" =>
         \A f \in RowOf(row) :
           <<serial_out_reg, wei_index_d>> = PairOf(f) =>
             LET after == {g \in RowOf(row) : g < f}
             IN  <<serial_out_reg', wei_index_d'>> =
                   PairOf(Max(IF after # {} THEN after ELSE RowOf(row))))
      \/ UNCHANGED wvars
  BY ShowsTheNextPair
<1>2. QED BY <1>1, WeightsAreInvariant, PTL DEF WeightSpec, PairsGoRound

\* TypeOK: the activation side keeps its registers within their bounds, for
\* every picture and every kernel served.
THEOREM TypeCorrect == ASSUME Served PROVE Spec => []TypeOK
<1>1. IInv => TypeOK
  BY StaysInBounds
<1>2. QED BY <1>1, StreamIsInvariant, PTL

\* RowIsShown: while the PE array computes, the whole row of blocks that
\* row_index names is shown, each activation at its place.  Nothing in the code
\* waits for the read of that row: the rows of the kernel have taken longer.
THEOREM RowIsShownHolds == ASSUME Served PROVE Spec => []RowIsShown
<1>1. IInv => RowIsShown
  BY ShowsTheRow
<1>2. QED BY <1>1, StreamIsInvariant, PTL

\* EachPairOnce: on the k-th clock of a pass the k-th weight of the row that is
\* due is shown, with its column of activations for that pass.
THEOREM EachPairOnceHolds == ASSUME Served PROVE Spec => []EachPairOnce
<1>1. IInv => EachPairOnce
  BY ShowsThePair
<1>2. QED BY <1>1, StreamIsInvariant, PTL

=============================================================================
