------------------------- MODULE DenseStreamProofs -------------------------
(***************************************************************************)
(* Mode 0 shows what is stored, for every width of a picture, every kernel *)
(* and every picture whose rows the controller can serve (ServedRows).     *)
(*                                                                         *)
(* The kernel and the rows meet in one place: en, the pulse that starts    *)
(* the rows, is given ahead of the last three weights.  Each side is a     *)
(* chain of registers driven by one counter: behind the count m of slots   *)
(* filled follow the flag, the address and the weight of the next slot     *)
(* (FillInv), and the state of the rows (PhaseInv); behind the row and the *)
(* column shown follow the flags still to be scanned, the column counter,  *)
(* the address of every place and the row of flags read ahead (RowsInv).   *)
(***************************************************************************)
EXTENDS DenseStream, FiniteSetTheorems, TLAPS

-----------------------------------------------------------------------------
(* The invariant. *)

\* The weights stored up to a flag, and the kernel shown with n slots filled.
UpTo(f) == Cardinality({g \in kernel : g <= f})

Filled(n) == [f \in Flags |-> IF f < n /\ f \in kernel THEN UpTo(f) ELSE 0]

\* The kernel is read once, over 11 edges.
SerialInv ==
  /\ kernel \in Kernels /\ picture \in Pictures
  /\ rd_addr_sflag \in 0 .. KERNEL_SIZE + 2
  /\ serial_read <=> started /\ rd_addr_sflag <= KERNEL_SIZE + 1
  /\ rd_req_wei <=> started /\ rd_addr_sflag = 0
  /\ flag_serial = IF rd_addr_sflag = 0 THEN {} ELSE kernel
  /\ read_wei_finish_d => rd_addr_sflag >= KERNEL_SIZE + 1
  /\ rd_addr_sflag = KERNEL_SIZE + 1 => read_wei_finish_d
  /\ ~started => rd_addr_sflag = 0

\* The registers behind a flag follow the slots filled: two edges behind k its
\* weight is there.  The last flag is asked for again and again, when the slots
\* are full.
FillInv ==
  /\ m \in 0 .. KERNEL_SIZE
  /\ rd_addr_s \in 0 .. 15
  /\ serial_array_full = Filled(m)
  /\ kernel = {} => ~flag_stream_wei
  /\ ~flag_stream_wei =>
       /\ ~flag_stream_wei_d /\ ~s_read_req /\ ~s_read_req_d
       /\ k = 0 /\ m = 0 /\ rd_addr_s = 0
       /\ kernel = {} \/ rd_addr_sflag <= 1
  /\ flag_stream_wei /\ ~flag_stream_wei_d =>
       /\ rd_addr_sflag = 2 /\ k = 1 /\ m = 0 /\ rd_addr_s = 0
       /\ s_read_req <=> 0 \in kernel
       /\ ~s_read_req_d
  /\ flag_stream_wei_d =>
       /\ flag_stream_wei
       /\ k = IF m <= 6 THEN m + 2 ELSE 8
       /\ rd_addr_sflag = IF m <= 8 THEN m + 3 ELSE 11
       /\ m <= 7 => (s_read_req <=> m + 1 \in kernel)
       /\ m <= 8 => /\ s_read_req_d <=> m \in kernel
                    /\ m \in kernel => s_read_data = UpTo(m)
                    /\ rd_addr_s = UpTo(m)

\* The rows are started when 7 slots are filled; the first is shown when all are.
\* No row ends while flags are being read.
PhaseInv ==
  /\ state \in {"PREP", "COMP", "WAIT"}
  /\ m <= 6 => ~en /\ ~flag_en /\ state = "PREP"
  /\ m = 7 => en /\ flag_en /\ state = "PREP"
  /\ m = 8 => ~en /\ flag_en /\ state = "WAIT"
  /\ m = 9 => ~en /\ flag_en /\ state # "PREP"
  /\ flag_stream_wei_d /\ m <= 6 => ~reading
  /\ m = 7 => reading
  /\ m = 8 => ~reading
  /\ m = 9 => (state = "WAIT" <=> reading)

KernelInv == SerialInv /\ FillInv /\ PhaseInv

-----------------------------------------------------------------------------
(* The kernel. *)

\* A kernel is 3 x 3.
LEMMA Sizes == KERNEL_WIDTH = 3 /\ KERNEL_SIZE = 9 /\ Flags = 0 .. 8 /\ Places = 0 .. 8
  BY DEF KERNEL_WIDTH, KERNEL_SIZE, Flags, Places

\* The weights up to a flag, one flag further.
LEMMA UpToNext ==
  ASSUME kernel \in SUBSET Flags, NEW n \in Int
  PROVE  /\ UpTo(n) \in 0 .. KERNEL_SIZE
         /\ n + 1 \notin kernel => UpTo(n + 1) = UpTo(n)
         /\ n + 1 \in kernel => /\ UpTo(n + 1) = UpTo(n) + 1
                                /\ UpTo(n) < Cardinality(kernel)
                                /\ UpTo(n) < KERNEL_SIZE
         /\ n < 0 => UpTo(n) = 0
<1> DEFINE low(i) == {g \in kernel : g <= i}
<1>1. kernel \subseteq 0 .. 8 /\ \A g \in kernel : g \in 0 .. 8
  BY Sizes
<1>2. IsFiniteSet(kernel) /\ IsFiniteSet(Flags) /\ Cardinality(Flags) = 9
  <2>1. IsFiniteSet(0 .. 8) /\ Cardinality(0 .. 8) = IF 0 > 8 THEN 0 ELSE (8 - 0) + 1
    <3>1. 0 \in Int /\ 8 \in Int
      OBVIOUS
    <3>2. QED BY <3>1, FS_Interval
  <2>2. Cardinality(0 .. 8) = 9
    BY <2>1
  <2>3. IsFiniteSet(kernel)
    BY <1>1, <2>1, FS_Subset
  <2>4. QED BY <2>1, <2>2, <2>3, Sizes
<1>3. \A i \in Int : IsFiniteSet(low(i)) /\ Cardinality(low(i)) \in Nat
  BY <1>2, FS_Subset, FS_CardinalityType
<1>4. Cardinality(kernel) \in Nat /\ Cardinality(kernel) <= 9
  BY <1>2, FS_Subset, FS_CardinalityType
<1>5. Cardinality(low(n)) <= Cardinality(kernel)
  BY <1>2, FS_Subset
<1>6. n + 1 \notin kernel => low(n + 1) = low(n)
  <2>1. n + 1 \notin kernel => \A g \in kernel : g <= n + 1 <=> g <= n
    BY <1>1
  <2>2. QED BY <2>1
<1>7. n + 1 \in kernel => /\ Cardinality(low(n + 1)) = Cardinality(low(n)) + 1
                          /\ Cardinality(low(n)) < Cardinality(kernel)
  <2> SUFFICES ASSUME n + 1 \in kernel
               PROVE  /\ Cardinality(low(n + 1)) = Cardinality(low(n)) + 1
                      /\ Cardinality(low(n)) < Cardinality(kernel)
    OBVIOUS
  <2>1. low(n + 1) = low(n) \cup {n + 1} /\ n + 1 \notin low(n)
    <3>1. \A g \in kernel : g <= n + 1 <=> g <= n \/ g = n + 1
      BY <1>1
    <3>2. n + 1 <= n + 1 /\ ~(n + 1 <= n)
      OBVIOUS
    <3>3. QED BY <3>1, <3>2
  <2>2. Cardinality(low(n + 1)) = Cardinality(low(n)) + 1
    BY <1>3, <2>1, FS_AddElement
  <2>3. Cardinality(low(n + 1)) <= Cardinality(kernel)
    BY <1>2, FS_Subset
  <2> HIDE DEF low
  <2>4. QED BY <1>3, <1>4, <2>2, <2>3
<1>8. n < 0 => low(n) = {}
  <2>1. n < 0 => \A g \in kernel : ~(g <= n)
    BY <1>1
  <2>2. QED BY <2>1
<1>9. n < 0 => Cardinality(low(n)) = 0
  BY <1>8, FS_EmptySet
<1> HIDE DEF low
<1>10. UpTo(n) = Cardinality(low(n)) /\ UpTo(n + 1) = Cardinality(low(n + 1))
  BY DEF UpTo, low
<1>11. QED BY <1>3, <1>4, <1>5, <1>6, <1>7, <1>9, <1>10, Sizes

\* A row ends only when all slots are filled.
LEMMA RowEndsFilled ==
  ASSUME KernelInv
  PROVE  /\ state = "COMP" => m = 9 /\ rd_addr_sflag = 11 /\ ~reading
         /\ row_cal_done => state = "COMP"
         /\ m > 0 => flag_stream_wei_d
         /\ kernel \in SUBSET Flags
<1>1. state = "COMP" => m = 9
  BY Sizes DEF KernelInv, PhaseInv, FillInv
<1>2. m > 0 => flag_stream_wei_d
  BY DEF KernelInv, FillInv
<1>3. m = 9 => rd_addr_sflag = 11
  BY <1>2 DEF KernelInv, FillInv
<1>4. row_cal_done => state = "COMP"
  BY DEF row_cal_done, RowEnds
<1>5. state = "COMP" => ~reading
  BY <1>1 DEF KernelInv, PhaseInv
<1>6. QED BY <1>1, <1>2, <1>3, <1>4, <1>5, DenseAssumption DEF KernelInv, SerialInv

\* An edge of the read of the kernel.
LEMMA SerialKept ==
  ASSUME KernelInv, NEW start \in BOOLEAN, start => ~started, Edge(start)
  PROVE  SerialInv'
<1>1. row_cal_done => rd_addr_sflag = 11
  BY RowEndsFilled
<1>2. read_wei_finish_d' <=> rd_addr_sflag = 9 \/ row_cal_done
  <2>1. read_wei_finish_d' = (rd_addr_sflag = 9 \/ row_cal_done)
    BY Sizes DEF Edge, ReadKernel, read_wei_finish
  <2>2. QED BY <2>1, Zenon
<1>3. (started' <=> started \/ start) /\ (rd_req_wei' <=> start)
  BY DEF Edge, ReadKernel
<1>4. /\ kernel' = kernel /\ picture' = picture
      /\ serial_read' <=> IF serial_read THEN ~read_wei_finish_d ELSE start
      /\ rd_addr_sflag' = IF serial_read THEN rd_addr_sflag + 1 ELSE rd_addr_sflag
      /\ flag_serial' = IF rd_req_wei THEN kernel ELSE flag_serial
  BY DEF Edge, ReadKernel
<1>5. QED BY <1>1, <1>2, <1>3, <1>4, Sizes DEF KernelInv, SerialInv

\* An edge of the slots: each slot takes the weight of its flag, or a zero.
LEMMA FillKept ==
  ASSUME KernelInv, NEW start \in BOOLEAN, start => ~started, Edge(start)
  PROVE  FillInv'
<1>1. /\ kernel \in SUBSET Flags /\ kernel' = kernel
      /\ m \in 0 .. 9 /\ rd_addr_s \in 0 .. 15 /\ rd_addr_sflag \in 0 .. 11
      /\ serial_array_full = Filled(m)
  BY RowEndsFilled, Sizes DEF KernelInv, FillInv, SerialInv, Edge
<1>2. /\ k' = IF flag_serial # {} /\ k < 8 THEN k + 1 ELSE k
      /\ s_read_req' <=> k \in flag_serial
      /\ rd_addr_s' = IF s_read_req THEN (rd_addr_s + 1) % 16 ELSE rd_addr_s
      /\ s_read_data' = IF s_read_req THEN StoredWeight(rd_addr_s) ELSE s_read_data
      /\ s_read_req_d' <=> s_read_req
      /\ flag_stream_wei' <=> flag_stream_wei \/ flag_serial # {}
      /\ flag_stream_wei_d' <=> flag_stream_wei
      /\ rd_addr_sflag' = IF serial_read THEN rd_addr_sflag + 1 ELSE rd_addr_sflag
  <2>1. /\ k' = IF flag_serial # {} /\ k < 8 THEN k + 1 ELSE k
        /\ rd_addr_s' = IF s_read_req THEN (rd_addr_s + 1) % 16 ELSE rd_addr_s
        /\ s_read_data' = IF s_read_req THEN StoredWeight(rd_addr_s) ELSE s_read_data
        /\ s_read_req_d' = s_read_req
        /\ flag_stream_wei_d' = flag_stream_wei
        /\ rd_addr_sflag' = IF serial_read THEN rd_addr_sflag + 1 ELSE rd_addr_sflag
    BY Sizes DEF Edge, ReadWeights, FillKernel, ReadKernel
  <2>2. s_read_req' = (k \in flag_serial)
    BY DEF Edge, ReadWeights
  <2>3. flag_stream_wei' = (flag_stream_wei \/ flag_serial # {})
    BY DEF Edge, FillKernel
  <2>4. s_read_req' <=> k \in flag_serial
    BY <2>2, Zenon
  <2>5. flag_stream_wei' <=> flag_stream_wei \/ flag_serial # {}
    BY <2>3, Zenon
  <2>6. QED BY <2>1, <2>4, <2>5
<1>3. /\ flag_stream_wei_d /\ m < 9 =>
           /\ m' = m + 1
           /\ serial_array_full' =
                [serial_array_full EXCEPT ![m] = IF s_read_req_d THEN s_read_data ELSE 0]
      /\ ~(flag_stream_wei_d /\ m < 9) => m' = m /\ serial_array_full' = serial_array_full
  BY Sizes DEF Edge, FillKernel
<1>4. rd_addr_s' \in 0 .. 15
  BY <1>1, <1>2
<1>5. m' \in 0 .. 9
  BY <1>1, <1>3
<1>6. serial_array_full' = Filled(m)' 
  <2>1. Filled(m)' = [f \in Flags |-> IF f < m' /\ f \in kernel THEN UpTo(f) ELSE 0]
    BY <1>1 DEF Filled, UpTo
  <2>2. CASE flag_stream_wei_d /\ m < 9
    <3>1. IF s_read_req_d THEN m \in kernel /\ s_read_data = UpTo(m) ELSE m \notin kernel
      BY <1>1, <2>2 DEF KernelInv, FillInv
    <3>2. \A f \in Flags : f # m => (f < m + 1 <=> f < m)
      BY <1>1, Sizes
    <3>3. m \in Flags
      BY <1>1, <2>2, Sizes
    <3>4. QED BY <1>1, <1>3, <2>1, <2>2, <3>1, <3>2, <3>3 DEF Filled
  <2>3. CASE ~(flag_stream_wei_d /\ m < 9)
    BY <1>1, <1>3, <2>1, <2>3 DEF Filled
  <2>4. QED BY <2>2, <2>3
<1>7. CASE ~flag_stream_wei
  <2>1. /\ ~flag_stream_wei_d /\ ~s_read_req /\ ~s_read_req_d
        /\ k = 0 /\ m = 0 /\ rd_addr_s = 0
        /\ kernel = {} \/ rd_addr_sflag <= 1
    BY <1>7 DEF KernelInv, FillInv
  <2>2. /\ m' = 0 /\ rd_addr_s' = 0 /\ ~s_read_req_d' /\ ~flag_stream_wei_d'
    BY <1>2, <1>3, <2>1, <1>7
  <2>3. CASE flag_serial = {}
    <3>1. k' = 0 /\ ~s_read_req' /\ ~flag_stream_wei'
      BY <1>2, <1>7, <2>1, <2>3
    <3>2. kernel = {} \/ rd_addr_sflag' <= 1
      BY <1>2, <2>1, <2>3 DEF KernelInv, SerialInv
    <3>3. QED BY <1>1, <1>4, <1>5, <1>6, <2>2, <3>1, <3>2, Sizes DEF FillInv
  <2>4. CASE flag_serial # {}
    <3>1. flag_serial = kernel /\ kernel # {} /\ rd_addr_sflag = 1 /\ serial_read
      <4>1. /\ serial_read <=> started /\ rd_addr_sflag <= 10
            /\ flag_serial = IF rd_addr_sflag = 0 THEN {} ELSE kernel
            /\ ~started => rd_addr_sflag = 0
        BY Sizes DEF KernelInv, SerialInv
      <4>2. flag_serial = kernel /\ kernel # {} /\ rd_addr_sflag # 0
        BY <2>4, <4>1
      <4>3. rd_addr_sflag = 1
        BY <1>1, <2>1, <4>2
      <4>4. QED BY <4>1, <4>2, <4>3
    <3>2. rd_addr_sflag' = 2 /\ k' = 1 /\ (s_read_req' <=> 0 \in kernel) /\ flag_stream_wei'
      BY <1>2, <2>1, <3>1
    <3>3. QED BY <1>1, <1>4, <1>5, <1>6, <2>2, <3>1, <3>2, Sizes DEF FillInv
  <2>5. QED BY <2>3, <2>4
<1>8. CASE flag_stream_wei
  <2>1. /\ flag_serial = kernel /\ kernel # {} /\ flag_stream_wei' /\ flag_stream_wei_d'
        /\ serial_read <=> rd_addr_sflag <= 10
    BY <1>1, <1>2, <1>8, Sizes DEF KernelInv, FillInv, SerialInv
  <2>2. CASE ~flag_stream_wei_d
    <3>1. /\ rd_addr_sflag = 2 /\ k = 1 /\ m = 0 /\ rd_addr_s = 0
          /\ s_read_req <=> 0 \in kernel
      BY <1>8, <2>2 DEF KernelInv, FillInv
    <3>2. /\ m' = 0 /\ k' = 2 /\ rd_addr_sflag' = 3
          /\ s_read_req' <=> 1 \in kernel
          /\ s_read_req_d' <=> 0 \in kernel
      BY <1>2, <1>3, <2>1, <2>2, <3>1
    <3>3. /\ UpTo(-1) = 0
          /\ 0 \notin kernel => UpTo(0) = 0
          /\ 0 \in kernel => UpTo(0) = 1 /\ 0 < Cardinality(kernel)
      <4>1. -1 \in Int /\ -1 + 1 = 0 /\ -1 < 0
        OBVIOUS
      <4>2. QED BY <1>1, <4>1, UpToNext
    <3>4. rd_addr_s' = UpTo(0) /\ (0 \in kernel => s_read_data' = UpTo(0))
      BY <1>2, <3>1, <3>3 DEF StoredWeight
    <3>5. (UpTo(m))' = UpTo(0)
      BY <1>1, <3>2 DEF UpTo
    <3>6. /\ s_read_req_d' <=> m' \in kernel'
          /\ m' \in kernel' => s_read_data' = (UpTo(m))'
          /\ rd_addr_s' = (UpTo(m))'
          /\ s_read_req' <=> m' + 1 \in kernel'
      BY <1>1, <3>2, <3>4, <3>5
    <3>7. /\ k' = IF m' <= 6 THEN m' + 2 ELSE 8
          /\ rd_addr_sflag' = IF m' <= 8 THEN m' + 3 ELSE 11
          /\ kernel' # {}
      BY <1>1, <2>1, <3>2
    <3>8. QED
      BY <1>4, <1>5, <1>6, <2>1, <3>6, <3>7, Sizes DEF FillInv
  <2>3. CASE flag_stream_wei_d
    <3>1. /\ k = IF m <= 6 THEN m + 2 ELSE 8
          /\ rd_addr_sflag = IF m <= 8 THEN m + 3 ELSE 11
          /\ m <= 7 => (s_read_req <=> m + 1 \in kernel)
          /\ m <= 8 => rd_addr_s = UpTo(m)
      BY <2>3 DEF KernelInv, FillInv
    <3>2. m' = IF m <= 8 THEN m + 1 ELSE m
      BY <1>1, <1>3, <2>3
    <3>3. k' = IF m' <= 6 THEN m' + 2 ELSE 8
      BY <1>1, <1>2, <2>1, <3>1, <3>2
    <3>4. rd_addr_sflag' = IF m' <= 8 THEN m' + 3 ELSE 11
      BY <1>1, <1>2, <2>1, <3>1, <3>2
    <3>5. m' <= 7 => (s_read_req' <=> m' + 1 \in kernel)
      BY <1>1, <1>2, <2>1, <3>1, <3>2
    <3>6. m' <= 8 => /\ s_read_req_d' <=> m' \in kernel
                     /\ m' \in kernel => s_read_data' = UpTo(m')
                     /\ rd_addr_s' = UpTo(m')
      <4> SUFFICES ASSUME m' <= 8
                   PROVE  /\ s_read_req_d' <=> m' \in kernel
                          /\ m' \in kernel => s_read_data' = UpTo(m')
                          /\ rd_addr_s' = UpTo(m')
        OBVIOUS
      <4>1. m <= 7 /\ m' = m + 1 /\ m \in Int
        BY <1>1, <3>2
      <4>2. /\ UpTo(m) \in 0 .. 9
            /\ m + 1 \notin kernel => UpTo(m + 1) = UpTo(m)
            /\ m + 1 \in kernel => /\ UpTo(m + 1) = UpTo(m) + 1
                                   /\ UpTo(m) < Cardinality(kernel)
        BY <1>1, <4>1, UpToNext, Sizes
      <4>3. QED BY <1>2, <3>1, <4>1, <4>2 DEF StoredWeight
    <3>7. m' <= 8 => /\ s_read_req_d' <=> m' \in kernel'
                     /\ m' \in kernel' => s_read_data' = (UpTo(m))'
                     /\ rd_addr_s' = (UpTo(m))'
      BY <1>1, <3>6 DEF UpTo
    <3>8. QED
      BY <1>1, <1>4, <1>5, <1>6, <2>1, <3>3, <3>4, <3>5, <3>7, Sizes DEF FillInv
  <2>4. QED BY <2>2, <2>3
<1>9. QED BY <1>7, <1>8

\* An edge of the states.
LEMMA PhaseKept ==
  ASSUME KernelInv, NEW start \in BOOLEAN, start => ~started, Edge(start)
  PROVE  PhaseInv'
<1>1. /\ m \in 0 .. 9 /\ state \in {"PREP", "COMP", "WAIT"}
      /\ m > 0 => flag_stream_wei_d
      /\ flag_stream_wei_d => rd_addr_sflag = IF m <= 8 THEN m + 3 ELSE 11
      /\ flag_stream_wei /\ ~flag_stream_wei_d => rd_addr_sflag = 2 /\ m = 0
      /\ row_cal_done => state = "COMP"
  BY RowEndsFilled, Sizes DEF KernelInv, FillInv, PhaseInv
<1>2. /\ m' = IF flag_stream_wei_d /\ m < 9 THEN m + 1 ELSE m
      /\ flag_stream_wei_d' = flag_stream_wei
  BY Sizes DEF Edge, FillKernel
<1>3. /\ en' <=> ~flag_en /\ m = 6
      /\ flag_en' <=> flag_en \/ (~flag_en /\ m = 6)
  <2>1. en' = (~flag_en /\ m = 6)
    BY DEF Edge, Enable
  <2>2. flag_en' = (flag_en \/ (~flag_en /\ m = 6))
    BY DEF Edge, Enable
  <2>3. en' <=> ~flag_en /\ m = 6
    BY <2>1, Zenon
  <2>4. flag_en' <=> flag_en \/ (~flag_en /\ m = 6)
    BY <2>2, Zenon
  <2>5. QED BY <2>3, <2>4
<1>4. reading' <=> ~reading /\ (rd_addr_sflag = 9 \/ row_cal_done)
  <2>1. reading' = (~reading /\ read_wei_finish)
    BY DEF Edge, FlagAddress
  <2>2. reading' <=> ~reading /\ read_wei_finish
    BY <2>1, Zenon
  <2>3. QED BY <2>2, Sizes DEF read_wei_finish
<1>5. state' = CASE state = "PREP" -> IF en THEN "WAIT" ELSE "PREP"
                 [] state = "COMP" -> IF row_cal_done THEN "WAIT" ELSE "COMP"
                 [] state = "WAIT" -> "COMP"
  BY DEF Edge, RowState
<1>6. CASE m <= 5
  <2>1. ~en /\ ~flag_en /\ state = "PREP" /\ (flag_stream_wei_d => ~reading)
    BY <1>6, <1>1 DEF KernelInv, PhaseInv
  <2>2. m' \in 0 .. 6 /\ ~en' /\ ~flag_en' /\ state' = "PREP"
    BY <1>1, <1>2, <1>3, <1>5, <1>6, <2>1
  <2>3. flag_stream_wei_d' => ~reading'
    BY <1>1, <1>2, <1>4, <1>6, <2>1
  <2>4. QED BY <2>2, <2>3 DEF PhaseInv
<1>7. CASE m = 6
  <2>1. ~en /\ ~flag_en /\ state = "PREP" /\ ~reading /\ rd_addr_sflag = 9
    BY <1>1, <1>7 DEF KernelInv, PhaseInv
  <2>2. m' = 7 /\ en' /\ flag_en' /\ state' = "PREP" /\ reading'
    BY <1>1, <1>2, <1>3, <1>4, <1>5, <1>7, <2>1
  <2>3. QED BY <2>2 DEF PhaseInv
<1>8. CASE m = 7
  <2>1. en /\ flag_en /\ state = "PREP" /\ reading
    BY <1>8 DEF KernelInv, PhaseInv
  <2>2. m' = 8 /\ ~en' /\ flag_en' /\ state' = "WAIT" /\ ~reading'
    BY <1>1, <1>2, <1>3, <1>4, <1>5, <1>8, <2>1
  <2>3. QED BY <2>2 DEF PhaseInv
<1>9. CASE m = 8
  <2>1. ~en /\ flag_en /\ state = "WAIT" /\ ~reading /\ rd_addr_sflag = 11
    BY <1>1, <1>9 DEF KernelInv, PhaseInv
  <2>2. m' = 9 /\ ~en' /\ flag_en' /\ state' = "COMP" /\ ~reading'
    BY <1>1, <1>2, <1>3, <1>4, <1>5, <1>9, <2>1
  <2>3. QED BY <2>2 DEF PhaseInv
<1>10. CASE m = 9
  <2>1. ~en /\ flag_en /\ state \in {"WAIT", "COMP"} /\ (state = "WAIT" <=> reading)
        /\ rd_addr_sflag = 11
    BY <1>1, <1>10 DEF KernelInv, PhaseInv
  <2>2. m' = 9 /\ ~en' /\ flag_en'
    BY <1>2, <1>3, <1>10, <2>1
  <2>3. /\ state' \in {"WAIT", "COMP"}
        /\ state' = "WAIT" <=> reading'
    BY <1>1, <1>4, <1>5, <2>1
  <2>4. QED BY <2>2, <2>3 DEF PhaseInv
<1>11. QED BY <1>1, <1>6, <1>7, <1>8, <1>9, <1>10

\* Out of reset nothing is filled.
LEMMA KernelInit == Init => KernelInv
<1> SUFFICES ASSUME Init PROVE KernelInv
  OBVIOUS
<1>1. SerialInv
  BY Sizes DEF Init, SerialInv
<1>2. FillInv
  <2>1. serial_array_full = Filled(m)
    BY Sizes DEF Init, Filled
  <2>2. QED BY <2>1, Sizes DEF Init, FillInv
<1>3. PhaseInv
  BY DEF Init, PhaseInv
<1>4. QED BY <1>1, <1>2, <1>3 DEF KernelInv

\* Every step keeps the part of the kernel.
LEMMA KernelKept == KernelInv /\ [Next]_vars => KernelInv'
<1> SUFFICES ASSUME KernelInv, [Next]_vars PROVE KernelInv'
  OBVIOUS
<1>1. CASE Stream
  <2>1. PICK start \in BOOLEAN : (start => ~started) /\ Edge(start)
    BY <1>1 DEF Stream
  <2>2. QED BY <2>1, SerialKept, FillKept, PhaseKept DEF KernelInv
<1>2. CASE UNCHANGED vars
  BY <1>2 DEF vars, weights, activations, KernelInv, SerialInv, FillInv, PhaseInv, Filled, UpTo
<1>3. QED BY <1>1, <1>2 DEF Next, Finished

\* For every kernel, width and picture: while the PE array computes, every weight
\* is in the slot of its flag.
THEOREM KernelIsCompleteHolds == Spec => []KernelIsComplete
<1>1. KernelInv => KernelIsComplete
  <2> SUFFICES ASSUME KernelInv, state = "COMP"
               PROVE  serial_array_full =
                        [f \in Flags |-> IF f \in kernel
                                           THEN Cardinality({g \in kernel : g <= f}) ELSE 0]
    BY DEF KernelIsComplete
  <2>1. m = 9
    BY RowEndsFilled
  <2>2. \A f \in Flags : f < m
    BY <2>1, Sizes
  <2>3. serial_array_full = Filled(m)
    BY DEF KernelInv, FillInv
  <2>4. QED BY <2>2, <2>3 DEF Filled, UpTo
<1>2. QED BY <1>1, KernelInit, KernelKept, PTL DEF Spec

-----------------------------------------------------------------------------
(* The columns of a row. *)

\* The smallest of some numbers.
LEMMA MinOfNaturals ==
  ASSUME NEW S \in SUBSET Nat, S # {}
  PROVE  Min(S) \in S /\ \A y \in S : Min(S) <= y
<1> DEFINE Low(x) == {y \in S : y <= x}
           T == {Low(x) : x \in S}
<1>1. \A x \in S : Low(x) \in FiniteSubsetsOf(S)
  BY FS_BoundedSetOfNaturals DEF FiniteSubsetsOf
<1>2. T \subseteq FiniteSubsetsOf(S) /\ T # {}
  BY <1>1
<1>3. IsWellFoundedOn(StrictSubsetOrdering(S), FiniteSubsetsOf(S))
  BY FS_StrictSubsetOrderingWellFounded
<1> HIDE DEF T
<1>4. PICK t \in T : \A u \in T : <<u, t>> \notin StrictSubsetOrdering(S)
  BY <1>2, <1>3, WFMin
<1>5. PICK x \in S : t = Low(x)
  BY DEF T
<1>6. \A y \in S : x <= y
  <2> SUFFICES ASSUME NEW y \in S, y < x PROVE FALSE
    OBVIOUS
  <2>1. Low(y) \in T
    BY DEF T
  <2>2. Low(y) \subseteq Low(x) /\ Low(y) # Low(x)
    <3>1. \A z \in S : z <= y => z <= x
      OBVIOUS
    <3>2. x \in Low(x) /\ x \notin Low(y)
      OBVIOUS
    <3>3. QED BY <3>1, <3>2
  <2>3. <<Low(y), Low(x)>> \in StrictSubsetOrdering(S)
    BY <2>2 DEF StrictSubsetOrdering
  <2>4. QED BY <1>4, <1>5, <2>1, <2>3
<1>7. QED BY <1>6 DEF Min

\* The width and the blocks of a row.
LEMMA Widths ==
  /\ IF_WIDTH \in Nat /\ IF_WIDTH > 1 /\ ROW_BLOCKS \in Nat /\ ROW_BLOCKS > 0
  /\ 3 * ROW_BLOCKS > IF_WIDTH /\ 3 * (ROW_BLOCKS - 1) <= IF_WIDTH
  /\ Columns = 0 .. IF_WIDTH - 1 /\ Rows = 0 .. IF_WIDTH - 1
  /\ Slots = 0 .. ROW_BLOCKS - 1
  BY DenseAssumption DEF ROW_BLOCKS, KERNEL_WIDTH, Columns, Rows, Slots

\* How many columns of a row come before one of them.
LEMMA ColumnsBefore ==
  ASSUME NEW S \in SUBSET Columns, NEW a \in S
  PROVE  /\ IsFiniteSet(S) /\ Cardinality(S) \in 1 .. IF_WIDTH
         /\ Cardinality({c \in S : c < a}) \in 0 .. Cardinality(S) - 1
         /\ Cardinality({c \in S : c < a}) = Cardinality(S) - 1 <=> \A c \in S : ~(c > a)
         /\ \A b \in S : b < a => Cardinality({c \in S : c < b}) < Cardinality({c \in S : c < a})
<1> DEFINE low(b) == {c \in S : c < b}
<1>1. \A c \in S : c \in Int
  BY Widths
<1>2. IsFiniteSet(Columns) /\ Cardinality(Columns) = IF_WIDTH
  <2>1. 0 \in Int /\ IF_WIDTH - 1 \in Int /\ IF_WIDTH \in Int /\ IF_WIDTH > 1
    BY Widths
  <2>2. IsFiniteSet(0 .. IF_WIDTH - 1)
        /\ Cardinality(0 .. IF_WIDTH - 1) = IF 0 > IF_WIDTH - 1 THEN 0 ELSE ((IF_WIDTH - 1) - 0) + 1
    BY <2>1, FS_Interval
  <2>3. Cardinality(0 .. IF_WIDTH - 1) = IF_WIDTH
    BY <2>1, <2>2
  <2>4. QED BY <2>2, <2>3, Widths
<1>3. IsFiniteSet(S) /\ Cardinality(S) <= IF_WIDTH
  BY <1>2, FS_Subset
<1>4. Cardinality(S) \in Nat /\ Cardinality(S) # 0
  BY <1>3, FS_CardinalityType, FS_EmptySet
<1>5. \A b \in S : IsFiniteSet(low(b)) /\ Cardinality(low(b)) \in Nat
  BY <1>3, FS_Subset, FS_CardinalityType
<1>6. \A b \in S : /\ b \notin low(b)
                   /\ IsFiniteSet(low(b) \cup {b})
                   /\ Cardinality(low(b) \cup {b}) = Cardinality(low(b)) + 1
                   /\ low(b) \cup {b} \in SUBSET S
  <2> SUFFICES ASSUME NEW b \in S
               PROVE  /\ b \notin low(b)
                      /\ IsFiniteSet(low(b) \cup {b})
                      /\ Cardinality(low(b) \cup {b}) = Cardinality(low(b)) + 1
                      /\ low(b) \cup {b} \in SUBSET S
    OBVIOUS
  <2>1. b \notin low(b) /\ low(b) \cup {b} \in SUBSET S
    BY <1>1
  <2>2. IsFiniteSet(low(b))
    BY <1>5
  <2> HIDE DEF low
  <2>3. QED BY <2>1, <2>2, FS_AddElement
<1>7. \A T \in SUBSET S : Cardinality(T) <= Cardinality(S)
                          /\ (Cardinality(T) = Cardinality(S) => T = S)
  BY <1>3, FS_Subset
<1>8. (\A c \in S : ~(c > a)) <=> S = low(a) \cup {a}
  <2>1. \A c \in S : c \in low(a) \cup {a} <=> ~(c > a)
    <3>1. \A c \in S : ~(c > a) <=> c < a \/ c = a
      BY <1>1
    <3>2. QED BY <3>1
  <2>2. low(a) \cup {a} \in SUBSET S
    BY <1>6
  <2> HIDE DEF low
  <2>3. QED BY <2>1, <2>2
<1>9. ASSUME NEW b \in S, b < a
      PROVE  Cardinality(low(b) \cup {b}) <= Cardinality(low(a))
  <2>1. \A c \in S : c < b => c < a
    BY <1>1, <1>9
  <2>2. low(b) \cup {b} \in SUBSET low(a)
    BY <1>9, <2>1
  <2>3. IsFiniteSet(low(a))
    BY <1>5
  <2> HIDE DEF low
  <2>4. QED BY <2>2, <2>3, FS_Subset
<1> HIDE DEF low
<1>10. /\ Cardinality(low(a)) \in Nat
       /\ Cardinality(low(a) \cup {a}) = Cardinality(low(a)) + 1
       /\ Cardinality(low(a) \cup {a}) <= Cardinality(S)
       /\ Cardinality(low(a) \cup {a}) = Cardinality(S) <=> S = low(a) \cup {a}
  BY <1>5, <1>6, <1>7
<1>11. /\ Cardinality(low(a)) \in 0 .. Cardinality(S) - 1
       /\ Cardinality(S) \in 1 .. IF_WIDTH
       /\ Cardinality(low(a)) = Cardinality(S) - 1 <=> \A c \in S : ~(c > a)
  <2>1. /\ Cardinality(low(a)) \in 0 .. Cardinality(S) - 1
        /\ Cardinality(S) \in 1 .. IF_WIDTH
    BY <1>3, <1>4, <1>10, Widths
  <2>2. Cardinality(low(a)) = Cardinality(S) - 1 <=> Cardinality(low(a) \cup {a}) = Cardinality(S)
    BY <1>4, <1>10
  <2>3. QED BY <1>8, <1>10, <2>1, <2>2
<1>12. \A b \in S : b < a => Cardinality(low(b)) < Cardinality(low(a))
  <2>1. \A b \in S : Cardinality(low(b)) \in Nat
                     /\ Cardinality(low(b) \cup {b}) = Cardinality(low(b)) + 1
    BY <1>5, <1>6
  <2>2. ASSUME NEW b \in S, b < a PROVE Cardinality(low(b)) < Cardinality(low(a))
    <3>1. Cardinality(low(b) \cup {b}) <= Cardinality(low(a))
      BY <1>9, <2>2
    <3>2. Cardinality(low(b)) \in Nat /\ Cardinality(low(b) \cup {b}) = Cardinality(low(b)) + 1
      BY <2>1
    <3>3. Cardinality(low(a)) \in Nat
      BY <1>10
    <3>4. QED BY <3>1, <3>2, <3>3
  <2>3. QED BY <2>2
<1>13. QED BY <1>3, <1>11, <1>12 DEF low

\* The column that has so many before it.
LEMMA ColumnIsTheOne ==
  ASSUME NEW S \in SUBSET Columns, NEW a \in S
  PROVE  (CHOOSE x \in S : Cardinality({y \in S : y < x}) = Cardinality({c \in S : c < a})) = a
<1> DEFINE n(x) == Cardinality({y \in S : y < x})
<1>1. \A x \in S : x \in Int
  BY Widths
<1>2. \A x \in S : n(x) \in Int
  <2>1. \A x \in S : n(x) \in 0 .. Cardinality(S) - 1
    BY ColumnsBefore
  <2> HIDE DEF n
  <2>2. QED BY <2>1
<1>3. \A x, y \in S : y < x => n(y) < n(x)
  BY ColumnsBefore
<1> HIDE DEF n
<1>4. \A x \in S : n(x) = n(a) => x = a
  BY <1>1, <1>2, <1>3
<1>5. (CHOOSE x \in S : n(x) = n(a)) = a
  BY <1>4
<1>6. QED BY <1>5 DEF n

\* The first column of a row.
LEMMA FirstColumn ==
  ASSUME NEW S \in SUBSET Columns, S # {}
  PROVE  /\ Min(S) \in S /\ \A c \in S : Min(S) <= c
         /\ Min(S) % IF_WIDTH = Min(S)
         /\ Cardinality({c \in S : c < Min(S)}) = 0
<1>1. S \in SUBSET Nat
  BY Widths
<1>2. Min(S) \in S /\ \A c \in S : Min(S) <= c
  BY <1>1, MinOfNaturals
<1> DEFINE n == Min(S)
<1> HIDE DEF n
<1>3. n \in S /\ \A c \in S : n <= c
  BY <1>2 DEF n
<1>4. n % IF_WIDTH = n
  <2>1. n \in 0 .. IF_WIDTH - 1
    BY <1>3, Widths
  <2>2. QED BY <2>1, Widths
<1>5. \A c \in S : ~(c < n)
  <2>1. \A c \in S : c \in Int
    BY Widths
  <2>2. QED BY <1>3, <2>1
<1>6. {c \in S : c < n} = {}
  BY <1>5
<1>7. QED BY <1>3, <1>4, <1>6, FS_EmptySet DEF n

\* What is left of a row, or of the flags of a row, when one of its members and
\* those below are shifted out.
Left(S, a) == {c - a - 1 : c \in {d \in S : d > a}}

\* The columns of a row ahead of one.
Ahead(S, a) == Cardinality({c \in S : c < a})

\* The next column of a row, by what is left of the row.
LEMMA NextColumn ==
  ASSUME NEW S \in SUBSET Columns, NEW a \in S,
         NEW R, R = Left(S, a), R # {}
  PROVE  \E n \in Nat, b \in S :
           /\ n = Min(R) /\ b = a + 1 + n
           /\ n % IF_WIDTH = n /\ (a + 1) % IF_WIDTH = a + 1 /\ b % IF_WIDTH = b
           /\ \A c \in S : c > a => b <= c
           /\ Ahead(S, b) = Ahead(S, a) + 1
           /\ Left(R, n) = Left(S, b)
<1> DEFINE n == Min(R)
           b == a + 1 + n
<1> USE DEF Left
<1>1. a \in Nat /\ a < IF_WIDTH /\ \A c \in S : c \in Nat /\ c < IF_WIDTH
  <2>1. \A c \in S : c \in 0 .. IF_WIDTH - 1
    BY Widths
  <2>2. QED BY <2>1, Widths
<1>2. R \in SUBSET Nat
  BY <1>1
<1>3. n \in R /\ \A f \in R : n <= f
  BY <1>2, MinOfNaturals
<1> HIDE DEF n
<1>4. PICK c \in S : c > a /\ n = c - a - 1
  BY <1>3
<1>5. b = c /\ b \in S /\ n \in Nat /\ b \in Nat /\ b > a
  BY <1>1, <1>4
<1>6. /\ n < IF_WIDTH /\ a + 1 < IF_WIDTH /\ b < IF_WIDTH
  <2>1. IF_WIDTH \in Nat /\ c \in Nat /\ c < IF_WIDTH
    BY <1>1, Widths
  <2>2. QED BY <1>1, <1>4, <1>5, <2>1
<1>7. \A i \in Nat : i < IF_WIDTH => i % IF_WIDTH = i
  BY Widths
<1>8. /\ n % IF_WIDTH = n /\ (a + 1) % IF_WIDTH = a + 1 /\ b % IF_WIDTH = b
  <2>1. a + 1 \in Nat
    BY <1>1
  <2>2. QED BY <1>5, <1>6, <1>7, <2>1
<1>9. \A e \in S : e > a => b <= e
  <2> SUFFICES ASSUME NEW e \in S, e > a PROVE b <= e
    OBVIOUS
  <2>1. e - a - 1 \in R
    OBVIOUS
  <2>2. n <= e - a - 1 /\ e \in Nat
    BY <1>1, <1>3, <2>1
  <2>3. QED BY <1>1, <1>5, <2>2
<1>10. Cardinality({e \in S : e < b}) = Cardinality({e \in S : e < a}) + 1
  <2> HIDE DEF b
  <2>1. \A e \in S : e < b <=> e < a \/ e = a
    BY <1>1, <1>5, <1>9
  <2>2. {e \in S : e < b} = {e \in S : e < a} \cup {a}
    BY <2>1
  <2>3. IsFiniteSet(S)
    BY ColumnsBefore
  <2>4. {e \in S : e < a} \in SUBSET S /\ a \notin {e \in S : e < a}
    BY <1>1
  <2>5. IsFiniteSet({e \in S : e < a})
    BY <2>3, <2>4, FS_Subset
  <2>6. QED BY <2>2, <2>4, <2>5, FS_AddElement
<1>11. {f - n - 1 : f \in {g \in R : g > n}} = {e - b - 1 : e \in {d \in S : d > b}}
  <2>1. ASSUME NEW f \in R, f > n
        PROVE  \E e \in S : e > b /\ f - n - 1 = e - b - 1
    <3>1. PICK e \in S : e > a /\ f = e - a - 1
      OBVIOUS
    <3>2. e \in Nat
      BY <1>1
    <3>3. e > b /\ f - n - 1 = e - b - 1
      BY <1>1, <1>5, <2>1, <3>1, <3>2
    <3>4. QED BY <3>3
  <2>2. ASSUME NEW e \in S, e > b
        PROVE  \E f \in R : f > n /\ f - n - 1 = e - b - 1
    <3>1. e \in Nat
      BY <1>1
    <3>2. e > a
      BY <1>1, <1>5, <2>2, <3>1
    <3>3. e - a - 1 \in R
      BY <3>2
    <3>4. e - a - 1 > n /\ (e - a - 1) - n - 1 = e - b - 1
      BY <1>1, <1>5, <2>2, <3>1
    <3>5. QED BY <3>3, <3>4
  <2> HIDE DEF b
  <2>3. QED BY <2>1, <2>2
<1>12. /\ n = Min(R) /\ b = a + 1 + n
       /\ Left(R, n) = Left(S, b) /\ Ahead(S, b) = Ahead(S, a) + 1
  BY <1>10, <1>11 DEF n, Ahead
<1> HIDE DEF b, Left
<1>13. QED BY <1>5, <1>8, <1>9, <1>12

-----------------------------------------------------------------------------
(* The flags of a row. *)

row == row_index_signed

\* The columns of a row; past the picture there are none.
ColumnsOf(r) == IF r \in Rows THEN picture[r] ELSE {}

\* The flags of a row, as ram_flag shows them.
RowFlags(r) ==
  [p \in Places |-> IF p \div KERNEL_WIDTH = r % KERNEL_WIDTH
                      THEN {s \in Slots : KERNEL_WIDTH * s + (p % KERNEL_WIDTH) \in ColumnsOf(r)}
                      ELSE {}]

\* A number of a block, split.
LEMMA Quotient ==
  ASSUME NEW n \in Nat \ {0}, NEW q \in Nat, NEW s \in 0 .. n - 1
  PROVE  (n * q + s) \div n = q /\ (n * q + s) % n = s
<1> DEFINE v == n * q + s
           d == v \div n
           e == v % n
<1>1. n * q \in Nat
  OBVIOUS
<1>2. v \in Int
  BY <1>1
<1> HIDE DEF v
<1>3. d \in Int /\ v = n * d + e /\ e \in Int /\ 0 <= e /\ e < n
  BY <1>2
<1> HIDE DEF d, e
<1>4. n * q + s = n * d + e
  BY <1>3 DEF v
<1>5. n * (q - d) = n * q - n * d
  BY <1>3
<1>6. n * (q - d) = e - s
  <2>1. n * q \in Int /\ n * d \in Int /\ e \in Int /\ s \in Int
    BY <1>1, <1>3
  <2>2. n * q - n * d = e - s
    BY <1>4, <2>1
  <2>3. QED BY <1>5, <2>2
<1>7. q - d = 0
  <2>1. q - d >= 1 => n * (q - d) >= n
    BY <1>3
  <2>2. q - d <= -1 => n * (q - d) <= -n
    BY <1>3
  <2>3. q - d \in Int
    BY <1>3
  <2>4. QED BY <1>3, <1>6, <2>1, <2>2, <2>3
<1>8. q = d /\ s = e
  BY <1>3, <1>4, <1>7
<1>9. QED BY <1>8 DEF d, e, v

\* A place of a block is a row and a column of it.
LEMMA PlaceOf ==
  ASSUME NEW i \in 0 .. 2, NEW j \in 0 .. 2
  PROVE  /\ 3 * i + j \in Places
         /\ (3 * i + j) \div 3 = i /\ (3 * i + j) % 3 = j
  BY Sizes

\* The flags that are read from the block a row lies in, at the shift of the row,
\* are those of the row.
LEMMA FlagsAreRow ==
  ASSUME picture \in [Rows -> SUBSET Columns], NEW r \in Nat,
         rd_addr_pflag = ROW_BLOCKS * (r \div 3)
  PROVE  [p \in Places |-> IF p \div KERNEL_WIDTH = r % 3
                             THEN {s \in Slots : FlagOf(rd_addr_pflag + s, p)} ELSE {}]
           = RowFlags(r)
<1>1. r \div 3 \in Nat
  OBVIOUS
<1>2. ASSUME NEW s \in Slots
      PROVE  /\ (rd_addr_pflag + s) \div ROW_BLOCKS = r \div 3
             /\ (rd_addr_pflag + s) % ROW_BLOCKS = s
  <2>1. s \in 0 .. ROW_BLOCKS - 1 /\ ROW_BLOCKS \in Nat \ {0}
    BY Widths
  <2>2. QED BY <1>1, <2>1, Quotient
<1>3. ASSUME NEW p \in Places, p \div 3 = r % 3, NEW s \in Slots
      PROVE  FlagOf(rd_addr_pflag + s, p) <=> 3 * s + (p % 3) \in ColumnsOf(r)
  <2>1. 3 * (r \div 3) + p \div 3 = r
    BY <1>3
  <2>2. FlagOf(rd_addr_pflag + s, p) <=>
          /\ 3 * (r \div 3) + p \div 3 \in Rows
          /\ 3 * s + (p % 3) \in picture[3 * (r \div 3) + p \div 3]
    BY <1>2, Sizes DEF FlagOf
  <2>3. QED BY <2>1, <2>2 DEF ColumnsOf
<1>4. ASSUME NEW p \in Places, p \div 3 = r % 3
      PROVE  {s \in Slots : FlagOf(rd_addr_pflag + s, p)}
               = {s \in Slots : 3 * s + (p % 3) \in ColumnsOf(r)}
  BY <1>3, <1>4
<1>5. QED BY <1>4, Sizes DEF RowFlags

\* Put in the order of the columns they are the columns of the row.
LEMMA RowIsSeen ==
  ASSUME picture \in [Rows -> SUBSET Columns], NEW r \in Nat,
         rd_act_flag_s = RowFlags(r), shift_pflag_d = r % 3
  PROVE  row_act_flag = ColumnsOf(r)
<1>1. ColumnsOf(r) \subseteq 0 .. 3 * ROW_BLOCKS - 1
  <2>1. ColumnsOf(r) \subseteq 0 .. IF_WIDTH - 1
    BY Widths DEF ColumnsOf
  <2>2. \A c \in 0 .. IF_WIDTH - 1 : c \in 0 .. 3 * ROW_BLOCKS - 1
    BY Widths
  <2>3. QED BY <2>1, <2>2
<1>2. ASSUME NEW f \in 0 .. 3 * ROW_BLOCKS - 1
      PROVE  f \div 3 \in rd_act_flag_s[3 * shift_pflag_d + (f % 3)] <=> f \in ColumnsOf(r)
  <2> DEFINE p == 3 * (r % 3) + (f % 3)
  <2>1. f \in Nat /\ f < 3 * ROW_BLOCKS
    BY Widths
  <2>2. f % 3 \in 0 .. 2 /\ r % 3 \in 0 .. 2 /\ 3 * (f \div 3) + (f % 3) = f
    BY <2>1
  <2>3. p \in Places /\ p \div 3 = r % 3 /\ p % 3 = f % 3
    BY <2>2, PlaceOf
  <2>4. f \div 3 \in Slots
    <3>1. f \div 3 \in Int /\ 0 <= f \div 3 /\ f \div 3 < ROW_BLOCKS
      BY <2>1, Widths
    <3>2. QED BY <3>1, Widths
  <2> HIDE DEF p
  <2>5. rd_act_flag_s[p] = {s \in Slots : 3 * s + (p % 3) \in ColumnsOf(r)}
    BY <2>3, Sizes DEF RowFlags
  <2>6. f \div 3 \in rd_act_flag_s[p] <=> 3 * (f \div 3) + (p % 3) \in ColumnsOf(r)
    BY <2>4, <2>5
  <2>7. QED BY <2>2, <2>3, <2>6 DEF p
<1>3. row_act_flag = {f \in 0 .. 3 * ROW_BLOCKS - 1 : f \in ColumnsOf(r)}
  BY <1>2, Sizes DEF row_act_flag
<1>4. QED BY <1>1, <1>3

-----------------------------------------------------------------------------
(* The memories of the places. *)

\* Per place, the activations that come before a cell of the picture.
Passed(r, c) == [p \in Places |-> Cardinality({x \in AtPlace(p) : Before(x, <<r, c>>)})]

\* The activations of a place.
LEMMA AtPlaceIs ==
  ASSUME picture \in [Rows -> SUBSET Columns], NEW p \in Places
  PROVE  /\ AtPlace(p) = {x \in Rows \X Columns : /\ x[1] % 3 = p \div 3 /\ x[2] % 3 = p % 3
                                                  /\ x[2] \in picture[x[1]]}
         /\ IsFiniteSet(AtPlace(p))
<1>1. AtPlace(p) = {x \in Rows \X Columns : /\ x[1] % 3 = p \div 3 /\ x[2] % 3 = p % 3
                                            /\ x[2] \in picture[x[1]]}
  BY Sizes DEF AtPlace, Cells
<1>2. IsFiniteSet(Rows) /\ IsFiniteSet(Columns)
  <2>1. 0 \in Int /\ IF_WIDTH - 1 \in Int
    BY Widths
  <2>2. IsFiniteSet(0 .. IF_WIDTH - 1)
    BY <2>1, FS_Interval
  <2>3. QED BY <2>2, Widths
<1>3. IsFiniteSet(Rows \X Columns)
  BY <1>2, FS_Product
<1>4. AtPlace(p) \in SUBSET (Rows \X Columns)
  BY <1>1
<1>5. QED BY <1>1, <1>3, <1>4, FS_Subset

\* The order of the cells.
LEMMA CellOrder ==
  \A x, y, z \in Rows \X Columns :
    /\ ~Before(x, x)
    /\ Before(x, y) /\ Before(y, z) => Before(x, z)
    /\ x = y \/ Before(x, y) \/ Before(y, x)
<1> SUFFICES ASSUME NEW x \in Rows \X Columns, NEW y \in Rows \X Columns,
                    NEW z \in Rows \X Columns
             PROVE  /\ ~Before(x, x)
                    /\ Before(x, y) /\ Before(y, z) => Before(x, z)
                    /\ x = y \/ Before(x, y) \/ Before(y, x)
  OBVIOUS
<1>1. /\ x[1] \in Int /\ x[2] \in Int /\ y[1] \in Int /\ y[2] \in Int
      /\ z[1] \in Int /\ z[2] \in Int
      /\ x = <<x[1], x[2]>> /\ y = <<y[1], y[2]>>
  BY Widths
<1>2. QED BY <1>1 DEF Before

\* The memory of a place holds an activation behind those that come before it.
LEMMA StoredIsIt ==
  ASSUME picture \in [Rows -> SUBSET Columns], NEW p \in Places, NEW x \in AtPlace(p)
  PROVE  Stored(p, Cardinality({y \in AtPlace(p) : Before(y, x)})) = x
<1> DEFINE low(z) == {y \in AtPlace(p) : Before(y, z)}
           n(z) == Cardinality(low(z))
<1>1. AtPlace(p) \subseteq Rows \X Columns /\ IsFiniteSet(AtPlace(p))
  BY AtPlaceIs
<1>2. \A z \in AtPlace(p) : IsFiniteSet(low(z)) /\ n(z) \in Nat
  <2>1. \A z \in AtPlace(p) : low(z) \in SUBSET AtPlace(p)
    OBVIOUS
  <2> HIDE DEF low
  <2>2. QED BY <1>1, <2>1, FS_Subset, FS_CardinalityType
<1>3. ASSUME NEW y \in AtPlace(p), NEW z \in AtPlace(p), Before(y, z)
      PROVE  n(y) < n(z)
  <2>1. low(y) \cup {y} \in SUBSET low(z) /\ y \notin low(y)
    BY <1>1, <1>3, CellOrder
  <2> HIDE DEF low
  <2>2. IsFiniteSet(low(y)) /\ Cardinality(low(y)) \in Nat
        /\ IsFiniteSet(low(z)) /\ Cardinality(low(z)) \in Nat
    BY <1>2
  <2>3. Cardinality(low(y) \cup {y}) = Cardinality(low(y)) + 1
    BY <2>1, <2>2, FS_AddElement
  <2>4. Cardinality(low(y) \cup {y}) <= Cardinality(low(z))
    BY <2>1, <2>2, FS_Subset
  <2>5. QED BY <2>2, <2>3, <2>4
<1>4. \A z \in AtPlace(p) : n(z) = n(x) => z = x
  <2> SUFFICES ASSUME NEW z \in AtPlace(p), n(z) = n(x), z # x PROVE FALSE
    OBVIOUS
  <2>1. Before(z, x) \/ Before(x, z)
    BY <1>1, CellOrder
  <2>2. n(z) \in Nat /\ n(x) \in Nat
    BY <1>2
  <2>3. n(z) < n(x) \/ n(x) < n(z)
    BY <1>3, <2>1
  <2> HIDE DEF n
  <2>4. QED BY <2>2, <2>3
<1> DEFINE at == {z \in AtPlace(p) : n(z) = n(x)}
<1>5. at = {x}
  <2> HIDE DEF n
  <2>1. QED BY <1>4
<1>6. Stored(p, n(x)) = IF at = {} THEN NoActivation ELSE CHOOSE z \in at : TRUE
  BY DEF Stored
<1> HIDE DEF at, n
<1>7. Stored(p, n(x)) = x
  BY <1>5, <1>6
<1>8. QED BY <1>7 DEF n

\* From one activation of a row to the next: the memory of its place shows it, and
\* the address of that place moves on.
LEMMA PassedGoes ==
  ASSUME picture \in [Rows -> SUBSET Columns], NEW r \in Rows, NEW d \in picture[r],
         NEW c \in Nat, c <= d, \A e \in picture[r] : c <= e => d <= e,
         NEW q, q = 3 * (r % 3) + (d % 3)
  PROVE  /\ q \in Places
         /\ Stored(q, Passed(r, c)[q]) = <<r, d>>
         /\ Passed(r, d + 1) = [Passed(r, c) EXCEPT ![q] = @ + 1]
<1>1. r \in Nat /\ d \in Nat /\ d \in Columns
  BY Widths
<1>2. q \in Places /\ q \div 3 = r % 3 /\ q % 3 = d % 3
  <2>1. r % 3 \in 0 .. 2 /\ d % 3 \in 0 .. 2
    BY <1>1
  <2>2. QED BY <2>1, PlaceOf
<1>3. <<r, d>> \in AtPlace(q)
  BY <1>1, <1>2, AtPlaceIs
<1>4. \A p \in Places : <<r, d>> \in AtPlace(p) => p = q
  <2> SUFFICES ASSUME NEW p \in Places, <<r, d>> \in AtPlace(p) PROVE p = q
    OBVIOUS
  <2>1. r % 3 = p \div 3 /\ d % 3 = p % 3
    BY AtPlaceIs
  <2>2. \A i \in 0 .. 8 : i = 3 * (i \div 3) + (i % 3)
    OBVIOUS
  <2>3. p = 3 * (p \div 3) + (p % 3) /\ q = 3 * (q \div 3) + (q % 3)
    BY <1>2, <2>2, Sizes
  <2>4. QED BY <1>2, <2>1, <2>3
<1> DEFINE low(p, e) == {x \in AtPlace(p) : Before(x, <<r, e>>)}
<1>5. ASSUME NEW p \in Places
      PROVE  low(p, c) = low(p, d)
  <2>1. ASSUME NEW x \in AtPlace(p)
        PROVE  Before(x, <<r, c>>) <=> Before(x, <<r, d>>)
    <3>1. x[1] \in Int /\ x[2] \in Int /\ x[2] \in picture[x[1]]
      BY AtPlaceIs, Widths
    <3>2. x[1] = r /\ c <= x[2] => d <= x[2]
      BY <3>1
    <3>3. QED BY <1>1, <3>1, <3>2 DEF Before
  <2>2. QED BY <2>1
<1>6. ASSUME NEW p \in Places
      PROVE  low(p, d + 1) = low(p, d) \cup (IF p = q THEN {<<r, d>>} ELSE {})
  <2>1. ASSUME NEW x \in AtPlace(p)
        PROVE  Before(x, <<r, d + 1>>) <=> Before(x, <<r, d>>) \/ x = <<r, d>>
    <3>1. x[1] \in Int /\ x[2] \in Int /\ x = <<x[1], x[2]>>
      BY AtPlaceIs, Widths
    <3>2. QED BY <1>1, <3>1 DEF Before
  <2>2. CASE p = q
    BY <1>3, <2>1, <2>2
  <2>3. CASE p # q
    <3>1. <<r, d>> \notin AtPlace(p)
      BY <1>4, <2>3
    <3>2. QED BY <2>1, <2>3, <3>1
  <2>4. QED BY <2>2, <2>3
<1>7. ASSUME NEW p \in Places
      PROVE  IsFiniteSet(low(p, d)) /\ <<r, d>> \notin low(p, d)
  <2>1. low(p, d) \in SUBSET AtPlace(p)
    OBVIOUS
  <2>2. <<r, d>> \notin low(p, d)
    BY <1>1 DEF Before
  <2>3. IsFiniteSet(AtPlace(p))
    BY AtPlaceIs
  <2>4. QED BY <2>1, <2>2, <2>3, FS_Subset
<1>8. Passed(r, c)[q] = Cardinality({x \in AtPlace(q) : Before(x, <<r, d>>)})
  BY <1>2, <1>5 DEF Passed
<1>9. Stored(q, Passed(r, c)[q]) = <<r, d>>
  BY <1>2, <1>3, <1>8, StoredIsIt
<1> HIDE DEF low
<1>10. \A p \in Places : Passed(r, c)[p] = Cardinality(low(p, d))
                         /\ Passed(r, d + 1)[p] = Cardinality(low(p, d + 1))
  BY <1>5 DEF Passed, low
<1>11. ASSUME NEW p \in Places
       PROVE  Passed(r, d + 1)[p] = IF p = q THEN Passed(r, c)[p] + 1 ELSE Passed(r, c)[p]
  <2>1. CASE p = q
    <3>1. low(p, d + 1) = low(p, d) \cup {<<r, d>>}
      BY <1>6, <2>1
    <3>2. Cardinality(low(p, d + 1)) = Cardinality(low(p, d)) + 1
      BY <1>7, <3>1, FS_AddElement
    <3>3. QED BY <1>10, <2>1, <3>2
  <2>2. CASE p # q
    <3>1. low(p, d + 1) = low(p, d)
      BY <1>6, <2>2
    <3>2. QED BY <1>10, <2>2, <3>1
  <2>3. QED BY <2>1, <2>2
<1>12. Passed(r, d + 1) = [Passed(r, c) EXCEPT ![q] = @ + 1]
  <2>1. Passed(r, d + 1) = [p \in Places |-> Passed(r, d + 1)[p]]
        /\ Passed(r, c) = [p \in Places |-> Passed(r, c)[p]]
    BY DEF Passed
  <2>2. QED BY <1>2, <1>11, <2>1
<1>13. QED BY <1>2, <1>9, <1>12

\* Behind the last activation of a row the next row begins.
LEMMA PassedRow ==
  ASSUME picture \in [Rows -> SUBSET Columns], NEW r \in Rows,
         NEW c \in Nat, \A e \in picture[r] : e < c
  PROVE  Passed(r, c) = Passed(r + 1, 0)
<1>1. ASSUME NEW p \in Places
      PROVE  {x \in AtPlace(p) : Before(x, <<r, c>>)}
               = {x \in AtPlace(p) : Before(x, <<r + 1, 0>>)}
  <2>1. ASSUME NEW x \in AtPlace(p)
        PROVE  Before(x, <<r, c>>) <=> Before(x, <<r + 1, 0>>)
    <3>1. x[1] \in Int /\ x[2] \in Int /\ x[2] >= 0 /\ x[2] \in picture[x[1]] /\ r \in Int
      BY AtPlaceIs, Widths
    <3>2. x[1] = r => x[2] < c
      BY <3>1
    <3>3. QED BY <3>1, <3>2 DEF Before
  <2>2. QED BY <2>1
<1>2. QED BY <1>1 DEF Passed

\* Nothing comes before the first cell, and no place holds more than its memory.
LEMMA PassedBounds ==
  ASSUME picture \in [Rows -> SUBSET Columns]
  PROVE  /\ Passed(0, 0) = [p \in Places |-> 0]
         /\ \A r, c \in Int : \A p \in Places :
              Passed(r, c)[p] \in 0 .. Cardinality(AtPlace(p))
<1>1. ASSUME NEW p \in Places
      PROVE  {x \in AtPlace(p) : Before(x, <<0, 0>>)} = {}
  <2>1. ASSUME NEW x \in AtPlace(p) PROVE ~Before(x, <<0, 0>>)
    <3>1. x[1] \in Int /\ x[2] \in Int /\ x[1] >= 0 /\ x[2] >= 0
      BY AtPlaceIs, Widths
    <3>2. QED BY <3>1 DEF Before
  <2>2. QED BY <2>1
<1>2. Passed(0, 0) = [p \in Places |-> 0]
  BY <1>1, FS_EmptySet DEF Passed
<1>3. ASSUME NEW r \in Int, NEW c \in Int, NEW p \in Places
      PROVE  Passed(r, c)[p] \in 0 .. Cardinality(AtPlace(p))
  <2> DEFINE low == {x \in AtPlace(p) : Before(x, <<r, c>>)}
  <2>1. low \in SUBSET AtPlace(p) /\ Passed(r, c)[p] = Cardinality(low)
    BY DEF Passed
  <2>2. IsFiniteSet(AtPlace(p))
    BY AtPlaceIs
  <2> HIDE DEF low
  <2>3. Cardinality(low) \in Nat /\ Cardinality(AtPlace(p)) \in Nat
        /\ Cardinality(low) <= Cardinality(AtPlace(p))
    BY <2>1, <2>2, FS_Subset, FS_CardinalityType
  <2>4. QED BY <2>1, <2>3
<1>4. QED BY <1>2, <1>3

-----------------------------------------------------------------------------
(* The rows. *)

\* The pictures whose rows the controller can serve.  The column counter goes on
\* from row to row, so it is at 0 again only behind the last column; a full row is
\* taken for an empty one; and where the next row lies in other blocks, its flags
\* are there two clocks later.
ServedRows ==
  \A pic \in Pictures, r \in Rows :
    /\ pic[r] # {} => IF_WIDTH - 1 \in pic[r] /\ pic[r] # Columns
    /\ r % KERNEL_WIDTH = 2 => Cardinality(pic[r]) >= 2

\* What holds of the rows in every state.
RowTypes ==
  /\ row_val_num_a \in 0 .. IF_WIDTH
  /\ valid_act_index_d \in Columns
  /\ rd_data = [p \in Places |-> rd_data[p]]
  /\ m = 8 => row = 0

\* Before the rows are started.
PrepInv ==
  state = "PREP" =>
    /\ row = -1 /\ row_index_count = 0 /\ rd_addr_pflag = 0
    /\ shift_pflag = 0 /\ shift_pflag_d = 0
    /\ row_act_flag_reg = {} /\ valid_act_index_reg = 0 /\ clocks = 0
    /\ rd_addr = Passed(0, 0)
    /\ flag_stream_wei => rd_act_flag_s = RowFlags(0)

\* The row and what is counted by it.
CountInv ==
  state # "PREP" =>
    /\ row \in Rows
    /\ row_index_count = IF row = 0 THEN 0 ELSE ((row - 1) % KERNEL_WIDTH) + 1
    /\ shift_pflag = (row + 1) % KERNEL_WIDTH

\* On the clock between two rows the flags of the next one are all to be scanned.
WaitInv ==
  state = "WAIT" =>
    /\ shift_pflag_d = row % KERNEL_WIDTH /\ rd_act_flag_s = RowFlags(row)
    /\ rd_addr_pflag = ROW_BLOCKS * (row \div KERNEL_WIDTH)
    /\ row_act_flag_reg = picture[row] /\ valid_act_index_reg = 0 /\ clocks = 0
    /\ rd_addr = Passed(row, 0)

\* While a row is shown the flags of the next one are read, and what is still to be
\* scanned lies behind the column shown.
CompInv ==
  state = "COMP" =>
    /\ shift_pflag_d = (row + 1) % KERNEL_WIDTH
    /\ rd_act_flag_s = RowFlags(row + 1) \/ (clocks = 0 /\ row % KERNEL_WIDTH = 2)
    /\ rd_addr_pflag = ROW_BLOCKS * ((row + 1) \div KERNEL_WIDTH)
    /\ row_val_num_a = Cardinality(picture[row])
    /\ picture[row] = {} =>
         /\ row_act_flag_reg = {} /\ valid_act_index_reg = 0 /\ clocks = 0
         /\ rd_addr = Passed(row, 0)
    /\ picture[row] # {} =>
         /\ act_index \in picture[row]
         /\ clocks = Cardinality({c \in picture[row] : c < act_index})
         /\ valid_act_index_reg = (act_index + 1) % IF_WIDTH
         /\ row_act_flag_reg = Left(picture[row], act_index)
         /\ column_parallel_index = KERNEL_WIDTH * (row % KERNEL_WIDTH)
                                      + (act_index % KERNEL_WIDTH)
         /\ rd_data[column_parallel_index] = <<row, act_index>>
         /\ rd_addr = Passed(row, act_index + 1)

RowsInv == RowTypes /\ PrepInv /\ CountInv /\ WaitInv /\ CompInv

\* The pictures are pictures.
LEMMA PictureType ==
  ASSUME KernelInv
  PROVE  /\ picture \in [Rows -> SUBSET Columns] /\ picture \in Pictures
         /\ \A r \in Rows : picture[r] \in SUBSET Columns /\ ColumnsOf(r) = picture[r]
<1>1. picture \in Pictures
  BY DEF KernelInv, SerialInv
<1>2. picture \in [Rows -> SUBSET Columns]
  BY <1>1, DenseAssumption
<1>3. QED BY <1>1, <1>2 DEF ColumnsOf

\* The number of a column, out of the flags left to scan.
LEMMA IndexType ==
  ASSUME row_act_flag_reg \in SUBSET Nat, valid_act_index_reg \in Nat
  PROVE  valid_act_index \in Columns
<1>1. position_1_act \in Int
  <2>1. CASE row_act_flag_reg = {}
    BY <2>1 DEF position_1_act
  <2>2. CASE row_act_flag_reg # {}
    <3>1. Min(row_act_flag_reg) \in row_act_flag_reg
      BY <2>2, MinOfNaturals
    <3>2. PICK n \in row_act_flag_reg : n = Min(row_act_flag_reg)
      BY <3>1
    <3>3. n \in Int
      OBVIOUS
    <3>4. n % IF_WIDTH \in Int
      BY <3>3, Widths
    <3>5. QED BY <2>2, <3>2, <3>4 DEF position_1_act
  <2>3. QED BY <2>1, <2>2
<1> DEFINE v == position_1_act + valid_act_index_reg
<1>2. v \in Int
  BY <1>1
<1> HIDE DEF v
<1>3. v % IF_WIDTH \in 0 .. IF_WIDTH - 1
  <2>1. v % IF_WIDTH \in Int /\ 0 <= v % IF_WIDTH /\ v % IF_WIDTH < IF_WIDTH
    BY <1>2, Widths
  <2>2. QED BY <2>1, Widths
<1>4. QED BY <1>3, Widths DEF valid_act_index, v

\* The edge, as the rows see it.
LEMMA RowEdge ==
  ASSUME KernelInv, NEW start \in BOOLEAN, Edge(start)
  PROVE  /\ picture' = picture
         /\ state' = CASE state = "PREP" -> IF en THEN "WAIT" ELSE "PREP"
                       [] state = "COMP" -> IF row_cal_done THEN "WAIT" ELSE "COMP"
                       [] state = "WAIT" -> "COMP"
         /\ row_index_count' = IF ~row_cal_done THEN row_index_count
                               ELSE IF row_index_count < 3 THEN row_index_count + 1
                               ELSE 1
         /\ row' = IF en \/ row_cal_done THEN row + 1 ELSE row
         /\ row_val_num_a' = IF state = "WAIT" THEN Cardinality(row_act_flag)
                             ELSE row_val_num_a
         /\ rd_addr_pflag' = IF reading /\ row_index_count_2 THEN rd_addr_pflag + ROW_BLOCKS
                             ELSE rd_addr_pflag
         /\ shift_pflag' = IF en \/ row_cal_done THEN (row + 2) % 3 ELSE shift_pflag
         /\ shift_pflag_d' = shift_pflag
         /\ row_act_flag_reg' =
              IF en \/ row_cal_done THEN row_act_flag
              ELSE Left(row_act_flag_reg, position_1_act)
         /\ valid_act_index_reg' = IF row_act_flag_reg # {}
                                     THEN (valid_act_index + 1) % IF_WIDTH
                                   ELSE valid_act_index_reg
         /\ valid_act_index_d' = valid_act_index
         /\ column_parallel_index' = ActPlace
         /\ clocks' = IF state = "COMP" /\ ~RowEnds THEN clocks + 1 ELSE 0
         /\ (en \/ row_cal_done) => (state = "PREP" <=> en)
<1>1. (en \/ row_cal_done) => (state = "PREP" <=> en)
  <2>1. row_cal_done => state = "COMP" /\ m = 9
    BY RowEndsFilled
  <2>2. /\ m \in 0 .. 9
        /\ m = 9 => ~en
        /\ m <= 6 => ~en
        /\ m = 7 => state = "PREP"
        /\ m = 8 => ~en
    BY Sizes DEF KernelInv, FillInv, PhaseInv
  <2>3. QED BY <2>1, <2>2
<1>2. QED BY <1>1, Sizes DEF Edge, RowState, FlagAddress, ScanRow, ReadActivation, PeArray, row, Left

\* The flags that are read.
LEMMA FlagsRead ==
  ASSUME KernelInv, NEW start \in BOOLEAN, Edge(start), NEW r \in Nat,
         shift_pflag = r % 3, rd_addr_pflag = ROW_BLOCKS * (r \div 3)
  PROVE  rd_act_flag_s' = RowFlags(r)
<1>1. rd_act_flag_s' = [p \in Places |-> IF p \div KERNEL_WIDTH = r % 3
                          THEN {s \in Slots : FlagOf(rd_addr_pflag + s, p)} ELSE {}]
  BY DEF Edge, ReadFlags
<1>2. QED BY <1>1, PictureType, FlagsAreRow

\* The flags of a row and the addresses passed hang on the state by the picture
\* alone.
LEMMA RowSame ==
  ASSUME KernelInv, NEW start \in BOOLEAN, Edge(start)
  PROVE  /\ (RowFlags(0))' = RowFlags(0)
         /\ (RowFlags(row))' = RowFlags(row')
         /\ (RowFlags(row + 1))' = RowFlags(row' + 1)
         /\ (Passed(0, 0))' = Passed(0, 0)
         /\ (Passed(row, 0))' = Passed(row', 0)
         /\ (Passed(row, act_index + 1))' = Passed(row', act_index' + 1)
<1>1. picture' = picture
  BY RowEdge
<1>2. QED BY <1>1 DEF RowFlags, ColumnsOf, Passed, AtPlace, Cells, Before

\* Out of reset.
LEMMA RowsInit == Init => RowsInv
<1> SUFFICES ASSUME Init PROVE RowsInv
  OBVIOUS
<1>1. RowTypes
  BY Widths DEF Init, RowTypes
<1>2. PrepInv
  <2>1. picture \in [Rows -> SUBSET Columns]
    BY DenseAssumption DEF Init
  <2>2. Passed(0, 0) = [p \in Places |-> 0]
    BY <2>1, PassedBounds
  <2>3. QED BY <2>2 DEF Init, PrepInv, row
<1>3. CountInv /\ WaitInv /\ CompInv
  BY DEF Init, CountInv, WaitInv, CompInv
<1>4. QED BY <1>1, <1>2, <1>3 DEF RowsInv

\* What the scan keeps of a row are columns.
LEMMA RegTypes ==
  ASSUME KernelInv, RowsInv
  PROVE  /\ row_act_flag_reg \in SUBSET Columns /\ valid_act_index_reg \in Columns
         /\ clocks \in Columns
         /\ state \in {"PREP", "WAIT", "COMP"}
<1>1. state \in {"PREP", "WAIT", "COMP"} /\ 0 \in Columns
  BY Widths DEF KernelInv, PhaseInv
<1>2. CASE state = "PREP"
  BY <1>1, <1>2 DEF RowsInv, PrepInv
<1>3. CASE state = "WAIT"
  BY <1>1, <1>3, PictureType DEF RowsInv, CountInv, WaitInv
<1>4. CASE state = "COMP"
  <2>1. row \in Rows /\ picture[row] \in SUBSET Columns
    BY <1>4, PictureType DEF RowsInv, CountInv
  <2>2. CASE picture[row] = {}
    BY <1>1, <1>4, <2>2 DEF RowsInv, CompInv
  <2>3. CASE picture[row] # {}
    <3> DEFINE a == act_index
               S == picture[row]
    <3>1. /\ a \in S
          /\ clocks = Cardinality({c \in S : c < a})
          /\ valid_act_index_reg = (a + 1) % IF_WIDTH
          /\ row_act_flag_reg = Left(S, a)
      BY <1>4, <2>3 DEF RowsInv, CompInv
    <3> HIDE DEF a, S
    <3>2. S \in SUBSET Columns
      BY <2>1 DEF S
    <3>3. a \in 0 .. IF_WIDTH - 1 /\ \A c \in S : c \in 0 .. IF_WIDTH - 1
      BY <3>1, <3>2, Widths
    <3>4. row_act_flag_reg \in SUBSET Columns
      <4>1. \A c \in S : c > a => c - a - 1 \in 0 .. IF_WIDTH - 1
        BY <3>3, Widths
      <4>2. QED BY <3>1, <4>1, Widths DEF Left
    <3>5. valid_act_index_reg \in Columns
      <4>1. (a + 1) % IF_WIDTH \in Int /\ 0 <= (a + 1) % IF_WIDTH /\ (a + 1) % IF_WIDTH < IF_WIDTH
        BY <3>3, Widths
      <4>2. QED BY <3>1, <4>1, Widths
    <3>6. clocks \in Columns
      <4>1. Cardinality(S) \in 1 .. IF_WIDTH /\ clocks \in 0 .. Cardinality(S) - 1
        BY <3>1, <3>2, ColumnsBefore
      <4>2. QED BY <4>1, Widths
    <3>7. QED BY <1>4, <3>4, <3>5, <3>6
  <2>4. QED BY <2>2, <2>3
<1>5. QED BY <1>1, <1>2, <1>3, <1>4

\* Between two rows the controller sees the next one.
LEMMA NextIsSeen ==
  ASSUME KernelInv, RowsInv
  PROVE  /\ state = "PREP" /\ en => row_act_flag = picture[0]
         /\ state = "WAIT" => row_act_flag = picture[row]
<1>1. ASSUME state = "PREP", en
      PROVE  row_act_flag = picture[0]
  <2>1. flag_stream_wei
    <3>1. m = 7
      BY <1>1, Sizes DEF KernelInv, FillInv, PhaseInv
    <3>2. QED BY <3>1 DEF KernelInv, FillInv
  <2>2. rd_act_flag_s = RowFlags(0) /\ shift_pflag_d = 0 % 3
    BY <1>1, <2>1 DEF RowsInv, PrepInv
  <2>3. row_act_flag = ColumnsOf(0)
    BY <2>2, PictureType, RowIsSeen
  <2>4. 0 \in Rows
    BY Widths
  <2>5. QED BY <2>3, <2>4, PictureType
<1>2. ASSUME state = "WAIT"
      PROVE  row_act_flag = picture[row]
  <2>1. row \in Rows /\ row \in Nat
    BY <1>2, Widths DEF RowsInv, CountInv
  <2>2. rd_act_flag_s = RowFlags(row) /\ shift_pflag_d = row % 3
    BY <1>2, Sizes DEF RowsInv, WaitInv
  <2>3. row_act_flag = ColumnsOf(row)
    BY <2>1, <2>2, PictureType, RowIsSeen
  <2>4. QED BY <2>1, <2>3, PictureType
<1>3. QED BY <1>1, <1>2

\* An edge keeps what holds in every state.
LEMMA RowTypesKept ==
  ASSUME KernelInv, RowsInv, NEW start \in BOOLEAN, Edge(start)
  PROVE  RowTypes'
<1>1. row_val_num_a' \in 0 .. IF_WIDTH
  <2>1. CASE state = "WAIT"
    <3>1. picture[row] \in SUBSET Columns
      BY <2>1, PictureType DEF RowsInv, CountInv
    <3> DEFINE S == picture[row]
    <3>2. row_val_num_a' = Cardinality(S)
      BY <2>1, RowEdge, NextIsSeen
    <3> HIDE DEF S
    <3>3. S \in SUBSET Columns
      BY <3>1 DEF S
    <3>4. CASE S = {}
      <4>1. Cardinality(S) = 0
        BY <3>4, FS_EmptySet
      <4>2. QED BY <3>2, <4>1, Widths
    <3>5. CASE S # {}
      <4>1. PICK a \in S : TRUE
        BY <3>5
      <4>2. Cardinality(S) \in 1 .. IF_WIDTH
        BY <3>3, <4>1, ColumnsBefore
      <4>3. QED BY <3>2, <4>2, Widths
    <3>6. QED BY <3>4, <3>5
  <2>2. CASE state # "WAIT"
    BY <2>2, RowEdge DEF RowsInv, RowTypes
  <2>3. QED BY <2>1, <2>2
<1>2. valid_act_index_d' \in Columns
  <2>1. row_act_flag_reg \in SUBSET Nat /\ valid_act_index_reg \in Nat
    BY RegTypes, Widths
  <2>2. QED BY <2>1, IndexType, RowEdge
<1>3. rd_data' = [p \in Places |-> rd_data'[p]]
  <2>1. rd_data = [p \in Places |-> rd_data[p]]
    BY DEF RowsInv, RowTypes
  <2>2. \/ rd_data' = rd_data
        \/ rd_data' = [rd_data EXCEPT ![ActPlace] = Stored(ActPlace, rd_addr[ActPlace])]
    BY DEF Edge, ReadActivation
  <2>3. QED BY <2>1, <2>2
<1>4. m' = 8 => row' = 0
  <2>1. m \in 0 .. 9 /\ (m > 0 => flag_stream_wei_d)
    BY RowEndsFilled, Sizes DEF KernelInv, FillInv
  <2>2. m' = IF flag_stream_wei_d /\ m < 9 THEN m + 1 ELSE m
    BY Sizes DEF Edge, FillKernel
  <2>3. m' = 8 => m = 7
    BY <2>1, <2>2
  <2>4. m = 7 => en /\ row = -1
    BY DEF KernelInv, PhaseInv, RowsInv, PrepInv
  <2>5. QED BY <2>3, <2>4, RowEdge
<1>5. QED BY <1>1, <1>2, <1>3, <1>4 DEF RowTypes

\* An edge before the rows, and the one that starts them.
LEMMA PrepKept ==
  ASSUME KernelInv, RowsInv, state = "PREP", NEW start \in BOOLEAN, Edge(start)
  PROVE  PrepInv' /\ CountInv' /\ WaitInv' /\ CompInv'
<1>1. /\ row = -1 /\ row_index_count = 0 /\ rd_addr_pflag = 0
      /\ shift_pflag = 0 /\ shift_pflag_d = 0
      /\ row_act_flag_reg = {} /\ valid_act_index_reg = 0 /\ clocks = 0
      /\ rd_addr = Passed(0, 0)
  BY DEF RowsInv, PrepInv
<1>2. ~row_cal_done /\ ~row_index_count_2
  BY DEF row_cal_done, RowEnds, row_index_count_2
<1>3. rd_act_flag_s' = RowFlags(0)
  <2>1. shift_pflag = 0 % 3 /\ rd_addr_pflag = ROW_BLOCKS * (0 \div 3) /\ 0 \in Nat
    BY <1>1, Widths
  <2>2. QED BY <2>1, FlagsRead
<1>4. rd_addr' = Passed(0, 0)
  <2>1. ActPlace \notin Places
    <3>1. position_1_act = 0
      BY <1>1 DEF position_1_act
    <3>2. valid_act_index = 0
      BY <1>1, <3>1, Widths DEF valid_act_index
    <3>3. block_index = 3
      BY <1>1 DEF block_index, row
    <3>4. ActPlace = 9
      BY <3>2, <3>3, Sizes DEF ActPlace
    <3>5. QED BY <3>4, Sizes
  <2>2. rd_addr' = rd_addr
    BY <2>1 DEF Edge, ReadActivation
  <2>3. QED BY <1>1, <2>2
<1>5. valid_act_index_reg' = 0 /\ clocks' = 0 /\ row_index_count' = 0 /\ rd_addr_pflag' = 0
      /\ shift_pflag_d' = 0
  BY <1>1, <1>2, RowEdge
<1>6. CASE en
  <2>1. state' = "WAIT" /\ row' = 0 /\ shift_pflag' = 1
    BY <1>1, <1>6, RowEdge
  <2>2. row_act_flag_reg' = picture'[row']
    BY <1>6, <2>1, NextIsSeen, RowEdge
  <2>3. (RowFlags(row))' = RowFlags(0) /\ (Passed(row, 0))' = Passed(0, 0)
    BY <2>1, RowSame
  <2>4. PrepInv' /\ CompInv'
    BY <2>1 DEF PrepInv, CompInv
  <2>5. CountInv'
    BY <1>5, <2>1, Sizes, Widths DEF CountInv
  <2>6. ROW_BLOCKS * (0 \div 3) = 0 /\ 0 % 3 = 0
    BY Widths
  <2>7. WaitInv'
    BY <1>3, <1>4, <1>5, <2>1, <2>2, <2>3, <2>6, Sizes DEF WaitInv
  <2>8. QED BY <2>4, <2>5, <2>7
<1>7. CASE ~en
  <2>1. state' = "PREP" /\ row' = -1 /\ shift_pflag' = 0
    BY <1>1, <1>2, <1>7, RowEdge
  <2>2. row_act_flag_reg' = {}
    BY <1>1, <1>2, <1>7, RowEdge DEF Left
  <2>3. (RowFlags(0))' = RowFlags(0) /\ (Passed(0, 0))' = Passed(0, 0)
    BY RowSame
  <2>4. PrepInv'
    BY <1>3, <1>4, <1>5, <2>1, <2>2, <2>3 DEF PrepInv
  <2>5. QED BY <2>1, <2>4 DEF CountInv, WaitInv, CompInv
<1>8. QED BY <1>6, <1>7

\* The place of a column of a row.
LEMMA PlaceRead ==
  ASSUME row \in Rows, NEW b \in Columns, valid_act_index = b
  PROVE  ActPlace = 3 * (row % 3) + (b % 3)
<1>1. row \in Nat
  BY Widths
<1>2. block_index = row % 3
  BY <1>1, Sizes DEF block_index, row
<1>3. QED BY <1>2, Sizes DEF ActPlace

\* The next activation of a row is read and its address passed.
LEMMA ShowsNext ==
  ASSUME KernelInv, RowsInv, NEW start \in BOOLEAN, Edge(start), row \in Rows,
         NEW b \in picture[row], valid_act_index = b, row_act_flag_reg # {},
         NEW c \in Nat, rd_addr = Passed(row, c), c <= b,
         \A e \in picture[row] : c <= e => b <= e
  PROVE  /\ column_parallel_index' = 3 * (row % 3) + (b % 3)
         /\ rd_data'[3 * (row % 3) + (b % 3)] = <<row, b>>
         /\ rd_addr' = Passed(row, b + 1)
<1> DEFINE q == 3 * (row % 3) + (b % 3)
<1>1. picture \in [Rows -> SUBSET Columns] /\ b \in Columns
  BY PictureType
<1>2. ActPlace = q
  BY <1>1, PlaceRead
<1>3. /\ q \in Places
      /\ Stored(q, Passed(row, c)[q]) = <<row, b>>
      /\ Passed(row, b + 1) = [Passed(row, c) EXCEPT ![q] = @ + 1]
  BY <1>1, PassedGoes
<1> HIDE DEF q
<1>4. /\ rd_data' = [rd_data EXCEPT ![q] = Stored(q, rd_addr[q])]
      /\ rd_addr' = [rd_addr EXCEPT ![q] = @ + 1]
  BY <1>2, <1>3 DEF Edge, ReadActivation
<1>5. rd_data = [p \in Places |-> rd_data[p]]
  BY DEF RowsInv, RowTypes
<1>6. column_parallel_index' = q
  BY <1>2, RowEdge
<1>7. rd_data'[q] = <<row, b>>
  BY <1>3, <1>4, <1>5
<1>8. rd_addr' = Passed(row, b + 1)
  BY <1>3, <1>4
<1>9. QED BY <1>6, <1>7, <1>8 DEF q

\* With nothing left to scan the addresses stay.
LEMMA ShowsNothing ==
  ASSUME NEW start \in BOOLEAN, Edge(start), row_act_flag_reg = {}
  PROVE  rd_addr' = rd_addr
  BY DEF Edge, ReadActivation

\* The row one further.
LEMMA RowNext ==
  ASSUME NEW r \in Nat
  PROVE  /\ r % 3 \in 0 .. 2 /\ r \div 3 \in Nat /\ (r + 1) \div 3 \in Nat
         /\ r % 3 # 2 => (r + 1) \div 3 = r \div 3 /\ (r + 1) % 3 = (r % 3) + 1
         /\ r % 3 = 2 => (r + 1) \div 3 = (r \div 3) + 1 /\ (r + 1) % 3 = 0
         /\ r > 0 => (r - 1) % 3 = IF r % 3 = 0 THEN 2 ELSE (r % 3) - 1
  OBVIOUS

\* The edge on which the first activation of a row is read.
LEMMA WaitKept ==
  ASSUME KernelInv, RowsInv, state = "WAIT", NEW start \in BOOLEAN, Edge(start)
  PROVE  PrepInv' /\ CountInv' /\ WaitInv' /\ CompInv'
<1>1. /\ row \in Rows /\ row \in Nat
      /\ row_index_count = IF row = 0 THEN 0 ELSE ((row - 1) % 3) + 1
      /\ shift_pflag = (row + 1) % 3
  BY Widths, Sizes DEF RowsInv, CountInv
<1>2. /\ shift_pflag_d = row % 3 /\ rd_act_flag_s = RowFlags(row)
      /\ rd_addr_pflag = ROW_BLOCKS * (row \div 3)
      /\ row_act_flag_reg = picture[row] /\ valid_act_index_reg = 0 /\ clocks = 0
      /\ rd_addr = Passed(row, 0)
  BY Sizes DEF RowsInv, WaitInv
<1>3. ~row_cal_done /\ ~en
  BY RowEdge DEF row_cal_done, RowEnds
<1>4. /\ state' = "COMP" /\ row' = row /\ row_index_count' = row_index_count
      /\ row_val_num_a' = Cardinality(picture[row])
      /\ shift_pflag' = (row + 1) % 3 /\ shift_pflag_d' = (row + 1) % 3
      /\ clocks' = 0 /\ picture' = picture
  BY <1>1, <1>3, RowEdge, NextIsSeen
<1>5. rd_addr_pflag' = ROW_BLOCKS * ((row + 1) \div 3)
  <2>1. rd_addr_pflag' = IF reading /\ row_index_count = 2 THEN rd_addr_pflag + ROW_BLOCKS
                         ELSE rd_addr_pflag
    BY RowEdge DEF row_index_count_2
  <2>2. row_index_count = 2 <=> row % 3 = 2
    BY <1>1, RowNext
  <2>3. row % 3 = 2 => reading
    <3>1. m = 8 \/ m = 9
      BY RowEndsFilled, Sizes DEF KernelInv, FillInv, PhaseInv
    <3>2. m = 8 => row = 0
      BY DEF RowsInv, RowTypes
    <3>3. m = 9 => reading
      BY DEF KernelInv, PhaseInv
    <3>4. QED BY <3>1, <3>2, <3>3
  <2>4. CASE row % 3 = 2
    <3>1. (row + 1) \div 3 = (row \div 3) + 1 /\ row \div 3 \in Nat
      BY <1>1, <2>4, RowNext
    <3>2. ROW_BLOCKS * ((row \div 3) + 1) = ROW_BLOCKS * (row \div 3) + ROW_BLOCKS
      BY <3>1, Widths
    <3>3. QED BY <1>2, <2>1, <2>2, <2>3, <2>4, <3>1, <3>2
  <2>5. CASE row % 3 # 2
    BY <1>1, <1>2, <2>1, <2>2, <2>5, RowNext
  <2>6. QED BY <2>4, <2>5
<1>6. row % 3 # 2 => rd_act_flag_s' = RowFlags(row + 1)
  <2> SUFFICES ASSUME row % 3 # 2 PROVE rd_act_flag_s' = RowFlags(row + 1)
    OBVIOUS
  <2>1. rd_addr_pflag = ROW_BLOCKS * ((row + 1) \div 3)
    BY <1>1, <1>2, RowNext
  <2>2. row + 1 \in Nat
    BY <1>1
  <2>3. QED BY <1>1, <2>1, <2>2, FlagsRead
<1>7. PrepInv' /\ CountInv' /\ WaitInv'
  BY <1>1, <1>4, Sizes DEF PrepInv, CountInv, WaitInv
<1>8. /\ (RowFlags(row + 1))' = RowFlags(row + 1)
      /\ (Passed(row, 0))' = Passed(row, 0)
      /\ (Passed(row, act_index + 1))' = Passed(row, act_index' + 1)
  BY <1>4, RowSame
<1>9. picture[row] = {} =>
        row_act_flag_reg' = {} /\ valid_act_index_reg' = 0 /\ rd_addr' = Passed(row, 0)
  BY <1>2, <1>3, RowEdge, ShowsNothing DEF Left
<1>10. picture[row] # {} =>
         /\ act_index' \in picture[row]
         /\ clocks' = Cardinality({c \in picture[row] : c < act_index'})
         /\ valid_act_index_reg' = (act_index' + 1) % IF_WIDTH
         /\ row_act_flag_reg' = Left(picture[row], act_index')
         /\ column_parallel_index' = 3 * (row % 3) + (act_index' % 3)
         /\ rd_data'[column_parallel_index'] = <<row, act_index'>>
         /\ rd_addr' = Passed(row, act_index' + 1)
  <2> SUFFICES ASSUME picture[row] # {}
               PROVE  /\ act_index' \in picture[row]
                      /\ clocks' = Cardinality({c \in picture[row] : c < act_index'})
                      /\ valid_act_index_reg' = (act_index' + 1) % IF_WIDTH
                      /\ row_act_flag_reg' = Left(picture[row], act_index')
                      /\ column_parallel_index' = 3 * (row % 3) + (act_index' % 3)
                      /\ rd_data'[column_parallel_index'] = <<row, act_index'>>
                      /\ rd_addr' = Passed(row, act_index' + 1)
    OBVIOUS
  <2>1. picture[row] \in SUBSET Columns
    BY <1>1, PictureType
  <2>2. PICK a \in picture[row] : a = Min(picture[row])
    BY <2>1, FirstColumn
  <2>3. /\ \A c \in picture[row] : a <= c
        /\ a % IF_WIDTH = a /\ Cardinality({c \in picture[row] : c < a}) = 0
    BY <2>1, <2>2, FirstColumn
  <2>4. position_1_act = a
    BY <1>2, <2>2, <2>3 DEF position_1_act
  <2>5. a \in Nat
    BY <2>1, Widths
  <2>6. valid_act_index = a
    BY <1>2, <2>3, <2>4, <2>5 DEF valid_act_index
  <2>7. 0 \in Nat /\ 0 <= a /\ \A c \in picture[row] : 0 <= c => a <= c
    BY <2>3, <2>5
  <2>8. /\ column_parallel_index' = 3 * (row % 3) + (a % 3)
        /\ rd_data'[3 * (row % 3) + (a % 3)] = <<row, a>>
        /\ rd_addr' = Passed(row, a + 1)
    BY <1>1, <1>2, <2>6, <2>7, ShowsNext
  <2>9. /\ valid_act_index_reg' = (a + 1) % IF_WIDTH /\ act_index' = a
        /\ row_act_flag_reg' = Left(picture[row], a)
    BY <1>2, <1>3, <2>4, <2>6, RowEdge DEF act_index
  <2>10. QED BY <1>4, <2>3, <2>8, <2>9
<1>11. CompInv'
  BY <1>4, <1>5, <1>6, <1>8, <1>9, <1>10, Sizes DEF CompInv
<1>12. QED BY <1>7, <1>11

\* When the PE array is through with a row: after one clock when it is empty, else
\* on its last activation.
LEMMA WhenRowEnds ==
  ASSUME KernelInv, RowsInv, ServedRows, state = "COMP"
  PROVE  /\ row \in Rows
         /\ picture[row] = {} => RowEnds
         /\ picture[row] # {} =>
              /\ act_index \in picture[row] /\ act_index \in Nat
              /\ RowEnds <=> clocks = Cardinality(picture[row]) - 1
              /\ RowEnds <=> \A c \in picture[row] : ~(c > act_index)
              /\ RowEnds => act_index = IF_WIDTH - 1
<1> DEFINE S == picture[row]
           a == act_index
<1>1. row \in Rows /\ S \in SUBSET Columns
  BY PictureType DEF RowsInv, CountInv
<1>2. row_val_num_a = Cardinality(S)
  BY DEF RowsInv, CompInv
<1>3. RowEnds <=> row_val_num = IF_WIDTH - 1 \/ clocks = row_val_num
  BY DEF RowEnds, zero_flag
<1>4. CASE S = {}
  <2>1. row_val_num_a = 0
    BY <1>2, <1>4, FS_EmptySet
  <2>2. (0 - 1) % IF_WIDTH = IF_WIDTH - 1
    <3>1. 0 - 1 = IF_WIDTH * (-1) + (IF_WIDTH - 1) /\ IF_WIDTH - 1 \in 0 .. IF_WIDTH - 1
      BY Widths
    <3>2. QED BY <3>1, Widths
  <2>3. QED BY <1>1, <1>3, <1>4, <2>1, <2>2 DEF row_val_num
<1>5. CASE S # {}
  <2>1. a \in S /\ clocks = Cardinality({c \in S : c < a})
    BY <1>5 DEF RowsInv, CompInv
  <2>2. /\ IsFiniteSet(S) /\ Cardinality(S) \in 1 .. IF_WIDTH
        /\ clocks = Cardinality(S) - 1 <=> \A c \in S : ~(c > a)
    BY <1>1, <2>1, ColumnsBefore
  <2>3. IF_WIDTH - 1 \in S /\ S # Columns
    BY <1>1, <1>5, PictureType DEF ServedRows
  <2>4. Cardinality(S) # IF_WIDTH
    <3>1. IsFiniteSet(Columns) /\ Cardinality(Columns) = IF_WIDTH
      <4>1. 0 \in Int /\ IF_WIDTH - 1 \in Int /\ IF_WIDTH > 1 /\ IF_WIDTH \in Int
        BY Widths
      <4>2. IsFiniteSet(0 .. IF_WIDTH - 1)
            /\ Cardinality(0 .. IF_WIDTH - 1)
                 = IF 0 > IF_WIDTH - 1 THEN 0 ELSE ((IF_WIDTH - 1) - 0) + 1
        BY <4>1, FS_Interval
      <4>3. Cardinality(0 .. IF_WIDTH - 1) = IF_WIDTH
        BY <4>1, <4>2
      <4>4. QED BY <4>2, <4>3, Widths
    <3> HIDE DEF S
    <3>2. QED BY <1>1, <2>3, <3>1, FS_Subset
  <2> HIDE DEF S, a
  <2>5. row_val_num = Cardinality(S) - 1
    <3>1. Cardinality(S) - 1 \in 0 .. IF_WIDTH - 1
      BY <2>2, Widths
    <3>2. \A i \in 0 .. IF_WIDTH - 1 : i % IF_WIDTH = i
      BY Widths
    <3>3. QED BY <1>2, <3>1, <3>2 DEF row_val_num
  <2>6. RowEnds <=> clocks = Cardinality(S) - 1
    <3>1. Cardinality(S) - 1 # IF_WIDTH - 1
      BY <2>2, <2>4, Widths
    <3>2. QED BY <1>3, <2>5, <3>1
  <2>7. a \in 0 .. IF_WIDTH - 1
    BY <1>1, <2>1, Widths
  <2>8. RowEnds => a = IF_WIDTH - 1
    BY <2>2, <2>3, <2>6, <2>7, Widths
  <2>9. RowEnds <=> \A c \in S : ~(c > a)
    BY <2>2, <2>6
  <2>10. a \in Nat
    BY <2>7
  <2>11. QED BY <1>1, <1>5, <2>1, <2>6, <2>8, <2>9, <2>10 DEF S, a
<1>6. QED BY <1>4, <1>5

\* An edge inside a row.
LEMMA CompKept ==
  ASSUME KernelInv, RowsInv, ServedRows, state = "COMP", ~RowEnds,
         NEW start \in BOOLEAN, Edge(start)
  PROVE  PrepInv' /\ CountInv' /\ WaitInv' /\ CompInv'
<1> DEFINE S == picture[row]
           R == row_act_flag_reg
<1>1. /\ row \in Rows /\ row \in Nat
      /\ row_index_count = IF row = 0 THEN 0 ELSE ((row - 1) % 3) + 1
      /\ shift_pflag = (row + 1) % 3
  BY Widths, Sizes DEF RowsInv, CountInv
<1>2. S # {} /\ S \in SUBSET Columns /\ ~(\A c \in S : ~(c > act_index))
  BY <1>1, WhenRowEnds, PictureType
<1>3. PICK a \in S : a = act_index
  BY <1>2, WhenRowEnds
<1>4. /\ clocks = Cardinality({c \in S : c < a})
      /\ valid_act_index_reg = (a + 1) % IF_WIDTH
      /\ R = Left(S, a)
      /\ rd_addr = Passed(row, a + 1)
      /\ rd_addr_pflag = ROW_BLOCKS * ((row + 1) \div 3)
      /\ shift_pflag_d = (row + 1) % 3
      /\ row_val_num_a = Cardinality(S)
  BY <1>2, <1>3, Sizes DEF RowsInv, CompInv
<1>5. ~row_cal_done /\ ~en
  BY RowEdge DEF row_cal_done
<1>6. /\ state' = "COMP" /\ row' = row /\ row_index_count' = row_index_count
      /\ row_val_num_a' = Cardinality(S) /\ picture' = picture
      /\ shift_pflag' = (row + 1) % 3 /\ shift_pflag_d' = (row + 1) % 3
      /\ clocks' = clocks + 1
      /\ rd_addr_pflag' = ROW_BLOCKS * ((row + 1) \div 3)
  <2>1. ~row_index_count_2
    BY DEF row_index_count_2
  <2>2. QED BY <1>1, <1>4, <1>5, <2>1, RowEdge
<1>7. rd_act_flag_s' = RowFlags(row + 1)
  <2>1. row + 1 \in Nat
    BY <1>1
  <2>2. QED BY <1>1, <1>4, <2>1, FlagsRead
<1> HIDE DEF R
<1>8. R # {}
  <2>1. PICK c \in S : c > a
    BY <1>2, <1>3
  <2>2. c - a - 1 \in R
    BY <1>4, <2>1 DEF Left
  <2>3. QED BY <2>2
<1> HIDE DEF S
<1>9. PICK n \in Nat, b \in S :
        /\ n = Min(R) /\ b = a + 1 + n
        /\ n % IF_WIDTH = n /\ (a + 1) % IF_WIDTH = a + 1 /\ b % IF_WIDTH = b
        /\ \A c \in S : c > a => b <= c
        /\ Ahead(S, b) = Ahead(S, a) + 1
        /\ Left(R, n) = Left(S, b)
  BY <1>2, <1>4, <1>8, NextColumn
<1>10. a \in Nat /\ \A c \in S : c \in Nat
  <2>1. \A c \in S : c \in 0 .. IF_WIDTH - 1
    BY <1>2, Widths
  <2>2. QED BY <1>3, <2>1
<1>11. position_1_act = n
  BY <1>8, <1>9 DEF position_1_act, R
<1>12. valid_act_index = b
  <2>1. n + (a + 1) = b
    BY <1>9, <1>10
  <2>2. QED BY <1>4, <1>9, <1>11, <2>1 DEF valid_act_index
<1>13. a + 1 \in Nat /\ a + 1 <= b /\ \A c \in S : a + 1 <= c => b <= c
  BY <1>9, <1>10
<1>14. /\ column_parallel_index' = 3 * (row % 3) + (b % 3)
       /\ rd_data'[3 * (row % 3) + (b % 3)] = <<row, b>>
       /\ rd_addr' = Passed(row, b + 1)
  BY <1>1, <1>4, <1>8, <1>9, <1>12, <1>13, ShowsNext DEF S, R
<1>15. /\ valid_act_index_reg' = (b + 1) % IF_WIDTH /\ act_index' = b
       /\ row_act_flag_reg' = Left(S, b)
  <2>1. row_act_flag_reg' = Left(R, n)
    BY <1>5, <1>11, RowEdge DEF R
  <2>2. valid_act_index_reg' = (b + 1) % IF_WIDTH /\ act_index' = b
    BY <1>8, <1>12, RowEdge DEF act_index, R
  <2>3. QED BY <1>9, <2>1, <2>2
<1>16. clocks' = Cardinality({c \in S : c < b})
  BY <1>4, <1>6, <1>9 DEF Ahead
<1>17. PrepInv' /\ CountInv' /\ WaitInv'
  BY <1>1, <1>6, Sizes DEF PrepInv, CountInv, WaitInv
<1>18. /\ (RowFlags(row + 1))' = RowFlags(row + 1)
       /\ (Passed(row, act_index + 1))' = Passed(row, b + 1)
  BY <1>6, <1>15, RowSame
<1>19. (picture[row])' = S
  BY <1>6 DEF S
<1>20. CompInv'
  BY <1>2, <1>6, <1>7, <1>9, <1>14, <1>15, <1>16, <1>18, <1>19, Sizes DEF CompInv
<1>21. QED BY <1>17, <1>20

\* The edge that ends a row.
LEMMA RowEndsKept ==
  ASSUME KernelInv, RowsInv, ServedRows, row_cal_done, NEW start \in BOOLEAN, Edge(start)
  PROVE  PrepInv' /\ CountInv' /\ WaitInv' /\ CompInv'
<1> DEFINE S == picture[row]
<1>1. state = "COMP" /\ RowEnds /\ row # IF_WIDTH - 1
  BY DEF row_cal_done, RowEnds, LastRow, row
<1>2. /\ row \in Rows /\ row \in Nat /\ row + 1 \in Rows /\ row + 1 \in Nat
      /\ row_index_count = IF row = 0 THEN 0 ELSE ((row - 1) % 3) + 1
      /\ shift_pflag = (row + 1) % 3
  <2>1. /\ row \in Rows
        /\ row_index_count = IF row = 0 THEN 0 ELSE ((row - 1) % 3) + 1
        /\ shift_pflag = (row + 1) % 3
    BY <1>1, Sizes DEF RowsInv, CountInv
  <2>2. QED BY <1>1, <2>1, Widths
<1>3. /\ shift_pflag_d = (row + 1) % 3
      /\ rd_act_flag_s = RowFlags(row + 1) \/ (clocks = 0 /\ row % 3 = 2)
      /\ rd_addr_pflag = ROW_BLOCKS * ((row + 1) \div 3)
  BY <1>1, Sizes DEF RowsInv, CompInv
<1>4. S = {} =>
        /\ row_act_flag_reg = {} /\ valid_act_index_reg = 0
        /\ rd_addr = Passed(row + 1, 0)
  <2> SUFFICES ASSUME S = {}
               PROVE  /\ row_act_flag_reg = {} /\ valid_act_index_reg = 0
                      /\ rd_addr = Passed(row + 1, 0)
    OBVIOUS
  <2>1. /\ row_act_flag_reg = {} /\ valid_act_index_reg = 0
        /\ rd_addr = Passed(row, 0)
    BY <1>1 DEF RowsInv, CompInv
  <2>2. \A e \in picture[row] : e < 0
    OBVIOUS
  <2>3. 0 \in Nat
    OBVIOUS
  <2>4. QED BY <1>2, <2>1, <2>2, <2>3, PictureType, PassedRow
<1>5. S # {} =>
        /\ row_act_flag_reg = {} /\ valid_act_index_reg = 0
        /\ rd_addr = Passed(row + 1, 0)
  <2> SUFFICES ASSUME S # {}
               PROVE  /\ row_act_flag_reg = {} /\ valid_act_index_reg = 0
                      /\ rd_addr = Passed(row + 1, 0)
    OBVIOUS
  <2>1. /\ act_index = IF_WIDTH - 1
        /\ \A c \in picture[row] : ~(c > act_index)
    BY <1>1, WhenRowEnds
  <2>2. /\ valid_act_index_reg = (act_index + 1) % IF_WIDTH
        /\ row_act_flag_reg = Left(picture[row], act_index)
        /\ rd_addr = Passed(row, act_index + 1)
    BY <1>1 DEF RowsInv, CompInv
  <2>3. row_act_flag_reg = {}
    BY <2>1, <2>2 DEF Left
  <2>4. valid_act_index_reg = 0
    <3>1. act_index + 1 = IF_WIDTH
      BY <2>1, Widths
    <3>2. IF_WIDTH % IF_WIDTH = 0
      <4>1. IF_WIDTH = IF_WIDTH * 1 + 0
        BY Widths
      <4>2. QED BY <4>1, Widths
    <3>3. QED BY <2>2, <3>1, <3>2
  <2>5. act_index + 1 \in Nat /\ \A e \in picture[row] : e < act_index + 1
    <3>1. picture[row] \subseteq 0 .. IF_WIDTH - 1
      BY <1>2, PictureType, Widths
    <3>2. QED BY <2>1, <3>1, Widths
  <2>6. rd_addr = Passed(row + 1, 0)
    BY <1>2, <2>2, <2>5, PictureType, PassedRow
  <2>7. QED BY <2>3, <2>4, <2>6
<1>6. rd_act_flag_s = RowFlags(row + 1)
  <2> SUFFICES ASSUME row % 3 = 2, clocks = 0 PROVE FALSE
    BY <1>3
  <2>1. Cardinality(S) >= 2
    BY <1>2, PictureType, Sizes DEF ServedRows
  <2>2. S # {}
    BY <2>1, FS_EmptySet
  <2>3. clocks = Cardinality(S) - 1
    BY <1>1, <2>2, WhenRowEnds
  <2>4. IsFiniteSet(S) /\ Cardinality(S) \in 1 .. IF_WIDTH
    <3>1. PICK a \in S : TRUE
      BY <2>2
    <3>2. S \in SUBSET Columns
      BY <1>2, PictureType
    <3> HIDE DEF S
    <3>3. QED BY <3>1, <3>2, ColumnsBefore
  <2> HIDE DEF S
  <2>5. QED BY <2>1, <2>3, <2>4
<1>7. row_act_flag = picture[row + 1]
  BY <1>2, <1>3, <1>6, PictureType, RowIsSeen
<1>8. ~row_index_count_2
  BY <1>1 DEF row_index_count_2
<1>9. /\ state' = "WAIT" /\ row' = row + 1 /\ picture' = picture
      /\ row_index_count' = IF row_index_count < 3 THEN row_index_count + 1 ELSE 1
      /\ shift_pflag' = (row + 2) % 3 /\ shift_pflag_d' = (row + 1) % 3
      /\ rd_addr_pflag' = ROW_BLOCKS * ((row + 1) \div 3)
      /\ row_act_flag_reg' = picture[row + 1]
      /\ clocks' = 0
  BY <1>1, <1>2, <1>3, <1>7, <1>8, RowEdge
<1>10. valid_act_index_reg' = 0 /\ rd_addr' = Passed(row + 1, 0)
  BY <1>4, <1>5, RowEdge, ShowsNothing
<1>11. rd_act_flag_s' = RowFlags(row + 1)
  BY <1>2, <1>3, FlagsRead
<1>12. (RowFlags(row))' = RowFlags(row + 1) /\ (Passed(row, 0))' = Passed(row + 1, 0)
  BY <1>9, RowSame
<1>13. PrepInv' /\ CompInv'
  BY <1>9 DEF PrepInv, CompInv
<1>14. CountInv'
  <2>1. row_index_count' = ((row' - 1) % 3) + 1
    <3>1. row' - 1 = row
      BY <1>2, <1>9
    <3>2. row_index_count' = (row % 3) + 1
      BY <1>2, <1>9, RowNext
    <3>3. QED BY <3>1, <3>2
  <2>2. row' # 0 /\ shift_pflag' = (row' + 1) % 3
    BY <1>2, <1>9
  <2>3. QED BY <1>2, <1>9, <2>1, <2>2, Sizes DEF CountInv
<1>15. WaitInv'
  BY <1>9, <1>10, <1>11, <1>12, Sizes DEF WaitInv
<1>16. QED BY <1>13, <1>14, <1>15

\* Every step keeps the part of the rows.
LEMMA RowsKept ==
  ASSUME ServedRows
  PROVE  KernelInv /\ RowsInv /\ [Next]_vars => RowsInv'
<1> SUFFICES ASSUME KernelInv, RowsInv, [Next]_vars PROVE RowsInv'
  OBVIOUS
<1>1. CASE Stream
  <2>1. ~PictureDone
    BY <1>1 DEF Stream
  <2>2. PICK start \in BOOLEAN : Edge(start)
    BY <1>1 DEF Stream
  <2>3. PrepInv' /\ CountInv' /\ WaitInv' /\ CompInv'
    <3>1. CASE state = "PREP"
      BY <2>2, <3>1, PrepKept
    <3>2. CASE state = "WAIT"
      BY <2>2, <3>2, WaitKept
    <3>3. CASE state = "COMP" /\ ~RowEnds
      BY <2>2, <3>3, CompKept
    <3>4. CASE state = "COMP" /\ RowEnds
      <4>1. row_cal_done
        BY <2>1, <3>4 DEF PictureDone, row_cal_done
      <4>2. QED BY <2>2, <4>1, RowEndsKept
    <3>5. QED BY <3>1, <3>2, <3>3, <3>4, RegTypes
  <2>4. QED BY <2>2, <2>3, RowTypesKept DEF RowsInv
<1>2. CASE UNCHANGED vars
  <2>1. UNCHANGED <<picture, m, state, clocks, flag_stream_wei, activations>>
    BY <1>2 DEF vars, weights, activations
  <2>2. /\ (RowFlags(0))' = RowFlags(0) /\ (RowFlags(row))' = RowFlags(row)
        /\ (RowFlags(row + 1))' = RowFlags(row + 1)
        /\ (Passed(0, 0))' = Passed(0, 0) /\ (Passed(row, 0))' = Passed(row, 0)
        /\ (Passed(row, act_index + 1))' = Passed(row, act_index + 1)
    BY <2>1 DEF activations, RowFlags, ColumnsOf, Passed, AtPlace, Cells, Before, row, act_index
  <2>3. RowTypes' /\ PrepInv' /\ CountInv' /\ WaitInv'
    BY <2>1, <2>2 DEF activations, row, RowsInv, RowTypes, PrepInv, CountInv, WaitInv
  <2>4. CompInv'
    BY <2>1, <2>2 DEF activations, row, act_index, RowsInv, CompInv
  <2>5. QED BY <2>3, <2>4 DEF RowsInv
<1>3. QED BY <1>1, <1>2 DEF Next, Finished

-----------------------------------------------------------------------------
(* The theorems. *)

\* Both parts hold in every state.
LEMMA DenseInvariant ==
  ASSUME ServedRows
  PROVE  Spec => [](KernelInv /\ RowsInv)
<1>1. Init => KernelInv /\ RowsInv
  BY KernelInit, RowsInit
<1>2. KernelInv /\ RowsInv /\ [Next]_vars => (KernelInv /\ RowsInv)'
  BY KernelKept, RowsKept
<1>3. QED BY <1>1, <1>2, PTL DEF Spec

\* For every width, kernel and served picture: while the PE array computes, it is told
\* the number of activations in the row and sees each once, in order, with its column.
THEOREM RowIsScannedHolds ==
  ASSUME ServedRows
  PROVE  Spec => []RowIsScanned
<1>1. KernelInv /\ RowsInv => RowIsScanned
  <2> SUFFICES ASSUME KernelInv, RowsInv, state = "COMP"
               PROVE  /\ row_val_num_a = Cardinality(picture[row])
                      /\ picture[row] # {} =>
                           /\ clocks < row_val_num_a
                           /\ act_index = ColumnAt(row, clocks)
                           /\ serial_out = <<row, act_index>>
    BY DEF RowIsScanned, row
  <2>1. row \in Rows /\ picture[row] \in SUBSET Columns
    BY PictureType DEF RowsInv, CountInv
  <2>2. row_val_num_a = Cardinality(picture[row])
    BY DEF RowsInv, CompInv
  <2>3. ASSUME picture[row] # {}
        PROVE  /\ clocks < row_val_num_a
               /\ act_index = ColumnAt(row, clocks)
               /\ serial_out = <<row, act_index>>
    <3> DEFINE S == picture[row]
    <3>1. /\ act_index \in S
          /\ clocks = Cardinality({c \in S : c < act_index})
          /\ column_parallel_index = 3 * (row % 3) + (act_index % 3)
          /\ rd_data[column_parallel_index] = <<row, act_index>>
      BY <2>3, Sizes DEF RowsInv, CompInv
    <3>2. clocks < row_val_num_a
      <4> HIDE DEF S
      <4>1. S \in SUBSET Columns /\ row_val_num_a = Cardinality(S)
        BY <2>1, <2>2 DEF S
      <4>2. Cardinality(S) \in 1 .. IF_WIDTH /\ clocks \in 0 .. Cardinality(S) - 1
        BY <3>1, <4>1, ColumnsBefore
      <4>3. QED BY <4>1, <4>2
    <3>3. ColumnAt(row, clocks) = act_index
      <4>1. (CHOOSE x \in S : Cardinality({y \in S : y < x})
                               = Cardinality({c \in S : c < act_index})) = act_index
        BY <2>1, <3>1, ColumnIsTheOne
      <4>2. QED BY <3>1, <4>1 DEF ColumnAt
    <3>4. column_parallel_index \in Places
      <4>1. row % 3 \in 0 .. 2 /\ act_index % 3 \in 0 .. 2
        BY <2>1, <3>1, Widths
      <4>2. QED BY <3>1, <4>1, PlaceOf
    <3>5. QED BY <3>1, <3>2, <3>3, <3>4 DEF serial_out
  <2>4. QED BY <2>2, <2>3
<1>2. QED BY <1>1, DenseInvariant, PTL

\* For every width, kernel and served picture: every register holds a value it may hold.
THEOREM TypeCorrect ==
  ASSUME ServedRows
  PROVE  Spec => []TypeOK
<1>1. KernelInv /\ RowsInv => TypeOK
  <2> SUFFICES ASSUME KernelInv, RowsInv PROVE TypeOK
    OBVIOUS
  <2>1. /\ flag_serial \in {{}, kernel} /\ rd_addr_sflag \in 0 .. KERNEL_SIZE + 2
        /\ kernel \in SUBSET Flags
    BY RowEndsFilled DEF KernelInv, SerialInv
  <2>2. m \in 0 .. 9 /\ rd_addr_s \in 0 .. 15 /\ k \in 0 .. 8
    BY Sizes DEF KernelInv, FillInv
  <2>3. serial_array_full \in [Flags -> 0 .. KERNEL_SIZE]
    <3>1. \A f \in Flags : UpTo(f) \in 0 .. KERNEL_SIZE
      BY <2>1, UpToNext, Sizes
    <3>2. serial_array_full = Filled(m)
      BY DEF KernelInv, FillInv
    <3>3. 0 \in 0 .. KERNEL_SIZE
      BY Sizes
    <3>4. QED BY <3>1, <3>2, <3>3 DEF Filled
  <2>4. /\ row_act_flag_reg \subseteq Columns /\ valid_act_index_reg \in Columns
        /\ clocks \in Columns /\ state \in {"PREP", "COMP", "WAIT"}
    BY RegTypes
  <2>5. row_val_num_a \in 0 .. IF_WIDTH /\ valid_act_index_d \in Columns
    BY DEF RowsInv, RowTypes
  <2>6. /\ row_index_count \in 0 .. 3 /\ row \in -1 .. IF_WIDTH - 1
        /\ shift_pflag \in 0 .. 2 /\ shift_pflag_d \in 0 .. 2
        /\ \E b \in Slots : rd_addr_pflag = ROW_BLOCKS * b
        /\ \E r, c \in Int : rd_addr = Passed(r, c)
    <3>1. CASE state = "PREP"
      <4>1. /\ row = -1 /\ row_index_count = 0 /\ rd_addr_pflag = 0
            /\ shift_pflag = 0 /\ shift_pflag_d = 0 /\ rd_addr = Passed(0, 0)
        BY <3>1 DEF RowsInv, PrepInv
      <4>2. 0 \in Slots /\ ROW_BLOCKS * 0 = 0
        BY Widths
      <4>3. QED BY <4>1, <4>2, Widths
    <3>2. CASE state # "PREP"
      <4>1. /\ row \in Rows /\ row \in Nat /\ row < IF_WIDTH
            /\ row_index_count = IF row = 0 THEN 0 ELSE ((row - 1) % 3) + 1
            /\ shift_pflag = (row + 1) % 3
        <5>1. /\ row \in Rows
              /\ row_index_count = IF row = 0 THEN 0 ELSE ((row - 1) % 3) + 1
              /\ shift_pflag = (row + 1) % 3
          BY <3>2, Sizes DEF RowsInv, CountInv
        <5>2. QED BY <5>1, Widths
      <4>2. \E i \in {row, row + 1} :
              /\ shift_pflag_d = i % 3 /\ rd_addr_pflag = ROW_BLOCKS * (i \div 3)
        <5>1. CASE state = "WAIT"
          BY <5>1, Sizes DEF RowsInv, WaitInv
        <5>2. CASE state = "COMP"
          BY <5>2, Sizes DEF RowsInv, CompInv
        <5>3. QED BY <3>2, <2>4, <5>1, <5>2
      <4>3. PICK i \in {row, row + 1} :
              shift_pflag_d = i % 3 /\ rd_addr_pflag = ROW_BLOCKS * (i \div 3)
        BY <4>2
      <4>4. i \in Nat /\ i <= IF_WIDTH
        BY <4>1, Widths
      <4>5. i \div 3 \in Slots
        <5>1. i \div 3 \in Int /\ 0 <= i \div 3 /\ 3 * (i \div 3) <= i
          BY <4>4
        <5>2. i \div 3 < ROW_BLOCKS
          <6>1. 3 * (i \div 3) < 3 * ROW_BLOCKS
            BY <4>4, <5>1, Widths
          <6>2. QED BY <5>1, <6>1, Widths
        <5>3. QED BY <5>1, <5>2, Widths
      <4>6. \E r, c \in Int : rd_addr = Passed(r, c)
        <5>1. CASE state = "WAIT"
          <6>1. rd_addr = Passed(row, 0) /\ row \in Int /\ 0 \in Int
            BY <4>1, <5>1 DEF RowsInv, WaitInv
          <6>2. QED BY <6>1
        <5>2. CASE state = "COMP"
          <6>1. /\ rd_addr = Passed(row, 0) \/ rd_addr = Passed(row, act_index + 1)
            BY <5>2 DEF RowsInv, CompInv
          <6>2. row \in Int /\ 0 \in Int /\ act_index + 1 \in Int
            BY <2>5, <4>1, Widths DEF act_index
          <6>3. QED BY <6>1, <6>2
        <5>3. QED BY <3>2, <2>4, <5>1, <5>2
      <4>7. /\ row_index_count \in 0 .. 3 /\ row \in -1 .. IF_WIDTH - 1
            /\ shift_pflag \in 0 .. 2 /\ shift_pflag_d \in 0 .. 2
        BY <4>1, <4>3, <4>4, Widths
      <4>8. QED BY <4>3, <4>5, <4>6, <4>7
    <3>3. QED BY <3>1, <3>2
  <2>7. \A p \in Places : rd_addr[p] \in 0 .. Cardinality(AtPlace(p))
    BY <2>6, PictureType, PassedBounds
  <2>8. rd_addr_pflag \in {ROW_BLOCKS * b : b \in Slots}
    BY <2>6
  <2>9. QED BY <2>1, <2>2, <2>3, <2>4, <2>5, <2>6, <2>7, <2>8, Sizes DEF TypeOK, row
<1>2. QED BY <1>1, DenseInvariant, PTL
=============================================================================
