-------------------------------- MODULE Fifo --------------------------------
(***************************************************************************)
(* fifo.v: a synchronous FIFO built from a word counter, a write pointer,  *)
(* a read pointer and a memory, each in an always block of its own.  One   *)
(* step of this specification is one rising clock edge: every block reads  *)
(* the registers and inputs as they were before the edge, so a step is the *)
(* conjunction of the blocks.  The pointers are ADDR_WIDTH bits wide and   *)
(* RAM_DEPTH is 1 << ADDR_WIDTH: they wrap to 0 after RAM_DEPTH - 1.       *)
(***************************************************************************)
EXTENDS Integers, Sequences

CONSTANTS RAM_DEPTH, \* slots of the memory
          Data       \* the words

ASSUME DepthAssumption == RAM_DEPTH \in Nat \ {0}

VARIABLES reset, push, pop, data_in,  \* the inputs, free on every edge
          fifo_count, wr_pointer, rd_pointer, mem, data_out

vars == <<reset, push, pop, data_in, fifo_count, wr_pointer, rd_pointer, mem, data_out>>

Slots == 0 .. RAM_DEPTH - 1

\* The status flags, combinational from the counter (FIFO_STATUS).
empty == fifo_count = 0
full  == fifo_count = RAM_DEPTH

\* A pointer of ADDR_WIDTH bits plus 1.
Succ(p) == IF p = RAM_DEPTH - 1 THEN 0 ELSE p + 1

-----------------------------------------------------------------------------
(* The always blocks. *)

\* Seeded fault: a push refused by a full FIFO also cancels the count of the pop.
FIFO_COUNTER_PopNeedsNoPush ==
  fifo_count' =
    IF reset THEN 0
    ELSE IF push /\ (~pop \/ empty) /\ ~full THEN fifo_count + 1
    ELSE IF pop /\ ~push /\ ~empty THEN fifo_count - 1
    ELSE fifo_count

\* Seeded fault: the counter counts a push that a full FIFO refuses.
FIFO_COUNTER_IgnoresFull ==
  fifo_count' =
    IF reset THEN 0
    ELSE IF push /\ (~pop \/ empty) THEN fifo_count + 1
    ELSE IF pop /\ (~push \/ full) /\ ~empty THEN fifo_count - 1
    ELSE fifo_count

FIFO_COUNTER ==
  fifo_count' =
    IF reset THEN 0
    ELSE IF push /\ (~pop \/ (pop /\ empty)) /\ ~full THEN fifo_count + 1
    ELSE IF pop /\ (~push \/ (push /\ full)) /\ ~empty THEN fifo_count - 1
    ELSE fifo_count

WRITE_PTR ==
  wr_pointer' =
    IF reset THEN 0
    ELSE IF push /\ ~full THEN Succ(wr_pointer)
    ELSE wr_pointer

READ_PTR ==
  rd_pointer' =
    IF reset THEN 0
    ELSE IF pop /\ ~empty THEN Succ(rd_pointer)
    ELSE rd_pointer

\* Seeded fault: the memory write is not gated by full.
WRITE_IgnoresFull ==
  mem' = IF push THEN [mem EXCEPT ![wr_pointer] = data_in] ELSE mem

\* The memory write is not gated by reset.
WRITE ==
  mem' = IF push /\ ~full THEN [mem EXCEPT ![wr_pointer] = data_in] ELSE mem

\* The reset value of data_out is always overridden by the second if.
READ ==
  data_out' = IF pop /\ ~empty THEN mem[rd_pointer] ELSE data_out

-----------------------------------------------------------------------------

Inputs ==
  /\ reset \in BOOLEAN
  /\ push \in BOOLEAN
  /\ pop \in BOOLEAN
  /\ data_in \in Data

\* Power-up, held in reset: neither the memory nor data_out has a reset value.
Init ==
  /\ fifo_count = 0
  /\ wr_pointer = 0
  /\ rd_pointer = 0
  /\ mem \in [Slots -> Data]
  /\ data_out \in Data
  /\ Inputs

\* One clock edge.
Clock ==
  /\ FIFO_COUNTER
  /\ WRITE_PTR
  /\ READ_PTR
  /\ WRITE
  /\ READ

NextInputs ==
  /\ reset' \in BOOLEAN
  /\ push' \in BOOLEAN
  /\ pop' \in BOOLEAN
  /\ data_in' \in Data

Next == Clock /\ NextInputs

Spec == Init /\ [][Next]_vars

-----------------------------------------------------------------------------
(* Properties. *)

\* Every register holds a value of its width: the counter never leaves
\* 0 .. RAM_DEPTH, although only its guards keep it there.
TypeOK ==
  /\ Inputs
  /\ fifo_count \in 0 .. RAM_DEPTH
  /\ wr_pointer \in Slots
  /\ rd_pointer \in Slots
  /\ mem \in [Slots -> Data]
  /\ data_out \in Data

\* The slot k places after slot p, around the end of the memory.
Ahead(p, k) == IF p + k < RAM_DEPTH THEN p + k ELSE p + k - RAM_DEPTH

\* The counter, which alone decides empty and full, equals the distance from
\* the read to the write pointer: three registers updated by three blocks with
\* three different guards never disagree.
CountIsDistance == wr_pointer = Ahead(rd_pointer, fifo_count)

\* The words the memory holds, oldest first.
Contents == [i \in 1 .. fifo_count |-> mem[Ahead(rd_pointer, i - 1)]]

Queue == INSTANCE BoundedQueue
           WITH Capacity <- RAM_DEPTH, q <- Contents, out <- data_out

\* fifo.v is a bounded queue driven by the same inputs: no word is lost,
\* repeated, reordered or overwritten, whatever the producer and the consumer do
\* on each edge, a push on a full FIFO that is popped on the same edge included.
ImplementsQueue ==
  Queue!Init /\ [][Queue!Step(reset, push, pop, data_in)]_vars
=============================================================================
