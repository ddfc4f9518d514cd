------------------------------ MODULE FifoFwft ------------------------------
(***************************************************************************)
(* fifo_fwft.v: fifo.v with its output register used as a show-ahead       *)
(* stage.  dout_valid says that the register holds a word; the inner FIFO  *)
(* is popped as soon as the register is free or is being emptied.          *)
(***************************************************************************)
EXTENDS Integers, Sequences

CONSTANTS RAM_DEPTH, \* slots of the inner FIFO
          Data       \* the words

ASSUME FwftAssumption == RAM_DEPTH \in Nat \ {0}

VARIABLES reset, push, pop, data_in, \* the inputs, free on every edge
          dout_valid,
          fifo_count, wr_pointer, rd_pointer, mem, data_out \* of fifo_buffer

vars == <<reset, push, pop, data_in,
          dout_valid, fifo_count, wr_pointer, rd_pointer, mem, data_out>>

fifo_empty == fifo_count = 0

\* Seeded fault: the register is refilled only when it is popped.
fifo_pop_OnlyOnPop == ~fifo_empty /\ pop

fifo_pop == ~fifo_empty /\ (~dout_valid \/ pop)

fifo_buffer == INSTANCE Fifo WITH pop <- fifo_pop

\* Seeded fault: a pop clears the register even when the inner FIFO refills it.
ShownWord_PopFirst ==
  dout_valid' = (~reset /\ ~pop /\ (fifo_pop \/ dout_valid))

\* The register that tells whether a word is shown.
ShownWord ==
  dout_valid' =
    IF reset THEN FALSE
    ELSE IF fifo_pop THEN TRUE
    ELSE IF pop THEN FALSE
    ELSE dout_valid

Init == pop \in BOOLEAN /\ dout_valid = FALSE /\ fifo_buffer!Init

\* One clock edge, on which the inner FIFO takes an edge of its own.
Next == pop' \in BOOLEAN /\ ShownWord /\ fifo_buffer!Next

\* The clock never stops; nobody is obliged to pop or to reset.
Spec == Init /\ [][Next]_vars /\ WF_vars(Next)

-----------------------------------------------------------------------------
(* Properties. *)

\* The registers keep their widths and the inner FIFO its pointer distance
\* although fifo_pop is derived from the inner FIFO's own flags.
TypeOK ==
  /\ pop \in BOOLEAN
  /\ dout_valid \in BOOLEAN
  /\ fifo_buffer!TypeOK
  /\ fifo_buffer!CountIsDistance

\* The words inside: the shown one, then those of the inner FIFO.
Words ==
  (IF dout_valid THEN <<data_out>> ELSE <<>>) \o fifo_buffer!Contents

Shown == INSTANCE ShowAheadQueue
           WITH Capacity <- RAM_DEPTH, q <- Words, valid <- dout_valid

\* fifo_fwft.v is a show-ahead queue driven by the same inputs: the word on
\* data_out is the oldest one not yet popped whenever empty is low, no word is
\* lost or repeated between the inner FIFO and the output register, and a push
\* is refused only when RAM_DEPTH words wait behind the shown one.
ImplementsShowAhead ==
  Shown!Init /\ [][Shown!Step(reset, push, pop, data_in)]_vars

\* A word that has entered an empty queue does not stay hidden behind empty.
EventuallyShown == Words # <<>> ~> (dout_valid \/ Words = <<>>)
=============================================================================
