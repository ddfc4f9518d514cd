------------------------------- MODULE MCFifo -------------------------------
(* A FIFO of four slots over two words: every wrap of both pointers. *)
EXTENDS Fifo
=============================================================================
