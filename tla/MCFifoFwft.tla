----------------------------- MODULE MCFifoFwft -----------------------------
(* Four words fit behind the shown one: both pointers wrap. *)
EXTENDS FifoFwft
=============================================================================
