---------------------------- MODULE BoundedQueue ----------------------------
(***************************************************************************)
(* What a clocked FIFO promises: a queue of at most Capacity words whose   *)
(* producer and consumer each act at most once per clock edge.  A push is  *)
(* refused when the queue is full and a pop does nothing when it is empty; *)
(* both look at the queue as it was before the edge.  A delivered word     *)
(* appears in the output register `out' after the edge and stays there     *)
(* until the next delivery.  Reset empties the queue and leaves `out' to   *)
(* the read port.                                                          *)
(***************************************************************************)
EXTENDS Integers, Sequences

CONSTANTS Capacity, \* how many words fit
          Data      \* the words

VARIABLES q,   \* the words inside, oldest first
          out  \* the output register

\* The words inside after an edge with the given push and pop inputs.
After(push, pop, d) ==
  LET kept == IF pop /\ q # <<>> THEN Tail(q) ELSE q
  IN  IF push /\ Len(q) < Capacity THEN Append(kept, d) ELSE kept

ReadPort(pop) == out' = IF pop /\ q # <<>> THEN Head(q) ELSE out

Init == q = <<>> /\ out \in Data

Reset(pop) == q' = <<>> /\ ReadPort(pop)

Edge(push, pop, d) == q' = After(push, pop, d) /\ ReadPort(pop)

\* One clock edge.
Step(reset, push, pop, d) == IF reset THEN Reset(pop) ELSE Edge(push, pop, d)
=============================================================================
