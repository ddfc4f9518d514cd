--------------------------- MODULE ShowAheadQueue ---------------------------
(***************************************************************************)
(* What a first-word-fall-through FIFO promises: a queue whose oldest word *)
(* is shown to the consumer, when `valid' holds, before it is popped.  A   *)
(* pop removes the shown word and does nothing while none is shown.  A     *)
(* word that enters an empty queue is not shown at once: it is inside for  *)
(* one edge without being visible.  Capacity words fit behind the shown    *)
(* one.                                                                    *)
(***************************************************************************)
EXTENDS Integers, Sequences

CONSTANTS Capacity, \* how many words fit behind the shown word
          Data      \* the words

VARIABLES q,    \* the words inside, oldest first, the shown one included
          valid \* the oldest word is shown

\* The words behind the shown one, which the full flag counts.
waiting == IF valid THEN Len(q) - 1 ELSE Len(q)
full    == waiting = Capacity

Init == q = <<>> /\ valid = FALSE

Reset == q' = <<>> /\ valid' = FALSE

After(push, pop, d) ==
  LET kept == IF pop /\ valid THEN Tail(q) ELSE q
  IN  IF push /\ ~full THEN Append(kept, d) ELSE kept

Edge(push, pop, d) ==
  /\ q' = After(push, pop, d)
  /\ valid' = (waiting > 0 \/ (valid /\ ~pop))

\* One clock edge.
Step(reset, push, pop, d) == IF reset THEN Reset ELSE Edge(push, pop, d)
=============================================================================
