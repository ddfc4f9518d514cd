--------------------------- MODULE MCMemController ---------------------------
(***************************************************************************)
(* Two places of a block; one picture is full of activations at one place  *)
(* and has none at the other, one has holes at both.                       *)
(***************************************************************************)
EXTENDS MemController

CONSTANTS p, q

MCPictures ==
  {[b \in Blocks |-> {p}],
   [b \in Blocks |-> (IF b % 3 # 1 THEN {p} ELSE {}) \cup (IF b % 2 = 0 THEN {q} ELSE {})]}

Count(K, r) == Cardinality({f \in K : f \div 3 = 2 - r})

\* The kernels that WeightStream serves, those of at most 5 weights: the
\* fewer the weights, the less time to read the next row of blocks.
ServedKernels ==
  {K \in SUBSET (0 .. 8) :
     /\ Cardinality(K) <= 5
     /\ \E f \in K : f % 3 # 2
     /\ \/ Count(K, 0) >= 2 /\ Count(K, 1) <= 2 /\ Count(K, 2) >= 1
        \/ Count(K, 0) = 1 /\ Count(K, 1) <= 1 /\ Count(K, 2) = 1}
=============================================================================
