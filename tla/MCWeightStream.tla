--------------------------- MODULE MCWeightStream ---------------------------
EXTENDS WeightStream

\* The weights in row r of a kernel.
Count(K, r) == Cardinality({f \in K : f \div KERNEL_WIDTH = 2 - r})

\* Kernels with a weight outside the first column.
Started == {K \in SUBSET Flags : \E f \in K : f % KERNEL_WIDTH # 2}

\* The kernels that are streamed right, by the weights in their rows; the one of
\* the testbench has 2, 0 and 3.
ServedKernels ==
  {K \in Started :
     \/ Count(K, 0) >= 2 /\ Count(K, 1) <= 2 /\ Count(K, 2) >= 1
     \/ Count(K, 0) = 1 /\ Count(K, 1) <= 1 /\ Count(K, 2) = 1}
=============================================================================
