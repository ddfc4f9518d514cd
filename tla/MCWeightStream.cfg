CONSTANT Kernels <- ServedKernels
SPECIFICATION WeightSpec
INVARIANTS WeightTypeOK RowIsRight
PROPERTIES PairsGoRound StreamStarts
