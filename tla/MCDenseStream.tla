---------------------------- MODULE MCDenseStream ----------------------------
(***************************************************************************)
(* Pictures of 8 x 8 in three rows of blocks.  A row is empty, or has its  *)
(* last column set and is not full; the last of the three rows of a block  *)
(* has two activations or more.                                            *)
(***************************************************************************)
EXTENDS DenseStream

MCKernels == {{8}, {0, 2, 6, 7}}

RowChoices == {{}, {7}, {0, 1, 2, 5, 7}}

ServedPictures ==
  {pic \in [Rows -> RowChoices] :
     \A r \in Rows : r % KERNEL_WIDTH = 2 => Cardinality(pic[r]) >= 2}
=============================================================================
