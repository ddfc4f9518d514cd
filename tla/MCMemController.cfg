CONSTANTS
  ROW_BLOCKS = 6
  ROWS = 3
  p = p
  q = q
  Places = {p, q}
  Pictures <- MCPictures
  Kernels <- ServedKernels
SPECIFICATION Spec
INVARIANTS TypeOK RowIsShown EachPairOnce
PROPERTY PictureIsStreamed
