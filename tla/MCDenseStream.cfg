CONSTANTS
  IF_WIDTH = 8
  Kernels <- MCKernels
  Pictures <- ServedPictures
SPECIFICATION Spec
INVARIANTS TypeOK KernelIsComplete RowIsScanned
PROPERTY PictureIsScanned
