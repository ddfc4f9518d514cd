CONSTANTS
  RAM_DEPTH = 4
  Data = {a, b}
SPECIFICATION Spec
INVARIANTS TypeOK CountIsDistance
PROPERTY ImplementsQueue
