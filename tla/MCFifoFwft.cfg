CONSTANTS
  RAM_DEPTH = 4
  Data = {a, b}
SPECIFICATION Spec
INVARIANT TypeOK
PROPERTIES ImplementsShowAhead EventuallyShown
