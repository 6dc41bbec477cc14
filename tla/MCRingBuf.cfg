CONSTANTS
  Object = {a, b, c}
  len = 4
  NoObject = NoObject
SPECIFICATION Spec
INVARIANT TypeOK
INVARIANT Consistent
PROPERTY ImplementsFifo
