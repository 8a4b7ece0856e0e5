CONSTANTS
  Bytes = {0, 1, 2}
  Size = 4

SPECIFICATION Spec
INVARIANT TypeOK
PROPERTY IsFifo
