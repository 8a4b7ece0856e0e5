CONSTANTS
  Messages <- SomeMessages
  Size = 10
  BufSize = 3

SPECIFICATION Spec
INVARIANT TypeOK
INVARIANT StartsWithFrame
INVARIANT DropsUpToOneAsLong
PROPERTY SendsTheOldest
PROPERTY IsFifo
