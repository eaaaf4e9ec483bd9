CONSTANTS
  Size = 4
  Wrap = 8
  Byte = {0, 1}
  MaxPut = 3
  MaxGet = 3
SPECIFICATION Spec
INVARIANTS TypeOK NeverOverfull CopyIsIntact
PROPERTY ImplementsByteQueue
