SPECIFICATION Spec
CONSTANTS
  Byte = {b0, b1}
  Size = 3
  MaxReq = 4
  Writers = {w1}
  Readers = {r1}
INVARIANTS
  TypeOK
  Consistent
PROPERTY
  ImplementsQueue
