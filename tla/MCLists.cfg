SPECIFICATION FairSpec
CONSTANTS
  n1 = n1
  n2 = n2
  n3 = n3
  a1 = a1
  a2 = a2
  List = list
  None = none
  Node = {n1, n2, n3}
  Apps = {a1, a2}
  Yield = yield
  Key <- MCKey
  Received = {n2}
INVARIANTS
  TypeOK
  Linked
  SeesAll
  VisitedOnce
  KeysUnique
PROPERTY
  WalksEnd
CHECK_DEADLOCK FALSE
