SPECIFICATION FairSpec
CONSTANTS
  c1 = c1
  c2 = c2
  c3 = c3
  None = none
  Cmd = {c1, c2, c3}
  HasResp = {c1, c2}
  LineNum <- MCLineNum
  BufSize <- MCBufSize
  Answers <- MCAnswers
  UrcKinds <- EspUrcKinds
  Length <- MCLength
  SemMax = 20
  MaxUrc = 1
INVARIANTS
  TypeOK
  BufferBounded
  LeftoverIsTimeout
  SafeUntilTimeout
PROPERTY
  CommandsReturn
CHECK_DEADLOCK FALSE
