SPECIFICATION Spec
CONSTANTS
  Base = 2
  Letter = {"a", "b"}
  TopicLen = 4
  Word = 64
  Second = 5
  ReadBufSize = 6
  WriteBufSize = 6
  CmdTimeout = 2
  Streams <- OneDigit
  Boots <- LateBoots
  LastTick = 15
INVARIANT
  ReadEndsInTime
CHECK_DEADLOCK FALSE
