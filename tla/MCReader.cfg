SPECIFICATION Spec
CONSTANTS
  Base = 2
  Letter = {"a", "b"}
  TopicLen = 4
  Word = 64
  Second = 5
  ReadBufSize = 6
  WriteBufSize = 6
  CmdTimeout = 2
  Streams <- MCStreams
  Boots <- MCBoots
  LastTick = 14
INVARIANTS
  TypeOK
  AtBoundary
  HoldsPacket
  OnlyTooLongDropped
  CallBounded
  SmallBufferSafe
PROPERTY
  GivesUpOnTime
CHECK_DEADLOCK FALSE
