SPECIFICATION Spec
CONSTANTS
  a1 = a1
  a2 = a2
  m1 = m1
  m2 = m2
  x1 = x1
  Yield = yield
  None = none
  Apps = {a1, a2}
  Msg = {m1, m2}
  Topic = {x1}
  TopicOf <- AllTopics
  Qos <- QosMixed
  Calls <- PublishersCalls
  MaxPacketId = 4
  AckMax = 1
  NetCap = 1
  MaxConnects = 2
  KeepAliveRuns = FALSE
  AllocFails = TRUE
  WordRaces = FALSE
  FromServer <- PublisherReplies
  MaxDelivered = 1
INVARIANTS
  TypeOK
  LockExclusion
  AckNumCoversList
  PublishedBounded
PROPERTY
  KeptUntilAnswered
CHECK_DEADLOCK FALSE
