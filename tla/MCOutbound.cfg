SPECIFICATION SystemSpec
CONSTANTS
  a1 = a1
  a2 = a2
  m1 = m1
  m2 = m2
  x1 = x1
  Yield = yield
  None = none
  Apps = {a1, a2}
  Msg = {m1}
  Topic = {x1}
  TopicOf <- AllTopics
  Qos <- QosTwo
  Calls <- TwoConnectCalls
  MaxPacketId = 4
  AckMax = 2
  NetCap = 2
  MaxConnects = 3
  KeepAliveRuns = TRUE
  AllocFails = FALSE
  WordRaces = FALSE
  ServerMsg = {}
  ServerId <- NoIds
  Drops = TRUE
INVARIANTS
  LockExclusion
  AcceptedIsKept
PROPERTY
  OutboundOnce
CHECK_DEADLOCK FALSE
