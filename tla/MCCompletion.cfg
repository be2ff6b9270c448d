SPECIFICATION FairSpec
CONSTANTS
  a1 = a1
  a2 = a2
  m1 = m1
  m2 = m2
  x1 = x1
  Yield = yield
  None = none
  Apps = {a1}
  Msg = {m1}
  Topic = {x1}
  TopicOf <- AllTopics
  Qos <- QosTwo
  Calls <- OneMessageCalls
  MaxPacketId = 4
  AckMax = 1
  NetCap = 3
  MaxConnects = 3
  KeepAliveRuns = TRUE
  AllocFails = TRUE
  WordRaces = FALSE
  ServerMsg = {}
  ServerId <- NoIds
  Drops = TRUE
PROPERTIES
  AcceptedArrives
  ListDrains
CHECK_DEADLOCK FALSE
