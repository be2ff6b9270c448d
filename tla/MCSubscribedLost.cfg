SPECIFICATION SystemSpec
CONSTANTS
  a1 = a1
  a2 = a2
  m1 = m1
  m2 = m2
  x1 = x1
  Yield = yield
  None = none
  Apps = {a1}
  Msg = {}
  Topic = {x1}
  TopicOf <- AllTopics
  Qos <- QosTwo
  Calls <- SubscriberCalls
  MaxPacketId = 4
  AckMax = 2
  NetCap = 2
  MaxConnects = 1
  KeepAliveRuns = FALSE
  AllocFails = FALSE
  WordRaces = FALSE
  ServerMsg = {}
  ServerId <- NoIds
  Drops = FALSE
INVARIANT SubscribedIsInstalled
CHECK_DEADLOCK FALSE
