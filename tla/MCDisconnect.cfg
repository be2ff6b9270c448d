SPECIFICATION ScheduledSpec
CONSTANTS
  a1 = a1
  a2 = a2
  m1 = m1
  m2 = m2
  x1 = x1
  Yield = yield
  None = none
  Apps = {a1, a2}
  Msg = {m1}
  Topic = {x1}
  TopicOf <- AllTopics
  Qos <- QosMixed
  Calls <- DisconnectCalls
  MaxPacketId = 4
  AckMax = 1
  NetCap = 1
  MaxConnects = 2
  KeepAliveRuns = TRUE
  AllocFails = FALSE
  WordRaces = FALSE
  ServerMsg = {}
  ServerId <- NoIds
  Drops = FALSE
PROPERTY DisconnectCleans
CHECK_DEADLOCK FALSE
