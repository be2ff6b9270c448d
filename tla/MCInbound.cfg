SPECIFICATION SystemSpec
CONSTANTS
  a1 = a1
  a2 = a2
  m1 = m1
  m2 = m2
  x1 = x1
  Yield = yield
  None = none
  Apps = {a1}
  Msg = {m1, m2}
  Topic = {x1}
  TopicOf <- AllTopics
  Qos <- QosMixed
  Calls <- SubscriberCalls
  MaxPacketId = 4
  AckMax = 1
  NetCap = 2
  MaxConnects = 2
  KeepAliveRuns = TRUE
  AllocFails = FALSE
  WordRaces = TRUE
  ServerMsg = {m1, m2}
  ServerId <- ServerIds
  Drops = TRUE
INVARIANTS
  SystemTypeOK
  ForgottenIsDelivered
PROPERTY
  InboundOnce
CHECK_DEADLOCK FALSE
