SPECIFICATION FairSpec
CONSTANTS
  s1 = s1
  s2 = s2
  p1 = p1
  t1 = t1
  t2 = t2
  Topics = {t1, t2}
  Publishers = {p1}
  Subscribers = {s1, s2}
  Steady = {s1}
  ConsumerName <- OwnName
  ChanCap <- CapOne
  MaxTopics = 2
  SubscriptionsOf <- MCSubscriptions
  CheckTopics <- AllTopics
  MaxRequests = 2
  SendqCap = 1
  BusStops = TRUE
INVARIANTS
  TypeOK
  
  InOrder
PROPERTIES
  
  SessionStops
CHECK_DEADLOCK FALSE
