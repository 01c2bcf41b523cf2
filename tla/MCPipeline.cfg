SPECIFICATION FairSpec
CONSTANTS
  e1 = e1
  e2 = e2
  d1 = d1
  w1 = w1
  w2 = w2
  v1 = v1
  h1 = h1
  h2 = h2
  Topics = {"raw", "event"}
  Subscribers = {"eventd", "pipelined"}
  Publishers <- MCPublishers
  ConsumerName <- OwnName
  ChanCap <- CapOne
  MaxTopics = 2
  Sources = {e1, e2}
  Callbacks = {d1}
  EventdCount = {w1, w2}
  PipelineCount = {v1}
  Metrics = {e1}
  Handlers = {h1, h2}
  Hanging = {}
  Stops = TRUE
INVARIANTS
  TypeOK
  Accounted
  Drained
PROPERTIES
  EventEnds
  PublishReturns
  ShutdownEnds
CHECK_DEADLOCK FALSE
