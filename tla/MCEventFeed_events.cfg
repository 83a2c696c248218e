SPECIFICATION FeedSpec
CONSTANTS
  t1 = t1
  t2 = t2
  c1 = c1
  Appenders = {t1, t2}
  Clients = {c1}
  Bus = bus
  Aggregator = aggregator
  Capacity = 2
  InboxMax = 1
  BusMax = 1
  MaxEvents = 3
  MaxStarts = 2
CHECK_DEADLOCK FALSE
INVARIANTS GapsAreExact
PROPERTIES WokenSocketsEnd
