SPECIFICATION Spec
CONSTANTS
  c1 = c1
  c2 = c2
  c3 = c3
  alert = alert
  other = other
  Streams = {c1, c2, c3}
  Topics = {alert, other}
  Wanted <- MCWanted
  MaxSubscribers = 2
  QueueSize = 2
  ReplaySize = 1
  MaxEvents = 3
INVARIANTS
  OldestLost
  LossesCounted
PROPERTIES
  QueuesMove
CHECK_DEADLOCK FALSE
