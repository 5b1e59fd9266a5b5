SPECIFICATION FairSpec
CONSTANTS
  Consumers = {c1, c2}
  Timed = {c1}
  Events = {e1, e2}
  BatchSizes = {1, 2}
  MaxEvents = 4
  MaxStops = 2
  NoThread = NoThread
  c1 = c1
  c2 = c2
  e1 = e1
  e2 = e2
CHECK_DEADLOCK FALSE
INVARIANT FifoOrder
INVARIANT NeverAllAsleepWithWork
PROPERTY ImplementsFifo
PROPERTY EventuallyTaken
