SPECIFICATION Spec
CONSTANTS
  Consumers = {c1}
  Timed = {c1}
  Events = {e1}
  BatchSizes = {1, 2}
  MaxEvents = 2
  MaxStops = 1
  NoThread = NoThread
  c1 = c1
  e1 = e1
CHECK_DEADLOCK FALSE
INVARIANT StopWakesEveryone
