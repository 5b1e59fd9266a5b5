SPECIFICATION Spec
CONSTANTS
  Workers = {w1}
  Tasks = {e1}
  IoThreads = {i1}
  BatchSize = 2
  MaxEvents = 2
  Loop = Loop
  Main = Main
  NoTask = NoTask
  NoThread = NoThread
  w1 = w1
  e1 = e1
  i1 = i1
CHECK_DEADLOCK FALSE
INVARIANT HandlersEndBeforeTheirObject
