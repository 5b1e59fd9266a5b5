SPECIFICATION FairSpec
CONSTANTS
  Workers = {w1, w2}
  Tasks = {e1, e2}
  IoThreads = {i1}
  BatchSize = 2
  MaxEvents = 3
  Loop = Loop
  Main = Main
  NoTask = NoTask
  NoThread = NoThread
  w1 = w1
  w2 = w2
  e1 = e1
  e2 = e2
  i1 = i1
CHECK_DEADLOCK FALSE
INVARIANT LoopHearsOfRequests
INVARIANT RequestsStartInOrder
INVARIANT ServicesOutliveTheirUsers
INVARIANT SocketsDieFirst
INVARIANT TasksAreClaimed
INVARIANT DestructorDrains
PROPERTY PoolIsFifo
PROPERTY ShutdownEnds
