CONSTANTS
  Sockets = {s1, s2}
  Queues = {q1, q2, q3}
  MaxClients = 1
  MaxPerRead = 1
  Chunk = 3
  Cap = 3
  MaxFrames = 2
  NoQueue = NoQueue
  NoSocket = NoSocket
SPECIFICATION Spec
INVARIANT AcceptSurvives
