SPECIFICATION LaterSpec
CONSTANTS
  Workers = {w1, w2}
  Users = {u1, u2}
  InitialUsers = {}
  Tokens = {t1, t2, t3}
  Ttl = 0
  NoUser = NoUser
  NoToken = NoToken
  NoWorker = NoWorker
  Old = u1
  New = u2
  OldToken = t1
  OldWorker = w1
  t1 = t1
  t2 = t2
  t3 = t3
  u1 = u1
  u2 = u2
  w1 = w1
  w2 = w2
INVARIANT ActiveRowsFromDistinctWorkers
INVARIANT SoloLoginIsSoleSession
INVARIANT HonouredSessionsWereCommitted
INVARIANT EvictionsOfOthersHaveOverlapped
PROPERTY RequestsEnd
PROPERTY ImplementsSessionLife
