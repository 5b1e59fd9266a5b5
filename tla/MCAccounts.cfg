SPECIFICATION Spec
CONSTANTS
  Workers = {w1, w2}
  Users = {u1, u2}
  InitialUsers = {}
  Names = {n1}
  Spellings = {lower, mixed}
  CounterMax = 7
  NoUser = NoUser
  NoWorker = NoWorker
  NoLogin = NoLogin
  w1 = w1
  w2 = w2
  u1 = u1
  u2 = u2
  n1 = n1
  lower = lower
  mixed = mixed
SYMMETRY Symmetry
INVARIANT EveryFailureIsCounted
INVARIANT LockFollowsCounter
INVARIANT BurstIsBounded
INVARIANT SameLoginFromDistinctWorkers
PROPERTY ImplementsLoginPolicy
CONSTRAINT OneTarget
