SPECIFICATION Spec
CONSTANTS
  Workers = {w1, w2}
  Users = {u1}
  InitialUsers = {u1}
  Names = {n1}
  Spellings = {lower}
  CounterMax = 6
  NoUser = NoUser
  NoWorker = NoWorker
  NoLogin = NoLogin
  w1 = w1
  w2 = w2
  u1 = u1
  n1 = n1
  lower = lower
SYMMETRY Symmetry
INVARIANT LockedIsReported
