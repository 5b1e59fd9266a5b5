SPECIFICATION Spec
CONSTANTS
  Workers = {w1, w2}
  Users = {u1, u2}
  Ids = {c1, c2, c3, c4}
  Names = {n1, n2}
  MaxChars = 2
  NoUser = NoUser
  NoName = NoName
  NoId = NoId
  NoWorker = NoWorker
SYMMETRY Symmetry
INVARIANT OvershootIsBounded
INVARIANT DoublesFromDistinctWorkers
INVARIANT DeletedOnce
PROPERTY ImplementsRoster
