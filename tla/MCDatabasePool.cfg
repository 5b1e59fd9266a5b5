SPECIFICATION FairSpec
CONSTANTS
  Threads = {t1, t2, t3, t4}
  PoolSize = 2
  NoThread = NoThread
  t1 = t1
  t2 = t2
  t3 = t3
  t4 = t4
INVARIANT SlotsAreExclusive
INVARIANT NoSlotIsLost
INVARIANT FreeSlotsAreClaimed
PROPERTY FreeSlotsAreTaken
PROPERTY ImplementsLeases
