SPECIFICATION FairSpec
CONSTANTS
  Careful = FALSE
  Threads = {t1, t2}
  Objects = {o1, o2, o3}
  MaxId = 2
  NoThread = NoThread
  NoObject = NoObject
INVARIANTS
  UniqueIds
  NextIdIsLeastFree
PROPERTIES
  LockIsReleased
CHECK_DEADLOCK FALSE
