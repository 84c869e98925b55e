SPECIFICATION Spec
CONSTANTS
  Careful = TRUE
  Threads = {t1, t2, t3}
  Objects = {o1, o2, o3, o4}
  MaxId = 3
  NoThread = NoThread
  NoObject = NoObject
SYMMETRY Interchangeable
INVARIANTS
  TypeOK
  HandlesNameTheirObject
  InvalidIdNeverReturned
  DiesOnlyWhenFull
  ReferencesAreLive
PROPERTIES
  LookupReturnsItsObject
  ImplementsIdAllocator
CHECK_DEADLOCK FALSE
