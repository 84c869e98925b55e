SPECIFICATION Spec
CONSTANTS
  ByVaApi = TRUE
  Surfaces = {s1, s2}
  PicParams = {p1, p2}
  Matrices = {}
  SliceParams = {i1, b1}
  SliceData = {d1}
  Intra = {i1}
  OrderType1 = {p2}
  CacheSize = 3
  TsMod = 4
  Reorder = 2
  Oddities = {"error"}
  MaxRepeats = 0
  Nil = Nil
SYMMETRY Interchangeable
INVARIANTS
  TypeOK
  FramesFindTheirTarget
  CacheHoldsLatestTargets
  OnlyFetchedPictures
  DiesOnlyOfOrderType
PROPERTIES
  ImplementsContextDelegate
CHECK_DEADLOCK FALSE
