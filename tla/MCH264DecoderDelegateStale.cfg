SPECIFICATION Spec
CONSTANTS
  ByVaApi = FALSE
  Surfaces = {s1}
  PicParams = {p1}
  Matrices = {q1}
  SliceParams = {i1, b1}
  SliceData = {d1}
  Intra = {i1}
  OrderType1 = {}
  CacheSize = 2
  TsMod = 3
  Reorder = 1
  Oddities = {}
  MaxRepeats = 0
  Nil = Nil
SYMMETRY Interchangeable
INVARIANTS
  ReadsLiveBuffersOnly
CHECK_DEADLOCK FALSE
