SPECIFICATION FairSpec
CONSTANTS
  ByVaApi = FALSE
  Surfaces = {s1}
  PicParams = {p1, p2}
  Matrices = {}
  SliceParams = {i1, b1}
  SliceData = {d1}
  Intra = {i1}
  OrderType1 = {p2}
  CacheSize = 2
  TsMod = 3
  Reorder = 1
  Oddities = {"error", "flushed"}
  MaxRepeats = 1
  Nil = Nil
INVARIANTS
  PicturesAreGivenBack
  RunLeavesNoSlices
PROPERTIES
  RunTerminates
CHECK_DEADLOCK FALSE
