SPECIFICATION Spec
CONSTANTS
  Careful = TRUE
  Threads = {t1, t2}
  Mappings = {m1, m2, m3}
  BOs = {b1, b2, b3}
  Nil = Nil
  Wrap = 256
  PageSize = 4
  MaxDim = 4
  Dims = {3, 4, 16}
SYMMETRY Interchangeable
INVARIANTS
  TypeOK
  NothingLeaks
  MappingsOwnTheirPlanes
  GbmIsSerialised
  GbmBuffersAreMapped
  ImageHoldsTheSurface
CHECK_DEADLOCK FALSE
