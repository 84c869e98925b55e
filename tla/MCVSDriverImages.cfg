SPECIFICATION Spec
CONSTANTS
  Careful = TRUE
  Traps = FALSE
  NoOps = {FALSE}
  Threads = {t1, t2}
  Configs = {}
  Surfaces = {s1, s2}
  Contexts = {}
  Images = {m1, m2, m3}
  Params = {}
  Slices = {}
  Backings = {b1, b2, b3}
  Decodable = {}
  Mapped = {s1}
  Nil = Nil
SYMMETRY Interchangeable
INVARIANTS
  NeverDies
  EveryImageHasItsBuffer
