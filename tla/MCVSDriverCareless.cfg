SPECIFICATION Spec
CONSTANTS
  Careful = FALSE
  Traps = TRUE
  NoOps = {FALSE, TRUE}
  Threads = {t1}
  Configs = {g1, g2}
  Surfaces = {s1}
  Contexts = {c1}
  Images = {}
  Params = {p1}
  Slices = {l1}
  Backings = {}
  Decodable = {g1}
  Mapped = {}
  Nil = Nil
INVARIANTS
  WorkHasATarget
CHECK_DEADLOCK FALSE
