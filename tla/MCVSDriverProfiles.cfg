SPECIFICATION Spec
CONSTANTS
  Careful = TRUE
  Traps = FALSE
  NoOps = {FALSE}
  Threads = {t1}
  Configs = {g1}
  Surfaces = {s1}
  Contexts = {c1}
  Images = {}
  Params = {p1}
  Slices = {l1}
  Backings = {}
  Decodable = {}
  Mapped = {}
  Nil = Nil
SYMMETRY Interchangeable
INVARIANTS
  EveryConfigDecodes
CHECK_DEADLOCK FALSE
