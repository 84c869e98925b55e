SPECIFICATION Spec
CONSTANTS
  Careful = TRUE
  Traps = FALSE
  NoOps = {FALSE}
  Threads = {t1, t2}
  Configs = {g1}
  Surfaces = {s1}
  Contexts = {c1, c2}
  Images = {}
  Params = {p1}
  Slices = {l1}
  Backings = {}
  Decodable = {g1}
  Mapped = {}
  Nil = Nil
SYMMETRY Interchangeable
INVARIANTS
  TypeOK
PROPERTIES
  LookupsFindTheNamedObject
  CallsKeepToContract
