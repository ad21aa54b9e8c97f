SPECIFICATION Spec
CONSTANTS
  NoRequest = NoRequest
  Providers = {r1, r2}
  Programs = {p1}
  AssignmentIds = {a1}
  Administrators = {d1, d2}
  Schedulers = {s1, s2}
SYMMETRY Symmetry
INVARIANTS TypeOK
PROPERTIES UndisturbedSavesAreAtomic
