SPECIFICATION Spec
CONSTANTS
  StaleForms = FALSE
  Providers = {r1, r2}
  ServiceTypes = {t1, t2}
  Programs = {p1}
  Schools = {s1}
  Associates = {h1}
  AssignmentIds = {a1}
SYMMETRY Symmetry
INVARIANT InactiveProgramOffersNothing
