SPECIFICATION Spec
CONSTANTS
  StaleForms = FALSE
  Providers = {r1, r2}
  ServiceTypes = {t1}
  Programs = {p1, p2}
  Schools = {s1}
  Associates = {h1}
  AssignmentIds = {a1}
INVARIANT DeletedProviderOffersNothing
