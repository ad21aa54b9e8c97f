SPECIFICATION Spec
CONSTANTS
  f1 = f1
  f2 = f2
  u1 = u1
  u2 = u2
  d1 = d1
  d2 = d2
  Fields = {f1}
  Uploaders = {u1, u2}
  Administrators = {d1, d2}
  NoField = NoField
  MaxUploads = 2
SYMMETRY ActorSymmetry
INVARIANTS TypeOK ReportIsTrue CleanUploadFailsWhole
PROPERTIES SeenValuesOutlive
CHECK_DEADLOCK FALSE
