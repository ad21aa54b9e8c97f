SPECIFICATION Spec
CONSTANTS
  Requests = {q1, q2}
  Statuses = {open, fulfilled, rejected}
  Open = open
  Offerings = {o1}
  NoOffering = NoOffering
  Forms = {f1, f2}
  NoForm = NoForm
  NothingAsked = NothingAsked
  MaxDetails = 4
SYMMETRY Symmetry
INVARIANTS TypeOK ShownIsLastAsked HistoryRecordsChanges UnnotedChangeGoesBack
PROPERTIES HistoryIsKept
CHECK_DEADLOCK FALSE
