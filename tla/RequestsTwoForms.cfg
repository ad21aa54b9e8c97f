SPECIFICATION Spec
CONSTANTS
  Requests = {q1}
  Statuses = {open, fulfilled, rejected}
  Open = open
  Offerings = {o1}
  NoOffering = NoOffering
  Forms = {f1, f2}
  NoForm = NoForm
  NothingAsked = NothingAsked
  MaxDetails = 3
SYMMETRY Symmetry
INVARIANT StatusChangeHasNotes
CHECK_DEADLOCK FALSE
