SPECIFICATION Spec
CONSTANTS
  r1 = r1
  Rows <- MCRows
  Answers <- MCAnswers
  Criteria = {c1, c2}
  Unanswered = Unanswered
  NothingShown = NothingShown
  MaxEdits = 3
  MaxFailures = 1
INVARIANTS TypeOK QuietTableIsCurrent PanelIsCurrent
PROPERTIES CatchesUp
CHECK_DEADLOCK FALSE
