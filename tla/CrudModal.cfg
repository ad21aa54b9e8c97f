SPECIFICATION Spec
CONSTANTS
  NoForm = NoForm
  MaxOpenings = 3
  MaxSubmits = 2
  MaxFailures = 1
INVARIANTS TypeOK ClosedDialogIsInert CrudFormsPostAlone SavedOnce PageStaysUsable
PROPERTIES SubmitComesBack
CHECK_DEADLOCK FALSE
