SPECIFICATION Spec
CONSTANTS
  o1 = o1
  o2 = o2
  Options = {o1, o2}
  NoExport = NoExport
  Kinds = {"schools", "standard", "types"}
  MaxClicks = 2
SYMMETRY OptionSymmetry
INVARIANTS TypeOK ExportNeedsSchools
PROPERTIES OnlyShownListChanges UntouchedFormChangesNothing
CHECK_DEADLOCK FALSE
