SPECIFICATION Spec
CONSTANTS
  Symbols <- MCSymbols
  Booleans <- MCBooleans
  Values <- MCValues
  Inputs <- MCInputs
  No = "n"
  Hidden = Hidden
  Absent = Absent
  Missing = Missing
  Partial = Partial
  MaxTime = 5
INVARIANTS
  SavedSurvives
  UpToDateIsCurrent
  UntouchedIsUnchanged
CHECK_DEADLOCK FALSE
