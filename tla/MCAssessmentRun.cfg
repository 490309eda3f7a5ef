SPECIFICATION Spec
CONSTANTS
  MaxCrashes = 2
  None = None
INVARIANTS TypeOK StoppedIsMarked ReportIsTrue
PROPERTIES EndOfRunStays
CHECK_DEADLOCK FALSE
