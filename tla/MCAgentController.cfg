SPECIFICATION Spec
CONSTANTS
  p1 = p1
  p2 = p2
  Procs = {p1, p2}
  MaxSteps = 2
  MaxToolCalls = 2
  MaxFailures = 2
  MaxIterations = 2
  MaxCommands = 3
  Crashes = TRUE
INVARIANTS TypeOK ApprovedOnce CallBudget EndStopsTools
PROPERTIES StoredTaskAdvances
SYMMETRY Symmetry
CHECK_DEADLOCK FALSE
