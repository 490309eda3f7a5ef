SPECIFICATION Spec
CONSTANTS
  n1 = n1
  w1 = w1
  w2 = w2
  Nodes = {n1}
  Workers = {w1, w2}
  MaximumAttempts <- MCMaximumAttempts
  InitialStatus = {"pending"}
  RequestedStatus = {"ready", "running", "paused", "completed"}
  TTLs = {1, 2}
  MaximumRenewals = 1
  MaxTime = 3
  MaxRevision = 4
  None = None
INVARIANTS TypeOK AttemptBudget BeliefStored
PROPERTIES ImplementsLeases
SYMMETRY Symmetry
CHECK_DEADLOCK FALSE
