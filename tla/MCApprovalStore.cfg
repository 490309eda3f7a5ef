SPECIFICATION Spec
CONSTANTS
  r1 = r1
  maker = maker
  checker1 = checker1
  checker2 = checker2
  Requests = {r1}
  Actors = {maker, checker1, checker2}
  RequestedBy <- MCRequestedBy
  Limits = {1, 3}
  Budgets = {1, 2, 3}
  ManifestLimit = 2
  ExpiresAt = 1
  MaxTime = 1
  MaxEvents = 3
  None = None
INVARIANTS TypeOK UsedAsGranted MakerIsNotChecker LogExplainsStatus
PROPERTIES DecisionStays
SYMMETRY Symmetry
