SPECIFICATION RemediationSpec
CONSTANTS
  p1 = p1
  p2 = p2
  dev = dev
  op = op
  rev = rev
  wri = wri
  r1 = r1
  r2 = r2
  Procs = {p1, p2}
  Developers = {dev}
  Operators = {op}
  Reviewers = {dev, op, rev}
  Writers = {dev, op, rev, wri}
  Revisions = {r1}
  MaxCalls = 7
  MaxViews = 1
  MaxFaults = 1
  MaxAttempts = 3
  Null = Null
INVARIANTS ReportIsEarned ReceiptsMatch GraphNeverAhead RacesSettle
SYMMETRY Symmetry
CHECK_DEADLOCK FALSE
