SPECIFICATION RemediationSpec
CONSTANTS
  p1 = p1
  p2 = p2
  dev = dev
  op = op
  rev = rev
  wri = wri
  r1 = r1
  r2 = r2
  Procs = {p1}
  Developers = {dev}
  Operators = {op}
  Reviewers = {dev, op, rev}
  Writers = {dev, op, rev, wri}
  Revisions = {r1}
  MaxCalls = 6
  MaxViews = 0
  MaxFaults = 1
  MaxAttempts = 3
  Null = Null
INVARIANT ReworkCanProceed
CHECK_DEADLOCK FALSE
