SPECIFICATION Spec
CONSTANTS
  s1 = s1
  Servers = {s1}
  MaxReports = 2
  MaxRequests = 3
  MaxPublications = 3
  MaxRecoveries = 1
  MaxCrashes = 1
  None = None
INVARIANTS RecordHasArtifacts CorrectionBound RevocationStays
CHECK_DEADLOCK FALSE
