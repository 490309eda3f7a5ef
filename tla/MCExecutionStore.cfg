SPECIFICATION FairSpec
CONSTANTS
  r1 = r1
  Requests = {r1}
  MaxCrashes = 2
  None = None
INVARIANTS TypeOK 
PROPERTIES  ExecutionEnds
CHECK_DEADLOCK FALSE
