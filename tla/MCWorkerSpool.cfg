SPECIFICATION FairSpec
CONSTANTS
  j1 = j1
  w1 = w1
  w2 = w2
  w3 = w3
  s1 = s1
  Jobs = {j1}
  Workers = {w1, w2, w3}
  Stoppers = {s1}
  MaxCrashes = 2
  NoJob = NoJob
INVARIANTS TypeOK InOneArea WithdrawnNeverScanned ScannedOnce
PROPERTIES JobsEnd
