SPECIFICATION Spec
CONSTANTS
  Builder = b
  People = {b, x1, x2, x3, x4}
  Procs = {p1, p2}
  Base = base
  Contents = {base, good, unsafe, stray}
  Stray = {stray}
  Unsafe = {unsafe}
  Signatures = {e}
  MaxIterations = 3
  MaxFailures = 3
  MaxRepeated = 2
  MaxStalled = 1
  MaxMishaps = 1
  None = None
SYMMETRY Symmetry
CONSTRAINT Followed
INVARIANT RolesAreSeparate GatesAgree StopsInTime
