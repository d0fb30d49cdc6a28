SPECIFICATION Spec
CONSTANTS
  NoFile = NoFile
  Sweeper = sweeper
  sweeper = sweeper
  Requests = {r1}
  r1 = r1
  Ids = {f1, f2}
  f1 = f1
  f2 = f2
  Paths = {1, 2}
  Hashes = {h1, h2}
  h1 = h1
  h2 = h2
  Outages = FALSE
  MaxChanges = 1
SYMMETRY HashSymmetry
INVARIANT TypeOK
PROPERTY SnapshotIsCurrent
PROPERTY RestoreYieldsSnapshot
PROPERTY DestroysOnlySaved

CHECK_DEADLOCK FALSE
