SPECIFICATION Spec
CONSTANTS
  NoFile = NoFile
  Sweeper = sweeper
  sweeper = sweeper
  Requests = {r1}
  r1 = r1
  Ids = {f1}
  f1 = f1
  Paths = {1}
  Hashes = {h1, h2}
  h1 = h1
  h2 = h2
  Outages = TRUE
  MaxChanges = 1

PROPERTY DestroysOnlySaved
CHECK_DEADLOCK FALSE
