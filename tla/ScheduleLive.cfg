SPECIFICATION FairSpec
CONSTANTS
  None = None
  Projects = {p1, p2}
  p1 = p1
  p2 = p2
  Puts = {h1, h2}
  h1 = h1
  h2 = h2
  idleWindow = 1
  maxWindow = 2
  MaxFailures = 1
  MaxCrashes = 1

INVARIANT NoChangeForgotten
PROPERTY ChangesAreSaved
