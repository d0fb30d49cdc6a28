SPECIFICATION AutoSpec
CONSTANTS
  Tabs = {t1}
  t1 = t1
  Readers = {}
  Edits = {e1}
  e1 = e1
  MaxDrops = 0
  MaxCrashes = 0
  MaxFailures = 1
  idleWindow = 1
  maxWindow = 2
  MaxLost = 1
  MaxRestarts = 1
INVARIANT StoredIsSaved
PROPERTY TypedIsSaved
