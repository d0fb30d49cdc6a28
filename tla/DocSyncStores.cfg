SPECIFICATION FairSpec
CONSTANTS
  Tabs = {t1, t2}
  t1 = t1
  t2 = t2
  Readers = {t2}
  Edits = {e1}
  e1 = e1
  MaxDrops = 0
  MaxCrashes = 1
  MaxFailures = 1
INVARIANT TypeOK
INVARIANT ContentOnce
INVARIANT MirrorFollowsState
PROPERTY StoredUpdatesStay
PROPERTY EditsAreStored
