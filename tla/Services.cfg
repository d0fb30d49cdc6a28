SPECIFICATION Spec
CONSTANTS
  Running = {"limiter", "blobs", "compiler", "settings", "suggest mode", "events"}
  Clients = {c1, c2}
  c1 = c1
  c2 = c2
  Limit = 2
  Period = 2
  MaxTime = 6
  Putters = {p1, p2, p3}
  p1 = p1
  p2 = p2
  p3 = p3
  MaxInodes = 3
  MaxCrashes = 1
  Jobs = {j1, j2, j3}
  j1 = j1
  j2 = j2
  j3 = j3
  Slots = 1
  Savers = {s1, s2}
  s1 = s1
  s2 = s2
  Forms <- MCForms
  Envs <- MCEnvs
  Unset = Unset
  Off = Off
  MaxRestarts = 1
  MaxRecords = 2
  MaxTyped = 2
  MaxOffs = 2
  Tabs = {t1}
  t1 = t1
  Topics = {files, versions}
  files = files
  versions = versions
  Handlers = {h1, h2}
  h1 = h1
  h2 = h2
  Buffer = 2
  MaxVersion = 3
INVARIANTS LimitKept WholeUnlessShared SettingsInEffect TypingIsRecorded ListsRefetched
PROPERTY WaitersServed
CHECK_DEADLOCK FALSE
