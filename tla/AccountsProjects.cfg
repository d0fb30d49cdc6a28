SPECIFICATION MCSpec
CONSTANTS
  None = None
  a = a
  b = b
  Emails = {a, b}
  r1 = r1
  r2 = r2
  Requests = {r1, r2}
  Calls = {r1, r2}
  Menus <- MCMenus
  MaxUsers = 2
  MaxPasswords = 2
  MaxTokens = 2
  MaxSessions = 1
  MaxTemplates = 3
  u = u
  v = v
  Users = {u, v}
  Exempt = {v}
  Paths = {"main", "other"}
  MainTyp = "main"
  Zips <- MCZips
  Manifests <- MCManifests
  ProjectMenus <- MCProjectMenus
  MaxProjectsPerUser = 1
  MaxAssetsPerUser = 1
  MaxProjects = 3
  MaxFiles = 4
SYMMETRY MCSymmetry
INVARIANTS RowsTyped ResetEndsSessions OneActiveToken TemplatesOnce QuotaOverrunBounded
PROPERTIES KeepsAdmin TemplateComplete MainFileKept
CHECK_DEADLOCK FALSE
