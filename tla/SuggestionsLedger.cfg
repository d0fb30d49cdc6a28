SPECIFICATION FairSpec
CONSTANTS
  None = None
  Requests = {r1, r2}
  r1 = r1
  r2 = r2
  Suggs = {"x"}
  Users <- MCUsers
  RoleOf <- MCRoleOf
  Author <- ByAnn
  KindOf <- OneReplace
  InitialLength = 3
  MaxTyped = 2
  MaxRev = 1
  MaxLost = 0
  MaxCancelled = 0
PROPERTY LedgerSpec
PROPERTY ResolutionSettles
PROPERTY EditHitsItsRange
CHECK_DEADLOCK FALSE
