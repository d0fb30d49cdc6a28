SPECIFICATION Spec
CONSTANTS
  None = None
  Requests = {r1, r2}
  r1 = r1
  r2 = r2
  Suggs = {"x"}
  Users <- MCUsers
  RoleOf <- MCRoleOf
  Author <- ByAnn
  KindOf <- OneReplace
  InitialLength = 2
  MaxTyped = 0
  MaxRev = 1
  MaxLost = 0
  MaxCancelled = 1
SYMMETRY RequestSymmetry
INVARIANT SuggestionNotLost
CHECK_DEADLOCK FALSE
