SPECIFICATION Spec
CONSTANTS
  None = None
  Requests = {r1, r2}
  r1 = r1
  r2 = r2
  Suggs = {"x", "y"}
  Users <- MCUsers
  RoleOf <- MCRoleOf
  Author <- TwoAuthors
  KindOf <- TwoKinds
  InitialLength = 1
  MaxTyped = 0
  MaxRev = 2
  MaxLost = 1
  MaxCancelled = 1
SYMMETRY RequestSymmetry
INVARIANT TypeOK
INVARIANT OneHolder
INVARIANT AtMostOncePerLostAnswer
INVARIANT UntouchedUnlessOwed
INVARIANT VerdictExecuted
CHECK_DEADLOCK FALSE
