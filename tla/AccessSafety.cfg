SPECIFICATION Spec
CONSTANTS
  Users = {o, a}
  o = o
  a = a
  Owner = o
  TeamCreator = o
  InstanceAdmins = {o}
  GivenRoles = {"editor"}
  Requests = {r1, r2}
  r1 = r1
  r2 = r2
SYMMETRY RequestSymmetry
INVARIANT TypeOK
INVARIANT SoleOwner
INVARIANT OwnerDecisionsHold
PROPERTY TeamKeepsAdmin
PROPERTY DeletedFromTrash
CHECK_DEADLOCK FALSE
