SPECIFICATION Spec
CONSTANTS
  Users = {o, a}
  o = o
  a = a
  Owner = o
  TeamCreator = o
  InstanceAdmins = {}
  GivenRoles = {"editor"}
  Requests = {r1}
  r1 = r1
PROPERTY LockedForOthers
CHECK_DEADLOCK FALSE
