SPECIFICATION Spec
CHECK_DEADLOCK FALSE
CONSTANTS
  c1 = c1
  c2 = c2
  x1 = x1
  x2 = x2
  r1 = r1
  r2 = r2
  manager = manager
  Users = {1, 2}
  Owner = 2
  Roles = {manager}
  Derived = {}
  Receipts = {r1, r2}
  Principal <- MCPrincipal
  Commands = {c1, c2}
  Sagas = {x1, x2}
  MaxRequests = 3
PROPERTIES
  RestoresFreshRoles
SYMMETRY Alike
