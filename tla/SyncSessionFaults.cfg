SPECIFICATION Spec
CHECK_DEADLOCK FALSE
CONSTANTS
  s1 = s1
  a1 = a1
  b1 = b1
  alice = alice
  bob = bob
  i1 = i1
  Nobody = Nobody
  MaxParked = 2
  Client <- Editors
  Op = {s1, a1, b1}
  Seeds = {s1}
  Deps <- EditDeps
  Author <- EditAuthor
  ReadOnly = {bob}
  LegacySnap = {s1}
  Initializer = {i1}
  CausalClients = FALSE
  MayFail = {"import", "put", "delete", "sql", "ack"}
INVARIANTS
  AckedRecorded
  ReadOnlyLeavesNothing
