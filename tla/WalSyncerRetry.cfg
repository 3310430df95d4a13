SPECIFICATION RetrySpec
CHECK_DEADLOCK FALSE
CONSTANTS
  t1 = t1
  t2 = t2
  e1 = e1
  e2 = e2
  Tab = {t1}
  Edit = {e1, e2}
  MaxFlush = 1
  MayHappen = {"fail"}
PROPERTIES
  EditsReachServer
