SPECIFICATION Spec
CONSTANTS
  NRequests = 2  NLinks = 2
  Desks = {d1, d2}
  Tabs = {t1, t2}
  Visits = {v1}
  MaxFaults = 1  MaxErasures = 1
  None = None
INVARIANTS ApprovedIsInvited
CHECK_DEADLOCK FALSE
