SPECIFICATION FairSpec
CONSTANTS
  NRequests = 2  NLinks = 2
  Desks = {d1}
  Tabs = {t1}
  Visits = {v1, v2}
  MaxFaults = 1  MaxErasures = 1
  None = None
CHECK_DEADLOCK FALSE
INVARIANTS TypeOK
PROPERTIES PersonalDataLeaves
