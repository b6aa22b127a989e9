SPECIFICATION FairAlertSpec
CONSTANTS
  c1 = c1  c2 = c2
  Rules = {1}
  Threshold <- Two
  CardsOf <- OneCard
  MaxGaps = 4
  BatchScans = {}
  Window = 0
  LastDay = 1
  MaxFaults = 1
  Cron = cron
  NoAlert = NoAlert
PROPERTIES OpenAlertIsRetried
