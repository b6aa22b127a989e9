SPECIFICATION AlertSpec
CONSTANTS
  c1 = c1  c2 = c2
  Rules = {1, 2}
  Threshold <- Two
  CardsOf <- TwoCards
  MaxGaps = 2
  BatchScans = {batch}
  Window = 0
  LastDay = 1
  MaxFaults = 1
  Cron = cron
  NoAlert = NoAlert
INVARIANTS AlertTypeOK RepetitionOnly
