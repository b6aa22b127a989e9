SPECIFICATION DailySpec
CONSTANTS
  c1 = c1  c2 = c2
  Rules = {1, 2}
  Threshold <- Two
  CardsOf <- TwoCards
  MaxGaps = 4
  BatchScans = {batch}
  Window = 1
  LastDay = 2
  MaxFaults = 1
  Cron = cron
  NoAlert = NoAlert
INVARIANTS DeliveredMeansCard
PROPERTIES EveryGapIsAnswered FreshAlertIsDelivered
