SPECIFICATION FairSpec
CONSTANTS
  t1 = t1  t2 = t2  p1 = p1  p2 = p2  p3 = p3  cron = cron  batch = batch
  Trades = {t1, t2}
  Positions = {p1, p2}
  Early = {p2}
  Passes = {cron, batch}  Daily = cron
  At <- DisputedAt
  Instrument <- OneInstrument
  SameLot <- DisputedLots
  Tolerance = 3  Margin = 12  ClusterGap = 72
  MaxIncidents = 1
  None = None
INVARIANTS ChargedOnce AccusedOnEvidence
PROPERTIES ResolvedStaysResolved ScanConverges
