SPECIFICATION Spec
CONSTANTS
  t1 = t1  t2 = t2  p1 = p1  p2 = p2  p3 = p3  cron = cron  batch = batch
  Trades = {t1, t2}
  Positions = {p1}
  Early = {}
  Passes = {cron}  Daily = cron
  At <- StrangerAt
  Instrument <- TwoInstruments
  SameLot = {}
  Tolerance = 3  Margin = 12  ClusterGap = 72
  MaxIncidents = 2
  None = None
INVARIANTS DeletionGoesThrough
CHECK_DEADLOCK FALSE
