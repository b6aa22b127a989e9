SPECIFICATION Spec
CONSTANTS
  WeekDays = 3  Weekend = {1, 2}
  Slots = {morning, evening}
  Meetings = {m}  Trackings = {t}
  From <- FromFirst  Until <- FirstOnly  Judged <- FromSecond
  MeetingLookback = 2  TrackingLookback = 2
  DisciplineDays = 2  CancelBack = 1
  Runs = {r1}
  LastDay = 3  MaxMoves = 1  MaxOutages = 1  MaxFaults = 1
  None = None
INVARIANTS OneVerdictPerSlot
