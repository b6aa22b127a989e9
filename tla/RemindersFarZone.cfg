SPECIFICATION Spec
CONSTANTS
    Users = {u1}
    Zones = {0, 3}
    Scans = {s1}
    DayLength = 12
    MorningWindow = {3, 4}
    EveningWindow = {8, 9}
    QuietHours = {10, 11, 0, 1, 2, 3}
    CronTicks = {3, 4, 5, 8, 9, 10}
    Horizon = 12
    MaxScans = 1
    MaxFaults = 0
    MaxChurn = 0
SYMMETRY CohortSymmetry
CHECK_DEADLOCK FALSE
INVARIANTS ReminderGetsThrough
