SPECIFICATION FairSpec
CONSTANTS
    Members = {m1}
    Runs = {r1}
    Lease = 1
    DayLength = 2
    Cap = 1
    MaxFaults = 1
    MaxChurn = 0
PROPERTIES OverdueHeals
