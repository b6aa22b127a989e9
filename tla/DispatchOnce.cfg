SPECIFICATION FairSpec
CONSTANTS
    Members = {m1}
    Runs = {r1, r2}
    Lease = 1
    DayLength = 2
    Cap = 1
    MaxFaults = 2
    MaxChurn = 1
INVARIANTS NoDuplicateWithoutDoubt StampIsTrue
PROPERTIES NobodyForgotten
