SPECIFICATION Spec
CONSTANTS
    Users = {u1}
    Types = {"calendar_ready"}
    Keys = {k1}
    Devices = {d1}
    Runs = {r1}
    MaxRows = 1
    MaxFaults = 1
    MaxChurn = 0
    MaxPerRun = 2
    Concurrency = 2
    Threshold = 2
    BaseBackoff = 1
    RetryAfters = {}
    DayLength = 3
    NightLength = 1
    Pace = "timely"
INVARIANTS ThreeAttemptsMax
