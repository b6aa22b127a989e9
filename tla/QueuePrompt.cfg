SPECIFICATION FairSpec
CONSTANTS
    Users = {u1}
    Types = {"calendar_ready", "checkin_evening_reminder"}
    Keys = {k1}
    Devices = {d1}
    Runs = {r1}
    MaxRows = 2
    MaxFaults = 1
    MaxChurn = 0
    MaxPerRun = 1
    Concurrency = 1
    Threshold = 1
    BaseBackoff = 1
    RetryAfters = {2}
    DayLength = 8
    NightLength = 6
    Pace = "prompt"
PROPERTIES PushedInTime EveryRowSettles
