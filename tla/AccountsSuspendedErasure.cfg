SPECIFICATION FairSpec
CONSTANTS
    Users = {u1}
    Logins = {l1}
    Forgots = {}
    Resets = {}
    Tokens = {}
    Files = {f1}
    Grace = 2
    HardPurge = 2
    Ttl = 1
    MaxModerations = 1
    MaxFaults = 0
PROPERTIES ElapsedGraceErases
