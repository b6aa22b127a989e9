SPECIFICATION FairSpec
CONSTANTS
    Users = {u1}
    Logins = {l1, l2}
    Forgots = {f1}
    Resets = {r1, r2}
    Tokens = {t1}
    Files = {f1}
    Grace = 1
    HardPurge = 1
    Ttl = 1
    MaxModerations = 1
    MaxFaults = 1
INVARIANTS AcceptedIsCurrent ErasedHasNoCredential ResetOnce NothingStranded
PROPERTIES GraceHonoured ErasureCompletes
