SPECIFICATION FairExportSpec
CONSTANTS
    Requests = {r1}
    MaxJobs = 4
    StaleAge = 2
    Cooldown = 1
    MaxExportFaults = 3
    Timely = TRUE
INVARIANTS ReadyIsDownloadable EveryArchiveHasItsRow
PROPERTIES NeverLockedOut
