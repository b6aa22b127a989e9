SPECIFICATION ExportSpec
CONSTANTS
    Requests = {r1, r2}
    MaxJobs = 2
    StaleAge = 2
    Cooldown = 1
    MaxExportFaults = 0
    Timely = TRUE
INVARIANTS KeepsTheLatest
