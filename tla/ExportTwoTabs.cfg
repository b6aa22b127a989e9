SPECIFICATION ExportSpec
CONSTANTS
    Requests = {r1, r2}
    MaxJobs = 2
    StaleAge = 2
    Cooldown = 1
    MaxExportFaults = 2
    Timely = FALSE
SYMMETRY TabSymmetry
INVARIANTS ExportTypeOK EveryArchiveHasItsRow
