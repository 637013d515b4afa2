SPECIFICATION Spec

CONSTANTS
    s1 = s1
    s2 = s2
    drive = drive
    park = park
    r1 = r1
    r2 = r2
    Sev = {s1, s2}
    BlockStates = {drive, park}
    InitialBlockState = drive
    Configs <- LifecycleConfigs
    Callers <- Reporters
    Counts = {1}
    ApiOps = {"mode", "status"}
    MaxReports = 2
    MaxTime = 1
    MaxSessions = 2
    CountMax = 3
    ClockMod = 1000

SYMMETRY ReporterSymmetry

INVARIANTS
    PendingMatchesQueue
    StoppedClean

\* A stopped engine has nothing left to do.
CHECK_DEADLOCK FALSE
