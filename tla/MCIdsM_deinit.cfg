SPECIFICATION FairSpec

CONSTANTS
    s1 = s1
    s2 = s2
    drive = drive
    park = park
    r1 = r1
    r2 = r2
    Sev = {s1, s2}
    BlockStates = {drive, park}
    InitialBlockState = drive
    Configs <- PlainConfigs
    Callers = {r1}
    Counts = {1}
    ApiOps = {}
    MaxReports = 1
    MaxTime = 1
    MaxSessions = 1
    CountMax = 3
    ClockMod = 1000

PROPERTIES
    DeInitReturns

\* A stopped engine has nothing left to do.
CHECK_DEADLOCK FALSE
