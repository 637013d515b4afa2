SPECIFICATION FairSpec

CONSTANTS
    s1 = s1
    s2 = s2
    drive = drive
    park = park
    r1 = r1
    r2 = r2
    Sev = {s1, s2}
    BlockStates = {drive, park}
    InitialBlockState = drive
    Configs <- LiveConfigs
    Callers <- Reporters
    Counts = {1}
    ApiOps = {"dem", "idsr"}
    MaxReports = 2
    MaxTime = 2
    MaxSessions = 1
    CountMax = 3
    ClockMod = 1000

PROPERTIES
    EveryEventLeaves
    AggregateReleased

\* A stopped engine has nothing left to do.
CHECK_DEADLOCK FALSE
