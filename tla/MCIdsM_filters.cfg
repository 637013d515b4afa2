SPECIFICATION Spec

CONSTANTS
    s1 = s1
    s2 = s2
    drive = drive
    park = park
    r1 = r1
    r2 = r2
    Sev = {s1, s2}
    BlockStates = {drive, park}
    InitialBlockState = drive
    Configs <- FilterConfigs
    Callers = {r1}
    Counts = {0, 2}
    ApiOps = {"block", "flush", "stats"}
    MaxReports = 2
    MaxTime = 3
    MaxSessions = 1
    CountMax = 3
    ClockMod = 1000

INVARIANTS
    TypeOK
    NothingInvented
    Accounting
    NoSleepOnStaged
    InOrder

\* A stopped engine has nothing left to do.
CHECK_DEADLOCK FALSE
