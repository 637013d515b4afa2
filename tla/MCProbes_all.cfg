SPECIFICATION Spec

CONSTANTS
    MaxClock = 6
    CanIds <- Ids
    DiagRequests <- Testers
    DiagResponses = {"ecu"}
    Whitelist <- WhiteIds
    MinIntervals <- Intervals
    CanWindow = 2
    CycleCooldown = 2
    Pids = {3, 4}
    MaxPasses = 4
    HostWindow = 2
    HostCooldown = 2
    MaxDatagramLen = 4
    MaxDatagrams = 2
    MaxDefragMem = 6
    DefragTimeout = 2
    SeqSpace = 32
    MaxFlows = 2
    MaxStreamBytes = 3
    MaxTcpMem = 4
    GapTimeout = 1
    IdleTimeout = 2
    Home <- HomeHosts
    Foreign <- Outside
    Trusted <- TrustedHosts
    EthWindow = 2
    CrossCooldown = 2
    AccCap = 4
    Scenarios <- AllScenarios

INVARIANTS
    ProbesTypeOK
    TailForwarded
    FloodsAlerted
    StartsReported
    DatagramsWhole
    StreamsInOrder
    StreamsInspected

CHECK_DEADLOCK FALSE
