CONSTANTS
    Ids = 2
    LateCerts = FALSE
    Probes = {p1, p2}
    MaxEvents = 2
    Transfers <- TwoTransfers
    ChunksOf <- LongAndShort
    PerPump = 2
    Deployments <- OnePartEach
SPECIFICATION FairSpec
INVARIANTS
    TypeOK
    CredentialsAgree
    CertificateKept
    ChangeNotForgotten
    EventsInOrder
    NothingOwedIsDone
PROPERTIES
    Provisioned
    SnapshotEnds
