CONSTANTS
    CLEM = CLEM
    TACC = TACC
    NoSite = NoSite
    Sites <- TwoSites
    Order <- TwoOrder
    StartSite = CLEM
    MaxStep = 1
    Histories = {"warm", "split"}
    FaultKinds = {"outage", "wedge", "trainer", "transfer","launch"}
    MaxFaults = 1
    RetryEnabled = TRUE
    ForceStart = FALSE
SPECIFICATION FairSpec
INVARIANT SplitStoppedOrReported
PROPERTIES
    MigrationEnds
    JobKeepsRunning
    BlockIsReleased
