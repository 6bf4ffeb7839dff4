CONSTANTS
    CLEM = CLEM
    TACC = TACC
    NoSite = NoSite
    Sites <- TwoSites
    Order <- TwoOrder
    StartSite = CLEM
    MaxStep = 1
    Histories = {"cold", "warm"}
    FaultKinds = {"outage", "wedge", "launch", "late", "transfer", "finish"}
    MaxFaults = 3
    RetryEnabled = FALSE
    ForceStart = FALSE
SPECIFICATION Spec
INVARIANTS
    MigrationEndsHonestly
    StateFileNamesActive
