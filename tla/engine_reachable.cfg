CONSTANTS
    CLEM = CLEM
    TACC = TACC
    NoSite = NoSite
    Sites <- TwoSites
    Order <- TwoOrder
    StartSite = CLEM
    MaxStep = 1
    Histories = {"cold", "warm", "fresh_host"}
    FaultKinds = {"wedge", "launch", "transfer", "trainer", "finish", "disk", "crash"}
    MaxFaults = 3
    RetryEnabled = TRUE
    ForceStart = FALSE
SPECIFICATION Spec
INVARIANTS
    TypeOK
    AtMostOneTrainer
    SourceStoppedFirst
PROPERTIES
    BlockedTickStartsNothing
