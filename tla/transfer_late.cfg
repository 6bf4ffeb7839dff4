CONSTANTS
    CLEM = CLEM
    TACC = TACC
    NoSite = NoSite
    Sites <- TwoSites
    StartSite = CLEM
    Relay = FALSE
    Outlives = {"scp"}
    MaxVersion = 3
    MaxMoves = 3
SPECIFICATION Spec
INVARIANT NeverPartial
CHECK_DEADLOCK FALSE
