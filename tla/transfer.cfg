CONSTANTS
    CLEM = CLEM
    TACC = TACC
    NoSite = NoSite
    Sites <- TwoSites
    StartSite = CLEM
    Relay = TRUE
    Outlives = {"scp", "download", "upload"}
    MaxVersion = 3
    MaxMoves = 2
SPECIFICATION FairSpec
INVARIANTS
    
    ResumesFromNewest
PROPERTIES
    LiveNeverDeleted
    TransferEnds
CHECK_DEADLOCK FALSE
