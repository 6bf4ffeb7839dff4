CONSTANTS
    CLEM = CLEM
    TACC = TACC
    NoSite = NoSite
    Sites <- TwoSites
    Baseline = CLEM
    Levels = {1,3}
    Ttl = 2
    MinGain = 1
    Dwell = 2
    MaxStale = 1
    MaxPowerAge = 2
    MaxTime = 3
SPECIFICATION Spec
INVARIANTS
    ReadingsAreRecent
    SavingsAreMeasured
PROPERTIES
    ChargesOneInterval
    MovesAreSpaced
CHECK_DEADLOCK FALSE
