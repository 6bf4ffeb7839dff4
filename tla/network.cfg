CONSTANTS
    CLEM = CLEM
    TACC = TACC
    WASH = WASH
    None = None
    Racks <- ThreeRacks
    Managed = {CLEM, TACC}
    Topology <- TwoPaths
    Capacity = 9
    Utils = {0, 9}
    Efficiency = 7
    Ttl = 2
    DefaultSize = 14
    MinRateSize = 10
    Overhead = 20
    Budget = 21
    Moves <- SomeMoves
    MaxTime = 2
    MaxMoves = 3
SPECIFICATION Spec
INVARIANTS
    PathIsShortest
    VetoIsCurrent
    PredictionIsMeasured
CHECK_DEADLOCK FALSE
