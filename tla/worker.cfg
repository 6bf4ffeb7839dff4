CONSTANTS
    MaxLaunches = 2
    Targets = {3}
    ProgressEvery = 1
    CheckpointEvery = 2
    StartProbes = 2
    StopProbes = 2
    Patience = 1
    MaxLosses = 1
    MaxStep = 4
    MaxArrivals = 1
SPECIFICATION FairSpec
INVARIANTS
    OneWriter
    ProgressIsBacked
    ExitKeepsWork
    SignalledStopIsFinal
PROPERTIES
    CheckpointAdvances
    CallsEnd
CHECK_DEADLOCK FALSE
