SPECIFICATION Spec
CONSTANTS
    Segments = 3
    Minutes = 2
    Sites = {s1, s2}
    Retry = 1
    BlocksPerRun = 1
    None = None
INVARIANTS TimeoutIsHang ReportIsTrue
PROPERTY ImplementsTrainingRun
CHECK_DEADLOCK FALSE
