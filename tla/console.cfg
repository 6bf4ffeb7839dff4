SPECIFICATION ConsoleSpec
CONSTANTS
    MaxRuns = 2
    MaxSegments = 1
    Attempts = 1
    Sites = {s1}
    OutDirs = {d1}
    Staged = {"progress", "result", "report"}
    MaxTime = 0
    Slack = 1
    MinRun = 0
    StragglerShares = TRUE
    None = None
INVARIANTS ServedReportIsCurrent EnergyIsOwnRuns
CHECK_DEADLOCK FALSE
