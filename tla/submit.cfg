SPECIFICATION Spec
CONSTANTS
    MaxRuns = 2
    MaxSegments = 1
    Attempts = 1
    Sites = {s1}
    OutDirs = {0}
    Staged = {"result"}
    MaxTime = 2
    Slack = 1
    MinRun = 1
    StragglerShares = FALSE
    MaxStarts = 2
    None = None
INVARIANTS SubmittedAsAsked ResultIsOwn
CHECK_DEADLOCK FALSE
