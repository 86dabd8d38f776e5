CONSTANTS
    Worker = {w1, w2}
    Client = {}
    Stale = {}
    MaxRuns = 2
    MaxMessages = 3
    MaxCrashes = 0
    MaxSessions = 3
    Faults = {"redeliver", "destroy"}
SPECIFICATION FairSpec
PROPERTY ApprovedIsLaunched
CHECK_DEADLOCK FALSE
