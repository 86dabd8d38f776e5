CONSTANTS
    Worker = {w1, w2}
    Client = {c1}
    Stale = {"generate", "update"}
    MaxRuns = 2
    MaxMessages = 3
    MaxCrashes = 2
    MaxSessions = 3
    Faults = {"provision", "database", "publish", "redeliver"}
SPECIFICATION Spec
INVARIANT TypeOK
INVARIANT OneInitialRun
INVARIANT NoSessionLeak
PROPERTY CancelSticks
SYMMETRY Symmetry
CHECK_DEADLOCK FALSE
