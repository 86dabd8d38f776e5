CONSTANTS
    Worker = {w1}
    Run = {"r1", "r2", "r3", "r4"}
    NoRun = NoRun
    Task <- MCTask
    TaskOf <- MCTaskOf
    RepoOf <- MCRepoOf
    Scheduled <- MCScheduled
    Config <- MCDependentConfig
    Blocked = {"r4"}
    Pausable = {}
    External = {"r1", "r2", "r3", "r4"}
    MaxParallel = 3
    Cpu = 2
    Memory = 3
    MaxConcurrent = 2
    MaxTriggers <- MCTwice
    Faults = {"timeout", "redeliver"}
SPECIFICATION FairSpec
PROPERTY QueuedRunsProceed
CHECK_DEADLOCK FALSE
