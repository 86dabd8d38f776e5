CONSTANTS
    Worker = {w1}
    Run = {"r1", "r2", "r3"}
    NoRun = NoRun
    Task <- MCTask
    TaskOf <- MCTaskOf
    RepoOf <- MCRepoOf
    Scheduled <- MCScheduled
    Config <- MCConfig
    Blocked = {}
    Pausable = {"r1", "r2", "r3"}
    External = {"r2", "r3"}
    MaxParallel = 2
    Cpu = 2
    Memory = 3
    MaxConcurrent = 2
    MaxTriggers <- MCTwice
    Faults = {"crash", "error", "spend", "redeliver", "timeout", "slow"}
SPECIFICATION Spec
INVARIANT OneAgentPerRun
CHECK_DEADLOCK FALSE
