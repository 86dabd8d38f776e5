CONSTANTS
    Worker = {w1, w2}
    Run = {"r1", "r2", "r3", "r4"}
    NoRun = NoRun
    Task <- MCTask
    TaskOf <- MCTaskOf
    RepoOf <- MCRepoOf
    Scheduled <- MCTask
    Config <- MCWideConfig
    Blocked = {}
    Pausable = {}
    External = {}
    MaxParallel = 2
    Cpu = 3
    Memory = 4
    MaxConcurrent = 3
    MaxTriggers <- MCFirstTwice
    Faults = {"crash", "redeliver"}
SPECIFICATION Spec
INVARIANT TypeOK
INVARIANT OwnershipDisjoint
INVARIANT ConcurrencyBounded
INVARIANT CapacityBounded
INVARIANT ClaimExclusive
INVARIANT ClaimRecoverable
SYMMETRY Symmetry
CHECK_DEADLOCK FALSE
