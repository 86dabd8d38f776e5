CONSTANTS
    TaskID = {"t1", "t2", "t3", "t4"}
    Manifests <- MCManifests
    Calls <- MCCalls
    Files <- MCFiles
SPECIFICATION FairSpec
INVARIANT OwnershipExclusive
INVARIANT NoSharedFile
INVARIANT WithinLimits
INVARIANT NeverDeadlocks
INVARIANT PlanIsSchedule
PROPERTY Terminates
CHECK_DEADLOCK FALSE
