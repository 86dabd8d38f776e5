CONSTANTS
    Provider = {"codex", "omp"}
    Item = {i1}
    MaxTurns = 2
    MaxFaults = 1
    Buffer = 1
    Faults = {"publish", "agent", "call", "gate", "timeout", "store", "outcome", "crash", "twice"}
SPECIFICATION FairSpec
INVARIANT DecidedOnce
PROPERTY EndedTurnEndsRun
CHECK_DEADLOCK FALSE
