CONSTANTS
    MaxRuns = 3
    MaxHandoffs = 1
    MaxApprovals = 2
    MaxAsks = 1
    MaxPulls = 2
    Backends <- MCBackends
    MaxRequests = 2
    MaxTrouble = 1
SPECIFICATION Spec
ACTION_CONSTRAINT Bounded
INVARIANT TypeOK
INVARIANT RecordedPullRequest
INVARIANT CompletedIsTakenOn
INVARIANT ApprovalPerPullRequest
INVARIANT ReviewHasWayOut
INVARIANT HandoffStartsOneRun
CHECK_DEADLOCK FALSE
