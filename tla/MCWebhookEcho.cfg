SPECIFICATION Spec
CONSTANTS
    Issue = {i1}
    Provider = {"linear", "slack", "webhook"}
    Request = {c1}
    MaxSends = 2
    MaxTasks = 2
    MaxChanges = 1
    MaxCrashes = 1
    Task = {t1}
    Chat = {ch1, ch2}
    Attempts = 2
    MaxNotices = 3
    MaxPulls = 2
    MaxWorkerFalls = 1
    Frame = {f1, f2}
    Goroutine = {g1, g2}
    CASAttempts = 2
    MaxDeliver = 2
    MaxClock = 3
    Rotation = {r1, r2}
    Key = {k1, k2}
    MaxVersions = 4
    MaxRestarts = 1
    Holder = {h1}
    MaxHead = 2
    MaxLease = 1
    MaxVerifies = 2
    Connections <- MCConnections
    Roles = {"planner", "implementer", "reviewer", "test_runner", "docs_writer"}
    Risks = {"low", "high"}
    Sizes = {9000, 150000, 2000000}
    Tokens <- MCTokens
    MaxCost = 2000
    MaxCalls = 3
    MaxLosses = 1
    Title <- MCTitles
    Remark = {{}, {"bullets"}}
    RiskLevels = {"low", "critical"}
    Commands = {{}, {"test"}}
    Generation = {s1, s2}
    MaxUpdates = 1
    Part = {"webhooks"}
INVARIANT TaskPerEvent
CHECK_DEADLOCK FALSE
