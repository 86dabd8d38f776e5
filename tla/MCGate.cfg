CONSTANTS
    Runner = {w1, w2}
    Call <- MCCalls
    Workspace <- MCWorkspace
    Risk = "high"
    MaxSteps = 2
    TaskBudget <- MCNoBudget
    ProjectBudget <- MCBudget
    MaxApprovals = 1
    MaxTree = 1
    Channel = {"api", "chat", "service"}
    Faults = {"takeover", "publish", "crash", "fail"}
SPECIFICATION Spec
INVARIANT ToolBudgetHeld
PROPERTY SingleUseAuthority
SYMMETRY Symmetry
CHECK_DEADLOCK FALSE
