CONSTANTS
    Modes = {"local", "docker", "remote"}
    Client = {c1, c2}
    Edit = {e1, e2}
    NoEdit = NoEdit
    MaxCommits = 2
    MaxPid = 1
    MaxRestarts = 1
SPECIFICATION Spec
INVARIANT NothingOutlivesItsSession
INVARIANT BusyOnlyWhileCommand
INVARIANT SnapshotKeepsWork
SYMMETRY Symmetry
CHECK_DEADLOCK FALSE
