SPECIFICATION Spec
CONSTANTS
    f = f
    g = g
    a = a
    b = b
    v1 = v1
    v2 = v2
    w = w
    e = e
    Corrupt = Corrupt
    None = None
    Files = {f, g}
    Commits = {a, b}
    Versions = {v1, v2, w, e}
    Snapshot <- SnapshotDef
    Size <- SizeDef
    WorkerCounts = {1, 2}
    StallRetries = 1
    Staged <- StagedDef
    StagedCommit = b
    MaxCommands = 2
INVARIANT EmptyFilesArrive
CHECK_DEADLOCK FALSE
