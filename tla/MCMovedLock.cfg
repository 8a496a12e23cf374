SPECIFICATION Spec
CONSTANTS
    p = p
    q = q
    a = a
    b = b
    f = f
    g = g
    Dirs <- DirsDef
    NoDir = 0
    Procs <- ProcsDef
    NoProc = NoProc
    Commits <- CommitsDef
    NoCommit = NoCommit
    Files <- FilesDef
    Jobs = {"mirror", "remove"}
    MaxCommands = 3
    MaxCrashes = 0
INVARIANT MutualExclusion
CHECK_DEADLOCK FALSE
