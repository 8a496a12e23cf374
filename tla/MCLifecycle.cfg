SPECIFICATION Spec
CONSTANTS
    p = p
    q = q
    a = a
    b = b
    f = f
    g = g
    Dirs <- DirsDef
    NoDir = 0
    Procs <- ProcsDef
    NoProc = NoProc
    Commits <- CommitsDef
    NoCommit = NoCommit
    Files <- FilesDef
    Jobs = {"mirror", "publish", "retire", "remove", "import", "clean", "status"}
    MaxCommands = 3
    MaxCrashes = 1
INVARIANTS
    TypeOK
    LockCoversPath
PROPERTIES
    OnlyConfirmedRemoved
    RemovedInOrder
    PreparedLeftAlone
    CleanSparesDownloads
    CommandsEnd
CHECK_DEADLOCK FALSE
