SPECIFICATION Spec
CONSTANTS
    f = f
    g = g
    Files <- FilesDef
    Size = 1
    Workers = 2
    Timeout = 2
    RetryLimit = 1
    MinInterval = 1
    NoProgress = NoProgress
    None = None
    MaxBeats = 1
CHECK_DEADLOCK FALSE
PROPERTY ProgressingNotKilled
