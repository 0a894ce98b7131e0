\* A session is pruned by the command line while its cancelled agent still starts.
CONSTANTS
    s1 = s1  s2 = s2  s3 = s3  w1 = w1  o1 = o1  o2 = o2
    None = None
    NumRuns = 1
    Sessions = {s1}
    Claude = {}
    Workspaces = {w1}
    Removable = {}
    Ops = {}
    MaxConcurrent = 1
    MaxQueued = 1
    StorageMayFail = FALSE
    MayLinger = TRUE
SPECIFICATION Spec
PROPERTIES TimerSparesDaemon
