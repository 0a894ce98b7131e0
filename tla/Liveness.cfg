\* Two runs compete for one slot; every fault but failing storage.
CONSTANTS
    s1 = s1  s2 = s2  s3 = s3  w1 = w1  o1 = o1  o2 = o2
    None = None
    NumRuns = 2
    Sessions = {s1, s2}
    Claude = {s1}
    Workspaces = {w1}
    Removable = {}
    Ops = {o1}
    MaxConcurrent = 1
    MaxQueued = 2
    StorageMayFail = FALSE
    MayLinger = FALSE
SPECIFICATION FairSpec
PROPERTIES WorkGoesOn EveryQuestionAnswered
