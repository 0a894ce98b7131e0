\* Two runs with two slots, two sessions and two questions between them.
CONSTANTS
    s1 = s1  s2 = s2  s3 = s3  w1 = w1  o1 = o1  o2 = o2
    None = None
    NumRuns = 2
    Sessions = {s1, s2}
    Claude = {}
    Workspaces = {w1}
    Removable = {}
    Ops = {o1, o2}
    MaxConcurrent = 2
    MaxQueued = 2
    StorageMayFail = FALSE
    MayLinger = TRUE
SYMMETRY Symmetry
SPECIFICATION Spec
INVARIANTS OneAgent QuestionsKept
PROPERTIES NoLateAllow DecisionIsFinal
