\* Queue, pump, cancel, grace, time limit, storage failure, crash, recovery, shutdown,
\* removal of sessions and workspaces: three runs, two sessions, one slot.
CONSTANTS
    s1 = s1  s2 = s2  s3 = s3  w1 = w1  o1 = o1  o2 = o2
    None = None
    NumRuns = 3
    Sessions = {s1, s2}
    Claude = {}
    Workspaces = {w1}
    Removable = {w1}
    Ops = {}
    MaxConcurrent = 1
    MaxQueued = 2
    StorageMayFail = TRUE
    MayLinger = FALSE
SYMMETRY Symmetry
SPECIFICATION Spec
INVARIANTS TypeOK OneActiveRun ActiveInOpenSession SlotsKept InFlightHasWorker UnknownBlocksSession
PROPERTIES NeverReplayed LivesAsTold FirstComeFirstServed
