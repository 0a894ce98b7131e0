\* A reader of the second run loses connections, asks again and holds up to two streams,
\* while decisions come late, daemons are replaced and retention removes the session.
CONSTANTS
    c1 = c1  c2 = c2  i1 = i1  i2 = i2  i3 = i3
    None = None
    NumRuns = 2
    MaxEvents = 4
    Readers = {c1}
    Follows <- LastRun
    Wide = {}
    Streams = {i1, i2}
    StreamsPerKey = 2
    Limit = 2
    Window = 1
    Page = 2
    MayResume = TRUE
    MaxFaults = 2
SPECIFICATION FairSpec
INVARIANTS NothingMissed SlotsCounted
PROPERTIES ReaderReturns
