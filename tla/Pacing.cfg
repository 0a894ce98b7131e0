\* A reader of one run and a reader of the whole session share an allowance of two.
CONSTANTS
    c1 = c1  c2 = c2  i1 = i1  i2 = i2  i3 = i3
    None = None
    NumRuns = 2
    MaxEvents = 4
    Readers = {c1, c2}
    Follows <- EachRun
    Wide = {c2}
    Streams = {i1, i2}
    StreamsPerKey = 2
    Limit = 2
    Window = 2
    Page = 2
    MayResume = FALSE
    MaxFaults = 0
SYMMETRY Symmetry
SPECIFICATION Spec
INVARIANTS Paced
PROPERTIES TakeTurns
