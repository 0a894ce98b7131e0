\* Four scenes of two to four requests with two admin keys; two failures lock an address out.
CONSTANTS
    r1 = r1  r2 = r2  r3 = r3  r4 = r4
    k1 = k1  k2 = k2
    near = near  far = far
    None = None
    Requests = {r1, r2, r3, r4}
    Addresses = {near, far}
    Forms <- SomeForms
    Keys = {k1, k2}
    Admins = {k1, k2}
    Mortal = {k1}
    Limit = 2
    Window = 2
    WaitsPerKey = 1
    CliKeys = {k2}
    Restarts = 1
SPECIFICATION FairSpec
INVARIANTS Idempotent SlotsExact
PROPERTIES RetryAfterSuffices StreamsEnd
CHECK_DEADLOCK FALSE
