\* A key is used by requests while the command line revokes it in a process of its own.
CONSTANTS
    r1 = r1  r2 = r2  r3 = r3  r4 = r4
    k1 = k1  k2 = k2
    near = near  far = far
    None = None
    Requests = {r1, r2, r3, r4}
    Addresses = {near, far}
    Forms <- SomeForms
    Keys = {k1, k2}
    Admins = {k1, k2}
    Mortal = {k1}
    Limit = 2
    Window = 2
    WaitsPerKey = 1
    CliKeys = {k2}
    Restarts = 1
SPECIFICATION Spec
PROPERTIES RevokedForGood
CHECK_DEADLOCK FALSE
