\* Five bytes in batches of three, one restart, transactions two deep.
CONSTANTS
    Limit = 3
    Chunks <- SomeChunks
    MaxBytes = 5
    MaxEvents = 3
    Depth = 2
    MaxTx = 2
    MaxLives = 2
SPECIFICATION Spec
INVARIANTS TextIntact EndIsTrue
PROPERTIES ListenersFollow TextGetsOut
CHECK_DEADLOCK FALSE
