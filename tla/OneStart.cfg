\* Four starts that may overlap, with two processes killed at any point.  Every process may
\* be gone in the end.
CONSTANTS
    None = None
    Processes = {p1, p2, p3, p4}
    MaxDeaths = 2
SYMMETRY Symmetry
SPECIFICATION Spec
INVARIANTS OneOwner OwnerIsFindable
CHECK_DEADLOCK FALSE
