\* A release that is skipped after a failure.
SPECIFICATION Spec
CONSTANTS
    Release = {"r1", "r2", "r3"}
    Canonical = {"r1", "r2"}
    Groups <- SmallGroups
    None = None
    MinInterval = 2
    MaxAttempts = 3
    Dimension = {0, 1}
    MaxDimension = 4
INVARIANT NoMatchIsClean
CHECK_DEADLOCK TRUE
