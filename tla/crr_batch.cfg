SPECIFICATION FairSpec
CONSTANTS
    MaxRequests = 3
    MaxSteps = 2
    MaxThreads = 2
INVARIANTS
    Deterministic
PROPERTY
    Returns
CHECK_DEADLOCK FALSE
