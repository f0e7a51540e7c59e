SPECIFICATION RunnersSpec
CONSTANTS
    o1 = o1
    o2 = o2
    Operators <- TwoOperators
    Faults <- AllFaults
    Alterable <- EverythingAlters
    PilotInputs <- EverythingPinned
INVARIANTS
    OneRun
    LedgerInOrder
    DeclaredIsEarned
PROPERTIES
    PilotSettles
    ReplicationSettles
    AloneImplementsOneShot
CHECK_DEADLOCK FALSE
