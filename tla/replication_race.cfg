SPECIFICATION CrewSpec
CONSTANTS
    o1 = o1
    o2 = o2
    Operators <- TwoOperators
    Faults <- NoFaults
    Alterable <- EverythingAlters
INVARIANT
    AtMostOneAccess
CHECK_DEADLOCK FALSE
