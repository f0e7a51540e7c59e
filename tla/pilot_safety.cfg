SPECIFICATION FreezeSpec
CONSTANTS
    o1 = o1
    o2 = o2
    Operators <- TwoOperators
    Faults <- AllFaults
    Alterable <- EverythingAlters
    NoValue = NoValue
    Protocol <- PilotProtocol
    Studies <- TwelveStudies
INVARIANTS
    AccessIsRecorded
    CompletionIsEvidenced
    PublishedIsFreezable
    SnapshotIsEarned
    PromiseIsKept
    VolatilitiesAreNear
    HonestReportsFreeze
    EditsAreNoticed
PROPERTIES
    ImplementsOneShot
CHECK_DEADLOCK FALSE
