SPECIFICATION MCSpec
CONSTANTS
    p1 = p1
    p2 = p2
    r1 = r1
    reportA = reportA
    reportB = reportB
    reportC = reportC
    rowsAB = rowsAB
    rowsC = rowsC
    g1 = g1
    g2 = g2
    g3 = g3
    None = None
    Absent = Absent
    Torn = Torn
    Publishers <- TwoPublishers
    Overwriting <- SecondOverwrites
    Readers <- OneReader
    Harvests <- ThreeHarvests
    Generators <- ThreeGenerators
    Regenerating <- LaterOverwrite
    Documents <- Configurations
    Fields <- SpotAndRate
    Positive <- SpotOnly
CONSTRAINT Undisturbed
INVARIANTS
    AcceptedWasCompleted
    InterruptedIsRejected
    EvaluatedAsTrained
    CompletedLoads
CHECK_DEADLOCK FALSE
