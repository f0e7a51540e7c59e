SPECIFICATION VerifySpec
CONSTANTS
    Groups = {g1, g2, g3, g4}
    Legs <- MCLegs
    Style <- MCStyle
    Weightings <- MCWeightings
    MinGroups = 1
    Intervals = 20
    Buffer = 2
    Window <- MCWindow
    Quota <- MCQuota
    Returns <- MCReturns
    Nominal <- MCNominal
    MaxDeviations = 2
    BaseVolatility = 20
    VolatilityBump = 1
    StencilRadius = 1
    None = None
    Forged = Forged
    MaxRewrittenDeviations = 2
    RewrittenPlaces = {1}
SYMMETRY GroupSymmetry
CONSTRAINT Executed
CHECK_DEADLOCK FALSE
INVARIANT
    FailureIsolated
