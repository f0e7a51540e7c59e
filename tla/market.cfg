SPECIFICATION ReconstructSpec
CONSTANTS
    NoValue = NoValue
    MinimumPairs = 3
    MinimumStrikes = 3
    MinimumTau = 5
    Day = 10
    Sessions <- MCSessions
    Instants <- MCInstants
    Percents <- MCPercents
    SpotVariants <- MCSpotVariants
    StandardRootOnly = TRUE
    TradableOnly = TRUE
    ExDates <- MCExDates
    Tenors <- MCTenors
    ContaminationRatio = 10
    MinimumContainment <- MCContainment
    MaximumSpread <- MCMaximumSpread
    Archives <- MCArchives
    Probes <- MCProbes
    Limit = 40
    Reingested <- MCReingested
    MaxRuns = 2
INVARIANTS
    FitsAreLeastSquares
    SameDayExpiriesExcluded
    ReportPublishedLast
CHECK_DEADLOCK FALSE
