SPECIFICATION IngestSpec
CONSTANTS
    NoValue = NoValue
    Unreadable = Unreadable
    Open = 0
    Close = 4
    Frequency = 2
    Policy <- MCPolicy
    Product <- MCProduct
    Dates <- MCDates
    HeldOut = {}
    Minima <- MCMinima
    ManifestPath = 0
    ExpectedEntries = 2
    ExpectedFiles = 3
    Archives <- MCArchives
    Batch = 2
    RecordLimits = {NoValue, 1}
CHECK_DEADLOCK FALSE
INVARIANTS
    LedgerIsLatest
    NoPartialPartition
    QuotesClassified
    FeasibleIsLossless
