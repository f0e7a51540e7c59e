SPECIFICATION LabelSpec
CONSTANTS
  NoValue = NoValue
  PriceCap = 6
  DeltaCap = 4
  VegaCap = 4
  ShapeFloor = 1
  ChargeTop = 17
  ChargeBottom = 11
  LowSquare = 8
  HighSquare = 32
  AnchorCases <- MCAnchorCases
  Cases <- MCCases
  RemediationCases <- MCRemediationCases
  ConfirmationCases <- MCConfirmationCases
  Directories = {d1, d2}
  Disturbances <- MCDisturbances
  Measured <- MCMeasured
  MaxStarts = 2
  MaxFaults = 2
INVARIANTS
  GreekFailuresNeverVeto
  SelectionIsExact
  EligibleGreeksCovered
  FrozenIsFinal
PROPERTIES
  ConfirmationIsEarned
  OnlyGenuineVerifies
SYMMETRY DirectorySymmetry
CHECK_DEADLOCK FALSE
