\* The real table, searched for every intensity.
SPECIFICATION Spec
CONSTANTS
    MaxLvl <- MCMaxLvl
    map <- Table
    PastEnd <- StoredPastEnd
    Intensities <- MCIntensities
INVARIANTS
    TypeOK
    ReadsInsideArray
    InverseOfUsbdVal
    RoundTrip
    SameAsFunction
    NoLitPanelAtZero
    FinerControlBelow
PROPERTIES
    IntervalHalves
CHECK_DEADLOCK FALSE
