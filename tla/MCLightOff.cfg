\* The answer to D after a connect that failed half way.
SPECIFICATION Spec
CONSTANTS
    MaxInten = 3
    MaxReg = 4
    DefaultBrightness = 1
    InitialFields <- MCInitialFields
    Faults = TRUE
    Args <- MCArgs
    MaxLvl = 2
    map <- MCMap
    PastEnd = 3
    level_of <- MCLevelOf
    Base = 2
    Asked = {0, 1, 2, 4}
    IdleTimeout = 2
    MaxAhead = 3
INVARIANT LightOffTurnsPanelOff
CHECK_DEADLOCK FALSE
