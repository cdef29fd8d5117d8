\* Any client, failing HID calls, late answers, idle timeouts.
SPECIFICATION Spec
CONSTANTS
    MaxInten = 3
    MaxReg = 4
    DefaultBrightness = 1
    InitialFields <- MCInitialFields
    Faults = TRUE
    Args <- MCArgs
    MaxLvl = 2
    map <- MCMap
    PastEnd = 3
    level_of <- MCLevelOf
    Base = 2
    Asked = {0, 5}
    IdleTimeout = 1
    MaxAhead = 2
INVARIANTS
    TypeOK
    OneHandle
    CacheShowsPanel
    NeverReportsLitPanelOff
    ReportsCachedLevel
    ResponseKept
    SyncedUntilFailure
PROPERTIES
    NeverDropsActiveClient
    EventuallyReleased
    ImplementsFlatMan
CHECK_DEADLOCK FALSE
