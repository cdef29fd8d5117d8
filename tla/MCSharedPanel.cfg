\* The emulator and one tool after the other, failing calls and stopped processes.
SPECIFICATION Spec
CONSTANTS
    MaxInten = 1
    MaxReg = 2
    DefaultBrightness = 1
    InitialFields <- MCInitialFields
    Faults = TRUE
    MaxLvl = 2
    map <- MCMap
    PastEnd = 2
    Asked = {0, 2}
    Numbers = {2, 5}
    MaxInt = 2
    Buffers = 1
    MaxLate = 1
INVARIANTS
    TypeOK
    AloneShowsPanel
    DoneMeansDone
    IntensityIsApplied
PROPERTY NobodyHangs
