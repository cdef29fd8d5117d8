\* Any caller, failing exchanges and late answers.
SPECIFICATION Spec
CONSTANTS
    MaxInten = 2
    MaxReg = 3
    DefaultBrightness = 1
    InitialFields <- MCInitialFields
    Faults = TRUE
    Args = {0, 1, 2, 4}
    AckBytes = {0, 1}
    MaxLate = 1
    MaxHandles = 2
INVARIANTS
    TypeOK
    InStep
PROPERTIES
    ImplementsDimmer
    CallsReturn
