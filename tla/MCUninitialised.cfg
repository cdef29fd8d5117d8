\* Lighting the panel after a connect that failed half way.
SPECIFICATION Spec
CONSTANTS
    MaxInten = 2
    MaxReg = 3
    DefaultBrightness = 1
    InitialFields <- MCInitialFields
    Faults = TRUE
    Args = {0, 1, 2, 4}
    AckBytes = {0, 1}
    MaxLate = 1
    MaxHandles = 1
INVARIANT TargetInRange
