\* The constructor's stores against the array's length.
SPECIFICATION Spec
INVARIANT StoresInsideArray
CHECK_DEADLOCK FALSE
