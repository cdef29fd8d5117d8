\* Writes may fail, the client may stop.
SPECIFICATION Spec
CONSTANTS
    Room = 2
    MaxResponses = 5
INVARIANTS
    TypeOK
    ReleasedAtExit
    ArriveInOrder
    BufferOutlivesWrite
    TrueMeansArrived
PROPERTIES
    OneWriteAtATime
    WritesReturn
CHECK_DEADLOCK FALSE
