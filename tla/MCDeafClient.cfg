\* The client sends and does not read.
SPECIFICATION Spec
CONSTANTS
    Room = 2
    MaxResponses = 4
PROPERTY SilentClientDisconnected
CHECK_DEADLOCK FALSE
