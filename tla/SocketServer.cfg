CONSTANTS
    Clients = {a}
    None = None
    MaxCalls = 4
SPECIFICATION ServerSpec
PROPERTIES ImplementsUsbServer EveryStopEnds  DeadClientIsDemoted
CHECK_DEADLOCK FALSE
