CONSTANTS
    Callers = {a}
    Delayed = FALSE
    IosStartPort = FALSE
    MaxTasks = 2
SPECIFICATION Spec
INVARIANT ListenersInSync
CHECK_DEADLOCK FALSE
