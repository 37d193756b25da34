SPECIFICATION Spec
CONSTANTS
    Controls = {c1, c2}
    Manual = {c2}
    Drivers = {d1}
    Keys = {k1, k2}
    None = None
    MaxReports = 2
    MaxQueue = 1
INVARIANTS IdleTimerWatchesUnusedHost SharedResourcesHaveUsers AutomaticHostWatches StoppedHostHoldsNothing 
PROPERTY EveryStopEnds
CHECK_DEADLOCK FALSE
