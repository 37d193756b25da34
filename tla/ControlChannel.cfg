SPECIFICATION Spec
CONSTANTS
    Transports = {t1, t2}
    Calls = {c1, c2}
    Shutdown = shutdown
    None = None
    MaxAttempts = 1
INVARIANTS  HostKnowsItsControls
PROPERTIES EveryCallEnds ClosedClientLetsGo
CHECK_DEADLOCK FALSE
