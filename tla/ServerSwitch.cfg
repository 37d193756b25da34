CONSTANTS
    Callers = {a, b, c}
    RelaxedCallers = {a, b}
    Delayed = FALSE
    IosStartPort = FALSE
    MaxTasks = 2
SPECIFICATION MCSpec
INVARIANTS InOrderServerMatchesRequest OneTaskInFlight
PROPERTY InOrderServerFollowsSwitch
CHECK_DEADLOCK FALSE
