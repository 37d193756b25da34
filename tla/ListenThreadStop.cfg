CONSTANT MaxCalls = 2
SPECIFICATION FairListenSpec
PROPERTY StopServerFreesPort
CHECK_DEADLOCK FALSE
