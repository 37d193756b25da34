SPECIFICATION Spec
CONSTANTS
    m1 = m1
    m2 = m2
    Managers <- MCManagers
    Debug <- MCDebug
    Version <- MCVersion
    OldVersion = 1
    Old = Old
    None = None
    MaxCalls <- MCMaxCalls
    MaxFaults = 1
  
PROPERTY EveryEnsureEnds
CHECK_DEADLOCK FALSE
