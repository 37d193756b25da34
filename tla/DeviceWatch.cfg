SPECIFICATION Spec
CONSTANTS
    Managers = {m1, m2}
    Instances = {i1, i2, i3}
    Attempts = {a1, a2}
    None = None
SYMMETRY Symmetry
INVARIANTS
    
    NoUnwantedWatcher
    
PROPERTY DevicesGoWithTheirManager
CHECK_DEADLOCK FALSE
