CONSTANTS
    Clients = {a, b}
    None = None
    MaxCalls = 2
SPECIFICATION Spec
SYMMETRY Symmetry
INVARIANTS NoGhostIsPromoted ListenerKnowsPromotion StopServerLeavesNoClient
CHECK_DEADLOCK FALSE
