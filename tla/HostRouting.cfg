SPECIFICATION Spec
CONSTANTS
    Controls = {k1, k2}
    WebClients = {w1}
    UsbRuntimes = {u1}
    WsRuntimes = {a1}
    OriginalIds = {0, 1}
    MaxRequests = 2
INVARIANTS
    RepliesReachTheirRequester
    PromisePendingIffRouted
    
PROPERTIES ImplementsRequestReply EveryPromiseSettles
CHECK_DEADLOCK FALSE
