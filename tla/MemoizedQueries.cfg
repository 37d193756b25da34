SPECIFICATION MCSpec
CONSTANTS
    Requesters = {r1, r2, r3}
    UsbRuntimes = {u}
    WsRuntimes = {w}
    Validity = 2
    MaxVersion = 3
    MaxWire = 2
INVARIANT WaitersAreServed
PROPERTIES SendsAreSpaced ViewsNeverGoBack EveryQueryEnds
CHECK_DEADLOCK FALSE
