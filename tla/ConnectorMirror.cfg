CONSTANTS
    Serials = {s}
    Apps = {1, 2}
    Restores = {r1, r2}
    MaxWire = 2
    MaxUserCalls = 1
    MaxLosses = 2
SPECIFICATION MirrorSpec
INVARIANTS MirrorsFollowDaemon NothingIsMirroredWithoutDaemon
PROPERTIES RuntimesComeAfterTheirDevice RecoveryRestores
CHECK_DEADLOCK FALSE
