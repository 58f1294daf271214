CONSTANTS
    d1 = d1
    d2 = d2
    u1 = u1
    u2 = u2
    None = None
    Devices <- OneDevice
    UIs <- TwoUIs
    DaemonEnv <- Root
    Env <- MixedEnv
    QueueCap = 1
    Supervised = TRUE
SPECIFICATION FairSpec
INVARIANTS StuckOnlyByHand
PROPERTIES MissesOnlyUnseen BoundTargetWithdrawn TargetReachesUI Reconnects
