CONSTANTS
    d1 = d1
    d2 = d2
    u1 = u1
    u2 = u2
    None = None
    Devices <- MCDevices
    UIs <- OneUI
    DaemonEnv <- Root
    Env <- RootEnv
    QueueCap = 2
    Supervised = FALSE
SYMMETRY DeviceSymmetry
SPECIFICATION Spec
INVARIANTS TypeOK NeverBlocks BoundTargetPending StaleDecisionPending
PROPERTIES LaunchesForTarget ImplementsOffers
