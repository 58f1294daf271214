CONSTANTS
    d1 = d1
    d2 = d2
    u1 = u1
    u2 = u2
    None = None
    Devices <- OneDevice
    UIs <- OneUI
    DaemonEnv <- Root
    Env <- RootEnv
    QueueCap = 2
    Supervised = TRUE
SPECIFICATION Spec
PROPERTY LaunchesIffNoneRuns
