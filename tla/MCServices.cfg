CONSTANTS
    None = None
    Unit <- OneUnit
    Restless <- OneUnit
    MaxRefresh = 3
    BusMayFail = TRUE
    s1 = s1
SPECIFICATION FairSpec
INVARIANTS TypeOK RestoreListConsistent RestoreListComplete ButtonsMatchRow NewsOnItsWay
PROPERTIES ImplementsSnapshots ActionReachesView
