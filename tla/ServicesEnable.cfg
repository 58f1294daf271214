CONSTANTS
    s1 = s1
    None = None
    Unit <- OneUnit
    Restless <- OneUnit
    MaxRefresh = 3
    BusMayFail = FALSE
SPECIFICATION Spec
PROPERTY EnableWorks
