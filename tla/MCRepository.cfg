CONSTANTS
    None = None
    Modules <- MCModules
    Drivers = {}
    ModuleOf <- MCEmpty
    Uses <- MCUses
    Bus <- MCEmpty
    Variants <- MCVariants
    Resolve <- MCResolve
    ValidNames <- MCModules
    Opened = {}
    OnDisk <- MCModules
    MaxRefresh = 2
SPECIFICATION FairSpec
INVARIANTS TypeOK LoadedRowUnread ButtonMatchesRow AnswerOnItsWay
PROPERTIES RowGoesOnlyIfLoaded ImplementsSnapshots RefreshAnswered
