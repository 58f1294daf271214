CONSTANTS
    None = None
    Modules <- MCModules
    Drivers <- MCDrivers
    ModuleOf <- MCModuleOf
    Uses <- MCUses
    Bus <- MCBus
    Variants <- MCVariants
    Resolve <- MCResolve
    ValidNames <- MCNames
    Opened = {}
    Rejected <- MCRejected
    Unlisted <- MCDrivers
    MaxScans = 2
SPECIFICATION FairSpec
INVARIANTS TypeOK ButtonHasScan NoNameTwice UnloadMatchesRow LoadOnItsWay
PROPERTIES ButtonComesBack AcceptedLoadAppears
