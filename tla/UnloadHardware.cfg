CONSTANTS
    None = None
    Modules <- MCModules
    Drivers <- MCDrivers
    ModuleOf <- MCModuleOf
    Uses <- MCUses
    Bus <- MCBus
    Variants <- MCVariants
    Resolve <- MCResolve
    ValidNames <- Names
    Opened <- MCOpened
    Slow <- MCSlow
    MaxSurviving = 1
SPECIFICATION Spec
PROPERTY HardwareLocking
