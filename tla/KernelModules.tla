--------------------------- MODULE KernelModules ---------------------------
(***************************************************************************)
(* The kernel's modules and driver bindings, external to Montecarlo, and   *)
(* what libmontecarlo.c reads of them in sysfs.  Two name spaces meet      *)
(* here and the code keeps them apart nowhere: a driver has the name of    *)
(* its directory in /sys/bus/<bus>/drivers, a module the one of its        *)
(* directory in /sys/module.                                               *)
(***************************************************************************)
EXTENDS Integers, FiniteSets

CONSTANTS
    Modules,      \* names of modules, as in /sys/module
    Drivers,      \* names of drivers, as in /sys/bus/<bus>/drivers
    ModuleOf,     \* the module that implements a driver
    Uses,         \* the modules a module depends on, directly or not
    Bus,          \* the bus of a driver
    Variants,     \* get_driver_names: the names a name is looked up under
    Resolve,      \* the module modprobe takes a name for, None if there is none
    ValidNames,   \* the names is_valid_module_name of helper.c accepts
    Opened,       \* the modules that something may hold a reference on
    None

Names == Modules \cup Drivers

ASSUME KernelModulesAssumption ==
    /\ ModuleOf \in [Drivers -> Modules]
    /\ Uses \in [Modules -> SUBSET Modules]
    /\ \A m \in Modules : \A n \in Uses[m] : Uses[n] \subseteq Uses[m] \ {m, n}
    /\ Variants \in [Names -> SUBSET STRING]
    /\ \A n \in Names : n \in Variants[n]
    /\ Resolve \in [Names -> Modules \cup {None}]
    /\ \A m \in Modules : Resolve[m] = m
    /\ ValidNames \subseteq Names
    /\ Opened \subseteq Modules
    /\ None \notin Names

VARIABLES
    loaded,   \* the modules in the kernel
    bound,    \* the drivers with at least one device
    opened    \* the modules something else holds a reference on

kernelVars == <<loaded, bound, opened>>

KernelTypeOK ==
    /\ loaded \subseteq Modules
    /\ bound \subseteq Drivers
    /\ opened \subseteq Opened

(* A module has all it depends on, and only a loaded one can be used.      *)
KernelConsistent ==
    /\ \A m \in loaded : Uses[m] \subseteq loaded
    /\ \A d \in bound : ModuleOf[d] \in loaded
    /\ opened \subseteq loaded

KernelInit ==
    /\ loaded \in SUBSET Modules
    /\ \A m \in loaded : Uses[m] \subseteq loaded
    /\ bound \in SUBSET {d \in Drivers : ModuleOf[d] \in loaded}
    /\ opened = {}

-----------------------------------------------------------------------------
(* What the kernel does on its own, and what modprobe makes it do.         *)

Holders(m) == {x \in loaded : m \in Uses[x]}

BindDevice(d) ==
    /\ ModuleOf[d] \in loaded
    /\ bound' = bound \cup {d}
    /\ UNCHANGED <<loaded, opened>>

UnbindDevice(d) == bound' = bound \ {d} /\ UNCHANGED <<loaded, opened>>

Open(m) ==
    /\ m \in loaded \cap Opened
    /\ opened' = opened \cup {m}
    /\ UNCHANGED <<loaded, bound>>

Close(m) == opened' = opened \ {m} /\ UNCHANGED <<loaded, bound>>

Load(m) ==
    /\ loaded' = loaded \cup {m} \cup Uses[m]
    /\ UNCHANGED <<bound, opened>>

(* modprobe -r also removes what the module alone depended on.             *)
Orphaned(m) == {x \in Uses[m] : /\ Holders(x) \subseteq {m} \cup Uses[m]
                                /\ x \notin opened
                                /\ \A y \in Holders(x) \ {m} : y \notin opened}

RemoveModule(m) ==
    /\ loaded' = loaded \ ({m} \cup Orphaned(m))
    /\ bound' = {d \in bound : ModuleOf[d] \in loaded'}
    /\ UNCHANGED opened

Removable(m) == m \in loaded /\ Holders(m) = {} /\ m \notin opened

-----------------------------------------------------------------------------
(* The checks of libmontecarlo.c: what sysfs says under the name given.    *)

(* /sys/module/<name>/holders: no such directory counts as no holder.      *)
mc_module_has_holders(name) == name \in loaded /\ Holders(name) # {}

(* /sys/module/<name>/refcnt: -1 when it cannot be read.                   *)
mc_get_module_refcount(name) ==
    IF name \in loaded
    THEN Cardinality(Holders(name)) + (IF name \in opened THEN 1 ELSE 0)
    ELSE -1

(* /proc/modules: the sets that a call may return.  All of it; none, when  *)
(* it cannot be opened or the call raises; what fits into the buffer, by   *)
(* the kernel's order, which is not modelled.  What is left of a line of   *)
(* more than 255 bytes, read as a line, names no module.                   *)
mc_list_loaded_modules == SUBSET loaded

(* A link to a device in the driver's directory, on three buses only; then *)
(* the holders, under the name as given.                                   *)
mc_driver_is_in_use_PciOnly(name) ==   \* variant: the first version, one bus
    \/ \E d \in bound : d \in Variants[name] /\ Bus[d] = "pci"
    \/ mc_module_has_holders(name)

ScannedBuses == {"pci", "usb", "pcmcia"}

mc_driver_is_in_use(name) ==
    \/ \E d \in bound : d \in Variants[name] /\ Bus[d] \in ScannedBuses
    \/ mc_module_has_holders(name)

KernelNext ==
    \/ \E d \in Drivers : BindDevice(d) \/ UnbindDevice(d)
    \/ \E m \in Modules : Open(m) \/ Close(m) \/ Load(m)
    \/ \E m \in Modules : Removable(m) /\ RemoveModule(m)

=============================================================================
