----------------------------- MODULE MCDashboard -----------------------------
(* An instance of Dashboard for TLC: a WiFi driver of the same name as its *)
(* module, and a second module that holds the first and names no hardware, *)
(* which is_safe_module therefore rejects.                                 *)
EXTENDS Dashboard

Wifi == "iwlwifi"
Mvm  == "iwlmvm"

MCModules == {Wifi, Mvm}
MCDrivers == {Wifi}
MCModuleOf == [d \in MCDrivers |-> Wifi]
MCUses == [m \in MCModules |-> {Wifi} \ {m}]
MCBus == [d \in MCDrivers |-> "pci"]
MCNames == MCModules \cup MCDrivers
MCVariants == [n \in MCNames |-> {n}]
MCResolve == [n \in MCNames |-> n]
MCRejected == {Mvm}
=============================================================================
