--------------------------- MODULE MCDriverUnload ---------------------------
(* Instances of DriverUnload for TLC: a Realtek WiFi driver whose name     *)
(* differs from its module's, a storage driver spelled with a hyphen and   *)
(* held by another module, and a driver on a bus that is not scanned.      *)
EXTENDS DriverUnloadClaims

MCModules == {"rtw88_8821cu", "usb_storage", "uas", "hid_sony"}
MCDrivers == {"rtw_8821cu", "usb-storage", "uas", "sony"}
MCModuleOf == [d \in Drivers |->
                 CASE d = "rtw_8821cu"  -> "rtw88_8821cu"
                   [] d = "usb-storage" -> "usb_storage"
                   [] d = "uas"         -> "uas"
                   [] d = "sony"        -> "hid_sony"]
MCUses == [m \in Modules |-> IF m = "uas" THEN {"usb_storage"} ELSE {}]
MCBus == [d \in Drivers |-> IF d = "sony" THEN "hid" ELSE "usb"]
MCVariants == [n \in Names |->
                 IF n = "rtw88_8821cu" THEN {n, "rtw_8821cu"} ELSE {n}]
MCResolve == [n \in Names |->
                IF n \in Modules THEN n
                ELSE IF n = "usb-storage" THEN "usb_storage" ELSE None]
MCOpened == {"uas"}
MCSlow == {"uas"}
=============================================================================
