------------------------------ MODULE Dashboard ------------------------------
(***************************************************************************)
(* The device list of ui.py and the Load button of its module repository:  *)
(* the scan threads that refresh_devices starts, each of which reads the   *)
(* devices, then the loaded modules, then looks at each of them, and hands *)
(* its rows to the main loop, the selection among them, the handler that   *)
(* unloads the driver of the selected row (its checks and its child are    *)
(* DriverUnload's; here is what it does to the list, and the list to it),  *)
(* and the one that loads a module from the repository.  The kernel        *)
(* changes meanwhile.                                                      *)
(***************************************************************************)
EXTENDS KernelModules, Sequences

CONSTANTS
    Rejected,   \* the modules is_safe_module answers False for
    Unlisted,   \* the drivers whose devices mc_list_all_devices may leave out:
                \* infrastructure, and what comes after the 64th device
    MaxScans    \* bound: scans between their start and the update of the list

ASSUME DashboardAssumption ==
    /\ Rejected \subseteq Modules
    /\ Unlisted \subseteq Drivers
    /\ MaxScans \in Nat \ {0}

VARIABLES
    rows,         \* dev_store
    selected,     \* the selected row
    btn_unload,   \* the Unload button is sensitive
    refresh_btn,  \* the Refresh button is sensitive
    scanning,
    scan,         \* the scan threads
    idle,         \* GLib.idle_add: lists waiting for update_dev_list
    real_driver,  \* what the running unload handler was clicked for
    unloading,    \* how far it is
    outdated,     \* history: the list has been replaced since that click
    loading,      \* the module the running load handler was clicked for
    helper,       \* its pkexec child
    announced     \* history: the module last reported as loaded, until it is
                  \* shown, gone, held by another or left out by a read of
                  \* /proc/modules

listVars   == <<rows, selected, btn_unload>>
scanVars   == <<listVars, refresh_btn, scanning, scan, idle>>
unloadVars == <<real_driver, unloading, outdated>>
loadVars   == <<loading, helper, announced>>
vars       == <<kernelVars, scanVars, unloadVars, loadVars>>

(* A device's row shows its driver; a module's row its name and a tag.     *)
(* The rows of devices without a driver are left out: Unload refuses them. *)
Row(kind, name) == [kind |-> kind, name |-> name]
Rows == [kind : {"device", "in_use", "idle"}, name : Names]

(* A scan thread: the modules it has still to look at, and ui_list.        *)
Scans == [pc : {"free", "devices", "modules", "checks"},
          mods : SUBSET Modules, rows : SUBSET Rows]

Free == [pc |-> "free", mods |-> {}, rows |-> {}]

TypeOK ==
    /\ KernelTypeOK
    /\ rows \subseteq Rows
    /\ selected \in Rows \cup {None}
    /\ btn_unload \in BOOLEAN
    /\ refresh_btn \in BOOLEAN
    /\ scanning \in BOOLEAN
    /\ scan \in [1..MaxScans -> Scans]
    /\ idle \in Seq(SUBSET Rows)
    /\ Len(idle) <= MaxScans
    /\ real_driver \in Names \cup {None}
    /\ unloading \in {"no", "asking", "helper", "removed", "refused"}
    /\ outdated \in BOOLEAN
    /\ loading \in Modules \cup {None}
    /\ helper \in {"none", "auth", "modprobe", "success", "failure"}
    /\ announced \in Modules \cup {None}

(* The window's constructor ends with a first scan, already started here;  *)
(* Unload is sensitive until a first selection has come and gone.          *)
Init ==
    /\ KernelInit
    /\ rows = {}
    /\ selected = None
    /\ btn_unload = TRUE
    /\ refresh_btn = FALSE
    /\ scanning = TRUE
    /\ scan = [i \in 1..MaxScans |-> IF i = 1 THEN [Free EXCEPT !.pc = "devices"] ELSE Free]
    /\ idle = <<>>
    /\ real_driver = None
    /\ unloading = "no"
    /\ outdated = FALSE
    /\ loading = None
    /\ helper = "none"
    /\ announced = None

(* The main loop runs but for a handler that waits for its child.  While   *)
(* a dialog is open it runs nested: callbacks come, clicks on the window   *)
(* do not.                                                                 *)
MainLoop  == loading = None /\ unloading \notin {"helper", "removed"}
UserInput == loading = None /\ unloading = "no"

NoteKernel ==
    announced' = IF announced \in loaded' /\ \A x \in loaded' : announced \notin Uses[x]
                 THEN announced ELSE None

Kernel ==
    /\ KernelNext
    /\ NoteKernel
    /\ UNCHANGED <<scanVars, unloadVars, loading, helper>>

-----------------------------------------------------------------------------
(* refresh_devices: from the button, which is insensitive meanwhile, and   *)
(* from every reply of the daemon, which asks nobody.                      *)

Room == Len(idle) + Cardinality({i \in 1..MaxScans : scan[i].pc # "free"}) < MaxScans

refresh_devices ==
    /\ Room
    /\ refresh_btn' = FALSE
    /\ scanning' = TRUE
    /\ \E i \in 1..MaxScans :
          /\ scan[i].pc = "free"
          /\ scan' = [scan EXCEPT ![i].pc = "devices"]
    /\ UNCHANGED <<listVars, idle>>

RefreshClicked ==
    /\ UserInput
    /\ refresh_btn
    /\ refresh_devices
    /\ UNCHANGED <<kernelVars, unloadVars, loadVars>>

DaemonReply ==
    /\ MainLoop
    /\ refresh_devices
    /\ UNCHANGED <<kernelVars, unloadVars, loadVars>>

(* _scan_thread: the devices with their drivers, up to the 64th and none   *)
(* of the infrastructure, and their rows.                                  *)
mc_list_all_devices == {bound \ hidden : hidden \in SUBSET Unlisted}

scanFrame == <<kernelVars, listVars, refresh_btn, scanning, unloadVars, loading, helper>>

ScanDevices_NoneKept(i) ==      \* variant: "None" is taken for a driver
    /\ scan[i].pc = "devices"
    /\ scan' = [scan EXCEPT ![i].pc = "modules",
                            ![i].rows = {Row("device", d) : d \in bound \cup {None}}]
    /\ UNCHANGED <<scanFrame, idle, announced>>

ScanDevices(i) ==
    /\ scan[i].pc = "devices"
    /\ \E drivers \in mc_list_all_devices :
          scan' = [scan EXCEPT ![i].pc = "modules",
                               ![i].rows = {Row("device", d) : d \in drivers}]
    /\ UNCHANGED <<scanFrame, idle, announced>>

used_drivers(s) == {r.name : r \in {x \in s.rows : x.kind = "device"}}

ScanModules(i) ==
    /\ scan[i].pc = "modules"
    /\ \E read \in mc_list_loaded_modules :
          /\ scan' = [scan EXCEPT ![i].pc = "checks", ![i].mods = read]
          /\ announced' = IF announced \in loaded \ read THEN None ELSE announced
    /\ UNCHANGED <<scanFrame, idle>>

(* One module after the other, in any order, modinfo run before each look  *)
(* at sysfs.  The row of one that passes is tagged by a second look, right *)
(* after the first.                                                        *)
CheckModule_AllLoaded(i, m) ==      \* variant: used_drivers not looked at
    /\ scan[i].pc = "checks"
    /\ m \in scan[i].mods
    /\ scan' = [scan EXCEPT
         ![i].mods = @ \ {m},
         ![i].rows = IF m \in Rejected \/ mc_module_has_holders(m) THEN @
                     ELSE @ \cup {Row(IF mc_driver_is_in_use(m) THEN "in_use" ELSE "idle", m)}]
    /\ UNCHANGED <<scanFrame, idle, announced>>

CheckModule(i, m) ==
    /\ scan[i].pc = "checks"
    /\ m \in scan[i].mods
    /\ scan' = [scan EXCEPT
         ![i].mods = @ \ {m},
         ![i].rows = IF m \in used_drivers(scan[i]) \cup Rejected \/ mc_module_has_holders(m)
                     THEN @
                     ELSE @ \cup {Row(IF mc_driver_is_in_use(m) THEN "in_use" ELSE "idle", m)}]
    /\ UNCHANGED <<scanFrame, idle, announced>>

HandOver(i) ==
    /\ scan[i].pc = "checks"
    /\ scan[i].mods = {}
    /\ idle' = Append(idle, scan[i].rows)
    /\ scan' = [scan EXCEPT ![i] = Free]
    /\ UNCHANGED <<scanFrame, announced>>

Shows(list, m) == \E r \in list :
                    r.name = m \/ (r.name \in Drivers /\ ModuleOf[r.name] = m)

(* Unload and Search are for a selected row; its driver's description is   *)
(* asked of modinfo and only shown.                                        *)
on_dev_selection_changed(to) ==
    /\ selected' = to
    /\ btn_unload' = (to # None)

SelectRow(r) ==
    /\ UserInput
    /\ r \in rows
    /\ on_dev_selection_changed(r)
    /\ UNCHANGED <<kernelVars, rows, refresh_btn, scanning, scan, idle, unloadVars, loadVars>>

(* Clearing the store clears the selection; "changed" may come without one. *)
ClearSelection ==
    \/ on_dev_selection_changed(None)
    \/ selected = None /\ UNCHANGED <<selected, btn_unload>>

update_dev_list_KeepsSelection ==   \* variant: rows replaced in place
    /\ MainLoop
    /\ idle # <<>>
    /\ rows' = Head(idle)
    /\ idle' = Tail(idle)
    /\ announced' = IF Shows(Head(idle), announced) THEN None ELSE announced
    /\ refresh_btn' = TRUE
    /\ scanning' = FALSE
    /\ outdated' = (real_driver # None)
    /\ UNCHANGED <<kernelVars, selected, btn_unload, scan, real_driver, unloading, loading, helper>>

update_dev_list_NotReset ==     \* variant: the button is left as it is
    /\ MainLoop
    /\ idle # <<>>
    /\ rows' = Head(idle)
    /\ ClearSelection
    /\ idle' = Tail(idle)
    /\ announced' = IF Shows(Head(idle), announced) THEN None ELSE announced
    /\ outdated' = (real_driver # None)
    /\ UNCHANGED <<kernelVars, refresh_btn, scanning, scan, real_driver, unloading, loading, helper>>

update_dev_list ==
    /\ MainLoop
    /\ idle # <<>>
    /\ rows' = Head(idle)
    /\ ClearSelection
    /\ idle' = Tail(idle)
    /\ announced' = IF Shows(Head(idle), announced) THEN None ELSE announced
    /\ refresh_btn' = TRUE
    /\ scanning' = FALSE
    /\ outdated' = (real_driver # None)
    /\ UNCHANGED <<kernelVars, scan, real_driver, unloading, loading, helper>>

-----------------------------------------------------------------------------
(* The Unload button.  The handler takes the name from the selected row    *)
(* and keeps it while the dialogs run the main loop.                       *)
UnloadClicked ==
    /\ UserInput
    /\ btn_unload
    /\ selected # None
    /\ real_driver' = selected.name
    /\ unloading' = IF mc_module_has_holders(selected.name) THEN "refused" ELSE "asking"
    /\ outdated' = FALSE
    /\ UNCHANGED <<kernelVars, scanVars, loadVars>>

UnloadConfirmed ==
    /\ unloading = "asking"
    /\ unloading' = "helper"
    /\ UNCHANGED <<kernelVars, scanVars, real_driver, outdated, loadVars>>

HelperUnloads ==
    /\ unloading = "helper"
    /\ real_driver \in ValidNames
    /\ Resolve[real_driver] # None
    /\ Removable(Resolve[real_driver])
    /\ RemoveModule(Resolve[real_driver])
    /\ unloading' = "removed"
    /\ NoteKernel
    /\ UNCHANGED <<scanVars, real_driver, outdated, loading, helper>>

HelperRefuses ==
    /\ unloading = "helper"
    /\ unloading' = "refused"
    /\ UNCHANGED <<kernelVars, scanVars, real_driver, outdated, loadVars>>

(* Cancelled, refused, timed out, or raised after the removal: no new scan *)
(* is started, whatever the list shows.                                    *)
UnloadReturns ==
    /\ unloading # "no"
    /\ real_driver' = None
    /\ unloading' = "no"
    /\ outdated' = FALSE
    /\ UNCHANGED <<kernelVars, scanVars, loadVars>>

-----------------------------------------------------------------------------
(* The Load button of the repository.  Its rows were read from the disk    *)
(* and /proc/modules some time ago: the module may be loaded already.      *)
LoadClicked(m) ==
    /\ UserInput
    /\ Room
    /\ loading' = m
    /\ helper' = "auth"
    /\ announced' = None
    /\ UNCHANGED <<kernelVars, scanVars, unloadVars>>

Authorised ==
    /\ helper = "auth"
    /\ helper' \in {"modprobe", "failure"}
    /\ UNCHANGED <<kernelVars, scanVars, unloadVars, loading, announced>>

HelperLoads ==
    /\ helper = "modprobe"
    /\ \/ loading \in ValidNames /\ Load(loading) /\ helper' = "success"
       \/ helper' = "failure" /\ UNCHANGED kernelVars
    /\ UNCHANGED <<scanVars, unloadVars, loading, announced>>

(* A late success is dropped with the exception: no row is removed and no  *)
(* scan started (see DriverUnload for the two cases of the timeout).       *)
LoadTimeout ==
    /\ helper \in {"auth", "success", "failure"}
    /\ loading' = None
    /\ helper' = "none"
    /\ UNCHANGED <<kernelVars, scanVars, unloadVars, announced>>

(* The kernel may have removed the module, or used it, since it was loaded. *)
Announce == IF helper = "success" /\ loading \in loaded /\ Holders(loading) = {}
            THEN loading ELSE None

LoadReturns_NoScan ==           \* variant: the list is left as it is
    /\ helper \in {"success", "failure"}
    /\ announced' = Announce
    /\ loading' = None
    /\ helper' = "none"
    /\ UNCHANGED <<kernelVars, scanVars, unloadVars>>

LoadReturns ==
    /\ helper \in {"success", "failure"}
    /\ IF helper = "success"
       THEN announced' = Announce /\ refresh_devices
       ELSE UNCHANGED <<announced, scanVars>>
    /\ loading' = None
    /\ helper' = "none"
    /\ UNCHANGED <<kernelVars, unloadVars>>

ScanThread(i) ==
    \/ ScanDevices(i) \/ ScanModules(i) \/ HandOver(i)
    \/ \E m \in Modules : CheckModule(i, m)

Next ==
    \/ Kernel
    \/ RefreshClicked \/ DaemonReply \/ update_dev_list
    \/ \E r \in Rows : SelectRow(r)
    \/ \E i \in 1..MaxScans : ScanThread(i)
    \/ UnloadClicked \/ UnloadConfirmed \/ HelperUnloads \/ HelperRefuses \/ UnloadReturns
    \/ \E m \in Modules : LoadClicked(m)
    \/ Authorised \/ HelperLoads \/ LoadTimeout \/ LoadReturns

Spec == Init /\ [][Next]_vars

(* Threads run, the timer of run() fires, and the main loop dispatches     *)
(* lists even if handlers follow one another for ever, or under a dialog   *)
(* that nobody answers.                                                    *)
Fairness ==
    /\ \A i \in 1..MaxScans : WF_vars(ScanThread(i))
    /\ SF_vars(update_dev_list)
    /\ WF_vars(HelperLoads) /\ WF_vars(LoadTimeout \/ LoadReturns)
    /\ WF_vars(~MainLoop /\ UnloadReturns)

FairSpec == Spec /\ Fairness

-----------------------------------------------------------------------------
(* Properties *)

(* The button is insensitive only while a scan is there to bring it back,  *)
(* however many scans were started over it and in whatever order they end. *)
ButtonHasScan ==
    /\ refresh_btn = ~scanning
    /\ scanning => idle # <<>> \/ \E i \in 1..MaxScans : scan[i].pc # "free"

(* ... and so it comes back.                                               *)
ButtonComesBack == ~refresh_btn ~> refresh_btn

(* No name is shown twice: as the driver of a device and, with whatever    *)
(* was bound or loaded between the steps of the scan, as a module.         *)
NoNameTwice ==
    \A r, s \in rows : r.name = s.name => r = s

(* The selected row is one of the list shown, and has its button.  What    *)
(* Unload acts on is the name of a row of that list, too, from the click   *)
(* to the end of the helper, unless a scan has replaced the list while a   *)
(* dialog of the handler was open.                                         *)
UnloadMatchesRow ==
    /\ selected \in rows \cup {None}
    /\ selected # None => btn_unload
    /\ real_driver # None => outdated \/ \E r \in rows : r.name = real_driver

(* While a module loaded from the repository is awaited in the list, a     *)
(* scan is on its way that will show it, whatever scans of an earlier      *)
(* kernel end before or after, or a list with it waits.                    *)
WillShow(s, m) ==
    \/ s.pc \in {"devices", "modules"}
    \/ s.pc = "checks" /\ (m \in s.mods \/ Shows(s.rows, m))

LoadOnItsWay ==
    announced \notin Rejected \cup {None} =>
        \/ \E i \in 1..MaxScans : WillShow(scan[i], announced)
        \/ \E k \in 1..Len(idle) : Shows(idle[k], announced)

(* CHANGELOG.md:46, "modules loaded from repository now correctly appear   *)
(* in dashboard", for the modules that is_safe_module lets through: the    *)
(* success is followed by a row for the module, unless it is gone or has   *)
(* become a dependency before, another load has been started, or a read of *)
(* /proc/modules has left it out.                                          *)
AcceptedLoadAppears ==
    \A m \in Modules \ Rejected : announced = m ~> announced # m

=============================================================================
