# Montecarlo: a TLA+ model

Montecarlo finds and manages Linux drivers. A C daemon waits for devices
without a driver, a GTK program shows devices, modules and systemd services,
and a small helper, run as root through `pkexec`, loads and unloads modules and
calls systemd. The modules here are translated from `src/daemon.c`,
`src/desktop/ui.py`, `src/montecarlo/libmontecarlo.c`, `src/montecarlo/helper.c`
and `src/systemd/libsystemd.c`; `PROJECT.json` maps each definition to its lines.

## 1. The system

| component | state it keeps | operations | correct when |
|---|---|---|---|
| daemon (`daemon.c`) | `current_syspath`, the listening socket | uevent handlers, reply to a client, launch of the UI, `cleanup` | its loop never blocks on one of two descriptors; an offered device that is no mass storage needs a driver, or the event that withdraws it is coming; offers reach the UI; a restarted daemon is found again |
| driver checks (`libmontecarlo.c`) | none, they read sysfs | `mc_driver_is_in_use`, `mc_module_has_holders`, `mc_get_module_refcount`, `mc_dev_has_driver`, `mc_is_excluded_device`, `mc_list_all_devices`, `mc_list_loaded_modules` | a driver with a device is found in use |
| unload (`ui.py`, `on_unload_clicked`) | the running handler, the list of unloaded modules | three checks, dialog, helper, timeout, end | no dependency is broken, a removal without a warning is a race, what was removed is not reported as a failure, what goes late was asked for |
| dashboard (`ui.py`, `_scan_thread`) | `dev_store`, its selection, the Refresh and Unload buttons, scan threads | refresh, scan, update of the list, selection, unload of the selected row | the button comes back, no name twice, Unload is for a row shown when it was clicked |
| module repository (`ui.py`, `_refresh_repo_thread`, `on_repo_load_clicked`) | `repo_store`, its selection, the Load button, refresh threads, the running handler | refresh, filters, selection, load | a row of a loaded module has its reason in the read its list was made from, a load hides only what was loaded, a refresh is answered, what was loaded appears in the dashboard |
| services tab (`ui.py`) + `libsystemd.c` | `svc_store`, selection, buttons, Restore list, badge | refresh, start, stop, enable, disable, restart, clear | buttons fit the row, the Restore list is what was stopped, an action reaches the view |
| helper (`helper.c`) | none | load, unload, service | does what its caller reports |
| automatic search, restore list of modules, shell, command line tools, scripts, packaging | see `PROJECT.json` | | |

How they interact. The kernel sends uevents to the daemon. The daemon forks the
UI and answers each connection on its socket with one message and closes; the
UI's listener thread connects again, and a message of a device makes the main
loop refresh. The UI writes `/tmp/montecarlo_ui.pid`, which the daemon looks
at. Inside the UI, threads hand their lists to the main loop with
`GLib.idle_add`; handlers run on the main loop and stop it while
`subprocess.run(["pkexec", ...])` runs the helper. The helper acts on the kernel
or on systemd, and the UI learns of the effect only by reading sysfs or the bus
again.

What is hard here: checks of sysfs that are acted on later (daemon, unload, dashboard,
repository); several threads that hand over lists in any order; a 30-second timeout on a
child that is already root, which a user's UI cannot kill and a root UI can, but for the
`modprobe` in it; dialogs that run the main loop nested; a bounded uevent buffer; a path
that another device takes over; a crash of the daemon or of a UI that leaves its socket or
its PID file; two name spaces, drivers and modules, used as one. `hazards` in `PROJECT.json`
lists them with their lines and properties.

## 2. The modules

    Daemon <- DaemonClaims <- MCDaemon          Daemon <- DaemonProofs
    Offers, instantiated by Daemon              Consent, instantiated by DriverUnload
    Snapshots, instantiated by Repository and by Services
    KernelModules <- DriverUnload <- DriverUnloadClaims <- MCDriverUnload
    KernelModules <- Dashboard <- MCDashboard
    KernelModules <- Repository <- MCRepository
    Services <- ServicesClaims <- MCServices
    KernelModules <- KernelModulesProofs        ListLemmas
    DriverUnload, KernelModulesProofs <- DriverUnloadProofs
    Dashboard, KernelModulesProofs, ListLemmas <- DashboardProofs
    Repository, KernelModulesProofs, ListLemmas <- RepositoryProofs
    Services, ListLemmas <- ServicesProofs

`X <- Y` reads "Y extends X". The component module holds state, actions and
properties that hold; `...Claims` holds what a document says and the code does
not do; `MC...` gives the constants their values; `...Proofs` holds theorems.
Definitions marked "variant" are plausible mistakes in the definition that
follows them; the specification does not use them, and each one breaks a property.

**Daemon.** `pc` is the position of the daemon's one thread: `select`, the client
branch, the uevent branch, and within `handle_device_add` one step for each look
at the outside (mass storage, driver, PID file, fork). `FirstByte`, `strcmp` and
`IsTrue` reproduce `strcmp(action, "add") == true` with glibc's return value, so
the model dispatches what the program dispatches: `bind` events. The kernel is
external: devices are added, bound, unbound and removed and put uevents into a
buffer of `QueueCap`; a full buffer drops them and sets `overflow`. UIs are
external but for what reaches the daemon. `children`, `orphans` and `waitsOn`
follow the listening descriptor that a forked UI inherits (no `SOCK_CLOEXEC`): a
connect to the socket of a dead daemon succeeds while a UI holds it, unless
`Supervised`, where systemd ends the whole control group. An
`Exit` is the handler `cleanup`, which unlinks the path, or a death without it.
`Env` and `DaemonEnv` are what `get_socket_path` reads on the two sides; a UI
connects only where both derive one path, and the UIs the daemon forks do.
`storage` is the set of paths whose device of the moment is mass storage: `Plug` chooses
the class anew, and `mc_is_excluded_device` looks at what is there now. `StartFails` is
an error return of `main` before the loop. `UIWritesPid` and `UIQuits` may fail at the
file, and the UI goes on or ends all the same. `unseen` is history: who could not make
the PID file, or was up when another UI's `quit_app` removed it.

**Offers** is what the daemon promises, without loop, buffer, socket and processes:
a candidate is admitted (no mass storage is at the path then), found driverless, and only
then offered; an answer is the offer of its moment; offers may be withdrawn at any
time. `ImplementsOffers` is the refinement, with `Candidate` as the mapping of the
position in `handle_device_add`. A daemon that dies and starts again is a withdrawal.

**KernelModules** is shared: loaded modules, drivers with a device, modules held
open, what the kernel and `modprobe` do to them, and the checks of
`libmontecarlo.c` as what they read. `Variants` is the set of names
`get_driver_names` tries, `Resolve` is modprobe's view of a name, `ScannedBuses`
the three buses the code looks at. `mc_list_loaded_modules` is the set of the sets that
a call may return: all that is loaded, nothing when `/proc/modules` cannot be opened or
the call raises, or what fits into the 40 kB buffer.

**DriverUnload.** `pc` is the position in `on_unload_clicked`; every step is one
look at sysfs, the dialog, or the child. `helper` is the child: authentication,
modprobe, its end. `Timeout` has the cases of `subprocess.run(timeout=30)`: a
`pkexec` that still authenticates is killed. One that is root is not by a user's UI
(PermissionError), and `run` waits for its end first (`late`). A UI that is root itself
(`root`; the daemon starts such a one) kills the helper and returns; the `modprobe`
that `system()` started in the helper goes on (`ModprobeSurvives`, `surviving`), beside the
next click, and ends in a `Survivor` step. Only a name in `Slow` has a modprobe that
reaches the timeout; Slow may be all names. `UnloadReturns` shows that the branch for
success raises before it records anything. `seen`, `taken`, `abandoned` and `strayed` are
history.

**Consent** is what the Unload button promises, without sysfs, dialogs, processes and
timeouts: a request is asked, judged by a look at the devices (idle only if none on a
scanned bus is bound under the name), confirmed, and spent once; only then are modules
removed, the one named among them and none that a loaded module needs. `ImplementsConsent`
is the refinement, with `Request` as the mapping of `pc`, the child and the warning. That
`subprocess.run` waits for a child it cannot kill is part of it: a handler that returned
at the timeout would leave a removal that belongs to no request. Where `mayAbandon` (a root
UI) a confirmed request may be given up with its removal `outstanding`, and `CarryOut` does
it later, once, for the name that was confirmed. The abstract specification does not let a
user's UI do that.

**Dashboard.** A scan thread reads devices, then modules, then looks at one module after
the other (`CheckModule`, in any order, with `modinfo` run between two of them), then hands
over; its steps interleave with the kernel, other scans and the main loop.
`update_dev_list` takes one list at a time. A load blocks the main loop, and on success
starts a scan. `selected` and `btn_unload` are the selection and what it enables; a new list
clears it. Unload is sensitive from the start, before any selection (`on_unload_clicked`
then returns at once). The unload handler is here for what it and the list do to each
other: `real_driver` is the name it copied from the row, `unloading` how far it is. While
it is "asking" or "refused" its dialogs run the main loop nested (`MainLoop`, but not
`UserInput`), so that lists and replies of the daemon come in and `outdated` notes a
replaced list; while it waits for the helper nothing is dispatched. Its checks, timeout and
warnings are DriverUnload's. `announced` and `outdated` are history.

**Repository.** `_refresh_repo_thread` reads `/proc/modules` and then walks the disk:
`ReadLoaded` makes a thread's rows, `HandOver` ends its walk, in any order of the threads,
and `_update_repo_ui` shows them. `starting`, `walking`, `idle` and `timer` are the
refreshes in flight. A filter is what it does to the selection: the selected row may
disappear, and GTK may select another. The load handler blocks the main loop; its helper
loads the module with its dependencies. Each list carries `unread`, the rows whose module
was loaded and left out by the read of `/proc/modules`, or has been loaded since, and
`answers`, whether it was read after the click of Refresh that is being followed; both are
history.

**Snapshots** is what the two list tabs promise of their rows: a refresh reads one list at
one moment, lists may overtake each other, and what is shown is one list that somebody
read, less rows removed one by one since. Repository and Services both implement it
(`ImplementsSnapshots`), the second with an answer of the bus as the list. The dashboard
does not: a scan reads devices, modules and holders at different moments.

**Services.** `listing`, `listed`, `idle`, `timers` count and hold the refreshes
in flight: threads, lists in any order, callbacks, timers. A handler (`action`)
blocks the main loop; the helper's start and stop are accepted as a `job` that
systemd ends later. `UnitSent` is the string that enable and disable really send.
`awaited`, `stopped` and `missed` (a stop that ended after the timer) are history.
`SearchChanged` is the search text that hides the selected row.

## 3. The runs

| run | question | bounds | result |
|---|---|---|---|
| `daemon` | types, blocking, stale offers, launches, refinement of Offers; run by hand with crashes | 2 paths, each for devices of either class, 1 UI, buffer 2; paths symmetric | passes, 2.64 M states |
| `daemon_live` | UIs left waiting, second UIs, offers withdrawn, delivered, reconnection; under systemd | 1 path, 2 UIs of which 1 is another user's, buffer 1 | passes, 151 k states |
| `daemon_add` | "receives 'add' events" (manual page) | 1 device | violated |
| `daemon_ui_check` | "and the UI is not already running" (manual page) | 1 path, 1 UI | violated |
| `daemon_storage_swap` | "to avoid false positives from mass storage devices and devices that already have drivers" (manual page) | 1 path, 1 UI | violated |
| `unload` | dependencies, warnings, reports, refinement of Consent, end of the handler; a user's UI and a root UI | 4 modules, 4 drivers, 1 surviving modprobe of a name | passes, 419 k states |
| `unload_hardware` | "Hardware Locking" (README) | same | violated |
| `unload_history` | "history of all modules unloaded" (README) | same | violated |
| `services` | Restore list, buttons, refinement of Snapshots, view after an action | 1 service, 3 refreshes in flight | passes, 169 k states |
| `services_enable` | "Enable" (README) | same | violated |
| `repository` | stale rows, selection, removed rows, refinement of Snapshots, refresh answered | 2 modules, 2 refreshes in flight | passes, 79.5 k states |
| `dashboard` | buttons, duplicates, the row of a running unload, a load appears, the button comes back | 2 modules, 1 driver, 2 scans | passes, 141 k states |

Why the bounds suffice. *Daemon*: two paths are what it takes for one device to replace
another as target, and a path where devices of both classes come and go has the exclusion,
its race and the swap; no action tells one path from another, so that they are symmetric
(the run checks no liveness). A buffer of two fills and overflows. One UI crashes, leaves
its PID file and its socket; process ids are used once. What concerns two UIs (the PID file
of the one that quits or crashes, a second launch) is in `daemon_live`, with one device and
a buffer of one to keep liveness affordable (a queued uevent and an overflow still happen);
its second UI has a session's environment and so another path. Two clients in the backlog at
once are not in an instance (the proofs have them): the loop takes one per iteration, in
order, and each client has at most one place in it. Two launches of the daemon and a third
UI that has quit would need three UIs; `MissesOnlyUnseen` is also proved for any number.
*DriverUnload*: the four modules are one of each kind the code tells apart: a name that
`get_driver_names` derives, a hyphen, a module that holds another, a bus that is not
scanned. Whether the UI is root is chosen in `Init`. One name, `Slow`, has a modprobe that
may outlast the timeout, and one such of it at a time may survive its helper
(`MaxSurviving`): enough to run beside the next click, for the same module or for the one it
holds. The proofs have any number of them and any slow names. *Dashboard*: two overlapping
scans can end in either order; `Unlisted` lets the listing leave the driver out, as
infrastructure filters and the 64-device buffer do. Of the two modules one holds the other
and is of those that `is_safe_module` rejects, so that a module is listed, tagged, held or
never shown. *Services*: an action needs room for two refreshes, so three let an older list
be in flight beside them. *Repository*: two overlapping refreshes suffice for an older list
over a newer one; the second module is a dependency, loaded with the first while it has a
row of its own. Services do not share state but for the selection, the list and the queue,
so that one service, which also changes by itself, already has the interleavings of lists
and actions; that the Restore list is right for several services is proved.

Bounds that appear in guards: `QueueCap` (a real bound, of unknown size), `MaxScans` in
`Room`, `MaxSurviving` in `Confirm` (DriverUnload), `MaxRefresh` in `RefreshClicked`
(Services, Repository) and `Run`. Those but the first keep a new scan, click or refresh from
starting when the bound is reached; the program has none.

### Fairness

- Daemon: weak fairness of the daemon's thread (a single thread that runs when
  it is not blocked), of the end of a UI's start-up and of the listener's connect
  (`while True` with a sleep of 2 s after a failure). No device, user or death is
  ever obliged to happen, and nothing says uevents stop.
- DriverUnload: modprobe ends, the timer of `run` fires, the handler goes on. No
  authentication has to be answered: that is the point of `UnloadEnds`.
- Dashboard, Services and Repository: threads run (in the latter two, each thread that has
  its list hands it over, strong fairness because the list may be moved by others), timers
  fire, and the main loop dispatches what waits, with strong fairness because a handler that
  runs disables the dispatch: GLib's sources of lower priority run when the loop is between
  handlers. A user cannot keep the loop from dispatching for ever, because it returns to the
  loop after each click, nor a dialog of the unload handler, which runs the loop nested. The
  Restore tab's `run` has no timeout, so `ActionReachesView` excepts a restore that waits.

### Properties with a reason to fail

- `BoundTargetPending`, `StaleDecisionPending`: the race in `handle_device_add`
  between the driver check and the store. They hold only up to an overflow of the
  buffer, and the first not for mass storage that has taken the path of an offered device:
  `handle_device_add` returns before it looks at the driver and leaves the target
  (`daemon_storage_swap`).
- `ImplementsOffers`: fails if a check of `handle_device_add` is dropped or reordered;
  it ties the offer to two looks at sysfs, in their order, across every interleaving.
- `MissesOnlyUnseen`: a second UI is launched over one that is starting, that could not make
  the file, or that lost it to a third one's quit, and over no other. It fails if
  `ui_already_running` asks whether the process named in the file exists: a UI that
  overwrote the file and crashed would hide the other one.
- `TargetReachesUI`: fails if uevents are served first. It is stated for UIs that derive
  the daemon's path; one that does not is never told, and nothing in the code notices.
- `Reconnects`: fails if systemd leaves the forked UIs alive; run by hand it would.
- `StuckOnlyByHand`: a UI that is told nothing for ever, because a forked UI holds the
  socket of a dead daemon. It fails, and with it `Reconnects`, if systemd spares the UIs.
- `ImplementsConsent`: fails if the handler returns at the timeout without the child's end:
  the next click then finds a helper at work for the last one. A root UI does return so, and
  the property then says that what is left is carried out once, for the name confirmed.
- `UnwarnedOnlyByRace`: how far hardware detection goes, exactly.
- `RemovalReported`: the race of the timeout with a child that is already root. What a user's
  UI removes, it removes while its handler waits; what a root UI removes after, it had been
  asked for in a click that it reported as a timeout.
- `ButtonHasScan`, `NoNameTwice`: overlapping scans, reads at different times. The second is
  about equal names: the code does show usb-storage beside usb_storage.
- `UnloadMatchesRow`: the name that an unload acts on, copied before its dialogs, is that of a
  row shown, unless a scan has replaced the list under a dialog; the code then goes on with
  the old name. It fails if a new list leaves the selection as it was.
- `LoadedRowUnread`: how wrong the repository's list can be. A list may be older than the
  one it replaces and bring back the row of a module loaded meanwhile, and a read of
  `/proc/modules` that fails or is cut off gives rows to modules that were loaded then; what
  cannot happen is a row for a module that the read for the list has returned.
- `RowGoesOnlyIfLoaded`, `ButtonMatchesRow`: the row that the load handler removes by an
  iterator from before the helper ran, and the selection that goes with it. The row of a
  dependency loaded along stays, and the next refresh removes it.
- `RefreshAnswered`: fails if a click during a refresh is ignored.
- `ImplementsSnapshots` (Repository, Services): fails if an update does not clear the store,
  so that rows of two lists are shown together.
- `AnswerOnItsWay`, `NewsOnItsWay`, `LoadOnItsWay`: the safety parts of `RefreshAnswered`,
  `ActionReachesView` and `AcceptedLoadAppears`. Whatever is still awaited has a thread, a
  timer or a list that brings it, and no older list that overtakes takes it away. They are
  where those three would go wrong, and, unlike those, they can be proved.
- `RestoreListComplete`: the other direction of the Restore list, up to a stop that ended
  after the timer: its handler raises TimeoutExpired before it records anything, and the
  service is missing until it is stopped again in time.
- `RestoreListConsistent`: relies on disable never succeeding: a working disable
  would put on the list a service that was not stopped.

### Disagreements of code and documents

Six runs end in a counterexample, each to a sentence of a document
(`findings` in `PROJECT.json` quotes it):

1. `daemon.c:208`: `strcmp(...) == true` never dispatches `add` (nor `remove`); it
   dispatches `bind`, so a device is looked at only when some driver binds to it.
2. `daemon.c:88`: what tells the daemon that a UI runs is a file. It is made late, perhaps not
   at all, and removed by any UI that quits: a second UI is launched over one that runs. A
   crash leaves it behind, and `return is_running = true` (`daemon.c:64`) does not ask for the
   process: no UI is launched though none runs. The run ends in the first; either one alone
   violates the property.
3. `daemon.c:74`: mass storage on the path of an offered device is turned away without the
   offer being taken back; a bound device stays offered with nothing to withdraw it.
4. `libmontecarlo.c:590`: in-use detection by the name as given and on three buses.
5. `ui.py:1771`: `self.restore_store` does not exist; the handler raises, outside its `try`,
   and the history stays empty.
6. `libsystemd.c:158`: enable and disable send a string that is no unit's name.

CHANGELOG.md:46 ("Modules loaded from repository now correctly appear in dashboard") holds for
the modules that `is_safe_module` lets through, and `AcceptedLoadAppears` is stated for those.
One that it rejects by its prefix (`hid_` and `i2c_`, `ui.py:1511`, for which the repository
scans whole directories of drivers) is loaded and never shown.

## 4. The proofs

`tlapm` checks every theorem of the five `...Proofs` modules of components for all values of
the constants, under the assumptions `DaemonAssumption`, `KernelModulesAssumption`,
`DriverUnloadAssumption`, `DashboardAssumption`, `RepositoryAssumption` and
`ServicesAssumption` that the component modules state. Proved are all type invariants and
all safety invariants of the runs, all action properties (`LaunchesForTarget`,
`MissesOnlyUnseen`, `UnwarnedOnlyByRace`, `RowGoesOnlyIfLoaded`) and all refinements
(`ImplementsOffers`, `ImplementsConsent`, and `ImplementsSnapshots` of both tabs).

**DaemonProofs.** `ControlInv` adds to `TypeOK` and `NeverBlocks` the argument of the
running handler (a device; past `publish` also the target) and that a daemon that is
down has no target. It is inductive by itself (`ControlInit`, `ControlStep`, one lemma
for the kernel, an exit, the daemon's steps and the UIs); from it follow `TypeCorrect`,
`NeverBlocksCorrect` and, as an action property, `LaunchesForTargetCorrect`.
`OfferInv` is `BoundTargetPending` and `StaleDecisionPending` together: the first is not
inductive alone, because a publish makes the stale decision the offer. The step rests
on `EmitBind`, a bind while the daemon runs is queued or the buffer overflows, and on
the fact that a bind uevent leaves the buffer only into the handler for the same device,
which goes past the exclusion unless the path has mass storage by then. A path is of mass
storage only while a device is there (`StoragePresent`), and a device that comes is unbound.
`FileInv` says that without a PID file every UI that is up is in `unseen`; a launch is
decided on the absence of the file, so `MissesOnlyUnseenCorrect` follows. A write or an
unlink that fails keeps it: the first puts its UI into `unseen`, the second leaves the file.
`ImplementsOffersCorrect` needs of the invariant only that a decision in progress is
about a device (`RefinesInit`, `RefinesNext`, one case per action).
`NoHolderInv` is why no UI waits for a dead daemon under systemd: that nobody waits is kept
only together with what a UI would come to wait on, the `orphans` of a path that is left.

**DriverUnloadProofs.** `TypeInv` is `TypeOK` with `KernelConsistent`: removal of a module
with what it alone needed (`RemoveConsistent`) keeps the kernel consistent, because
dependencies are transitive and without cycles. `DependencyProtectionCorrect` follows; a
modprobe with or without its helper does the same (`ModprobeConsistent`). `RoomInv` keeps
`surviving` within its bound. `SurvivorInv` says that a modprobe without its helper is one
of a root UI's abandoned clicks, and that what such have removed was named in one of them or
needed by that alone. `HandlerInv` relates the handler to its child, the warning to what was
seen at the check, and `taken` to the child's status; from it follow
`RemovalReportedCorrect` and `UnwarnedOnlyByRaceCorrect`. `ImplementsConsentCorrect` has one
case per action. It needs the other invariants too: `RequestInv` (nothing is left of a
request between two clicks), that a child has its handler, or a removal would be of no
confirmed request, and `KernelConsistent` after the removal, for what other modules need.

**KernelModulesProofs** has the two lemmas about the kernel's modules that every component
on them uses: a removal and a step of the kernel keep them consistent. **ListLemmas** has
what the sequences of waiting lists need: a function on 1..n is a sequence, a sequence
without its i-th entry has the other entries in their order, and what its `Range` becomes
when an entry is added, taken from the middle or from the front. With the last, a list
that changes hands between threads and main loop changes nothing of what they hold
together, on which `ImplementsSnapshots`, `AnswerOnItsWay` and `NewsOnItsWay` rest.

**RepositoryProofs.** `LoadedRowUnread` is not inductive: what it says of the list shown
has to hold of every list on its way (`ListInv`), and for a removed row, of the module the
helper has just loaded (`HelperInv`). A step of the kernel keeps all lists right because
it notes in each what it adds (`LoadedList`, `NoteLoadedInv`), and a new list notes
what its read has left out (`Reading`). `AnswerOnItsWay` and the
refinement of Snapshots need no more than this invariant: a removed row is one shown
(`ButtonMatchesRow`), and the history changes neither rows nor answers (`NotedSame`).

**ServicesProofs.** `HandlerInv` says what a handler may rely on when it returns: room for
the two refreshes of a success, a stop that has been noted, a service to restart that is
still on the list, and that enable and disable never succeed (`UnitSent` is no unit). The
last is why `RestoreListConsistent` holds; a working disable breaks it.
`RestoreListComplete` is inductive with what the running handler holds (`CompleteInv`): a
late stop that has succeeded is one of those `missed`. `NewsOnItsWay` is inductive by
itself: a success starts a refresh in the same step in which it makes the lists read so
far old ones.

**DashboardProofs.** `NoNameTwice` needs that every list being made or waiting names nothing
twice (`ListInv`). `ScanInv` is why a scan's list does: a module still to be looked at has no
row but, perhaps, that of a driver of its name, and then it gets none (`RowMade`), whatever
changes between two looks. `UnloadMatchesRow` needs of a running handler only what its types
say (`HandlersOK`), for the list changes under it in `update_dev_list` alone. The bound on
waiting lists needs the number of busy threads (`RoomInv`), counted with the library's
theorems on finite sets. `LoadOnItsWay` needs that a module that is awaited is loaded, and
held by none (`AwaitedInv`): a scan would leave it out otherwise. A scan that has not read
the modules yet will then find it, or its read ends the wait, and one that has not looked at
it yet will give it a row (`ScanGoesOn`).

Only model-checked: the liveness properties `BoundTargetWithdrawn`, `TargetReachesUI`,
`Reconnects`, `UnloadEnds`, `ActionReachesView`, `RefreshAnswered`, `ButtonComesBack` and
`AcceptedLoadAppears`. The prover has no rule for fairness and ENABLED; what is proved of
the last four are the invariants above that say the refresh or scan they wait for exists
(`NewsOnItsWay`, `AnswerOnItsWay`, `ButtonHasScan`, `LoadOnItsWay`), and what is left to TLC
is that threads and the main loop run. Of `Reconnects`, it is `StuckOnlyByHand`.

## 5. What is not modelled

- The automatic search (`run_montecarlo_logic`): `on_auto_find_clicked` is connected to no
  widget in this version (`ui.py:882`, "REMOVED Auto-Find button"), so that its thread never
  runs; the functions of the library it alone uses are left out with it.
- Command line tools, worker, scripts, widgets, packaging: no state that another part
  reads.
- A failing `exec` in `launch_ui`, which only a missing python3 causes.
- The `modinfo` timeout of one second in `is_safe_module`: its answer is fixed.
- Failed and cut-off reads of `/proc/modules` are modelled as reads that return any part of
  it; which part the 40 kB buffer keeps (the kernel's order) is not. Lines of
  `/proc/modules` over 255 bytes are read in pieces; a piece names no module (it has a
  comma, or comes after the names), so the models leave it out.
- The 500-service cap.
- A root UI whose helper is killed at the timeout of a load or of a service action: what its
  `modprobe` or its call still does is a step of the kernel or of systemd in Dashboard,
  Repository and Services, which no property there tells from anybody else's. DriverUnload,
  whose properties do, models it.
- A driver's name with a space, which `on_unload_clicked` cuts at the space with the tag.
- The details panes, web searches, the copied name: shown, and read by nothing.
- The desktop's dialogs other than the unload warning.

## 6. Order of the work, and what could follow

Done, in this order: Daemon; KernelModules and DriverUnload; Services; Dashboard; proofs
of Daemon and DriverUnload; socket paths, a second UI and Offers; Repository; proofs of the
refinement, of Repository, Services and Dashboard; Consent and Snapshots with their
refinements, and the safety parts of the liveness properties; the class of a device as that
of the moment, a failing PID file, a UI that runs as root, reads of `/proc/modules` that
fail, scans module by module and the unload handler on the dashboard.

What could follow: the name check of `helper.c` as an operator on sequences of characters,
against a reference definition; DriverUnload and Dashboard as one module, so that a name is
checked and removed while the list it came from is replaced (each has its half: DriverUnload
allows any name, which covers such a row, and Dashboard has the list without the warnings);
the automatic search, once a widget starts it again.

## 7. Running it

    tlc -config MCDaemon.cfg MCDaemon.tla       # likewise for the other runs
    tlapm DaemonProofs.tla                      # likewise for the other proofs
