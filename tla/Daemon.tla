------------------------------- MODULE Daemon -------------------------------
(***************************************************************************)
(* The montecarlo daemon (daemon.c): one thread that selects over the      *)
(* client socket and the udev monitor, keeps the single "current target"   *)
(* device, and starts the desktop UI when it believes none is running.     *)
(*                                                                         *)
(* Around it, external to the daemon: the kernel that adds, binds, unbinds *)
(* and removes devices and queues their uevents, and the UI processes,     *)
(* seen here only through what the daemon can observe of them: the PID     *)
(* file, their connections and the reply each one received last.           *)
(***************************************************************************)
EXTENDS Integers, Sequences, FiniteSets

CONSTANTS
    Devices,      \* the sysfs paths that devices may appear under
    UIs,          \* process ids that UI instances may get, each used once
    DaemonEnv,    \* what get_socket_path reads in the daemon ...
    Env,          \* ... and in each UI
    None,         \* the empty target / the absent PID file
    QueueCap,     \* uevents the monitor's receive buffer can hold
    Supervised    \* TRUE: run by systemd; FALSE: run by hand

(* The directory of the socket: what it is under, and whose it is.         *)
Paths == {"/run/user", "/tmp"} \X Nat

ASSUME DaemonAssumption ==
    /\ None \notin Devices \cup UIs
    /\ Env \in [UIs -> [runtime_dir : {None} \cup Paths, uid : Nat, writable : BOOLEAN]]
    /\ DaemonEnv \in [runtime_dir : {None} \cup Paths, uid : Nat, writable : BOOLEAN]
    /\ QueueCap \in Nat \ {0}
    /\ Supervised \in BOOLEAN

VARIABLES
    device,           \* kernel: the state of each device
    storage,          \* kernel: the paths where the device of the moment has USB class 08
    events,           \* kernel: uevents queued for the daemon's monitor
    overflow,         \* kernel: the monitor's buffer has dropped a uevent
    pc,               \* daemon: where its thread is
    udevReady,        \* daemon: FD_ISSET(udev_fd) of the running iteration
    syspath,          \* daemon: the argument of handle_device_add
    current_syspath,  \* daemon: the target offered to clients
    backlog,          \* socket: connected, not yet accepted clients
    told,             \* UI: the target in the last reply it received
    ui,               \* UI: the life of each process
    children,         \* the UIs the running daemon forked: they inherited server_fd
    orphans,          \* the UIs holding the dead socket that the path still names
    waitsOn,          \* UI: the holders of the dead socket it waits on for a reply
    pidfile,          \* /tmp/montecarlo_ui.pid: the last UI to open it, None if absent
    unseen            \* history: the UIs that could not make the file, or lost it to a quit

kernelVars == <<device, storage, events, overflow>>
daemonVars == <<pc, udevReady, syspath, current_syspath>>
socketVars == <<backlog, told, children, orphans, waitsOn>>
uiVars     == <<socketVars, ui, pidfile, unseen>>
vars       == <<kernelVars, daemonVars, uiVars>>

-----------------------------------------------------------------------------
(* Types and the values of C that the control flow depends on. *)

UEvent == [action : {"add", "bind", "unbind", "remove"}, syspath : Devices]

(* glibc's strcmp returns the difference of the first bytes that differ;   *)
(* for these four words, compared with "add" and "remove", that is the     *)
(* first byte.                                                             *)
FirstByte == [add |-> 97, bind |-> 98, remove |-> 114, unbind |-> 117]

strcmp(a, b) == FirstByte[a] - FirstByte[b]

(* "== true" compares with the integer 1. *)
IsTrue(int) == int = 1

DispatchesAdd(e)    == IsTrue(strcmp(e.action, "add"))
DispatchesRemove(e) == IsTrue(strcmp(e.action, "remove"))

DaemonPC == {"down", "select", "client", "udev",
             "excluded", "driver", "publish", "ui", "launch"}

Running == pc # "down"

Alive(u) == ui[u] \in {"starting", "up"}

(* Each side derives the path from its own environment, by the same rule.  *)
get_socket_path(e) ==
    IF e.runtime_dir # None THEN e.runtime_dir
    ELSE <<IF e.writable THEN "/run/user" ELSE "/tmp", e.uid>>

SamePath(u) == get_socket_path(Env[u]) = get_socket_path(DaemonEnv)

(* A client in the backlog of a dead daemon's socket is reset only when    *)
(* the last process that holds the listening descriptor is gone.           *)
Stuck(u) == \E h \in waitsOn[u] : Alive(h)

TypeOK ==
    /\ device \in [Devices -> {"absent", "unbound", "bound"}]
    /\ storage \in SUBSET {d \in Devices : device[d] # "absent"}
    /\ events \in Seq(UEvent)
    /\ Len(events) <= QueueCap
    /\ overflow \in BOOLEAN
    /\ pc \in DaemonPC
    /\ udevReady \in BOOLEAN
    /\ syspath \in Devices \cup {None}
    /\ current_syspath \in Devices \cup {None}
    /\ backlog \in Seq(UIs)
    /\ told \in [UIs -> Devices \cup {None}]
    /\ ui \in [UIs -> {"none", "starting", "up", "gone"}]
    /\ children \in SUBSET UIs
    /\ orphans \in SUBSET UIs
    /\ waitsOn \in [UIs -> SUBSET UIs]
    /\ pidfile \in UIs \cup {None}
    /\ unseen \in SUBSET UIs

Init ==
    /\ device \in [Devices -> {"absent", "unbound", "bound"}]
    /\ storage \in SUBSET {d \in Devices : device[d] # "absent"}
    /\ events = <<>>
    /\ overflow = FALSE
    /\ pc = "down"
    /\ udevReady = FALSE
    /\ syspath = None
    /\ current_syspath = None
    /\ backlog = <<>>
    /\ told = [u \in UIs |-> None]
    /\ ui = [u \in UIs |-> "none"]
    /\ children = {}
    /\ orphans = {}
    /\ waitsOn = [u \in UIs |-> {}]
    /\ pidfile = None
    /\ unseen = {}

-----------------------------------------------------------------------------
(* The kernel.  A uevent reaches the monitor only while the daemon runs;   *)
(* when the receive buffer is full the event is lost.                      *)

Emit_Unbounded(action, d) ==       \* variant: the buffer has no limit
    /\ events' = IF Running THEN Append(events, [action |-> action, syspath |-> d])
                            ELSE events
    /\ UNCHANGED overflow

Emit(action, d) ==
    IF ~Running
    THEN UNCHANGED <<events, overflow>>
    ELSE IF Len(events) < QueueCap
         THEN /\ events' = Append(events, [action |-> action, syspath |-> d])
              /\ UNCHANGED overflow
         ELSE /\ overflow' = TRUE
              /\ UNCHANGED events

DeviceChanges(d, from, to, action) ==
    /\ device[d] = from
    /\ device' = [device EXCEPT ![d] = to]
    /\ Emit(action, d)
    /\ UNCHANGED <<daemonVars, uiVars>>

(* A path is used again by whatever is plugged in there next.              *)
Plug(d) ==
    /\ DeviceChanges(d, "absent", "unbound", "add")
    /\ storage' \in {storage, storage \cup {d}}

BindDriver(d)   == DeviceChanges(d, "unbound", "bound", "bind") /\ UNCHANGED storage
UnbindDriver(d) == DeviceChanges(d, "bound", "unbound", "unbind") /\ UNCHANGED storage
Unplug(d) == DeviceChanges(d, "unbound", "absent", "remove") /\ storage' = storage \ {d}

Kernel == \E d \in Devices :
            Plug(d) \/ BindDriver(d) \/ UnbindDriver(d) \/ Unplug(d)

-----------------------------------------------------------------------------
(* The daemon's life: main() up to the loop; the exit of cleanup(), which  *)
(* unlinks the socket; and a death that runs no handler and leaves it.     *)

(* init_socket unlinks the path, so nobody finds the dead socket any more. *)
init_socket == orphans' = {}

Start ==
    /\ pc = "down"
    /\ pc' = "select"
    /\ init_socket
    /\ UNCHANGED <<kernelVars, udevReady, syspath, current_syspath,
                   backlog, told, children, waitsOn, ui, pidfile, unseen>>

(* main returns before the loop: bind, listen or a call of libudev failed. *)
(* The path is unlinked by then, or bound to a socket that is gone.        *)
StartFails ==
    /\ pc = "down"
    /\ init_socket
    /\ UNCHANGED <<kernelVars, daemonVars, backlog, told, children, waitsOn,
                   ui, pidfile, unseen>>

(* When the supervised daemon ends, systemd ends what is left in its       *)
(* control group with SIGTERM: the UIs it forked die without running       *)
(* quit_app.  Otherwise they live on, and with them the listening socket.  *)
EndsForkedUIs_Not == FALSE         \* variant: KillMode=process in the unit

EndsForkedUIs == Supervised

Heirs == IF EndsForkedUIs THEN {} ELSE {u \in children : Alive(u)}

Exit(pathLeft) ==
    /\ Running
    /\ pc' = "down"
    /\ udevReady' = FALSE
    /\ syspath' = None
    /\ current_syspath' = None
    /\ events' = <<>>
    /\ overflow' = FALSE
    /\ backlog' = <<>>
    /\ waitsOn' = [u \in UIs |-> IF \E i \in 1..Len(backlog) : backlog[i] = u
                                 THEN Heirs ELSE waitsOn[u]]
    /\ orphans' = IF pathLeft THEN Heirs ELSE {}
    /\ children' = {}
    /\ ui' = [u \in UIs |-> IF EndsForkedUIs /\ u \in children /\ Alive(u)
                            THEN "gone" ELSE ui[u]]
    /\ UNCHANGED <<device, storage, told, pidfile, unseen>>

Terminate == Exit(FALSE)
Crash     == Exit(TRUE)

-----------------------------------------------------------------------------
(* One iteration of the loop: the client, if its descriptor is ready, then *)
(* the uevent, if its descriptor was ready at the same select.             *)

Select_EventsFirst ==              \* variant: clients only when no event waits
    /\ pc = "select"
    /\ backlog # <<>> \/ events # <<>>
    /\ udevReady' = (events # <<>>)
    /\ pc' = IF events # <<>> THEN "udev" ELSE "client"
    /\ UNCHANGED <<kernelVars, syspath, current_syspath, uiVars>>

Select ==
    /\ pc = "select"
    /\ backlog # <<>> \/ events # <<>>
    /\ udevReady' = (events # <<>>)
    /\ pc' = IF backlog # <<>> THEN "client" ELSE "udev"
    /\ UNCHANGED <<kernelVars, syspath, current_syspath, uiVars>>

AfterClient_Unasked == "udev"      \* variant: FD_ISSET(udev_fd) not asked

AfterClient == IF udevReady THEN "udev" ELSE "select"

(* accept, send the current target or "none", close.  The client may have  *)
(* died in the backlog: the send then fails, and raises SIGPIPE, which     *)
(* systemd sets to ignored and a shell leaves at its default, death.       *)
HandleClient ==
    /\ pc = "client"
    /\ Alive(Head(backlog)) \/ Supervised
    /\ told' = IF Alive(Head(backlog))
               THEN [told EXCEPT ![Head(backlog)] = current_syspath]
               ELSE told
    /\ backlog' = Tail(backlog)
    /\ pc' = AfterClient
    /\ UNCHANGED <<kernelVars, udevReady, syspath, current_syspath,
                   children, orphans, waitsOn, ui, pidfile, unseen>>

BrokenPipe ==
    /\ pc = "client"
    /\ ~Alive(Head(backlog))
    /\ ~Supervised
    /\ Crash

(* handle_device_add returns, or is not called: its argument is gone.      *)
HandlerReturns == pc' = "select" /\ syspath' = None

handle_device_remove(path) ==
    current_syspath' = IF path = current_syspath THEN None ELSE current_syspath

HandleUdevEvent ==
    /\ pc = "udev"
    /\ LET e == Head(events) IN
       /\ IF DispatchesAdd(e)
          THEN pc' = "excluded" /\ syspath' = e.syspath
          ELSE HandlerReturns
       /\ IF DispatchesRemove(e)
          THEN handle_device_remove(e.syspath)
          ELSE UNCHANGED current_syspath
    /\ events' = Tail(events)
    /\ UNCHANGED <<device, storage, overflow, udevReady, uiVars>>

(* handle_device_add, one step per look at the system outside.  Each look  *)
(* is at the device that is at the path now; one that has left sysfs is    *)
(* neither excluded nor bound.                                             *)
mc_is_excluded_device(path) == path \in storage

mc_dev_has_driver(path) == device[path] = "bound"

CheckExcluded_Missing ==           \* variant: mass storage is not turned away
    /\ pc = "excluded"
    /\ pc' = "driver"
    /\ UNCHANGED <<kernelVars, udevReady, syspath, current_syspath, uiVars>>

CheckExcluded ==
    /\ pc = "excluded"
    /\ IF mc_is_excluded_device(syspath)
       THEN HandlerReturns
       ELSE pc' = "driver" /\ UNCHANGED syspath
    /\ UNCHANGED <<kernelVars, udevReady, current_syspath, uiVars>>

CheckDriver_KeepsTarget ==         \* variant: current_syspath not cleared
    /\ pc = "driver"
    /\ IF mc_dev_has_driver(syspath)
       THEN HandlerReturns
       ELSE pc' = "publish" /\ UNCHANGED syspath
    /\ UNCHANGED <<kernelVars, udevReady, current_syspath, uiVars>>

CheckDriver_Ignored ==             \* variant: the answer is not looked at
    /\ pc = "driver"
    /\ pc' = "publish"
    /\ UNCHANGED <<kernelVars, udevReady, syspath, current_syspath, uiVars>>

CheckDriver ==
    /\ pc = "driver"
    /\ IF mc_dev_has_driver(syspath)
       THEN HandlerReturns /\ current_syspath' = None
       ELSE pc' = "publish" /\ UNCHANGED <<syspath, current_syspath>>
    /\ UNCHANGED <<kernelVars, udevReady, uiVars>>

Publish_NotStored ==               \* variant: the UI is started, the target not kept
    /\ pc = "publish"
    /\ pc' = "ui"
    /\ UNCHANGED <<kernelVars, udevReady, syspath, current_syspath, uiVars>>

Publish ==
    /\ pc = "publish"
    /\ current_syspath' = syspath
    /\ pc' = "ui"
    /\ UNCHANGED <<kernelVars, udevReady, syspath, uiVars>>

(* ui_already_running: TRUE whenever the file can be opened, whatever      *)
(* process it names.                                                       *)
ui_already_running_Asked ==        \* variant: the process it names must exist
    pidfile # None /\ Alive(pidfile)

ui_already_running == pidfile # None

CheckUI ==
    /\ pc = "ui"
    /\ IF ui_already_running
       THEN HandlerReturns
       ELSE pc' = "launch" /\ UNCHANGED syspath
    /\ UNCHANGED <<kernelVars, udevReady, current_syspath, uiVars>>

(* The child inherits the daemon's environment.                            *)
LaunchUI(u) ==
    /\ pc = "launch"
    /\ ui[u] = "none"
    /\ Env[u] = DaemonEnv
    /\ ui' = [ui EXCEPT ![u] = "starting"]
    /\ children' = children \cup {u}
    /\ HandlerReturns
    /\ UNCHANGED <<kernelVars, udevReady, current_syspath,
                   backlog, told, orphans, waitsOn, pidfile, unseen>>

ForkFails ==
    /\ pc = "launch"
    /\ HandlerReturns
    /\ UNCHANGED <<kernelVars, udevReady, current_syspath, uiVars>>

DaemonStep ==
    \/ Select \/ HandleClient \/ BrokenPipe \/ HandleUdevEvent
    \/ CheckExcluded \/ CheckDriver \/ Publish \/ CheckUI
    \/ ForkFails
    \/ \E u \in UIs : LaunchUI(u)

-----------------------------------------------------------------------------
(* The UI processes: started by a user or by the daemon; the PID file is   *)
(* written at the end of start-up, removed by quit_app (whoever wrote it), *)
(* and left behind by a crash.  Both may fail (a file of another user in   *)
(* /tmp), and the UI goes on.  A file that was opened and not written is   *)
(* there all the same: ui_already_running looks no further.  The listener  *)
(* thread connects again after every reply.                                *)

UserStartsUI(u) ==
    /\ ui[u] = "none"
    /\ ui' = [ui EXCEPT ![u] = "starting"]
    /\ UNCHANGED <<kernelVars, daemonVars, socketVars, pidfile, unseen>>

UIWritesPid(u) ==
    /\ ui[u] = "starting"
    /\ ui' = [ui EXCEPT ![u] = "up"]
    /\ \/ pidfile' = u /\ unseen' = {}
       \/ pidfile' = pidfile /\ unseen' = unseen \cup {u}
    /\ UNCHANGED <<kernelVars, daemonVars, socketVars>>

UIConnects(u) ==
    /\ Alive(u)
    /\ SamePath(u)
    /\ ~Stuck(u)
    /\ Running
    /\ \A i \in 1..Len(backlog) : backlog[i] # u
    /\ backlog' = Append(backlog, u)
    /\ UNCHANGED <<kernelVars, daemonVars, told, children, orphans, waitsOn,
                   ui, pidfile, unseen>>

(* The path still names a socket nobody accepts on, and connect succeeds.  *)
UIConnectsToDead(u) ==
    /\ Alive(u)
    /\ SamePath(u)
    /\ ~Stuck(u)
    /\ ~Running
    /\ \E h \in orphans : Alive(h)
    /\ waitsOn' = [waitsOn EXCEPT ![u] = orphans]
    /\ UNCHANGED <<kernelVars, daemonVars, backlog, told, children, orphans,
                   ui, pidfile, unseen>>

UIQuits(u) ==
    /\ ui[u] = "up"
    /\ ui' = [ui EXCEPT ![u] = "gone"]
    /\ \/ pidfile' = None /\ unseen' = {v \in UIs \ {u} : ui[v] = "up"}
       \/ UNCHANGED <<pidfile, unseen>>
    /\ UNCHANGED <<kernelVars, daemonVars, socketVars>>

UICrashes(u) ==
    /\ Alive(u)
    /\ ui' = [ui EXCEPT ![u] = "gone"]
    /\ UNCHANGED <<kernelVars, daemonVars, socketVars, pidfile, unseen>>

UIProcess(u) == \/ UserStartsUI(u) \/ UIWritesPid(u)
                \/ UIConnects(u) \/ UIConnectsToDead(u)
                \/ UIQuits(u) \/ UICrashes(u)

Next == \/ Kernel
        \/ Start \/ StartFails \/ Terminate \/ Crash
        \/ DaemonStep
        \/ \E u \in UIs : UIProcess(u)

Spec == Init /\ [][Next]_vars

(* The daemon's thread runs whenever it can, and so do the start-up of a   *)
(* UI and its reconnect loop; nothing obliges a device to change, a user   *)
(* to act or a process to die.                                             *)
Fairness == /\ WF_vars(DaemonStep)
            /\ \A u \in UIs : /\ WF_vars(UIWritesPid(u))
                             /\ WF_vars(UIConnects(u))

FairSpec == Spec /\ Fairness

-----------------------------------------------------------------------------
(* Properties *)

(* The thread is at accept() or udev_monitor_receive_device() only when    *)
(* there is something to take: an accept() without a client would block it *)
(* while the other descriptor has work (a receive on libudev's             *)
(* non-blocking socket would return nothing).                              *)
NeverBlocks ==
    /\ pc = "client" => backlog # <<>>
    /\ pc = "udev" => events # <<>>
    /\ pc = "client" /\ udevReady => events # <<>>

BindQueued(d) ==
    \E i \in 1..Len(events) : events[i] = [action |-> "bind", syspath |-> d]

PendingBind(d) ==
    \/ BindQueued(d)
    \/ pc \in {"excluded", "driver"} /\ syspath = d

(* A device that is offered to clients although a driver is bound to it is *)
(* about to be withdrawn: its bind uevent is queued or being handled, or   *)
(* the monitor has lost an event.  Mass storage that has taken the place   *)
(* of an offered device is the exception: handle_device_add returns before *)
(* it looks at the driver, and the offer of the path stays (DaemonClaims). *)
BoundTargetPending ==
    \A d \in Devices \ storage :
        current_syspath = d /\ device[d] = "bound" => overflow \/ PendingBind(d)

(* The decision "no driver" taken in handle_device_add may be outdated by  *)
(* the time it is published, but then the bind uevent that outdates it is  *)
(* still to come.                                                          *)
StaleDecisionPending ==
    pc = "publish" /\ device[syspath] = "bound"
        => overflow \/ PendingBind(syspath)

(* ... and that makes the offer go away, whatever else happens meanwhile.  *)
BoundTargetWithdrawn ==
    \A d \in Devices :
        current_syspath = d /\ device[d] = "bound" /\ d \notin storage
            ~> current_syspath # d \/ device[d] # "bound" \/ overflow

(* The daemon implements Offers: whatever its steps are interleaved with,  *)
(* restarts included, an offer is of a device that mc_is_excluded_device   *)
(* let through and mc_dev_has_driver found without a driver since, and a   *)
(* reply is the offer of one moment.                                       *)
Candidate ==
    IF pc = "driver" THEN [stage |-> "admitted", of |-> syspath]
    ELSE IF pc = "publish" THEN [stage |-> "driverless", of |-> syspath]
    ELSE [stage |-> "none", of |-> None]

Abstract == INSTANCE Offers WITH offer <- current_syspath, candidate <- Candidate

ImplementsOffers == Abstract!Spec

(* Serving one client per iteration keeps the offer reaching every UI that *)
(* stays up, however many uevents arrive and whatever the other UIs do, if *)
(* it derives the daemon's path; the UIs the daemon starts do.             *)
TargetReachesUI ==
    \A u \in UIs, d \in Devices :
        current_syspath = d /\ ui[u] = "up" /\ SamePath(u)
            ~> told[u] = d \/ current_syspath # d \/ ui[u] # "up"

(* The daemon forks a UI only for the target it offers, so the new UI is   *)
(* told of the device it was started for when it connects.                 *)
LaunchesForTarget ==
    [][children' \ children # {}
         => current_syspath = syspath /\ syspath # None]_vars

(* The daemon starts a UI over another one only in three ways: the other   *)
(* is still starting, it could not write the PID file, or a third one has  *)
(* quit since and removed the file for both (quit_app).  A UI is not       *)
(* missed because another was started, crashed or was ended by systemd.    *)
MissesOnlyUnseen ==
    [][pc = "ui" /\ pc' = "launch"
         => \A v \in UIs : Alive(v) => ui[v] = "starting" \/ v \in unseen]_vars

(* A UI waits for the reply of a dead daemon, for which nothing wakes it,  *)
(* only if the daemon was run by hand: of one that systemd ran no process  *)
(* is left that holds its socket, at whatever step it has ended.           *)
StuckOnlyByHand == \A u \in UIs : Stuck(u) => ~Supervised

(* The listener of a UI that stays up connects again to a daemon that      *)
(* stays up, after any number of restarts (ui.py:1923, "Allow              *)
(* connecting/reconnecting").                                              *)
Reconnects ==
    \A u \in UIs :
        Running /\ ui[u] = "up" /\ SamePath(u)
            ~> \/ \E i \in 1..Len(backlog) : backlog[i] = u
               \/ ~Running \/ ui[u] # "up"

=============================================================================
