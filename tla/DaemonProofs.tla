---------------------------- MODULE DaemonProofs ----------------------------
(***************************************************************************)
(* Theorems about the daemon, for every set of devices, of UI processes,   *)
(* every length of the monitor's buffer and both ways of running it.       *)
(***************************************************************************)
EXTENDS Daemon, SequenceTheorems, TLAPS

-----------------------------------------------------------------------------
(* The inductive invariant of types and control.  Three facts about        *)
(* control are needed besides TypeOK and NeverBlocks: the handler runs     *)
(* with a device as its argument, past "publish" that device is the        *)
(* target, and a daemon that is down offers none.                          *)

InHandler == pc \in {"excluded", "driver", "publish", "ui", "launch"}

HandlerArgument ==
    /\ InHandler => syspath \in Devices
    /\ pc \in {"ui", "launch"} => current_syspath = syspath

IdleTarget == ~Running => current_syspath = None

ControlInv == TypeOK /\ NeverBlocks /\ HandlerArgument /\ IdleTarget

(* What one uevent does to the buffer: it stays a sequence of uevents      *)
(* within its capacity, and never empties.                                 *)
LEMMA EmitBuffer ==
    ASSUME TypeOK, NEW d \in Devices, NEW action \in {"add", "bind", "unbind", "remove"},
           Emit(action, d)
    PROVE  /\ events' \in Seq(UEvent)
           /\ Len(events') <= QueueCap
           /\ overflow' \in BOOLEAN
           /\ events # <<>> => events' # <<>>
<1> DEFINE e == [action |-> action, syspath |-> d]
<1>1. e \in UEvent
  BY DEF UEvent
<1>2. /\ Append(events, e) \in Seq(UEvent)
      /\ Append(events, e) # <<>>
      /\ Len(Append(events, e)) = Len(events) + 1
  BY <1>1, AppendProperties DEF TypeOK
<1>3. Len(events) \in Nat /\ QueueCap \in Nat
  BY LenProperties, DaemonAssumption DEF TypeOK
<1>4. CASE events' = Append(events, e) /\ overflow' = overflow /\ Len(events) < QueueCap
  BY <1>2, <1>3, <1>4 DEF TypeOK
<1>5. CASE events' = events /\ overflow' \in {overflow, TRUE}
  BY <1>5 DEF TypeOK
<1> QED
  BY <1>4, <1>5 DEF Emit

(* A bind uevent that is queued stays queued, and a bind that happens      *)
(* while the daemon runs is queued, unless the buffer overflows.           *)
LEMMA EmitBind ==
    ASSUME TypeOK, NEW d \in Devices, NEW action \in {"add", "bind", "unbind", "remove"},
           Emit(action, d)
    PROVE  /\ overflow => overflow'
           /\ \A x \in Devices : BindQueued(x) => BindQueued(x)'
           /\ Running /\ action = "bind" => overflow' \/ BindQueued(d)'
<1> DEFINE e == [action |-> action, syspath |-> d]
<1>1. e \in UEvent
  BY DEF UEvent
<1>2. CASE events' = events /\ (overflow' = overflow \/ overflow' = TRUE)
  <2>1. Running => overflow'
    <3>1. Len(events) \in Nat
      BY LenProperties DEF TypeOK
    <3>2. ASSUME events' = Append(events, e) PROVE FALSE
      BY <1>1, <1>2, <3>1, <3>2, AppendProperties DEF TypeOK
    <3> QED
      BY <3>2 DEF Emit
  <2> QED
    BY <1>2, <2>1 DEF BindQueued
<1>3. CASE events' = Append(events, e) /\ overflow' = overflow
  <2>1. /\ Len(events') = Len(events) + 1
        /\ \A i \in 1..Len(events) : events'[i] = events[i]
        /\ events'[Len(events) + 1] = e
    BY <1>1, <1>3, AppendProperties DEF TypeOK
  <2>2. Len(events) \in Nat
    BY LenProperties DEF TypeOK
  <2>3. \A i \in 1..Len(events) : i \in 1..Len(events')
    BY <2>1, <2>2
  <2>4. Len(events) + 1 \in 1..Len(events')
    BY <2>1, <2>2
  <2> QED
    BY <1>3, <2>1, <2>3, <2>4 DEF BindQueued
<1> QED
  BY <1>2, <1>3 DEF Emit

(* The control invariant holds before the daemon is started.               *)
LEMMA ControlInit == Init => ControlInv
<1> SUFFICES ASSUME Init PROVE ControlInv
  OBVIOUS
<1>1. events \in Seq(UEvent) /\ backlog \in Seq(UIs) /\ Len(events) <= QueueCap
  <2>1. <<>> \in Seq(UEvent) /\ <<>> \in Seq(UIs) /\ Len(<<>>) = 0
    BY EmptySeq
  <2> QED
    BY <2>1, DaemonAssumption DEF Init
<1>2. /\ told \in [UIs -> Devices \cup {None}]
      /\ ui \in [UIs -> {"none", "starting", "up", "gone"}]
      /\ waitsOn \in [UIs -> SUBSET UIs]
  BY DEF Init
<1>3. storage \in SUBSET {d \in Devices : device[d] # "absent"}
  BY DEF Init
<1> QED
  BY <1>1, <1>2, <1>3
     DEF Init, ControlInv, TypeOK, NeverBlocks, HandlerArgument, InHandler, IdleTarget, Running, DaemonPC

(* A device that changes touches nothing of it but the buffer, if it keeps *)
(* the paths of mass storage among those of a device.                      *)
LEMMA ControlKernel ==
    ASSUME ControlInv, NEW d \in Devices,
           NEW from \in {"absent", "unbound", "bound"},
           NEW to \in {"absent", "unbound", "bound"},
           NEW action \in {"add", "bind", "unbind", "remove"},
           DeviceChanges(d, from, to, action),
           storage' \in SUBSET {x \in Devices : device'[x] # "absent"}
    PROVE  ControlInv'
<1>1. Emit(action, d)
  BY DEF DeviceChanges
<1>2. /\ events' \in Seq(UEvent)
      /\ Len(events') <= QueueCap
      /\ overflow' \in BOOLEAN
      /\ events # <<>> => events' # <<>>
  BY <1>1, EmitBuffer DEF ControlInv
<1>3. device' \in [Devices -> {"absent", "unbound", "bound"}]
  BY DEF DeviceChanges, ControlInv, TypeOK
<1>4. UNCHANGED <<daemonVars, uiVars>>
  BY DEF DeviceChanges
<1> QED
  BY <1>2, <1>3, <1>4
     DEF ControlInv, TypeOK, NeverBlocks, HandlerArgument, InHandler, IdleTarget, Running,
         daemonVars, uiVars, socketVars

(* What a change of a device does to the paths of mass storage.            *)
LEMMA StoragePresent ==
    ASSUME TypeOK, NEW d \in Devices,
           Plug(d) \/ BindDriver(d) \/ UnbindDriver(d) \/ Unplug(d)
    PROVE  storage' \in SUBSET {x \in Devices : device'[x] # "absent"}
<1>1. PICK to \in {"absent", "unbound", "bound"} : device' = [device EXCEPT ![d] = to]
                                               /\ (to = "absent" => d \notin storage')
                                               /\ storage' \subseteq storage \cup {d}
  BY DEF Plug, BindDriver, UnbindDriver, Unplug, DeviceChanges
<1>2. storage \subseteq {x \in Devices : device[x] # "absent"}
      /\ device \in [Devices -> {"absent", "unbound", "bound"}]
  BY DEF TypeOK
<1> QED
  BY <1>1, <1>2

(* Every exit empties the buffer and the backlog with the process.         *)
LEMMA ControlExit ==
    ASSUME ControlInv, NEW pathLeft \in BOOLEAN, Exit(pathLeft)
    PROVE  ControlInv'
<1>1. events' \in Seq(UEvent) /\ backlog' \in Seq(UIs) /\ Len(events') <= QueueCap
  <2>1. <<>> \in Seq(UEvent) /\ <<>> \in Seq(UIs) /\ Len(<<>>) = 0
    BY EmptySeq
  <2> QED
    BY <2>1, DaemonAssumption DEF Exit
<1>2. Heirs \subseteq UIs
  BY DEF Heirs, ControlInv, TypeOK
<1>3. waitsOn' \in [UIs -> SUBSET UIs] /\ orphans' \in SUBSET UIs
  BY <1>2 DEF Exit, ControlInv, TypeOK
<1>4. ui' \in [UIs -> {"none", "starting", "up", "gone"}]
  BY DEF Exit, ControlInv, TypeOK
<1> QED
  BY <1>1, <1>3, <1>4
     DEF Exit, ControlInv, TypeOK, NeverBlocks, HandlerArgument, InHandler, IdleTarget, Running, DaemonPC

(* Each step of the select loop and of handle_device_add preserves it.     *)
LEMMA ControlDaemonStep ==
    ASSUME ControlInv, DaemonStep
    PROVE  ControlInv'
<1> USE DEF ControlInv, TypeOK, NeverBlocks, HandlerArgument, InHandler, IdleTarget, Running, DaemonPC,
            kernelVars, daemonVars, uiVars, socketVars
<1>1. CASE Select
  BY <1>1 DEF Select
<1>2. CASE HandleClient
  <2>1. backlog # <<>> /\ backlog \in Seq(UIs)
    BY <1>2 DEF HandleClient
  <2>2. Head(backlog) \in UIs /\ Tail(backlog) \in Seq(UIs)
    BY <2>1, HeadTailProperties
  <2>3. told' \in [UIs -> Devices \cup {None}]
    BY <1>2, <2>2 DEF HandleClient
  <2> QED
    BY <1>2, <2>2, <2>3 DEF HandleClient, AfterClient
<1>3. CASE BrokenPipe
  BY <1>3, ControlExit DEF BrokenPipe, Crash
<1>4. CASE HandleUdevEvent
  <2>1. events # <<>> /\ events \in Seq(UEvent)
    BY <1>4 DEF HandleUdevEvent
  <2>2. /\ Head(events) \in UEvent
        /\ Tail(events) \in Seq(UEvent)
        /\ Len(Tail(events)) = Len(events) - 1
    BY <2>1, HeadTailProperties
  <2>3. Len(events) \in Nat /\ QueueCap \in Nat
    BY <2>1, LenProperties, DaemonAssumption
  <2>4. Head(events).syspath \in Devices
    BY <2>2 DEF UEvent
  <2>5. Len(events') <= QueueCap /\ events' \in Seq(UEvent)
    BY <1>4, <2>2, <2>3 DEF HandleUdevEvent
  <2> QED
    BY <1>4, <2>4, <2>5 DEF HandleUdevEvent, handle_device_remove, HandlerReturns
<1>5. CASE CheckExcluded
  BY <1>5 DEF CheckExcluded, mc_is_excluded_device, HandlerReturns
<1>6. CASE CheckDriver
  BY <1>6 DEF CheckDriver, mc_dev_has_driver, HandlerReturns
<1>7. CASE Publish
  BY <1>7 DEF Publish
<1>8. CASE CheckUI
  BY <1>8 DEF CheckUI, HandlerReturns
<1>9. CASE ForkFails
  BY <1>9 DEF ForkFails, HandlerReturns
<1>10. ASSUME NEW u \in UIs, LaunchUI(u) PROVE ControlInv'
  BY <1>10 DEF LaunchUI, HandlerReturns
<1> QED
  BY <1>1, <1>2, <1>3, <1>4, <1>5, <1>6, <1>7, <1>8, <1>9, <1>10 DEF DaemonStep

(* What UI processes do reaches the daemon only through the backlog.       *)
LEMMA ControlUI ==
    ASSUME ControlInv, NEW u \in UIs, UIProcess(u)
    PROVE  ControlInv'
<1> USE DEF ControlInv, TypeOK, NeverBlocks, HandlerArgument, InHandler, IdleTarget, Running,
            kernelVars, daemonVars, socketVars
<1>1. CASE UserStartsUI(u)
  BY <1>1 DEF UserStartsUI
<1>2. CASE UIWritesPid(u)
  BY <1>2 DEF UIWritesPid
<1>3. CASE UIConnects(u)
  <2>1. Append(backlog, u) \in Seq(UIs) /\ Append(backlog, u) # <<>>
    BY AppendProperties
  <2> QED
    BY <1>3, <2>1 DEF UIConnects
<1>4. CASE UIConnectsToDead(u)
  BY <1>4 DEF UIConnectsToDead
<1>5. CASE UIQuits(u)
  BY <1>5 DEF UIQuits
<1>6. CASE UICrashes(u)
  BY <1>6 DEF UICrashes
<1> QED
  BY <1>1, <1>2, <1>3, <1>4, <1>5, <1>6 DEF UIProcess

(* Every step of the system preserves the control invariant.               *)
LEMMA ControlStep == ControlInv /\ [Next]_vars => ControlInv'
<1> SUFFICES ASSUME ControlInv, [Next]_vars PROVE ControlInv'
  OBVIOUS
<1>1. ASSUME NEW d \in Devices, Plug(d) \/ BindDriver(d) \/ UnbindDriver(d) \/ Unplug(d)
      PROVE ControlInv'
  <2>1. storage' \in SUBSET {x \in Devices : device'[x] # "absent"}
    BY <1>1, StoragePresent DEF ControlInv
  <2> QED
    BY <1>1, <2>1, ControlKernel DEF Plug, BindDriver, UnbindDriver, Unplug
<1>2. CASE Start \/ StartFails
  BY <1>2 DEF Start, StartFails, init_socket, daemonVars, ControlInv, TypeOK, NeverBlocks, HandlerArgument, InHandler, IdleTarget, Running,
              DaemonPC, kernelVars
<1>3. CASE Terminate \/ Crash
  BY <1>3, ControlExit DEF Terminate, Crash
<1>4. CASE DaemonStep
  BY <1>4, ControlDaemonStep
<1>5. ASSUME NEW u \in UIs, UIProcess(u) PROVE ControlInv'
  BY <1>5, ControlUI
<1>6. CASE UNCHANGED vars
  BY <1>6 DEF vars, kernelVars, daemonVars, uiVars, socketVars,
              ControlInv, TypeOK, NeverBlocks, HandlerArgument, InHandler,
              IdleTarget, Running
<1> QED
  BY <1>1, <1>2, <1>3, <1>4, <1>5, <1>6 DEF Next, Kernel

(* The control invariant holds in every behaviour of the daemon.           *)
THEOREM ControlCorrect == Spec => []ControlInv
BY ControlInit, ControlStep, PTL DEF Spec

(* Every variable keeps its type, and the monitor's buffer its capacity.   *)
THEOREM TypeCorrect == Spec => []TypeOK
<1>1. ControlInv => TypeOK
  BY DEF ControlInv
<1> QED
  BY <1>1, ControlCorrect, PTL

(* The daemon's thread never waits in accept or in receive_device: it is   *)
(* there only with a client, or a uevent, to take.                         *)
THEOREM NeverBlocksCorrect == Spec => []NeverBlocks
<1>1. ControlInv => NeverBlocks
  BY DEF ControlInv
<1> QED
  BY <1>1, ControlCorrect, PTL

-----------------------------------------------------------------------------
(* The safety of the offer.  BoundTargetPending alone is not inductive:    *)
(* Publish would establish a target that was bound after CheckDriver.      *)
(* StaleDecisionPending is what covers that window.                        *)

OfferInv == BoundTargetPending /\ StaleDecisionPending

(* Nothing is offered, and nothing decided, before the daemon is started.  *)
LEMMA OfferInit == Init => OfferInv
BY DaemonAssumption DEF Init, OfferInv, BoundTargetPending, StaleDecisionPending

(* The offer is untouched by a step that leaves the devices, the buffer    *)
(* and the daemon alone.                                                   *)
LEMMA OfferFrame ==
    ASSUME OfferInv, UNCHANGED <<device, storage, events, overflow, pc, syspath, current_syspath>>
    PROVE  OfferInv'
BY DEF OfferInv, BoundTargetPending, StaleDecisionPending, PendingBind, BindQueued

(* A device that changes: if it was bound, its bind uevent is now queued.  *)
LEMMA OfferKernel ==
    ASSUME ControlInv, OfferInv, NEW d \in Devices,
           Plug(d) \/ BindDriver(d) \/ UnbindDriver(d) \/ Unplug(d)
    PROVE  OfferInv'
<1>1. PICK from, to \in {"absent", "unbound", "bound"},
           action \in {"add", "bind", "unbind", "remove"} :
           /\ DeviceChanges(d, from, to, action)
           /\ to = "bound" => action = "bind"
  BY DEF Plug, BindDriver, UnbindDriver, Unplug
<1>2. /\ overflow => overflow'
      /\ \A x \in Devices : BindQueued(x) => BindQueued(x)'
      /\ Running /\ action = "bind" => overflow' \/ BindQueued(d)'
  <2>1. TypeOK /\ Emit(action, d)
    BY <1>1 DEF DeviceChanges, ControlInv
  <2> QED
    BY <2>1, EmitBind
<1>3. UNCHANGED <<pc, syspath, current_syspath>>
  BY <1>1 DEF DeviceChanges, daemonVars
<1>4. /\ device' = [device EXCEPT ![d] = to]
      /\ device \in [Devices -> {"absent", "unbound", "bound"}]
  BY <1>1 DEF DeviceChanges, ControlInv, TypeOK
<1>5. \A x \in Devices : PendingBind(x) => PendingBind(x)'
  BY <1>2, <1>3 DEF PendingBind
<1>6. ASSUME NEW x \in Devices, device'[x] = "bound", Running,
             device[x] = "bound" => overflow \/ PendingBind(x)
      PROVE  overflow' \/ PendingBind(x)'
  <2>1. CASE device[x] = "bound"
    BY <1>2, <1>5, <1>6, <2>1
  <2>2. CASE device[x] # "bound"
    <3>1. x = d /\ to = "bound"
      BY <1>4, <1>6, <2>2
    <3> QED
      BY <1>1, <1>2, <1>6, <3>1 DEF PendingBind
  <2> QED
    BY <2>1, <2>2
<1>9. \A x \in Devices : device'[x] = "bound" /\ x \notin storage' => x \notin storage
  BY <1>4 DEF Plug, BindDriver, UnbindDriver, Unplug, DeviceChanges, ControlInv, TypeOK
<1>7. BoundTargetPending'
  <2> SUFFICES ASSUME NEW x \in Devices, x \notin storage',
                      current_syspath' = x, device'[x] = "bound"
               PROVE  overflow' \/ PendingBind(x)'
    BY DEF BoundTargetPending
  <2>1. current_syspath = x
    BY <1>3
  <2>2. x \notin storage
    BY <1>4, <1>9
  <2>4. device[x] = "bound" => overflow \/ PendingBind(x)
    BY <2>1, <2>2 DEF OfferInv, BoundTargetPending
  <2>3. Running
    BY <2>1, DaemonAssumption DEF ControlInv, IdleTarget
  <2> QED
    BY <1>6, <2>3, <2>4
<1>8. StaleDecisionPending'
  <2> SUFFICES ASSUME pc = "publish", device'[syspath] = "bound"
               PROVE  overflow' \/ (PendingBind(syspath))'
    BY <1>3 DEF StaleDecisionPending
  <2>1. PICK x \in Devices : x = syspath
    BY DEF ControlInv, HandlerArgument, InHandler
  <2>2. device[x] = "bound" => overflow \/ PendingBind(x)
    BY <2>1 DEF OfferInv, StaleDecisionPending, PendingBind, BindQueued
  <2>3. overflow' \/ PendingBind(x)'
    BY <1>6, <2>1, <2>2 DEF Running
  <2> QED
    BY <1>3, <2>1, <2>3 DEF PendingBind, BindQueued
<1> QED
  BY <1>7, <1>8 DEF OfferInv

(* An exit withdraws the offer with the process.                           *)
LEMMA OfferExit ==
    ASSUME NEW pathLeft \in BOOLEAN, Exit(pathLeft)
    PROVE  OfferInv'
BY DaemonAssumption DEF Exit, OfferInv, BoundTargetPending, StaleDecisionPending

(* Taking one uevent: a queued bind of the target is either still queued   *)
(* or is the one the handler now holds.                                    *)
LEMMA OfferUdevEvent ==
    ASSUME ControlInv, OfferInv, HandleUdevEvent
    PROVE  OfferInv'
<1> DEFINE e == Head(events)
<1>1. /\ events \in Seq(UEvent) /\ events # <<>>
      /\ Len(events) \in Nat
  BY LenProperties DEF ControlInv, TypeOK, NeverBlocks, HandleUdevEvent
<1>2. /\ e \in UEvent
      /\ Len(events') = Len(events) - 1
      /\ \A i \in 1..Len(events') : events'[i] = events[i + 1]
      /\ e = events[1]
  BY <1>1, HeadTailProperties DEF HandleUdevEvent
<1>3. ASSUME NEW x \in Devices, BindQueued(x)
      PROVE  PendingBind(x)'
  <2>1. PICK i \in 1..Len(events) : events[i] = [action |-> "bind", syspath |-> x]
    BY <1>3 DEF BindQueued
  <2>2. CASE i = 1
    <3>1. e.action = "bind" /\ e.syspath = x
      BY <1>2, <2>1, <2>2
    <3>2. DispatchesAdd(e)
      BY <3>1 DEF DispatchesAdd, IsTrue, strcmp, FirstByte
    <3> QED
      BY <3>1, <3>2 DEF HandleUdevEvent, PendingBind
  <2>3. CASE i # 1
    <3>1. i - 1 \in 1..Len(events') /\ events'[i - 1] = events[i]
      BY <1>1, <1>2, <2>3
    <3> QED
      BY <2>1, <3>1 DEF PendingBind, BindQueued
  <2> QED
    BY <2>2, <2>3
<1>4. current_syspath' \in {current_syspath, None} /\ pc' \in {"excluded", "select"}
      /\ UNCHANGED <<device, storage, overflow>> /\ pc = "udev"
  BY DEF HandleUdevEvent, handle_device_remove, HandlerReturns
<1>5. BoundTargetPending'
  <2> SUFFICES ASSUME NEW x \in Devices, x \notin storage',
                      current_syspath' = x, device'[x] = "bound"
               PROVE  overflow' \/ PendingBind(x)'
    BY DEF BoundTargetPending
  <2>1. current_syspath = x
    BY <1>4, DaemonAssumption
  <2>2. overflow \/ BindQueued(x)
    BY <1>4, <2>1 DEF OfferInv, BoundTargetPending, PendingBind
  <2> QED
    BY <1>3, <1>4, <2>2
<1>6. StaleDecisionPending'
  BY <1>4 DEF StaleDecisionPending
<1> QED
  BY <1>5, <1>6 DEF OfferInv

(* The steps of the loop: a pending bind is dropped only by CheckDriver,   *)
(* which withdraws the offer, and Publish relies on StaleDecisionPending.  *)
LEMMA OfferDaemonStep ==
    ASSUME ControlInv, OfferInv, DaemonStep
    PROVE  OfferInv'
<1> USE DEF OfferInv, BoundTargetPending, StaleDecisionPending, PendingBind, BindQueued,
            kernelVars, daemonVars, uiVars, socketVars
<1>1. CASE Select
  BY <1>1 DEF Select
<1>2. CASE HandleClient
  BY <1>2 DEF HandleClient, AfterClient
<1>3. CASE BrokenPipe
  BY <1>3, OfferExit DEF BrokenPipe, Crash
<1>4. CASE HandleUdevEvent
  BY <1>4, OfferUdevEvent
<1>5. CASE CheckExcluded
  BY <1>5 DEF CheckExcluded, mc_is_excluded_device, HandlerReturns
<1>6. CASE CheckDriver
  BY <1>6, DaemonAssumption DEF CheckDriver, mc_dev_has_driver, HandlerReturns
<1>7. CASE Publish
  BY <1>7 DEF Publish
<1>8. CASE CheckUI
  BY <1>8 DEF CheckUI, HandlerReturns
<1>9. CASE ForkFails
  BY <1>9 DEF ForkFails, HandlerReturns
<1>10. ASSUME NEW u \in UIs, LaunchUI(u) PROVE OfferInv'
  BY <1>10 DEF LaunchUI, HandlerReturns
<1> QED
  BY <1>1, <1>2, <1>3, <1>4, <1>5, <1>6, <1>7, <1>8, <1>9, <1>10 DEF DaemonStep

(* Every step of the system preserves the invariant of the offer.          *)
LEMMA OfferStep == ControlInv /\ OfferInv /\ [Next]_vars => OfferInv'
<1> SUFFICES ASSUME ControlInv, OfferInv, [Next]_vars PROVE OfferInv'
  OBVIOUS
<1>1. ASSUME NEW d \in Devices, Plug(d) \/ BindDriver(d) \/ UnbindDriver(d) \/ Unplug(d)
      PROVE OfferInv'
  BY <1>1, OfferKernel
<1>2. CASE Start \/ StartFails
  BY <1>2 DEF Start, StartFails, init_socket, daemonVars, OfferInv, BoundTargetPending, StaleDecisionPending, PendingBind,
              BindQueued, kernelVars
<1>3. CASE Terminate \/ Crash
  BY <1>3, OfferExit DEF Terminate, Crash
<1>4. CASE DaemonStep
  BY <1>4, OfferDaemonStep
<1>5. ASSUME NEW u \in UIs, UIProcess(u) PROVE OfferInv'
  BY <1>5, OfferFrame
     DEF UIProcess, UserStartsUI, UIWritesPid, UIConnects, UIConnectsToDead,
         UIQuits, UICrashes, kernelVars, daemonVars
<1>6. CASE UNCHANGED vars
  BY <1>6, OfferFrame DEF vars, kernelVars, daemonVars
<1> QED
  BY <1>1, <1>2, <1>3, <1>4, <1>5, <1>6 DEF Next, Kernel

(* handle_device_add and the kernel together: whatever the interleaving of *)
(* the driver check, the binding and the publication, and whatever takes   *)
(* whose place at a path, a bound device that is no mass storage is        *)
(* offered only while the uevent that withdraws it is pending or lost.     *)
THEOREM BoundTargetPendingCorrect == Spec => []BoundTargetPending
<1>1. Spec => []OfferInv
  BY OfferInit, OfferStep, ControlCorrect, PTL DEF Spec
<1>2. OfferInv => BoundTargetPending
  BY DEF OfferInv
<1> QED
  BY <1>1, <1>2, PTL

(* A driver check that is outdated when its result is published leaves a   *)
(* bind uevent of that device pending.                                     *)
THEOREM StaleDecisionPendingCorrect == Spec => []StaleDecisionPending
<1>1. Spec => []OfferInv
  BY OfferInit, OfferStep, ControlCorrect, PTL DEF Spec
<1>2. OfferInv => StaleDecisionPending
  BY DEF OfferInv
<1> QED
  BY <1>1, <1>2, PTL

-----------------------------------------------------------------------------
(* launch_ui is reached only with the published device as the argument, so *)
(* every UI forked is one for the target on offer.                         *)
THEOREM LaunchesForTargetCorrect == Spec => LaunchesForTarget
<1> DEFINE OnlyForTarget == children' \ children # {}
                              => current_syspath = syspath /\ syspath # None
<1>1. ASSUME ControlInv, [Next]_vars PROVE [OnlyForTarget]_vars
  <2>1. CASE \E u \in UIs : LaunchUI(u)
    BY <1>1, <2>1, DaemonAssumption
       DEF LaunchUI, ControlInv, HandlerArgument, InHandler
  <2>2. CASE UNCHANGED children \/ children' = {}
    BY <2>2
  <2>3. (\E u \in UIs : LaunchUI(u)) \/ UNCHANGED children \/ children' = {}
    BY <1>1 DEF Next, Kernel, Plug, BindDriver, UnbindDriver, Unplug, DeviceChanges,
         Start, StartFails, init_socket, Terminate, Crash, Exit, DaemonStep, Select, HandleClient, BrokenPipe,
         HandleUdevEvent, CheckExcluded, CheckDriver, Publish, CheckUI, ForkFails,
         UIProcess, UserStartsUI, UIWritesPid, UIConnects, UIConnectsToDead,
         UIQuits, UICrashes, vars, uiVars, socketVars
  <2> QED
    BY <2>1, <2>2, <2>3
<1> QED
  BY <1>1, ControlCorrect, PTL DEF Spec, LaunchesForTarget

-----------------------------------------------------------------------------
(* The PID file.  That a UI is missed only if it could not write the file, *)
(* or after another one has removed it, holds by the invariant that ties   *)
(* the file to the UIs that are up: nothing but quit_app makes it go.      *)

FileInv == pidfile = None => {v \in UIs : ui[v] = "up"} \subseteq unseen

(* Every step keeps the PID file in place for the UIs that are up, but for *)
(* those on record as unseen.                                              *)
LEMMA FileStep == ControlInv /\ FileInv /\ [Next]_vars => FileInv'
<1> SUFFICES ASSUME ControlInv, FileInv, [Next]_vars PROVE FileInv'
  OBVIOUS
<1> USE DEF FileInv
<1>1. ui \in [UIs -> {"none", "starting", "up", "gone"}]
  BY DEF ControlInv, TypeOK
<1>2. CASE UNCHANGED <<ui, pidfile, unseen>>
  BY <1>2
<1>3. ASSUME NEW pathLeft \in BOOLEAN, Exit(pathLeft) PROVE FileInv'
  BY <1>1, <1>3 DEF Exit
<1>4. ASSUME NEW u \in UIs, LaunchUI(u) \/ UserStartsUI(u) \/ UICrashes(u) PROVE FileInv'
  BY <1>1, <1>4 DEF LaunchUI, UserStartsUI, UICrashes
<1>5. ASSUME NEW u \in UIs, UIWritesPid(u) PROVE FileInv'
  BY <1>5, DaemonAssumption DEF UIWritesPid
<1>6. ASSUME NEW u \in UIs, UIQuits(u) PROVE FileInv'
  BY <1>1, <1>6 DEF UIQuits
<1>7. ASSUME NEW u \in UIs, UIConnects(u) \/ UIConnectsToDead(u) PROVE FileInv'
  BY <1>7 DEF UIConnects, UIConnectsToDead
<1>8. CASE Kernel \/ Start \/ StartFails \/ UNCHANGED vars
  BY <1>2, <1>8 DEF Kernel, Plug, BindDriver, UnbindDriver, Unplug, DeviceChanges, Start,
                    StartFails, init_socket, vars, uiVars, socketVars
<1>9. CASE DaemonStep
  BY <1>2, <1>3, <1>4, <1>9
     DEF DaemonStep, Select, HandleClient, BrokenPipe, Crash, HandleUdevEvent, CheckExcluded,
         CheckDriver, Publish, CheckUI, ForkFails, uiVars, socketVars
<1> QED
  BY <1>3, <1>4, <1>5, <1>6, <1>7, <1>8, <1>9 DEF Next, Terminate, Crash, UIProcess

(* A UI that is missed by ui_already_running is still starting, could not  *)
(* write the file, or came up before another one quit and removed it,      *)
(* whatever crashed or was restarted meanwhile.                            *)
THEOREM MissesOnlyUnseenCorrect == Spec => MissesOnlyUnseen
<1>1. Init => FileInv
  BY DEF Init, FileInv
<1>2. Spec => [](ControlInv /\ FileInv)
  BY <1>1, FileStep, ControlCorrect, PTL DEF Spec
<1> DEFINE OnlyUnseen == pc = "ui" /\ pc' = "launch"
                           => \A v \in UIs : Alive(v) => ui[v] = "starting" \/ v \in unseen
<1>3. ControlInv /\ FileInv /\ [Next]_vars => [OnlyUnseen]_vars
  <2> SUFFICES ASSUME FileInv, Next, pc = "ui", pc' = "launch"
               PROVE  \A v \in UIs : Alive(v) => ui[v] = "starting" \/ v \in unseen
    OBVIOUS
  <2>1. pidfile = None
    BY DEF Next, Kernel, Plug, BindDriver, UnbindDriver, Unplug, DeviceChanges, daemonVars,
         Start, StartFails, Terminate, Crash, Exit, DaemonStep, Select, HandleClient, BrokenPipe,
         HandleUdevEvent, CheckExcluded, CheckDriver, Publish, CheckUI, ui_already_running,
         HandlerReturns, ForkFails, LaunchUI, UIProcess, UserStartsUI, UIWritesPid, UIConnects,
         UIConnectsToDead, UIQuits, UICrashes
  <2> QED
    BY <2>1 DEF FileInv, Alive
<1> QED
  BY <1>2, <1>3, PTL DEF Spec, MissesOnlyUnseen

-----------------------------------------------------------------------------
(* The refinement: Candidate names the decision handle_device_add is in    *)
(* the middle of, so that each of its looks is a step of Offers, and every *)
(* other step is a change of a device, an answer, a withdrawal or nothing. *)

(* The daemon that has not been started offers nothing.                    *)
LEMMA RefinesInit == Init => Abstract!Init
BY DEF Init, Abstract!Init, Candidate, Abstract!Nobody

(* Every step of the daemon and around it is one of Offers, or none.       *)
LEMMA RefinesNext == ControlInv /\ [Next]_vars => [Abstract!Next]_(Abstract!vars)
<1> SUFFICES ASSUME ControlInv, [Next]_vars PROVE Abstract!Next \/ UNCHANGED Abstract!vars
  OBVIOUS
<1> USE DEF Candidate, Abstract!vars
<1>1. ASSUME NEW d \in Devices, Plug(d) \/ BindDriver(d) \/ UnbindDriver(d) \/ Unplug(d)
      PROVE  Abstract!Next
  <2>1. Abstract!Change(d)
    BY <1>1 DEF Plug, BindDriver, UnbindDriver, Unplug, DeviceChanges, Abstract!Change,
                daemonVars, uiVars, socketVars
  <2> QED
    BY <2>1 DEF Abstract!Next
<1>2. ASSUME NEW pathLeft \in BOOLEAN, Exit(pathLeft) PROVE Abstract!Next
  BY <1>2 DEF Exit, Abstract!Next, Abstract!Withdraw, Abstract!Nobody
<1>3. CASE HandleClient
  <2>1. Head(backlog) \in UIs
    BY <1>3, HeadTailProperties DEF HandleClient, ControlInv, TypeOK, NeverBlocks
  <2>2. pc' \in {"udev", "select"} /\ pc = "client" /\ UNCHANGED <<device, storage, current_syspath>>
    BY <1>3 DEF HandleClient, AfterClient, kernelVars
  <2>3. told' = [told EXCEPT ![Head(backlog)] = current_syspath] \/ told' = told
    BY <1>3 DEF HandleClient
  <2> QED
    BY <2>1, <2>2, <2>3 DEF Abstract!Next, Abstract!Answer
<1>4. CASE CheckExcluded
  <2>1. syspath \in Devices
    BY <1>4 DEF CheckExcluded, ControlInv, HandlerArgument, InHandler
  <2>2. CASE mc_is_excluded_device(syspath)
    BY <1>4, <2>2 DEF CheckExcluded, HandlerReturns, kernelVars, uiVars, socketVars
  <2>3. CASE ~mc_is_excluded_device(syspath)
    <3>1. Abstract!Admit(syspath)
      BY <1>4, <2>1, <2>3 DEF CheckExcluded, mc_is_excluded_device, Abstract!Admit,
                              kernelVars, uiVars, socketVars
    <3> QED
      BY <2>1, <3>1 DEF Abstract!Next
  <2> QED
    BY <2>2, <2>3
<1>5. CASE CheckDriver
  <2>1. CASE mc_dev_has_driver(syspath)
    BY <1>5, <2>1 DEF CheckDriver, HandlerReturns, kernelVars, uiVars, socketVars,
                      Abstract!Next, Abstract!Withdraw, Abstract!Nobody
  <2>2. CASE ~mc_dev_has_driver(syspath)
    BY <1>5, <2>2 DEF CheckDriver, mc_dev_has_driver, kernelVars, uiVars, socketVars,
                      Abstract!Next, Abstract!FindDriverless
  <2> QED
    BY <2>1, <2>2
<1>6. CASE Publish
  BY <1>6 DEF Publish, kernelVars, uiVars, socketVars,
              Abstract!Next, Abstract!Offer, Abstract!Nobody
<1>7. CASE HandleUdevEvent
  <2>1. /\ pc = "udev" /\ pc' \in {"excluded", "select"}
        /\ UNCHANGED <<device, storage, told>>
        /\ current_syspath' \in {current_syspath, None}
    BY <1>7 DEF HandleUdevEvent, HandlerReturns, handle_device_remove, uiVars, socketVars
  <2> QED
    BY <2>1 DEF Abstract!Next, Abstract!Withdraw, Abstract!Nobody
<1>8. CASE Select \/ CheckUI \/ ForkFails \/ (\E u \in UIs : LaunchUI(u)) \/ Start \/ StartFails
  BY <1>8 DEF Select, CheckUI, ForkFails, LaunchUI, Start, StartFails, HandlerReturns,
              kernelVars, daemonVars, uiVars, socketVars
<1>9. ASSUME NEW u \in UIs, UIProcess(u) PROVE UNCHANGED Abstract!vars
  BY <1>9 DEF UIProcess, UserStartsUI, UIWritesPid, UIConnects, UIConnectsToDead, UIQuits,
              UICrashes, kernelVars, daemonVars, socketVars
<1>10. CASE UNCHANGED vars
  BY <1>10 DEF vars, kernelVars, daemonVars, uiVars, socketVars
<1> QED
  BY <1>1, <1>2, <1>3, <1>4, <1>5, <1>6, <1>7, <1>8, <1>9, <1>10
     DEF Next, Kernel, DaemonStep, BrokenPipe, Terminate, Crash

(* The daemon of daemon.c implements Offers, for every number of devices,  *)
(* of UIs, and every size of the monitor's buffer.                         *)
THEOREM ImplementsOffersCorrect == Spec => ImplementsOffers
BY RefinesInit, RefinesNext, ControlCorrect, PTL DEF Spec, ImplementsOffers, Abstract!Spec

-----------------------------------------------------------------------------
(* The dead socket.  That no UI waits is kept only together with what it   *)
(* would come to wait on: the holders of a socket that the path still      *)
(* names, and those that keep a backlog from being reset.                  *)

NoHolderInv ==
    Supervised => orphans = {} /\ \A u \in UIs : waitsOn[u] = {}

LEMMA NoHolderStep == NoHolderInv /\ [Next]_vars => NoHolderInv'
<1> SUFFICES ASSUME NoHolderInv, [Next]_vars, Supervised
             PROVE  orphans' = {} /\ \A u \in UIs : waitsOn'[u] = {}
  BY DEF NoHolderInv
<1> USE DEF NoHolderInv
<1>1. ASSUME NEW pathLeft \in BOOLEAN, Exit(pathLeft)
      PROVE  orphans' = {} /\ \A u \in UIs : waitsOn'[u] = {}
  <2>1. Heirs = {}
    BY DEF Heirs, EndsForkedUIs
  <2> QED
    BY <1>1, <2>1 DEF Exit
<1>2. CASE Start \/ StartFails
  BY <1>2 DEF Start, StartFails, init_socket
<1>3. ASSUME NEW u \in UIs, UIConnectsToDead(u) PROVE FALSE
  BY <1>3 DEF UIConnectsToDead
<1>4. CASE UNCHANGED <<orphans, waitsOn>>
  BY <1>4
<1>5. \/ Start \/ StartFails \/ Terminate \/ Crash \/ BrokenPipe \/ UNCHANGED <<orphans, waitsOn>>
      \/ \E u \in UIs : UIConnectsToDead(u)
  <2>1. CASE Kernel
    BY <2>1 DEF Kernel, Plug, BindDriver, UnbindDriver, Unplug, DeviceChanges, uiVars, socketVars
  <2>2. CASE DaemonStep
    BY <2>2 DEF DaemonStep, Select, HandleClient, HandleUdevEvent, CheckExcluded, CheckDriver,
                Publish, CheckUI, ForkFails, LaunchUI, uiVars, socketVars
  <2>3. ASSUME NEW u \in UIs, UIProcess(u), ~UIConnectsToDead(u)
        PROVE  UNCHANGED <<orphans, waitsOn>>
    BY <2>3 DEF UIProcess, UserStartsUI, UIWritesPid, UIConnects, UIQuits, UICrashes, socketVars
  <2>4. CASE UNCHANGED vars
    BY <2>4 DEF vars, uiVars, socketVars
  <2> QED
    BY <2>1, <2>2, <2>3, <2>4 DEF Next
<1> QED
  BY <1>1, <1>2, <1>3, <1>4, <1>5 DEF Terminate, Crash, BrokenPipe

(* A UI is left waiting for a reply that never comes (socket_listener,     *)
(* recv on a socket inherited from the daemon by launch_ui) only if the    *)
(* daemon was run by hand.                                                 *)
THEOREM StuckOnlyByHandCorrect == Spec => []StuckOnlyByHand
<1>1. Init => NoHolderInv
  BY DEF Init, NoHolderInv
<1>2. NoHolderInv => StuckOnlyByHand
  BY DEF NoHolderInv, StuckOnlyByHand, Stuck
<1> QED
  BY <1>1, <1>2, NoHolderStep, PTL DEF Spec

=============================================================================
