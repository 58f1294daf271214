---------------------------- MODULE DaemonClaims ----------------------------
(***************************************************************************)
(* What the manual page of the daemon says it does, as properties of the   *)
(* specification of what its code does.  None of them holds.               *)
(***************************************************************************)
EXTENDS Daemon

(* man/montecarlo-daemon.8:27: the UI is launched "if no driver is present *)
(* and the UI is not already running"; so after the check the daemon goes  *)
(* on to the launch when, and only when, no UI runs.                       *)
LaunchesIffNoneRuns ==
    [][pc = "ui" /\ pc' \in {"launch", "select"}
         => (pc' = "launch" <=> \A u \in UIs : ~Alive(u))]_vars

(* man/montecarlo-daemon.8:10: the daemon filters "to avoid false          *)
(* positives from mass storage devices and devices that already have       *)
(* drivers bound"; so once it has handled every uevent, and none was lost, *)
(* what it offers has no driver.                                           *)
SettledOfferHasNoDriver ==
    pc = "select" /\ events = <<>> /\ ~overflow /\ current_syspath # None
        => device[current_syspath] # "bound"

(* man/montecarlo-daemon.8:18: the daemon works on the device 'add' events *)
(* of the kernel; so a device whose 'add' it has received, and that stays  *)
(* without a driver, is offered to the UI.                                 *)
AddedDeviceOffered ==
    \A d \in Devices :
        (\E i \in 1..Len(events) :
            events[i] = [action |-> "add", syspath |-> d])
            ~> current_syspath = d \/ device[d] # "unbound" \/ d \in storage
               \/ overflow \/ ~Running

=============================================================================
