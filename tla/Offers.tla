------------------------------- MODULE Offers -------------------------------
(***************************************************************************)
(* What the daemon promises, without its loop, its buffer, its socket and  *)
(* the UI processes: one offer for everybody, made only of a device that   *)
(* was found admissible and, after that, without a driver, and an answer   *)
(* that is the offer of the moment in which it is given.                   *)
(***************************************************************************)
CONSTANTS Devices, UIs, None

VARIABLES
    device,     \* the state of each device
    storage,    \* the paths with mass storage at the moment
    candidate,  \* the device being decided on and how far the decision is
    offer,      \* the device offered to clients
    told        \* the offer in the last answer to each UI

vars == <<device, storage, candidate, offer, told>>

Nobody == [stage |-> "none", of |-> None]

Init ==
    /\ device \in [Devices -> {"absent", "unbound", "bound"}]
    /\ storage \in SUBSET Devices
    /\ candidate = Nobody
    /\ offer = None
    /\ told = [u \in UIs |-> None]

Change(d) ==
    /\ \E to \in {"absent", "unbound", "bound"} :
          device' = [device EXCEPT ![d] = to]
    /\ storage' \in {storage \ {d}, storage \cup {d}}
    /\ UNCHANGED <<candidate, offer, told>>

(* The device at the path now, if there is one, is no mass storage.        *)
Admit(d) ==
    /\ d \notin storage
    /\ candidate' = [stage |-> "admitted", of |-> d]
    /\ UNCHANGED <<device, storage, offer, told>>

FindDriverless ==
    /\ candidate.stage = "admitted"
    /\ device[candidate.of] # "bound"
    /\ candidate' = [candidate EXCEPT !.stage = "driverless"]
    /\ UNCHANGED <<device, storage, offer, told>>

Offer ==
    /\ candidate.stage = "driverless"
    /\ offer' = candidate.of
    /\ candidate' = Nobody
    /\ UNCHANGED <<device, storage, told>>

(* Found with a driver, or the daemon ends.                                *)
Withdraw ==
    /\ offer' = None
    /\ candidate' = Nobody
    /\ UNCHANGED <<device, storage, told>>

Answer(u) ==
    /\ told' = [told EXCEPT ![u] = offer]
    /\ UNCHANGED <<device, storage, candidate, offer>>

Next ==
    \/ \E d \in Devices : Change(d) \/ Admit(d)
    \/ FindDriverless \/ Offer \/ Withdraw
    \/ \E u \in UIs : Answer(u)

Spec == Init /\ [][Next]_vars
=============================================================================
