------------------------------- MODULE Consent -------------------------------
(***************************************************************************)
(* What the Unload button promises, without sysfs, dialogs, processes and  *)
(* timeouts: a request names a driver or module, it is judged by a look at *)
(* the devices, and only when it is confirmed are modules removed for it,  *)
(* once, the one named among them and none that another still needs.  A    *)
(* confirmed request may be given up with its removal still outstanding,   *)
(* but only where mayAbandon says so.                                      *)
(***************************************************************************)
EXTENDS Naturals

CONSTANTS Names, ScannedBuses, Bus, Variants, Resolve, Uses, None

VARIABLES
    loaded,   \* the modules in the kernel
    bound,    \* the drivers with a device
    request,  \* the request, how far it has come, and its judgement
    taken,    \* what was removed for the last request
    mayAbandon,   \* a confirmed request may be given up
    outstanding,  \* how many abandoned requests of each name are not carried out yet
    strayed   \* what was removed for abandoned requests

abandonedVars == <<mayAbandon, outstanding, strayed>>
vars == <<loaded, bound, request, taken, abandonedVars>>

NoRequest == [stage |-> "none", name |-> None, verdict |-> "none"]

Init ==
    /\ request = NoRequest /\ taken = {}
    /\ mayAbandon \in BOOLEAN
    /\ outstanding = [n \in Names |-> 0] /\ strayed = {}

(* Anybody else may load, unload, bind and unbind.                         *)
KernelChanges == UNCHANGED <<request, taken, abandonedVars>>

Ask ==
    /\ request.stage = "none"
    /\ \E n \in Names : request' = [stage |-> "asked", name |-> n, verdict |-> "none"]
    /\ taken' = {}
    /\ UNCHANGED <<loaded, bound, abandonedVars>>

Refuse ==
    /\ request.stage = "none"
    /\ taken' = {}
    /\ UNCHANGED <<loaded, bound, request, abandonedVars>>

(* "idle" says that no driver of that name, on a bus that is looked at,    *)
(* has a device now.                                                       *)
Judge ==
    /\ request.stage = "asked"
    /\ \E verdict \in {"idle", "in_use"} :
          /\ verdict = "idle"
                => \A d \in bound : Bus[d] \in ScannedBuses => d \notin Variants[request.name]
          /\ request' = [request EXCEPT !.stage = "judged", !.verdict = verdict]
    /\ UNCHANGED <<loaded, bound, taken, abandonedVars>>

Confirm ==
    /\ request.stage = "judged"
    /\ request' = [request EXCEPT !.stage = "confirmed"]
    /\ UNCHANGED <<loaded, bound, taken, abandonedVars>>

Spend == request.stage = "confirmed" /\ request' = [request EXCEPT !.stage = "spent"]

(* The module named goes, and with it none that a loaded one needs.        *)
Removes(n) ==
    /\ loaded' \subseteq loaded
    /\ Resolve[n] \in loaded \ loaded'
    /\ \A m \in loaded \ loaded', x \in loaded' : m \notin Uses[x]

Remove ==
    /\ Spend
    /\ Removes(request.name)
    /\ taken' = loaded \ loaded'
    /\ UNCHANGED abandonedVars

RemoveNothing == Spend /\ UNCHANGED <<loaded, bound, taken, abandonedVars>>

Abandon ==
    /\ mayAbandon
    /\ request.stage = "confirmed"
    /\ request' = NoRequest
    /\ outstanding' = [outstanding EXCEPT ![request.name] = @ + 1]
    /\ UNCHANGED <<loaded, bound, taken, mayAbandon, strayed>>

(* What was given up is carried out all the same, or comes to nothing.     *)
CarryOut(n) ==
    /\ outstanding[n] > 0
    /\ outstanding' = [outstanding EXCEPT ![n] = @ - 1]
    /\ Removes(n) \/ UNCHANGED <<loaded, bound>>
    /\ strayed' = strayed \cup (loaded \ loaded')
    /\ UNCHANGED <<request, taken, mayAbandon>>

(* Cancelled, refused, timed out, or done.                                 *)
End ==
    /\ request.stage # "none"
    /\ request' = NoRequest
    /\ UNCHANGED <<loaded, bound, taken, abandonedVars>>

Next == \/ KernelChanges \/ Ask \/ Refuse \/ Judge \/ Confirm
        \/ Remove \/ RemoveNothing \/ Abandon \/ End
        \/ \E n \in Names : CarryOut(n)

Spec == Init /\ [][Next]_vars

=============================================================================
