---------------------------- MODULE DriverUnload ----------------------------
(***************************************************************************)
(* The Unload button of the dashboard: on_unload_clicked of ui.py on the   *)
(* main thread, the helper it runs through pkexec, and the kernel, which   *)
(* changes between any two of their steps.  While a dialog is open the     *)
(* main loop runs nested; while the helper runs it does not run at all.    *)
(***************************************************************************)
EXTENDS KernelModules

CONSTANTS
    Slow,          \* the names whose modprobe may take longer than the timeout
    MaxSurviving   \* bound: modprobes of one name that survive their helper

ASSUME DriverUnloadAssumption ==
    /\ Slow \subseteq Names
    /\ MaxSurviving \in Nat \ {0}

VARIABLES
    pc,        \* where on_unload_clicked is
    name,      \* real_driver
    warning,   \* the dialog shown before the helper is run
    helper,    \* the pkexec child
    late,      \* subprocess.run has timed out and waits for the child's end
    report,    \* what the last handler logged
    restore_modules_store,  \* the Restore tab's list
    root,      \* this UI runs as root, as the one that the daemon starts does
    surviving, \* how many modprobes of each name go on without their helper
    seen,      \* history: the drivers that had a device at the check
    taken,     \* history: the modules the last click's helper has removed
    abandoned, \* history: the names whose modprobe survived a timeout
    strayed    \* history: the modules that surviving modprobes have removed

uiVars       == <<pc, name, warning, helper, late, report, restore_modules_store>>
survivorVars == <<root, surviving, abandoned, strayed>>
historyVars  == <<seen, taken>>
vars         == <<kernelVars, uiVars, survivorVars, historyVars>>

TypeOK ==
    /\ KernelTypeOK
    /\ pc \in {"idle", "refcount", "in_use", "dialog", "run"}
    /\ name \in Names \cup {None}
    /\ warning \in {"none", "idle", "in_use"}
    /\ helper \in {"none", "auth", "modprobe", "success", "failure"}
    /\ late \in BOOLEAN
    /\ report \in {"none", "held", "cancelled", "failed", "timeout", "error", "raised"}
    /\ restore_modules_store \subseteq Names
    /\ root \in BOOLEAN
    /\ surviving \in [Names -> 0..MaxSurviving]
    /\ seen \subseteq Drivers
    /\ taken \subseteq Modules
    /\ abandoned \subseteq Names
    /\ strayed \subseteq Modules

Init ==
    /\ KernelInit
    /\ pc = "idle"
    /\ name = None
    /\ warning = "none"
    /\ helper = "none"
    /\ late = FALSE
    /\ report = "none"
    /\ restore_modules_store = {}
    /\ root \in BOOLEAN
    /\ surviving = [n \in Names |-> 0]
    /\ seen = {}
    /\ taken = {}
    /\ abandoned = {}
    /\ strayed = {}

-----------------------------------------------------------------------------
Kernel == KernelNext /\ UNCHANGED <<uiVars, survivorVars, historyVars>>

(* The three checks, one look at sysfs after the other.                    *)
Return(what) ==
    /\ pc' = "idle"
    /\ report' = what
    /\ name' = None
    /\ warning' = "none"
    /\ late' = FALSE
    /\ helper' = "none"
    /\ seen' = {}

(* The row clicked may be as old as the last scan: its name is any name    *)
(* that was loaded or bound at some time, less the tag the row shows.      *)
UnloadClicked_Tagged(n) ==   \* variant: the tag " (In Use)" is not cut off
    /\ pc = "idle"
    /\ IF mc_module_has_holders(n)
       THEN Return("held")
       ELSE /\ pc' = "refcount"
            /\ name' = "name (In Use)"
            /\ report' = "none"
            /\ UNCHANGED <<warning, helper, late, seen>>
    /\ taken' = {}
    /\ UNCHANGED <<kernelVars, survivorVars, restore_modules_store>>

UnloadClicked(n) ==
    /\ pc = "idle"
    /\ IF mc_module_has_holders(n)
       THEN Return("held")
       ELSE /\ pc' = "refcount"
            /\ name' = n
            /\ report' = "none"
            /\ UNCHANGED <<warning, helper, late, seen>>
    /\ taken' = {}
    /\ UNCHANGED <<kernelVars, survivorVars, restore_modules_store>>

CheckRefcount ==
    /\ pc = "refcount"
    /\ warning' = IF mc_get_module_refcount(name) > 0 THEN "in_use" ELSE "idle"
    /\ pc' = "in_use"
    /\ UNCHANGED <<kernelVars, survivorVars, name, helper, late, report,
                   restore_modules_store, historyVars>>

CheckInUse ==
    /\ pc = "in_use"
    /\ warning' = IF mc_driver_is_in_use(name) THEN "in_use" ELSE warning
    /\ pc' = "dialog"
    /\ seen' = bound
    /\ UNCHANGED <<kernelVars, survivorVars, name, helper, late, report,
                   restore_modules_store, taken>>

Cancel ==
    /\ pc = "dialog"
    /\ Return("cancelled")
    /\ UNCHANGED <<kernelVars, survivorVars, restore_modules_store, taken>>

Confirm ==
    /\ pc = "dialog"
    /\ surviving[name] < MaxSurviving
    /\ pc' = "run"
    /\ helper' = "auth"
    /\ UNCHANGED <<kernelVars, survivorVars, name, warning, late, report,
                   restore_modules_store, historyVars>>

-----------------------------------------------------------------------------
(* pkexec: the authentication, then the helper as root.  helper.c checks   *)
(* the name and runs modprobe -r.                                          *)

Authorised ==
    /\ helper = "auth"
    /\ helper' \in {"modprobe", "failure"}
    /\ UNCHANGED <<kernelVars, survivorVars, pc, name, warning, late, report,
                   restore_modules_store, historyVars>>

(* modprobe -r <n> removes a module, or fails, or has nothing to remove.   *)
ModprobeRemoves_Forced(n) ==   \* variant: modprobe -r --force
    /\ n \in ValidNames
    /\ Resolve[n] \in loaded
    /\ RemoveModule(Resolve[n])

ModprobeRemoves(n) ==
    /\ n \in ValidNames
    /\ Resolve[n] # None
    /\ Removable(Resolve[n])
    /\ RemoveModule(Resolve[n])

ModprobeRefuses(n) ==
    /\ n \in ValidNames /\ Resolve[n] # None => ~Removable(Resolve[n])
    /\ UNCHANGED kernelVars

HelperUnloads ==
    /\ helper = "modprobe"
    /\ ModprobeRemoves(name)
    /\ helper' = "success"
    /\ taken' = loaded \ loaded'
    /\ UNCHANGED <<survivorVars, pc, name, warning, late, report,
                   restore_modules_store, seen>>

(* modprobe -r succeeds on a module that is not loaded.                    *)
HelperDoesNothing ==
    /\ helper = "modprobe"
    /\ ModprobeRefuses(name)
    /\ helper' = IF name \in ValidNames /\ Resolve[name] \in Modules \ loaded
                 THEN "success" ELSE "failure"
    /\ UNCHANGED <<survivorVars, pc, name, warning, late, report,
                   restore_modules_store, historyVars>>

(* timeout=30.  A pkexec that still asks for the password is killed.  One  *)
(* that has become root cannot be by a user's process, and run() waits for *)
(* its end before it raises; by a root UI it is killed, and what system()  *)
(* started in it, if it came that far, goes on alone.                      *)
Timeout_None == FALSE   \* variant: run() without timeout, as in the Restore tab

Timeout_NotAwaited ==   \* variant: a child that cannot be killed is left behind
    /\ pc = "run"
    /\ \/ helper = "auth" /\ Return("timeout")
       \/ /\ helper = "modprobe"
          /\ pc' = "idle"
          /\ report' = "error"
          /\ UNCHANGED <<name, warning, late, helper, seen>>
    /\ UNCHANGED <<kernelVars, survivorVars, restore_modules_store, taken>>

ModprobeSurvives ==
    /\ helper = "modprobe" /\ name \in ValidNames /\ root
    /\ surviving' = [surviving EXCEPT ![name] = @ + 1]
    /\ abandoned' = abandoned \cup {name}
    /\ UNCHANGED <<root, strayed>>

Timeout ==
    /\ pc = "run"
    /\ helper = "modprobe" => name \in Slow
    /\ \/ /\ helper = "auth" \/ (helper = "modprobe" /\ root)
          /\ Return("timeout")
          /\ UNCHANGED survivorVars \/ ModprobeSurvives
       \/ /\ helper = "modprobe" /\ ~root /\ ~late
          /\ late' = TRUE
          /\ UNCHANGED <<survivorVars, pc, name, warning, helper, report, seen>>
    /\ UNCHANGED <<kernelVars, restore_modules_store, taken>>

(* A modprobe without its helper ends, at any time and unseen by the UI.   *)
Survivor(n) ==
    /\ surviving[n] > 0
    /\ ModprobeRemoves(n) \/ ModprobeRefuses(n)
    /\ surviving' = [surviving EXCEPT ![n] = @ - 1]
    /\ strayed' = strayed \cup (loaded \ loaded')
    /\ UNCHANGED <<uiVars, root, abandoned, historyVars>>

(* The child has ended.  The branch for success looks for the name in      *)
(* self.restore_store, an attribute nothing sets.  That is after the try:  *)
(* AttributeError leaves the handler, and nothing after it is done, the    *)
(* append and the new scan included.                                       *)
UnloadReturns_StatusLost ==   \* variant: the helper's exit status is not passed on
    /\ pc = "run"
    /\ helper \in {"success", "failure"}
    /\ Return("failed")
    /\ UNCHANGED <<kernelVars, survivorVars, restore_modules_store, taken>>

UnloadReturns ==
    /\ pc = "run"
    /\ helper \in {"success", "failure"}
    /\ Return(IF late THEN "error" ELSE IF helper = "failure" THEN "failed" ELSE "raised")
    /\ UNCHANGED <<kernelVars, survivorVars, restore_modules_store, taken>>

Next ==
    \/ Kernel
    \/ \E n \in Names : UnloadClicked(n)
    \/ CheckRefcount \/ CheckInUse
    \/ Cancel \/ Confirm
    \/ Authorised \/ HelperUnloads \/ HelperDoesNothing
    \/ Timeout \/ UnloadReturns
    \/ \E n \in Names : Survivor(n)

Spec == Init /\ [][Next]_vars

(* modprobe ends, the timer of run() fires, the handler goes on.           *)
Fairness ==
    /\ WF_vars(HelperUnloads \/ HelperDoesNothing)
    /\ WF_vars(Timeout)
    /\ WF_vars(CheckRefcount \/ CheckInUse \/ UnloadReturns)

FairSpec == Spec /\ Fairness

-----------------------------------------------------------------------------
(* Properties *)

(* README.md:13, dependency protection.  The check of the code misses a    *)
(* holder that appears later or a name sysfs does not know; with the       *)
(* kernel's own refusal the promise is kept: what a loaded module needs    *)
(* stays loaded, and so does what has a device or an open reference.       *)
DependencyProtection == KernelConsistent

(* A driver that loses its device to a removal confirmed as "idle" was     *)
(* bound after the check, or is on a bus, or under a name, that            *)
(* mc_driver_is_in_use does not look at.                                   *)
UnwarnedOnlyByRace ==
    [][taken' # taken /\ taken' # {} /\ warning = "idle"
        => \A d \in bound \ bound' :
              \/ d \notin seen
              \/ Bus[d] \notin ScannedBuses
              \/ d \notin Variants[name]]_vars

(* The button implements Consent: whatever the kernel does between the     *)
(* checks, the dialog, the authentication and the end of the child, and    *)
(* however late that comes, it removes what was confirmed, and once.  Only *)
(* a root UI may give a confirmed request up before it is carried out.     *)
Request ==
    [stage |-> CASE pc = "idle" -> "none"
                 [] pc \in {"refcount", "in_use"} -> "asked"
                 [] pc = "dialog" -> "judged"
                 [] pc = "run" -> IF helper \in {"auth", "modprobe"} THEN "confirmed"
                                  ELSE "spent",
     name |-> name,
     verdict |-> IF pc \in {"refcount", "in_use"} THEN "none" ELSE warning]

Abstract == INSTANCE Consent WITH
                request <- Request, outstanding <- surviving, mayAbandon <- root

ImplementsConsent == Abstract!Spec

(* What a click removes while its handler waits is never reported as a     *)
(* failure of modprobe: only a timeout that came too late to stop it hides *)
(* the success.  What goes after the handler has returned was asked for by *)
(* a root UI in a click that was reported as a timeout, or was needed by   *)
(* nothing else.                                                           *)
RemovalReported ==
    /\ pc = "idle" /\ taken # {} => report \in {"raised", "error"}
    /\ \A m \in strayed :
          /\ root
          /\ \E n \in abandoned : \/ m = Resolve[n]
                                  \/ Resolve[n] # None /\ m \in Uses[Resolve[n]]

(* The button comes back: the main thread is not blocked for ever by an    *)
(* authentication nobody answers.                                          *)
UnloadEnds == pc = "run" ~> pc = "idle"

=============================================================================
