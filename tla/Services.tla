------------------------------ MODULE Services ------------------------------
(***************************************************************************)
(* The services tab of ui.py: the list of services and the threads that    *)
(* refresh it, the buttons that act on the selected one, the Restore list  *)
(* of services, the helper each action runs through pkexec and the calls   *)
(* of libsystemd.c.  External: systemd, which runs start and stop jobs     *)
(* after it has accepted them and changes services on its own.             *)
(***************************************************************************)
EXTENDS Integers, SequencesExt

CONSTANTS
    Unit,         \* the names of the services
    Restless,     \* those that start, stop or fail without a job of ours
    None,         \* no selection
    MaxRefresh,   \* bound: refreshes in flight, the timers' included
    BusMayFail    \* TRUE: the system bus may be out of reach

ASSUME ServicesAssumption ==
    /\ None \notin Unit /\ "garbage" \notin Unit
    /\ Restless \subseteq Unit
    /\ MaxRefresh \in Nat /\ MaxRefresh >= 2
    /\ BusMayFail \in BOOLEAN

VARIABLES
    active,    \* systemd: the services that run
    job,       \* systemd: the job accepted for each service and not done
    enabled,   \* systemd: the services with an enabled unit file
    view,      \* svc_store: the state each row shows, "absent" without a row
    selected,  \* the selected row
    canStart,  \* the Start button is sensitive
    canStop,   \* the Stop button is sensitive
    listing,   \* threads that have not called mc_list_services yet
    listed,    \* what threads have listed and not handed over, in any order
    idle,      \* GLib.idle_add: lists waiting for _update_svc_ui
    timers,    \* GLib.timeout_add calls still to fire
    action,    \* the action of the running handler, "none" in the main loop
    service,   \* its service
    helper,    \* the pkexec child
    late,      \* subprocess.run has timed out and waits for the child's end
    restore,   \* restore_services_store
    badge,     \* the number on the Restore tab
    awaited,   \* history: the last success has not reached the view yet
    stopped,   \* history: stopped from here, not restored and not cleared
    missed     \* history: those whose stop ended after the timer of run()

managerVars == <<active, job, enabled>>
viewVars    == <<view, selected, canStart, canStop>>
threadVars  == <<listing, listed, idle, timers>>
handlerVars == <<action, service, helper, late>>
restoreVars == <<restore, badge>>
vars == <<managerVars, viewVars, threadVars, handlerVars, restoreVars, awaited, stopped, missed>>

Actions == {"start", "stop", "enable", "disable", "restore"}

View == [Unit -> {"active", "inactive", "absent"}]

List == [view : View, current : BOOLEAN]

InFlight == listing + Len(listed) + Len(idle) + timers

TypeOK ==
    /\ active \subseteq Unit
    /\ job \in [Unit -> {"none", "start", "stop"}]
    /\ enabled \subseteq Unit
    /\ view \in View
    /\ selected \in Unit \cup {None}
    /\ canStart \in BOOLEAN /\ canStop \in BOOLEAN
    /\ listing \in Nat /\ timers \in Nat
    /\ listed \in Seq(List)
    /\ idle \in Seq(List)
    /\ InFlight <= MaxRefresh
    /\ action \in Actions \cup {"none"}
    /\ service \in Unit \cup {None}
    /\ helper \in {"none", "auth", "bus", "success", "failure"}
    /\ late \in BOOLEAN
    /\ restore \in Seq(Unit)
    /\ badge \in Nat
    /\ awaited \in BOOLEAN
    /\ stopped \subseteq Unit /\ missed \subseteq Unit

(* build_services_tab leaves the first refresh to a timer.                 *)
Init ==
    /\ active \in SUBSET Unit
    /\ job = [u \in Unit |-> "none"]
    /\ enabled = {}
    /\ view = [u \in Unit |-> "absent"]
    /\ selected = None
    /\ canStart = FALSE /\ canStop = FALSE
    /\ listing = 0
    /\ listed = <<>>
    /\ idle = <<>>
    /\ timers = 1
    /\ action = "none"
    /\ service = None
    /\ helper = "none"
    /\ late = FALSE
    /\ restore = <<>>
    /\ badge = 0
    /\ awaited = FALSE
    /\ stopped = {}
    /\ missed = {}

-----------------------------------------------------------------------------
(* systemd: an accepted job is done later, and a start may fail.           *)

JobDone(u) ==
    /\ job[u] # "none"
    /\ \/ active' = active \ {u}
       \/ job[u] = "start" /\ active' = active \cup {u}
    /\ job' = [job EXCEPT ![u] = "none"]
    /\ UNCHANGED <<enabled, viewVars, threadVars, handlerVars, restoreVars,
                   awaited, stopped, missed>>

ServiceChanges(u) ==
    /\ u \in Restless
    /\ active' = IF u \in active THEN active \ {u} ELSE active \cup {u}
    /\ UNCHANGED <<job, enabled, viewVars, threadVars, handlerVars, restoreVars,
                   awaited, stopped, missed>>

(* ListUnits: a service that does not run may not be loaded at all.        *)
Listings == {v \in View : \A u \in Unit : u \in active <=> v[u] = "active"}

Answers == Listings \cup IF BusMayFail THEN {[u \in Unit |-> "absent"]} ELSE {}

(* EnableUnitFiles and DisableUnitFiles get the array as "1, &name": one   *)
(* string, and the pointer's own bytes are sent as that string.  It is not *)
(* the name of a unit, and systemd refuses it.                             *)
Garbage == "garbage"

UnitSent(name) == Garbage

-----------------------------------------------------------------------------
(* The refresh threads.                                                    *)

ListServices ==
    /\ listing > 0
    /\ listing' = listing - 1
    /\ \E v \in Answers :
          listed' = Append(listed, [view |-> v, current |-> awaited])
    /\ UNCHANGED <<managerVars, viewVars, idle, timers, handlerVars, restoreVars,
                   awaited, stopped, missed>>

(* Any thread that has its list may be the next to hand it over.           *)
HandOver(i) ==
    /\ i \in 1..Len(listed)
    /\ idle' = Append(idle, listed[i])
    /\ listed' = RemoveAt(listed, i)
    /\ UNCHANGED <<managerVars, viewVars, listing, timers, handlerVars, restoreVars,
                   awaited, stopped, missed>>

(* _update_svc_ui: clearing the store clears the selection, and its        *)
(* "changed" handler the buttons; the selection is not set again.          *)
UpdateView_KeepsSelection ==   \* variant: rows replaced in place
    /\ action = "none"
    /\ idle # <<>>
    /\ view' = Head(idle).view
    /\ idle' = Tail(idle)
    /\ awaited' = (awaited /\ ~Head(idle).current)
    /\ UNCHANGED <<managerVars, selected, canStart, canStop, listing, listed, timers,
                   handlerVars, restoreVars, stopped, missed>>

UpdateView_NotCleared ==       \* variant: without svc_store.clear()
    /\ action = "none"
    /\ idle # <<>>
    /\ view' = [u \in Unit |-> IF view[u] # "absent" THEN view[u] ELSE Head(idle).view[u]]
    /\ idle' = Tail(idle)
    /\ selected' = None
    /\ canStart' = FALSE /\ canStop' = FALSE
    /\ awaited' = (awaited /\ ~Head(idle).current)
    /\ UNCHANGED <<managerVars, listing, listed, timers, handlerVars, restoreVars,
                   stopped, missed>>

UpdateView ==
    /\ action = "none"
    /\ idle # <<>>
    /\ view' = Head(idle).view
    /\ idle' = Tail(idle)
    /\ selected' = None
    /\ canStart' = FALSE /\ canStop' = FALSE
    /\ awaited' = (awaited /\ ~Head(idle).current)
    /\ UNCHANGED <<managerVars, listing, listed, timers, handlerVars, restoreVars, stopped, missed>>

TimerFires_Repeats ==          \* variant: the callback returns True, GLib calls again
    /\ action = "none"
    /\ timers > 0
    /\ listing' = listing + 1
    /\ UNCHANGED <<managerVars, viewVars, listed, idle, timers, handlerVars, restoreVars,
                   awaited, stopped, missed>>

TimerFires ==
    /\ action = "none"
    /\ timers > 0
    /\ timers' = timers - 1
    /\ listing' = listing + 1
    /\ UNCHANGED <<managerVars, viewVars, listed, idle, handlerVars, restoreVars,
                   awaited, stopped, missed>>

RefreshClicked ==
    /\ action = "none"
    /\ InFlight < MaxRefresh
    /\ listing' = listing + 1
    /\ UNCHANGED <<managerVars, viewVars, listed, idle, timers, handlerVars, restoreVars,
                   awaited, stopped, missed>>

-----------------------------------------------------------------------------
(* The user's choices, in the main loop.                                   *)

on_svc_selection_changed(u) ==
    /\ action = "none"
    /\ view[u] # "absent"
    /\ selected' = u
    /\ canStart' = (view[u] # "active")
    /\ canStop' = (view[u] = "active")
    /\ UNCHANGED <<managerVars, view, threadVars, handlerVars, restoreVars,
                   awaited, stopped, missed>>

(* A search text that hides the selected row takes the selection with it.  *)
SearchChanged ==
    /\ action = "none"
    /\ selected # None
    /\ selected' = None
    /\ canStart' = FALSE /\ canStop' = FALSE
    /\ UNCHANGED <<managerVars, view, threadVars, handlerVars, restoreVars,
                   awaited, stopped, missed>>

(* A handler starts: it blocks the main loop until the child has ended.    *)
Run(act, u) ==
    /\ action = "none"
    /\ InFlight + 2 <= MaxRefresh
    /\ action' = act
    /\ service' = u
    /\ helper' = "auth"
    /\ UNCHANGED <<managerVars, viewVars, threadVars, late, restoreVars, awaited, stopped, missed>>

ActionClicked(act) ==
    /\ act # "restore"
    /\ selected # None
    /\ act = "start" => canStart
    /\ act = "stop" => canStop
    /\ Run(act, selected)

RestoreClicked(u) == Contains(restore, u) /\ Run("restore", u)

ClearClicked ==
    /\ action = "none"
    /\ restore # <<>>
    /\ restore' = <<>>
    /\ badge' = 0
    /\ stopped' = {} /\ missed' = {}
    /\ UNCHANGED <<managerVars, viewVars, threadVars, handlerVars, awaited>>

-----------------------------------------------------------------------------
(* The child: the authentication, then the helper's call on the bus.       *)

Authorised ==
    /\ helper = "auth"
    /\ helper' \in {"bus", "failure"}
    /\ UNCHANGED <<managerVars, viewVars, threadVars, action, service, late, restoreVars,
                   awaited, stopped, missed>>

(* StartUnit and StopUnit, mode "replace": done when the job is accepted.  *)
NoteStop ==                    \* history
    /\ stopped' = stopped \cup {service}
    /\ missed' = IF late THEN missed \cup {service} ELSE missed \ {service}

HelperQueues(kind) ==
    /\ job' = [job EXCEPT ![service] = kind]
    /\ helper' = "success"
    /\ IF kind = "stop" THEN NoteStop ELSE UNCHANGED <<stopped, missed>>
    /\ UNCHANGED <<active, enabled>>

HelperSets(on) ==
    LET u == UnitSent(service) IN
    /\ IF u \in Unit
       THEN /\ enabled' = IF on THEN enabled \cup {u} ELSE enabled \ {u}
            /\ helper' = "success"
       ELSE helper' = "failure" /\ UNCHANGED enabled
    /\ UNCHANGED <<active, job, stopped, missed>>

HelperCalls ==
    /\ helper = "bus"
    /\ \/ action \in {"start", "restore"} /\ HelperQueues("start")
       \/ action = "stop"    /\ HelperQueues("stop")
       \/ action = "enable"  /\ HelperSets(TRUE)
       \/ action = "disable" /\ HelperSets(FALSE)
       \/ BusMayFail /\ helper' = "failure" /\ UNCHANGED <<managerVars, stopped, missed>>
    /\ UNCHANGED <<viewVars, threadVars, action, service, late, restoreVars, awaited>>

Return ==
    /\ action' = "none"
    /\ service' = None
    /\ helper' = "none"
    /\ late' = FALSE

(* timeout=30 of on_service_action; the Restore tab's run() has none.  A   *)
(* child that still authenticates is killed, one that is root is awaited.  *)
Timeout ==
    /\ action \notin {"none", "restore"}
    /\ \/ helper = "auth" /\ Return
       \/ /\ helper = "bus" /\ ~late
          /\ late' = TRUE
          /\ UNCHANGED <<action, service, helper>>
    /\ UNCHANGED <<managerVars, viewVars, threadVars, restoreVars, awaited, stopped, missed>>

-----------------------------------------------------------------------------
(* The end of the handlers.                                                *)

add_restore_item_Twice(u) ==   \* variant: duplicates not looked for
    restore' = Append(restore, u) /\ badge' = Len(restore')

add_restore_item(u) ==
    IF Contains(restore, u)
    THEN UNCHANGED restoreVars
    ELSE restore' = Append(restore, u) /\ badge' = Len(restore')

(* A refresh now and one after 1500 ms; older lists are no news of this.   *)
Outdated(seq) == [i \in DOMAIN seq |-> [seq[i] EXCEPT !.current = FALSE]]

RefreshTwice_Never ==          \* variant: the view is left to the user
    UNCHANGED <<listing, timers>> /\ awaited' = TRUE
    /\ listed' = Outdated(listed) /\ idle' = Outdated(idle)

RefreshTwice ==
    /\ listing' = listing + 1
    /\ timers' = timers + 1
    /\ listed' = Outdated(listed) /\ idle' = Outdated(idle)
    /\ awaited' = TRUE

ActionReturns_RecordsFailure ==   \* variant: recorded before returncode is looked at
    /\ action \notin {"none", "restore"}
    /\ helper \in {"success", "failure"}
    /\ Return
    /\ IF action \in {"stop", "disable"}
       THEN add_restore_item(service)
       ELSE UNCHANGED restoreVars
    /\ IF helper = "success" /\ ~late
       THEN RefreshTwice
       ELSE UNCHANGED <<threadVars, awaited>>
    /\ UNCHANGED <<managerVars, viewVars, stopped, missed>>

ActionReturns ==
    /\ action \notin {"none", "restore"}
    /\ helper \in {"success", "failure"}
    /\ Return
    /\ IF helper = "success" /\ ~late
       THEN /\ IF action \in {"stop", "disable"}
               THEN add_restore_item(service)
               ELSE UNCHANGED restoreVars
            /\ RefreshTwice
       ELSE UNCHANGED <<restoreVars, threadVars, awaited>>
    /\ UNCHANGED <<managerVars, viewVars, stopped, missed>>

RestoreReturns_GoesFirst ==    \* variant: the row is removed before the call
    /\ action = "restore"
    /\ helper \in {"success", "failure"}
    /\ Return
    /\ \E i \in 1..Len(restore) :
          restore[i] = service /\ restore' = RemoveAt(restore, i)
    /\ badge' = Len(restore')
    /\ IF helper = "success"
       THEN stopped' = stopped \ {service} /\ missed' = missed \ {service} /\ RefreshTwice
       ELSE UNCHANGED <<threadVars, awaited, stopped, missed>>
    /\ UNCHANGED <<managerVars, viewVars>>

RestoreReturns ==
    /\ action = "restore"
    /\ helper \in {"success", "failure"}
    /\ Return
    /\ IF helper = "success"
       THEN /\ \E i \in 1..Len(restore) :
                  restore[i] = service /\ restore' = RemoveAt(restore, i)
            /\ badge' = Len(restore')
            /\ stopped' = stopped \ {service} /\ missed' = missed \ {service}
            /\ RefreshTwice
       ELSE UNCHANGED <<restoreVars, threadVars, awaited, stopped, missed>>
    /\ UNCHANGED <<managerVars, viewVars>>

Manager == \E u \in Unit : JobDone(u) \/ ServiceChanges(u)

Thread == ListServices \/ \E i \in 1..MaxRefresh : HandOver(i)

User ==
    \/ RefreshClicked \/ SearchChanged
    \/ \E u \in Unit : on_svc_selection_changed(u) \/ RestoreClicked(u)
    \/ \E act \in Actions : ActionClicked(act)
    \/ ClearClicked

Child == Authorised \/ HelperCalls \/ Timeout

Next == Manager \/ Thread \/ UpdateView \/ TimerFires \/ User \/ Child
        \/ ActionReturns \/ RestoreReturns

Spec == Init /\ [][Next]_vars

(* Threads run; a job ends; the helper's call and the timer of run() come; *)
(* and the main loop, between two handlers, dispatches what is ready, even *)
(* if handlers follow one another for ever (strong fairness: a handler     *)
(* that runs disables the dispatch).  Nobody has to answer pkexec.         *)
Fairness ==
    /\ WF_vars(ListServices)
    /\ \A i \in 1..MaxRefresh : SF_vars(HandOver(i))
    /\ \A u \in Unit : WF_vars(JobDone(u))
    /\ SF_vars(UpdateView) /\ SF_vars(TimerFires)
    /\ WF_vars(HelperCalls) /\ WF_vars(Timeout)
    /\ WF_vars(ActionReturns) /\ WF_vars(RestoreReturns)

FairSpec == Spec /\ Fairness

-----------------------------------------------------------------------------
(* Properties *)

(* The Restore list names a service once, the badge counts it, and every   *)
(* service on it is one that was stopped from here and not restored since: *)
(* what "Restart" starts again did run.  ("disable" would break this, if   *)
(* it worked: see UnitSent.)                                               *)
RestoreListConsistent ==
    /\ \A i, j \in 1..Len(restore) : restore[i] = restore[j] => i = j
    /\ badge = Len(restore)
    /\ \A i \in 1..Len(restore) : restore[i] \in stopped

(* ... and every service that was stopped from here can be restarted from  *)
(* the list, unless the exception of a timeout that came too late to       *)
(* prevent the stop has kept its handler from recording it.                *)
RestoreListComplete ==
    \A u \in stopped \ missed :
        \/ Contains(restore, u)
        \/ action = "stop" /\ helper = "success" /\ service = u

(* The buttons never offer what the selected row forbids, however lists    *)
(* and selections interleave.                                              *)
ButtonsMatchRow ==
    selected # None =>
        /\ view[selected] # "absent"
        /\ canStart => view[selected] # "active"
        /\ canStop => view[selected] = "active"

(* The tab implements Snapshots: its rows are one answer of systemd, with  *)
(* what any refresh has read and any order of the threads.                 *)
RowsOf(v) == {<<u, v[u]>> : u \in {x \in Unit : v[x] # "absent"}}

Pending == {RowsOf(l.view) : l \in Range(listed) \cup Range(idle)}

Snapshot == INSTANCE Snapshots WITH
    truth   <- {RowsOf(v) : v \in Answers},
    pending <- Pending,
    shown   <- RowsOf(view)

ImplementsSnapshots == Snapshot!Spec

(* While a success has not reached the view, a refresh that will read what *)
(* it did is on its way, whatever refreshes started before and overtake.   *)
NewsOnItsWay ==
    awaited => \/ listing > 0 \/ timers > 0
               \/ \E l \in Range(listed) \cup Range(idle) : l.current

(* A successful action is followed by a view that was listed after it,     *)
(* unless a Restore handler waits for an authentication nobody gives.      *)
ActionReachesView == awaited ~> ~awaited \/ action = "restore"

=============================================================================
