--------------------------- MODULE ServicesProofs ---------------------------
(***************************************************************************)
(* Theorems about the services tab, for every set of services, any number  *)
(* of overlapping refreshes, and a bus that may or may not be reached.     *)
(***************************************************************************)
EXTENDS Services, ListLemmas

-----------------------------------------------------------------------------
(* The inductive invariant.  A handler that runs has room for the two      *)
(* refreshes its success asks for, no success of enable or disable exists  *)
(* for the Restore list to record, that of stop has been noted, and the    *)
(* service to restart is still on the list when its handler returns: no    *)
(* other handler has run meanwhile.                                        *)

HandlerInv ==
    /\ action = "none" <=> helper = "none"
    /\ action # "none" => service \in Unit /\ InFlight + 2 <= MaxRefresh
    /\ helper = "success" => action \notin {"enable", "disable"}
    /\ helper = "success" /\ action = "stop" => service \in stopped
    /\ action = "restore" => Contains(restore, service)

ServicesInv == TypeOK /\ HandlerInv /\ RestoreListConsistent /\ ButtonsMatchRow

(* The counts of refreshes are numbers.                                    *)
LEMMA Counts ==
    ASSUME TypeOK
    PROVE  /\ Len(listed) \in Nat /\ Len(idle) \in Nat /\ listing \in Nat /\ timers \in Nat
           /\ MaxRefresh \in Nat /\ MaxRefresh >= 2
           /\ DOMAIN listed = 1..Len(listed) /\ DOMAIN idle = 1..Len(idle)
           /\ listed \in Seq(List) /\ idle \in Seq(List)
           /\ Len(restore) \in Nat /\ restore \in Seq(Unit)
           /\ None \notin Unit
BY LenProperties, ServicesAssumption DEF TypeOK

(* Lists that a new action makes old remain lists.                         *)
LEMMA OutdatedLists ==
    ASSUME NEW s \in Seq(List)
    PROVE  Outdated(s) \in Seq(List) /\ Len(Outdated(s)) = Len(s)
<1>1. Len(s) \in Nat /\ DOMAIN s = 1..Len(s)
  BY LenProperties
<1>2. \A i \in 1..Len(s) : s[i] \in List
  BY ElementOfSeq
<1>3. \A i \in 1..Len(s) : [s[i] EXCEPT !.current = FALSE] \in List
  BY <1>2 DEF List
<1>4. Outdated(s) \in [1..Len(s) -> List]
  BY <1>1, <1>3 DEF Outdated
<1> QED
  BY <1>1, <1>4, FunctionIsSeq

(* The two refreshes of a success find the room kept for them.             *)
LEMMA RefreshTwiceFits ==
    ASSUME ServicesInv, action # "none", RefreshTwice
    PROVE  /\ listing' \in Nat /\ timers' \in Nat /\ awaited' \in BOOLEAN
           /\ listed' \in Seq(List) /\ idle' \in Seq(List)
           /\ InFlight' <= MaxRefresh
<1>1. /\ listed' \in Seq(List) /\ Len(listed') = Len(listed)
      /\ idle' \in Seq(List) /\ Len(idle') = Len(idle)
  BY OutdatedLists DEF ServicesInv, TypeOK, RefreshTwice
<1> QED
  BY <1>1, Counts DEF ServicesInv, HandlerInv, InFlight, RefreshTwice

(* A service is added to the Restore list at most once.                    *)
LEMMA AddKeepsList ==
    ASSUME ServicesInv, NEW u \in stopped, add_restore_item(u), UNCHANGED stopped
    PROVE  /\ restore' \in Seq(Unit) /\ badge' \in Nat
           /\ RestoreListConsistent'
<1> USE DEF ServicesInv
<1>1. CASE Contains(restore, u)
  BY <1>1 DEF add_restore_item, restoreVars, RestoreListConsistent, TypeOK
<1>2. CASE ~Contains(restore, u)
  <2>1. u \in Unit /\ restore' = Append(restore, u) /\ badge' = Len(restore')
    BY <1>2 DEF add_restore_item, TypeOK
  <2>2. /\ restore' \in Seq(Unit) /\ Len(restore') = Len(restore) + 1
        /\ \A i \in 1..Len(restore) : restore'[i] = restore[i]
        /\ restore'[Len(restore) + 1] = u
    BY <2>1, Counts, AppendProperties
  <2>3. \A i \in 1..Len(restore') : i \in 1..Len(restore) \/ i = Len(restore) + 1
    BY <2>2, Counts
  <2>4. \A i \in 1..Len(restore) : restore[i] # u
    BY <1>2 DEF Contains
  <2> QED
    BY <2>1, <2>2, <2>3, <2>4, Counts DEF RestoreListConsistent
<1> QED
  BY <1>1, <1>2

(* The tab opens with an empty list and one timer.                         *)
LEMMA ServicesInit == Init => ServicesInv
<1> SUFFICES ASSUME Init PROVE ServicesInv
  OBVIOUS
<1>1. /\ <<>> \in Seq(List) /\ <<>> \in Seq(Unit) /\ Len(<<>>) = 0
  BY EmptySeq
<1>2. InFlight <= MaxRefresh
  BY <1>1, ServicesAssumption DEF Init, InFlight
<1>3. view \in View
  BY DEF Init, View
<1>4. TypeOK
  BY <1>1, <1>2, <1>3 DEF Init, TypeOK
<1>5. RestoreListConsistent
  BY <1>1 DEF Init, RestoreListConsistent
<1> QED
  BY <1>4, <1>5 DEF Init, ServicesInv, HandlerInv, ButtonsMatchRow

(* systemd, on its own, touches nothing that the tab keeps.                *)
LEMMA ManagerKeeps == ASSUME ServicesInv, Manager PROVE ServicesInv'
<1> USE DEF ServicesInv
<1>1. /\ UNCHANGED <<viewVars, threadVars, handlerVars, restoreVars, awaited, stopped, missed, enabled>>
      /\ active' \subseteq Unit
      /\ job' \in [Unit -> {"none", "start", "stop"}]
  BY DEF Manager, JobDone, ServiceChanges, TypeOK
<1> QED
  BY <1>1 DEF TypeOK, HandlerInv, RestoreListConsistent, ButtonsMatchRow, InFlight,
              viewVars, threadVars, handlerVars, restoreVars

(* The refresh threads: nothing is added to what is in flight.             *)
LEMMA ThreadKeeps == ASSUME ServicesInv, Thread PROVE ServicesInv'
<1> USE DEF ServicesInv
<1>1. CASE ListServices
  <2>1. PICK v \in Answers :
           listed' = Append(listed, [view |-> v, current |-> awaited])
    BY <1>1 DEF ListServices
  <2>2. v \in View
    BY <2>1 DEF Answers, Listings, View
  <2>3. [view |-> v, current |-> awaited] \in List
    BY <2>2 DEF List, TypeOK
  <2>4. listed' \in Seq(List) /\ Len(listed') = Len(listed) + 1
    BY <2>1, <2>3, Counts, AppendProperties
  <2>6. listing > 0 /\ listing' = listing - 1 /\ UNCHANGED <<idle, timers>>
    BY <1>1 DEF ListServices
  <2>7. /\ listing \in Nat /\ timers \in Nat /\ Len(listed) \in Nat /\ Len(idle) \in Nat
    BY Counts
  <2>5. InFlight' = InFlight /\ listing' \in Nat
    BY <2>4, <2>6, <2>7 DEF InFlight
  <2> QED
    BY <1>1, <2>4, <2>5
       DEF ListServices, TypeOK, HandlerInv, RestoreListConsistent, ButtonsMatchRow,
           managerVars, viewVars, handlerVars, restoreVars
<1>2. ASSUME NEW n \in 1..MaxRefresh, HandOver(n) PROVE ServicesInv'
  <2>1. n \in 1..Len(listed) /\ listed[n] \in List /\ listed' = RemoveAt(listed, n)
    BY <1>2, ElementOfSeq, Counts DEF HandOver
  <2>2. RemoveAt(listed, n) \in Seq(List) /\ Len(RemoveAt(listed, n)) = Len(listed) - 1
    BY <2>1, TakenOut, Counts
  <2>3. idle' \in Seq(List) /\ Len(idle') = Len(idle) + 1
    BY <1>2, <2>1, Counts, AppendProperties DEF HandOver
  <2>5. UNCHANGED <<listing, timers>>
    BY <1>2 DEF HandOver
  <2>6. /\ listing \in Nat /\ timers \in Nat /\ Len(listed) \in Nat /\ Len(idle) \in Nat
    BY Counts
  <2>4. InFlight' = InFlight
    BY <2>1, <2>2, <2>3, <2>5, <2>6 DEF InFlight
  <2> QED
    BY <1>2, <2>1, <2>2, <2>3, <2>4
       DEF HandOver, TypeOK, HandlerInv, RestoreListConsistent, ButtonsMatchRow,
           managerVars, viewVars, handlerVars, restoreVars
<1> QED
  BY <1>1, <1>2 DEF Thread

(* A list is shown, and no row is selected.                                *)
LEMMA UpdateKeeps == ASSUME ServicesInv, UpdateView PROVE ServicesInv'
<1> USE DEF ServicesInv
<1>1. Head(idle) \in List /\ Tail(idle) \in Seq(List) /\ Len(Tail(idle)) = Len(idle) - 1
  BY Counts, HeadTailProperties DEF UpdateView
<1>2. InFlight' <= MaxRefresh
  BY <1>1, Counts DEF UpdateView, TypeOK, InFlight
<1>3. Head(idle).view \in View /\ Head(idle).current \in BOOLEAN
  BY <1>1 DEF List
<1>4. TypeOK'
  BY <1>1, <1>2, <1>3 DEF UpdateView, TypeOK, managerVars, handlerVars, restoreVars
<1> QED
  BY <1>4, Counts
     DEF UpdateView, HandlerInv, RestoreListConsistent, ButtonsMatchRow,
         managerVars, handlerVars, restoreVars

(* A refresh starts, from a timer or from the button, between handlers.    *)
LEMMA RefreshKeeps ==
    ASSUME ServicesInv, TimerFires \/ RefreshClicked
    PROVE  ServicesInv'
<1>1. listing' \in Nat /\ timers' \in Nat /\ InFlight' <= MaxRefresh
  BY Counts DEF ServicesInv, TypeOK, TimerFires, RefreshClicked, InFlight
<1> QED
  BY <1>1
     DEF ServicesInv, TypeOK, TimerFires, RefreshClicked, HandlerInv, RestoreListConsistent,
         ButtonsMatchRow, managerVars, viewVars, handlerVars, restoreVars

(* The selection, and a Restore list emptied.                              *)
LEMMA ChoiceKeeps ==
    ASSUME ServicesInv,
           \/ SearchChanged \/ ClearClicked
           \/ \E u \in Unit : on_svc_selection_changed(u)
    PROVE  ServicesInv'
<1> USE DEF ServicesInv, HandlerInv, RestoreListConsistent, ButtonsMatchRow, TypeOK, InFlight,
            managerVars, viewVars, threadVars, handlerVars, restoreVars
<1>1. CASE SearchChanged
  BY <1>1, Counts DEF SearchChanged
<1>2. CASE ClearClicked
  <2>1. <<>> \in Seq(Unit) /\ Len(<<>>) = 0
    BY EmptySeq
  <2> QED
    BY <1>2, <2>1 DEF ClearClicked
<1>3. CASE \E u \in Unit : on_svc_selection_changed(u)
  <2>1. PICK u \in Unit : on_svc_selection_changed(u)
    BY <1>3
  <2>2. /\ selected' = u /\ view[u] # "absent" /\ UNCHANGED view
        /\ UNCHANGED <<managerVars, threadVars, handlerVars, restoreVars, awaited, stopped, missed>>
    BY <2>1 DEF on_svc_selection_changed
  <2>3. canStart' \in BOOLEAN /\ canStop' \in BOOLEAN
    BY <2>1, Zenon DEF on_svc_selection_changed
  <2>4. TypeOK'
    BY <2>2, <2>3
  <2>7. (canStart' => view[u] # "active") /\ (canStop' => view[u] = "active")
    BY <2>1, Zenon DEF on_svc_selection_changed
  <2>5. HandlerInv' /\ RestoreListConsistent'
    BY <2>2 DEF Contains
  <2>6. ButtonsMatchRow'
    BY <2>2, <2>7
  <2> QED
    BY <2>4, <2>5, <2>6
<1> QED
  BY <1>1, <1>2, <1>3

(* A handler starts, for the selected service or for one to restart.       *)
LEMMA RunKeeps ==
    ASSUME ServicesInv,
           \/ \E act \in Actions : ActionClicked(act)
           \/ \E u \in Unit : RestoreClicked(u)
    PROVE  ServicesInv'
<1> USE DEF ServicesInv
<1>1. ASSUME NEW act \in Actions, NEW u \in Unit, Run(act, u),
             act = "restore" => Contains(restore, u)
      PROVE  ServicesInv'
  <2>1. act # "none"
    BY DEF Actions
  <2>2. InFlight' = InFlight /\ Contains(restore, u)' = Contains(restore, u)
    BY <1>1 DEF Run, InFlight, threadVars, restoreVars, Contains
  <2>3. HandlerInv'
    BY <1>1, <2>1, <2>2 DEF Run, HandlerInv, Contains, restoreVars
  <2> QED
    BY <1>1, <2>2, <2>3
       DEF Run, TypeOK, RestoreListConsistent, ButtonsMatchRow, managerVars, viewVars,
           threadVars, restoreVars
<1>2. ASSUME NEW act \in Actions, ActionClicked(act) PROVE ServicesInv'
  BY <1>1, <1>2 DEF ActionClicked, TypeOK
<1>3. ASSUME NEW u \in Unit, RestoreClicked(u) PROVE ServicesInv'
  BY <1>1, <1>3 DEF RestoreClicked, Actions
<1> QED
  BY <1>2, <1>3

(* The child: a stop that has been accepted is noted, and what is sent for *)
(* enable or disable is no unit, so that neither succeeds.                 *)
LEMMA ChildKeeps == ASSUME ServicesInv, Child PROVE ServicesInv'
<1> USE DEF ServicesInv
<1>1. CASE Authorised
  BY <1>1
     DEF Authorised, TypeOK, HandlerInv, RestoreListConsistent, ButtonsMatchRow, InFlight,
         managerVars, viewVars, threadVars, restoreVars, Contains
<1>2. CASE HelperCalls
  <2>1. /\ action # "none" /\ service \in Unit
        /\ UNCHANGED <<viewVars, threadVars, action, service, late, restoreVars, awaited>>
    BY <1>2 DEF HelperCalls, HandlerInv
  <2>2. /\ active' \subseteq Unit /\ enabled' \subseteq Unit
        /\ job' \in [Unit -> {"none", "start", "stop"}]
        /\ stopped \subseteq stopped' /\ stopped' \subseteq Unit /\ missed' \subseteq Unit
        /\ helper' \in {"success", "failure"}
        /\ helper' = "success" => action \notin {"enable", "disable"}
        /\ helper' = "success" /\ action = "stop" => service \in stopped'
    <3> USE DEF TypeOK, managerVars
    <3>1. CASE action \in {"start", "restore"} /\ HelperQueues("start")
      BY <2>1, <3>1 DEF HelperQueues, NoteStop
    <3>2. CASE action = "stop" /\ HelperQueues("stop")
      BY <2>1, <3>2 DEF HelperQueues, NoteStop
    <3>3. ASSUME NEW on \in BOOLEAN, action \in {"enable", "disable"}, HelperSets(on)
          PROVE  /\ helper' = "failure"
                 /\ UNCHANGED <<enabled, active, job, stopped, missed>>
      BY <3>3, ServicesAssumption DEF HelperSets, UnitSent, Garbage
    <3>4. CASE action = "enable" /\ HelperSets(TRUE)
      BY <3>3, <3>4
    <3>5. CASE action = "disable" /\ HelperSets(FALSE)
      BY <3>3, <3>5
    <3>6. CASE BusMayFail /\ helper' = "failure" /\ UNCHANGED <<managerVars, stopped, missed>>
      BY <3>6
    <3> QED
      BY <1>2, <3>1, <3>2, <3>4, <3>5, <3>6 DEF HelperCalls
  <2>3. HandlerInv'
    BY <2>1, <2>2 DEF HandlerInv, InFlight, threadVars, restoreVars, Contains
  <2>4. RestoreListConsistent' /\ ButtonsMatchRow'
    BY <2>1, <2>2 DEF RestoreListConsistent, ButtonsMatchRow, restoreVars, viewVars
  <2> QED
    BY <2>1, <2>2, <2>3, <2>4 DEF TypeOK, InFlight, viewVars, threadVars, restoreVars
<1>3. CASE Timeout
  <2>1. /\ UNCHANGED <<managerVars, viewVars, threadVars, restoreVars, awaited, stopped, missed>>
        /\ \/ action' = "none" /\ service' = None /\ helper' = "none" /\ late' = FALSE
           \/ late' = TRUE /\ UNCHANGED <<action, service, helper>>
    BY <1>3 DEF Timeout, Return
  <2>2. RestoreListConsistent' /\ ButtonsMatchRow' /\ InFlight' = InFlight
    BY <2>1
       DEF RestoreListConsistent, ButtonsMatchRow, InFlight, restoreVars, viewVars, threadVars
  <2>3. TypeOK'
    BY <2>1, <2>2 DEF TypeOK, managerVars, viewVars, threadVars, restoreVars
  <2>4. HandlerInv'
    BY <2>1, <2>2 DEF HandlerInv, restoreVars, Contains
  <2> QED
    BY <2>2, <2>3, <2>4
<1> QED
  BY <1>1, <1>2, <1>3 DEF Child

(* The end of a handler: back in the main loop, what remains to show is    *)
(* that lists and counts are what they were, or what a success makes them. *)
LEMMA Returned ==
    ASSUME ServicesInv, Return, UNCHANGED <<managerVars, viewVars>>,
           stopped' \subseteq Unit, missed' \subseteq Unit,
           listing' \in Nat, timers' \in Nat, awaited' \in BOOLEAN,
           listed' \in Seq(List), idle' \in Seq(List), InFlight' <= MaxRefresh,
           restore' \in Seq(Unit), badge' \in Nat, RestoreListConsistent'
    PROVE  ServicesInv'
BY DEF ServicesInv, TypeOK, HandlerInv, ButtonsMatchRow, Return, managerVars, viewVars

(* Nothing else: the handler failed, or was late.                          *)
LEMMA ReturnedWithNothing ==
    ASSUME ServicesInv, Return, UNCHANGED <<managerVars, viewVars, threadVars, restoreVars,
                                            awaited, stopped, missed>>
    PROVE  ServicesInv'
BY DEF ServicesInv, TypeOK, HandlerInv, RestoreListConsistent, ButtonsMatchRow, InFlight,
       Return, managerVars, viewVars, threadVars, restoreVars

LEMMA ActionReturnsKeeps == ASSUME ServicesInv, ActionReturns PROVE ServicesInv'
<1> USE DEF ServicesInv
<1>1. CASE helper = "success" /\ ~late
  <2>1. /\ RefreshTwice /\ Return /\ UNCHANGED <<managerVars, viewVars, stopped, missed>>
        /\ IF action \in {"stop", "disable"}
           THEN add_restore_item(service) ELSE UNCHANGED restoreVars
    BY <1>1 DEF ActionReturns
  <2>2. restore' \in Seq(Unit) /\ badge' \in Nat /\ RestoreListConsistent'
    <3>1. CASE action \in {"stop", "disable"}
      <4>1. service \in stopped
        BY <1>1, <3>1 DEF HandlerInv
      <4> QED
        BY <2>1, <3>1, <4>1, AddKeepsList
    <3>2. CASE action \notin {"stop", "disable"}
      BY <2>1, <3>2 DEF TypeOK, restoreVars, RestoreListConsistent
    <3> QED
      BY <3>1, <3>2
  <2>3. /\ listing' \in Nat /\ timers' \in Nat /\ awaited' \in BOOLEAN
        /\ listed' \in Seq(List) /\ idle' \in Seq(List)
        /\ InFlight' <= MaxRefresh
    BY <2>1, RefreshTwiceFits DEF ActionReturns
  <2>4. stopped' \subseteq Unit /\ missed' \subseteq Unit
    BY <2>1 DEF TypeOK
  <2> QED
    BY <2>1, <2>2, <2>3, <2>4, Returned
<1>2. CASE ~(helper = "success" /\ ~late)
  BY <1>2, ReturnedWithNothing DEF ActionReturns
<1> QED
  BY <1>1, <1>2

(* A service restarted leaves the list: no other entry names it.           *)
LEMMA RestoreReturnsKeeps == ASSUME ServicesInv, RestoreReturns PROVE ServicesInv'
<1> USE DEF ServicesInv
<1>1. CASE helper = "success"
  <2>1. /\ RefreshTwice /\ Return /\ UNCHANGED <<managerVars, viewVars>>
        /\ stopped' = stopped \ {service} /\ badge' = Len(restore')
        /\ missed' = missed \ {service}
        /\ action # "none"
    BY <1>1 DEF RestoreReturns
  <2>2. PICK n \in 1..Len(restore) : restore[n] = service /\ restore' = RemoveAt(restore, n)
    BY <1>1 DEF RestoreReturns
  <2>3. /\ restore' \in Seq(Unit) /\ Len(restore') = Len(restore) - 1
        /\ \A j \in 1..Len(restore') :
              \E k \in 1..Len(restore) \ {n} : restore'[j] = restore[k] /\ (k = j \/ k = j + 1)
        /\ \A j \in 1..Len(restore') :
              /\ j < n => restore'[j] = restore[j]
              /\ j >= n => restore'[j] = restore[j + 1]
    <3>1. /\ RemoveAt(restore, n) \in Seq(Unit) /\ Len(RemoveAt(restore, n)) = Len(restore) - 1
          /\ \A j \in 1..Len(RemoveAt(restore, n)) :
                \E k \in 1..Len(restore) \ {n} :
                   RemoveAt(restore, n)[j] = restore[k] /\ (k = j \/ k = j + 1)
          /\ \A j \in 1..Len(RemoveAt(restore, n)) :
                /\ j < n => RemoveAt(restore, n)[j] = restore[j]
                /\ j >= n => RemoveAt(restore, n)[j] = restore[j + 1]
      BY Counts, TakenOut
    <3> QED
      BY <2>2, <3>1
  <2>4. \A j \in 1..Len(restore') : restore'[j] \in stopped \ {service}
    BY <2>2, <2>3 DEF RestoreListConsistent
  <2>5. \A i, j \in 1..Len(restore') : restore'[i] = restore'[j] => i = j
    <3> SUFFICES ASSUME NEW i \in 1..Len(restore'), NEW j \in 1..Len(restore'),
                        restore'[i] = restore'[j]
                 PROVE  i = j
      OBVIOUS
    <3> DEFINE at(x) == IF x < n THEN x ELSE x + 1
    <3>1. at(i) \in 1..Len(restore) /\ at(j) \in 1..Len(restore)
      BY <2>3, Counts
    <3>2. restore'[i] = restore[at(i)] /\ restore'[j] = restore[at(j)]
      BY <2>3, Counts
    <3>3. at(i) = at(j)
      BY <3>1, <3>2 DEF RestoreListConsistent
    <3> QED
      BY <3>3, Counts
  <2>6. /\ RestoreListConsistent' /\ badge' \in Nat
        /\ stopped' \subseteq Unit /\ missed' \subseteq Unit
    BY <2>1, <2>3, <2>4, <2>5, LenProperties DEF RestoreListConsistent, TypeOK
  <2>7. /\ listing' \in Nat /\ timers' \in Nat /\ awaited' \in BOOLEAN
        /\ listed' \in Seq(List) /\ idle' \in Seq(List)
        /\ InFlight' <= MaxRefresh
    BY <2>1, RefreshTwiceFits
  <2> QED
    BY <2>1, <2>3, <2>6, <2>7, Returned
<1>2. CASE helper # "success"
  BY <1>2, ReturnedWithNothing DEF RestoreReturns
<1> QED
  BY <1>1, <1>2

LEMMA ServicesStep == ServicesInv /\ [Next]_vars => ServicesInv'
<1> SUFFICES ASSUME ServicesInv, [Next]_vars PROVE ServicesInv'
  OBVIOUS
<1>1. CASE User
  BY <1>1, RefreshKeeps, ChoiceKeeps, RunKeeps DEF User
<1>2. CASE UNCHANGED vars
  BY <1>2
     DEF ServicesInv, TypeOK, HandlerInv, RestoreListConsistent, ButtonsMatchRow, InFlight,
         Contains, vars, managerVars, viewVars, threadVars, handlerVars, restoreVars
<1> QED
  BY <1>1, <1>2, ManagerKeeps, ThreadKeeps, UpdateKeeps, RefreshKeeps, ChildKeeps,
     ActionReturnsKeeps, RestoreReturnsKeeps DEF Next

LEMMA ServicesInvariant == Spec => []ServicesInv
<1> QED
  BY ServicesInit, ServicesStep, PTL DEF Spec

-----------------------------------------------------------------------------
(* The tab is well typed; among that, the bound on the refreshes in flight *)
(* holds although the two refreshes of a success are asked for late.       *)
THEOREM TypeCorrect == Spec => []TypeOK
<1>1. ServicesInv => TypeOK
  BY DEF ServicesInv
<1> QED
  BY <1>1, ServicesInvariant, PTL

(* The Restore list (add_restore_item, on_restore_service_clicked) names a *)
(* service once, is counted by its badge, and holds only what was stopped  *)
(* from here and not restored since.                                       *)
THEOREM RestoreListCorrect == Spec => []RestoreListConsistent
<1>1. ServicesInv => RestoreListConsistent
  BY DEF ServicesInv
<1> QED
  BY <1>1, ServicesInvariant, PTL

(* Start and Stop (on_svc_selection_changed, _update_svc_ui) never offer   *)
(* what the selected row forbids.                                          *)
THEOREM ButtonsMatchRowCorrect == Spec => []ButtonsMatchRow
<1>1. ServicesInv => ButtonsMatchRow
  BY DEF ServicesInv
<1> QED
  BY <1>1, ServicesInvariant, PTL

-----------------------------------------------------------------------------
(* The Restore list is complete *)

(* A stop that is noted and on its way back is recorded by its handler,    *)
(* unless it comes late, and then it is noted as missed.                   *)
CompleteInv ==
    /\ RestoreListComplete
    /\ helper = "success" /\ action = "stop" /\ late => service \in missed

(* A step that leaves the list, the notes and the handler alone keeps it.  *)
LEMMA CompleteUntouched ==
    ASSUME CompleteInv, UNCHANGED <<handlerVars, restore, stopped, missed>>
    PROVE  CompleteInv'
BY DEF CompleteInv, RestoreListComplete, Contains, handlerVars

(* Before the child's success nothing that was stopped waits to be recorded,*)
(* so that the handler may go on or end without recording anything.        *)
LEMMA NothingToRecord ==
    ASSUME CompleteInv, helper # "success" \/ action # "stop",
           UNCHANGED <<restore, stopped, missed>>,
           helper' # "success" \/ action' # "stop"
    PROVE  CompleteInv'
BY DEF CompleteInv, RestoreListComplete, Contains

(* The helper's call: a stop is noted, as missed if the timer has fired.   *)
LEMMA HelperCompletes == ASSUME CompleteInv, HelperCalls PROVE CompleteInv'
<1>1. helper = "bus" /\ UNCHANGED <<action, service, late, restore>>
  BY DEF HelperCalls, restoreVars
<1>2. CASE action = "stop" /\ HelperQueues("stop")
  <2>1. NoteStop /\ helper' = "success"
    BY <1>2 DEF HelperQueues
  <2>2. \A u \in stopped \ missed : Contains(restore, u)'
    BY <1>1 DEF CompleteInv, RestoreListComplete, Contains
  <2> QED
    BY <1>1, <1>2, <2>1, <2>2 DEF NoteStop, CompleteInv, RestoreListComplete
<1>3. CASE UNCHANGED <<stopped, missed>> /\ (action # "stop" \/ helper' = "failure")
  BY <1>1, <1>3, NothingToRecord
<1>4. \/ action = "stop" /\ HelperQueues("stop")
      \/ UNCHANGED <<stopped, missed>> /\ (action # "stop" \/ helper' = "failure")
  BY DEF HelperCalls, HelperQueues, HelperSets
<1> QED
  BY <1>2, <1>3, <1>4

(* A service that is added is on the list, and so is what was on it.       *)
LEMMA AddCompletes ==
    ASSUME ServicesInv, NEW u \in Unit, add_restore_item(u)
    PROVE  /\ Contains(restore', u)
           /\ \A x : Contains(restore, x) => Contains(restore', x)
<1>1. CASE Contains(restore, u)
  BY <1>1 DEF add_restore_item, restoreVars
<1>2. CASE ~Contains(restore, u)
  <2>1. restore' = Append(restore, u)
    BY <1>2 DEF add_restore_item
  <2>2. /\ Len(restore') = Len(restore) + 1 /\ Len(restore) \in Nat
        /\ \A i \in 1..Len(restore) : restore'[i] = restore[i]
        /\ restore'[Len(restore) + 1] = u
    BY <2>1, Counts, AppendProperties DEF ServicesInv
  <2>3. /\ Len(restore) + 1 \in 1..Len(restore')
        /\ \A i \in 1..Len(restore) : i \in 1..Len(restore')
    BY <2>2
  <2> QED
    BY <2>2, <2>3 DEF Contains
<1> QED
  BY <1>1, <1>2

(* The end of an action: in time it records the service, late it does not. *)
LEMMA ActionReturnsCompletes ==
    ASSUME ServicesInv, CompleteInv, ActionReturns
    PROVE  CompleteInv'
<1>1. /\ action # "none" /\ helper' = "none" /\ UNCHANGED <<stopped, missed>>
      /\ service \in Unit
  BY DEF ActionReturns, Return, ServicesInv, HandlerInv
<1>2. CASE helper = "success" /\ ~late /\ action = "stop"
  <2>1. add_restore_item(service)
    BY <1>2 DEF ActionReturns
  <2>2. /\ Contains(restore', service)
        /\ \A x : Contains(restore, x) => Contains(restore', x)
    BY <1>1, <2>1, AddCompletes
  <2> QED
    BY <1>1, <2>2 DEF CompleteInv, RestoreListComplete, Contains
<1>3. CASE helper = "success" /\ late /\ action = "stop"
  <2>1. UNCHANGED restore /\ service \in missed
    BY <1>3 DEF ActionReturns, restoreVars, CompleteInv
  <2> QED
    BY <1>1, <2>1 DEF CompleteInv, RestoreListComplete, Contains
<1>4. CASE ~(helper = "success" /\ action = "stop")
  <2>1. helper = "success" => action # "disable"
    BY DEF ServicesInv, HandlerInv
  <2>2. UNCHANGED restore
    BY <1>4, <2>1 DEF ActionReturns, restoreVars
  <2> QED
    BY <1>1, <1>4, <2>2, NothingToRecord
<1> QED
  BY <1>2, <1>3, <1>4

(* A restart takes its own service off the list and no other.              *)
LEMMA RestoreReturnsCompletes ==
    ASSUME ServicesInv, CompleteInv, RestoreReturns
    PROVE  CompleteInv'
<1>1. action = "restore" /\ helper' = "none"
  BY DEF RestoreReturns, Return
<1>2. CASE helper = "success"
  <2>1. PICK n \in 1..Len(restore) : restore[n] = service /\ restore' = RemoveAt(restore, n)
    BY <1>2 DEF RestoreReturns
  <2>2. \A k \in 1..Len(restore) \ {n} :
           \E j \in 1..Len(restore') : restore'[j] = restore[k]
    BY <2>1, OthersStay, Counts DEF ServicesInv
  <2>3. stopped' = stopped \ {service} /\ missed' = missed \ {service}
    BY <1>2 DEF RestoreReturns
  <2>4. \A u \in stopped' \ missed' : Contains(restore, u) /\ u # service
    BY <1>1, <2>3 DEF CompleteInv, RestoreListComplete
  <2>5. \A u \in stopped' \ missed' : Contains(restore', u)
    BY <2>1, <2>2, <2>4 DEF Contains
  <2> QED
    BY <1>1, <2>5 DEF CompleteInv, RestoreListComplete, Contains
<1>3. CASE helper # "success"
  BY <1>1, <1>3, NothingToRecord DEF RestoreReturns, restoreVars
<1> QED
  BY <1>2, <1>3

LEMMA CompleteStep == ServicesInv /\ CompleteInv /\ [Next]_vars => CompleteInv'
<1> SUFFICES ASSUME ServicesInv, CompleteInv, [Next]_vars PROVE CompleteInv'
  OBVIOUS
<1>1. CASE Manager \/ Thread \/ UpdateView \/ TimerFires \/ UNCHANGED vars
  <2>1. UNCHANGED <<handlerVars, restore, stopped, missed>>
    BY <1>1 DEF Manager, JobDone, ServiceChanges, Thread, ListServices, HandOver, UpdateView,
                TimerFires, vars, restoreVars
  <2> QED
    BY <2>1, CompleteUntouched
<1>2. CASE \/ RefreshClicked \/ SearchChanged
           \/ \E u \in Unit : on_svc_selection_changed(u)
  <2>1. UNCHANGED <<handlerVars, restore, stopped, missed>>
    BY <1>2 DEF RefreshClicked, SearchChanged, on_svc_selection_changed, restoreVars
  <2> QED
    BY <2>1, CompleteUntouched
<1>3. CASE \/ \E u \in Unit : RestoreClicked(u)
           \/ \E act \in Actions : ActionClicked(act)
  <2>1. /\ action = "none" /\ helper' = "auth"
        /\ UNCHANGED <<restore, stopped, missed>>
    BY <1>3 DEF RestoreClicked, ActionClicked, Run, restoreVars
  <2> QED
    BY <2>1, NothingToRecord
<1>4. CASE ClearClicked
  BY <1>4 DEF ClearClicked, CompleteInv, RestoreListComplete, handlerVars, ServicesInv, HandlerInv
<1>5. CASE Authorised \/ Timeout
  <2>1. /\ helper # "success" /\ helper' # "success"
        /\ UNCHANGED <<restore, stopped, missed>>
    BY <1>5 DEF Authorised, Timeout, Return, restoreVars
  <2> QED
    BY <2>1, NothingToRecord
<1> QED
  BY <1>1, <1>2, <1>3, <1>4, <1>5, HelperCompletes, ActionReturnsCompletes,
     RestoreReturnsCompletes DEF Next, User, Child

(* Every service stopped from here (on_service_action, add_restore_item,   *)
(* on_restore_service_clicked) is on the Restore list until it is started  *)
(* again from there or the list is cleared, but for a stop that came late. *)
THEOREM RestoreListCompleteCorrect == Spec => []RestoreListComplete
<1>1. Init => CompleteInv
  BY DEF Init, CompleteInv, RestoreListComplete
<1>2. CompleteInv => RestoreListComplete
  BY DEF CompleteInv
<1> QED
  BY <1>1, <1>2, ServicesInvariant, CompleteStep, PTL DEF Spec

-----------------------------------------------------------------------------
(* What the refresh threads and the main loop hold *)

(* A list is read, and added to what the threads hold.                     *)
LEMMA ListAdded ==
    ASSUME ServicesInv, ListServices
    PROVE  \E v \in Answers :
              Range(listed') = Range(listed) \cup {[view |-> v, current |-> awaited]}
<1>1. PICK v \in Answers : listed' = Append(listed, [view |-> v, current |-> awaited])
  BY DEF ListServices
<1>2. v \in View
  BY DEF Answers, Listings, View
<1>3. [view |-> v, current |-> awaited] \in List
  BY <1>2 DEF List, ServicesInv, TypeOK
<1>4. Range(listed') = Range(listed) \cup {[view |-> v, current |-> awaited]}
  BY <1>1, <1>3, Counts, RangeAppended DEF ServicesInv
<1> QED
  BY <1>4

(* Threads and main loop together hold what they held when a list changes  *)
(* hands.                                                                  *)
LEMMA ListChangesHands ==
    ASSUME ServicesInv, NEW n \in 1..MaxRefresh, HandOver(n)
    PROVE  Range(listed') \cup Range(idle') = Range(listed) \cup Range(idle)
<1>1. /\ n \in 1..Len(listed) /\ listed[n] \in List
      /\ listed' = RemoveAt(listed, n) /\ idle' = Append(idle, listed[n])
  BY ElementOfSeq, Counts DEF HandOver, ServicesInv
<1>2. Range(listed) = Range(listed') \cup {listed[n]}
  BY <1>1, RangeRemoved, Counts DEF ServicesInv
<1>3. Range(idle') = Range(idle) \cup {listed[n]}
  BY <1>1, RangeAppended, Counts DEF ServicesInv
<1> QED
  BY <1>2, <1>3

(* The main loop takes one, shows it, and keeps the others.                *)
LEMMA ListTaken ==
    ASSUME ServicesInv, UpdateView
    PROVE  /\ Range(idle) = {Head(idle)} \cup Range(idle')
           /\ view' = Head(idle).view /\ UNCHANGED listed
BY RangeTail, Counts DEF UpdateView, ServicesInv

-----------------------------------------------------------------------------
(* News is on its way *)

LEMMA NewsStep == ServicesInv /\ NewsOnItsWay /\ [Next]_vars => NewsOnItsWay'
<1> SUFFICES ASSUME ServicesInv, NewsOnItsWay, [Next]_vars, awaited' PROVE NewsOnItsWay'
  BY DEF NewsOnItsWay
<1>1. CASE RefreshTwice \/ TimerFires \/ RefreshClicked
  <2>1. listing \in Nat
    BY DEF ServicesInv, TypeOK
  <2>2. listing' = listing + 1
    BY <1>1 DEF RefreshTwice, TimerFires, RefreshClicked
  <2>3. listing' > 0
    BY <2>1, <2>2
  <2> QED
    BY <2>3 DEF NewsOnItsWay
<1>2. CASE UNCHANGED <<threadVars, awaited>>
  BY <1>2 DEF NewsOnItsWay, threadVars
<1>3. CASE ListServices
  <2>1. awaited
    BY <1>3 DEF ListServices
  <2>2. PICK v \in Answers :
           Range(listed') = Range(listed) \cup {[view |-> v, current |-> awaited]}
    BY <1>3, ListAdded
  <2>3. [view |-> v, current |-> awaited].current
    BY <2>1
  <2> QED
    BY <2>2, <2>3 DEF NewsOnItsWay
<1>4. ASSUME NEW n \in 1..MaxRefresh, HandOver(n) PROVE NewsOnItsWay'
  <2>1. UNCHANGED <<listing, timers, awaited>>
    BY <1>4 DEF HandOver
  <2> QED
    BY <1>4, <2>1, ListChangesHands DEF NewsOnItsWay
<1>5. CASE UpdateView
  <2>1. UNCHANGED <<listing, timers>> /\ awaited
    BY <1>5, Zenon DEF UpdateView
  <2>2. ~Head(idle).current
    BY <1>5, Zenon DEF UpdateView
  <2>3. /\ Range(idle) = {Head(idle)} \cup Range(idle')
        /\ UNCHANGED listed
    BY <1>5, ListTaken
  <2> QED
    BY <2>1, <2>2, <2>3 DEF NewsOnItsWay
<1>6. \/ RefreshTwice \/ TimerFires \/ RefreshClicked \/ ListServices \/ UpdateView
      \/ UNCHANGED <<threadVars, awaited>>
      \/ \E n \in 1..MaxRefresh : HandOver(n)
  <2>1. CASE Manager \/ User \/ Child \/ UNCHANGED vars
    BY <2>1 DEF Manager, JobDone, ServiceChanges, User, SearchChanged, ClearClicked,
         on_svc_selection_changed, RestoreClicked, ActionClicked, Run, Child, Authorised,
         HelperCalls, Timeout, vars
  <2>2. CASE ActionReturns \/ RestoreReturns
    BY <2>2 DEF ActionReturns, RestoreReturns
  <2> QED
    BY <2>1, <2>2 DEF Next, Thread
<1> QED
  BY <1>1, <1>2, <1>3, <1>4, <1>5, <1>6

(* While the last success (on_service_action, on_restore_service_clicked)  *)
(* has not reached the view, a refresh that reads what it did is on its    *)
(* way, however many older ones are too: what ActionReachesView says, but  *)
(* for the fairness that makes threads run.                                *)
THEOREM NewsOnItsWayCorrect == Spec => []NewsOnItsWay
<1>1. Init => NewsOnItsWay
  BY DEF Init, NewsOnItsWay
<1> QED
  BY <1>1, ServicesInvariant, NewsStep, PTL DEF Spec

-----------------------------------------------------------------------------
(* The rows are one answer of systemd *)

(* Lists that a later action makes old are the same lists.                 *)
LEMMA OutdatedSame ==
    ASSUME NEW s \in Seq(List)
    PROVE  {RowsOf(l.view) : l \in Range(Outdated(s))} = {RowsOf(l.view) : l \in Range(s)}
<1>1. DOMAIN s = 1..Len(s) /\ DOMAIN Outdated(s) = DOMAIN s
  BY LenProperties DEF Outdated
<1>2. \A i \in DOMAIN s : s[i] \in List
  BY <1>1, ElementOfSeq
<1>3. \A i \in DOMAIN s : Outdated(s)[i].view = s[i].view
  BY <1>2 DEF Outdated, List
<1> QED
  BY <1>1, <1>3 DEF Range

LEMMA SnapshotStep == ServicesInv /\ [Next]_vars => [Snapshot!Next]_(Snapshot!vars)
<1> SUFFICES ASSUME ServicesInv, [Next]_vars PROVE Snapshot!Next
  OBVIOUS
<1> USE DEF Snapshot!Next
<1>1. CASE UNCHANGED view /\ Pending' = Pending
  BY <1>1 DEF Snapshot!WorldChanges, RowsOf
<1>2. CASE ListServices
  <2>1. UNCHANGED RowsOf(view) /\ UNCHANGED idle
    BY <1>2 DEF ListServices, viewVars, RowsOf
  <2>2. PICK v \in Answers :
           Range(listed') = Range(listed) \cup {[view |-> v, current |-> awaited]}
    BY <1>2, ListAdded
  <2>3. Pending' = Pending \cup {RowsOf(v)}
    <3> DEFINE l == [view |-> v, current |-> awaited]
    <3>1. l.view = v
      OBVIOUS
    <3>2. Range(listed') \cup Range(idle') = (Range(listed) \cup Range(idle)) \cup {l}
      BY <2>1, <2>2
    <3> HIDE DEF l
    <3>3. Pending' = Pending \cup {RowsOf(l.view)}
      BY <3>2 DEF Pending
    <3> QED
      BY <3>1, <3>3
  <2>4. RowsOf(v) \in {RowsOf(x) : x \in Answers}
    OBVIOUS
  <2> QED
    BY <2>1, <2>3, <2>4 DEF Snapshot!Read
<1>3. CASE UpdateView
  <2>1. /\ Range(idle) = {Head(idle)} \cup Range(idle')
        /\ view' = Head(idle).view /\ UNCHANGED listed
    BY <1>3, ListTaken
  <2>2. Pending = Pending' \cup {RowsOf(view')}
    BY <2>1 DEF Pending
  <2>3. RowsOf(view)' = RowsOf(view')
    BY DEF RowsOf
  <2> QED
    BY <2>2, <2>3 DEF Snapshot!Show
<1>4. ASSUME NEW n \in 1..MaxRefresh, HandOver(n)
      PROVE  UNCHANGED view /\ Pending' = Pending
  BY <1>4, ListChangesHands DEF HandOver, viewVars, Pending
<1>5. CASE ActionReturns \/ RestoreReturns
  <2>1. UNCHANGED view /\ (RefreshTwice \/ UNCHANGED threadVars)
    BY <1>5 DEF ActionReturns, RestoreReturns, viewVars
  <2>2. CASE UNCHANGED threadVars
    BY <1>1, <2>1, <2>2 DEF Pending, threadVars
  <2>3. CASE RefreshTwice
    <3>1. listed' = Outdated(listed) /\ idle' = Outdated(idle)
      BY <2>3 DEF RefreshTwice
    <3>2. /\ {RowsOf(l.view) : l \in Range(listed')} = {RowsOf(l.view) : l \in Range(listed)}
          /\ {RowsOf(l.view) : l \in Range(idle')} = {RowsOf(l.view) : l \in Range(idle)}
      BY <3>1, OutdatedSame, Counts DEF ServicesInv
    <3> QED
      BY <1>1, <2>1, <3>2 DEF Pending
  <2> QED
    BY <2>1, <2>2, <2>3
<1>6. CASE Manager \/ TimerFires \/ User \/ Child \/ UNCHANGED vars
  <2>1. UNCHANGED <<view, listed, idle>>
    BY <1>6 DEF Manager, JobDone, ServiceChanges, TimerFires, User, RefreshClicked, SearchChanged,
         ClearClicked, on_svc_selection_changed, RestoreClicked, ActionClicked, Run, Child,
         Authorised, HelperCalls, Timeout, vars, viewVars, threadVars
  <2> QED
    BY <1>1, <2>1 DEF Pending
<1> QED
  BY <1>1, <1>2, <1>3, <1>4, <1>5, <1>6 DEF Next, Thread

(* The services tab implements Snapshots: its rows (_update_svc_ui) are    *)
(* one list that one _refresh_svc_thread has read, in whatever order the   *)
(* threads, the handlers and their two refreshes come.                     *)
THEOREM ImplementsSnapshotsCorrect == Spec => ImplementsSnapshots
<1>1. Init => Snapshot!Init
  <2> SUFFICES ASSUME Init PROVE Snapshot!Init
    OBVIOUS
  <2>1. Pending = {}
    BY EmptySeq DEF Init, Pending, Range
  <2>2. RowsOf(view) = {}
    BY DEF Init, RowsOf
  <2> QED
    BY <2>1, <2>2 DEF Snapshot!Init
<1> QED
  BY <1>1, ServicesInvariant, SnapshotStep, PTL DEF Spec, ImplementsSnapshots, Snapshot!Spec

=============================================================================
