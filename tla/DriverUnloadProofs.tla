------------------------- MODULE DriverUnloadProofs -------------------------
(***************************************************************************)
(* Theorems about unloading a driver, for every set of modules and         *)
(* drivers, every dependency relation, naming and assignment of buses.     *)
(***************************************************************************)
EXTENDS DriverUnload, KernelModulesProofs

-----------------------------------------------------------------------------
(* Types and dependencies *)

TypeInv == TypeOK /\ KernelConsistent

(* While the child runs there is room for its modprobe to survive it.      *)
RoomInv ==
    /\ pc # "idle" => name \in Names
    /\ pc = "run" => surviving[name] < MaxSurviving

(* A module that modprobe -r removes is one of the kernel's, and what goes *)
(* with it is what it needs; the kernel stays consistent.                  *)
LEMMA ModprobeConsistent ==
    ASSUME KernelInv, NEW n, ModprobeRemoves(n)
    PROVE  /\ n \in Names
           /\ Resolve[n] \in Modules
           /\ Resolve[n] \in loaded \ loaded'
           /\ loaded' \subseteq loaded
           /\ loaded \ loaded' \subseteq {Resolve[n]} \cup Uses[Resolve[n]]
           /\ KernelInv'
<1>1. n \in Names /\ Resolve[n] \in Modules
  BY KernelModulesAssumption DEF ModprobeRemoves
<1>2. Removable(Resolve[n]) /\ RemoveModule(Resolve[n])
  BY DEF ModprobeRemoves
<1>3. KernelInv'
  BY <1>1, <1>2, RemoveConsistent
<1> QED
  BY <1>1, <1>2, <1>3 DEF Removable, RemoveModule, Orphaned

(* The types and the kernel's consistency hold at the start.               *)
LEMMA TypeInit == Init => TypeInv
<1> SUFFICES ASSUME Init PROVE TypeInv
  OBVIOUS
<1>1. surviving \in [Names -> 0..MaxSurviving]
  <2>1. 0 \in 0..MaxSurviving
    BY DriverUnloadAssumption
  <2> QED
    BY <2>1 DEF Init
<1>2. KernelTypeOK /\ KernelConsistent
  BY KernelModulesAssumption DEF Init, KernelInit, KernelTypeOK, KernelConsistent
<1> QED
  BY <1>1, <1>2 DEF Init, TypeInv, TypeOK

(* The steps that reach the kernel: its own, and a modprobe -r with or     *)
(* without a helper above it.                                              *)
LEMMA TypeKernel ==
    ASSUME TypeInv, Kernel \/ HelperUnloads \/ \E n \in Names : Survivor(n)
    PROVE  TypeInv'
<1> USE DEF TypeInv, TypeOK
<1>1. KernelInv
  BY DEF KernelInv
<1>2. CASE Kernel
  BY <1>1, <1>2, KernelStepConsistent
     DEF Kernel, KernelInv, uiVars, survivorVars, historyVars
<1>3. CASE HelperUnloads
  <2>1. KernelInv'
    BY <1>1, <1>3, ModprobeConsistent DEF HelperUnloads
  <2>2. taken' \subseteq Modules
    BY <1>3 DEF HelperUnloads, KernelTypeOK
  <2> QED
    BY <1>3, <2>1, <2>2 DEF HelperUnloads, KernelInv, survivorVars
<1>4. ASSUME NEW n \in Names, Survivor(n) PROVE TypeInv'
  <2>1. KernelInv'
    <3>1. CASE ModprobeRemoves(n)
      BY <1>1, <3>1, ModprobeConsistent
    <3>2. CASE UNCHANGED kernelVars
      BY <1>1, <3>2 DEF KernelInv, kernelVars, KernelTypeOK, KernelConsistent
    <3> QED
      BY <1>4, <3>1, <3>2 DEF Survivor, ModprobeRefuses
  <2>2. strayed' \subseteq Modules
    BY <1>4 DEF Survivor, KernelTypeOK
  <2>3. surviving' \in [Names -> 0..MaxSurviving]
    <3>1. surviving[n] \in 0..MaxSurviving /\ surviving[n] > 0 /\ MaxSurviving \in Nat
      BY <1>4, DriverUnloadAssumption DEF Survivor
    <3>2. surviving[n] - 1 \in 0..MaxSurviving
      BY <3>1
    <3> QED
      BY <1>4, <3>2 DEF Survivor
  <2> QED
    BY <1>4, <2>1, <2>2, <2>3 DEF Survivor, KernelInv, uiVars, historyVars
<1> QED
  BY <1>2, <1>3, <1>4

(* Every step preserves the types and the kernel's consistency.  That one  *)
(* more modprobe fits the bound when its helper is killed is the guard of  *)
(* Confirm, so it is part of the invariant.                                *)
LEMMA TypeStep == TypeInv /\ RoomInv /\ [Next]_vars => TypeInv'
<1> SUFFICES ASSUME TypeInv, RoomInv, [Next]_vars PROVE TypeInv'
  OBVIOUS
<1>1. CASE Kernel \/ HelperUnloads \/ \E n \in Names : Survivor(n)
  BY <1>1, TypeKernel
<1>2. CASE UNCHANGED kernelVars /\ ~\E n \in Names : Survivor(n)
  <2> USE DEF TypeInv, TypeOK, kernelVars, uiVars, survivorVars, historyVars,
              KernelTypeOK, KernelConsistent
  <2>1. ASSUME NEW n \in Names, UnloadClicked(n) PROVE TypeInv'
    BY <1>2, <2>1 DEF UnloadClicked, Return
  <2>2. CASE CheckRefcount
    BY <1>2, <2>2 DEF CheckRefcount
  <2>3. CASE CheckInUse
    BY <1>2, <2>3 DEF CheckInUse
  <2>4. CASE Cancel
    BY <1>2, <2>4 DEF Cancel, Return
  <2>5. CASE Confirm
    BY <1>2, <2>5 DEF Confirm
  <2>6. CASE Authorised
    BY <1>2, <2>6 DEF Authorised
  <2>7. CASE HelperDoesNothing
    BY <1>2, <2>7 DEF HelperDoesNothing
  <2>8. CASE Timeout
    <3>1. CASE ModprobeSurvives
      <4>1. name \in Names /\ surviving[name] \in 0..MaxSurviving
            /\ surviving[name] < MaxSurviving /\ MaxSurviving \in Nat
        BY <2>8, <3>1, KernelModulesAssumption, DriverUnloadAssumption
           DEF ModprobeSurvives, Timeout, RoomInv
      <4>2. surviving[name] + 1 \in 0..MaxSurviving
        BY <4>1
      <4>3. surviving' \in [Names -> 0..MaxSurviving] /\ abandoned' \subseteq Names
        BY <3>1, <4>1, <4>2 DEF ModprobeSurvives
      <4> QED
        BY <1>2, <2>8, <3>1, <4>3 DEF Timeout, Return, ModprobeSurvives
    <3>2. CASE UNCHANGED survivorVars
      BY <1>2, <2>8, <3>2 DEF Timeout, Return
    <3> QED
      BY <2>8, <3>1, <3>2 DEF Timeout
  <2>9. CASE UnloadReturns
    BY <1>2, <2>9 DEF UnloadReturns, Return
  <2>10. CASE UNCHANGED vars
    BY <2>10 DEF vars
  <2> QED
    BY <1>1, <1>2, <2>1, <2>2, <2>3, <2>4, <2>5, <2>6, <2>7, <2>8, <2>9, <2>10 DEF Next
<1>3. \/ Kernel \/ HelperUnloads \/ \E n \in Names : Survivor(n)
      \/ UNCHANGED kernelVars
  BY DEF Next, UnloadClicked, CheckRefcount, CheckInUse, Cancel, Confirm, Authorised,
         HelperDoesNothing, ModprobeRefuses, Timeout, UnloadReturns, vars
<1> QED
  BY <1>1, <1>2, <1>3

(* The room for one more surviving modprobe lasts as long as the child.    *)
LEMMA RoomStep == TypeInv /\ RoomInv /\ [Next]_vars => RoomInv'
<1> SUFFICES ASSUME TypeInv, RoomInv, [Next]_vars PROVE RoomInv'
  OBVIOUS
<1> USE DEF RoomInv, uiVars, survivorVars
<1>1. CASE pc' = "idle"
  BY <1>1
<1>2. ASSUME NEW n \in Names, Survivor(n) PROVE RoomInv'
  <2>1. surviving \in [Names -> 0..MaxSurviving] /\ MaxSurviving \in Nat
    BY DriverUnloadAssumption DEF TypeInv, TypeOK
  <2>2. UNCHANGED <<pc, name>> /\ surviving' = [surviving EXCEPT ![n] = @ - 1]
        /\ surviving[n] > 0
    BY <1>2 DEF Survivor
  <2>3. SUFFICES ASSUME pc = "run" PROVE surviving'[name] < MaxSurviving
    BY <2>2
  <2> name \in Names /\ surviving[name] < MaxSurviving
    BY <2>3
  <2>4. CASE name = n
    <3>1. surviving'[n] = surviving[n] - 1
      BY <2>1, <2>2
    <3> QED
      BY <2>1, <2>2, <2>3, <2>4, <3>1
  <2>5. CASE name # n
    BY <2>1, <2>2, <2>3, <2>5
  <2> QED
    BY <2>4, <2>5
<1>3. CASE Confirm \/ CheckRefcount \/ CheckInUse
  BY <1>3 DEF Confirm, CheckRefcount, CheckInUse
<1>4. ASSUME NEW n \in Names, UnloadClicked(n) PROVE RoomInv'
  BY <1>4 DEF UnloadClicked, Return
<1>5. CASE UNCHANGED <<pc, name, surviving>>
  BY <1>5
<1>6. CASE Timeout
  BY <1>1, <1>5, <1>6 DEF Timeout, Return
<1>7. CASE Cancel \/ UnloadReturns
  BY <1>1, <1>7 DEF Cancel, UnloadReturns, Return
<1>8. CASE Kernel \/ Authorised \/ HelperUnloads \/ HelperDoesNothing \/ UNCHANGED vars
  BY <1>5, <1>8 DEF Kernel, Authorised, HelperUnloads, HelperDoesNothing, vars
<1> QED
  BY <1>2, <1>3, <1>4, <1>6, <1>7, <1>8 DEF Next

LEMMA RoomInit == Init => RoomInv
BY DEF Init, RoomInv

(* Every variable of the handler, the helper and the kernel keeps its type. *)
THEOREM TypeCorrect == Spec => []TypeOK
<1>1. TypeInv => TypeOK
  BY DEF TypeInv
<1> QED
  BY <1>1, TypeInit, TypeStep, RoomInit, RoomStep, PTL DEF Spec

(* Dependency protection: no unload, whatever the code's own check missed, *)
(* takes away a module that a loaded module, a bound device or an open     *)
(* reference still needs.                                                  *)
THEOREM DependencyProtectionCorrect == Spec => []DependencyProtection
<1>1. TypeInv => DependencyProtection
  BY DEF TypeInv, DependencyProtection
<1> QED
  BY <1>1, TypeInit, TypeStep, RoomInit, RoomStep, PTL DEF Spec

-----------------------------------------------------------------------------
(* The warning and the report *)

(* A handler that has a child is waiting for it.                           *)
ChildHasHandler == helper # "none" => pc = "run"

(* After the check, a driver seen with a device under a name and on a bus  *)
(* that the check covers makes the warning "in_use".                       *)
WarningCovers ==
    pc \in {"dialog", "run"} /\ warning = "idle"
        => \A d \in seen : Bus[d] \notin ScannedBuses \/ d \notin Variants[name]

(* Nothing is taken before the helper runs, and what it has taken it       *)
(* reports as a success; once the handler has returned, its report is one  *)
(* of those that do not deny it.                                           *)
TakenKnown ==
    taken # {} => \/ pc = "run" /\ helper = "success"
                  \/ pc = "idle" /\ report \in {"raised", "error"}

HandlerInv == ChildHasHandler /\ WarningCovers /\ TakenKnown

(* The handler's invariant holds before the first click.                   *)
LEMMA HandlerInit == Init => HandlerInv
BY DEF Init, HandlerInv, ChildHasHandler, WarningCovers, TakenKnown

(* Every step preserves it; the kernel's own steps leave it alone, since   *)
(* "seen" is what the check saw and not what is bound now.                 *)
LEMMA HandlerStep == HandlerInv /\ [Next]_vars => HandlerInv'
<1> SUFFICES ASSUME HandlerInv, [Next]_vars PROVE HandlerInv'
  OBVIOUS
<1> USE DEF HandlerInv, ChildHasHandler, WarningCovers, TakenKnown,
            kernelVars, uiVars, historyVars
<1>1. CASE Kernel \/ \E n \in Names : Survivor(n)
  BY <1>1 DEF Kernel, Survivor
<1>2. ASSUME NEW n \in Names, UnloadClicked(n) PROVE HandlerInv'
  BY <1>2 DEF UnloadClicked, Return
<1>3. CASE CheckRefcount
  BY <1>3 DEF CheckRefcount
<1>4. CASE CheckInUse
  <2>1. WarningCovers'
    BY <1>4 DEF CheckInUse, mc_driver_is_in_use
  <2> QED
    BY <1>4, <2>1 DEF CheckInUse
<1>5. CASE Cancel
  BY <1>5 DEF Cancel, Return
<1>6. CASE Confirm
  BY <1>6 DEF Confirm
<1>7. CASE Authorised
  BY <1>7 DEF Authorised
<1>8. CASE HelperUnloads
  BY <1>8 DEF HelperUnloads
<1>9. CASE HelperDoesNothing
  BY <1>9 DEF HelperDoesNothing
<1>10. CASE Timeout
  BY <1>10 DEF Timeout, Return
<1>11. CASE UnloadReturns
  BY <1>11 DEF UnloadReturns, Return
<1>12. CASE UNCHANGED vars
  BY <1>12 DEF vars
<1> QED
  BY <1>1, <1>2, <1>3, <1>4, <1>5, <1>6, <1>7, <1>8, <1>9, <1>10, <1>11, <1>12 DEF Next

(* A modprobe that has lost its helper is one of a root UI that timed out, *)
(* and what it removes is what that click named, or needed by that alone.  *)
Named(m) == \E n \in abandoned : \/ m = Resolve[n]
                                 \/ Resolve[n] # None /\ m \in Uses[Resolve[n]]

SurvivorInv ==
    /\ \A n \in Names : surviving[n] > 0 => root /\ n \in abandoned
    /\ \A m \in strayed : root /\ Named(m)

LEMMA SurvivorInit == Init => SurvivorInv
BY DEF Init, SurvivorInv

LEMMA SurvivorStep == TypeInv /\ RoomInv /\ SurvivorInv /\ [Next]_vars => SurvivorInv'
<1> SUFFICES ASSUME TypeInv, RoomInv, SurvivorInv, [Next]_vars PROVE SurvivorInv'
  OBVIOUS
<1> USE DEF SurvivorInv, Named
<1>1. surviving \in [Names -> 0..MaxSurviving] /\ MaxSurviving \in Nat
  BY DriverUnloadAssumption DEF TypeInv, TypeOK
<1>2. CASE UNCHANGED survivorVars
  BY <1>2 DEF survivorVars
<1>3. CASE Timeout /\ ModprobeSurvives
  <2>1. name \in Names
    BY <1>3 DEF Timeout, RoomInv
  <2>2. /\ root /\ root' = root /\ strayed' = strayed /\ abandoned' = abandoned \cup {name}
        /\ \A n \in Names : n # name => surviving'[n] = surviving[n]
    BY <1>1, <1>3, <2>1 DEF ModprobeSurvives
  <2> QED
    BY <2>2
<1>4. ASSUME NEW n \in Names, Survivor(n) PROVE SurvivorInv'
  <2>1. /\ surviving[n] > 0 /\ abandoned' = abandoned /\ root' = root
        /\ surviving' = [surviving EXCEPT ![n] = @ - 1]
        /\ strayed' = strayed \cup (loaded \ loaded')
    BY <1>4 DEF Survivor
  <2>2. root /\ n \in abandoned
    BY <2>1
  <2>3. \A x \in Names : surviving'[x] > 0 => surviving[x] > 0
    BY <1>1, <2>1
  <2>4. ASSUME NEW m \in loaded \ loaded' PROVE Named(m)
    <3>1. ModprobeRemoves(n)
      BY <1>4, <2>4 DEF Survivor, ModprobeRefuses, kernelVars
    <3>2. Resolve[n] \in Modules /\ m \in {Resolve[n]} \cup Uses[Resolve[n]]
      BY <2>4, <3>1, ModprobeConsistent DEF TypeInv, TypeOK, KernelInv
    <3> QED
      BY <2>2, <3>2, KernelModulesAssumption DEF Names
  <2> QED
    BY <2>1, <2>2, <2>3, <2>4
<1>5. CASE UNCHANGED vars
  BY <1>2, <1>5 DEF vars
<1> QED
  BY <1>2, <1>3, <1>4, <1>5
     DEF Next, Kernel, UnloadClicked, CheckRefcount, CheckInUse, Cancel, Confirm, Authorised,
         HelperUnloads, HelperDoesNothing, Timeout, UnloadReturns

(* A module that a click has taken away is never reported as kept by a     *)
(* handler that waited for it, and one that goes when no handler waits was *)
(* named in a click of a root UI that was reported as a timeout.           *)
THEOREM RemovalReportedCorrect == Spec => []RemovalReported
<1>1. HandlerInv /\ SurvivorInv => RemovalReported
  BY DEF HandlerInv, TakenKnown, SurvivorInv, Named, RemovalReported
<1> QED
  BY <1>1, TypeInit, TypeStep, RoomInit, RoomStep, HandlerInit, HandlerStep,
     SurvivorInit, SurvivorStep, PTL DEF Spec

(* A driver loses its device to a removal confirmed as "idle" only if it   *)
(* was bound after the check, or under a name or on a bus that the check   *)
(* does not cover.                                                         *)
THEOREM UnwarnedOnlyByRaceCorrect == Spec => UnwarnedOnlyByRace
<1> DEFINE OnlyByRace ==
      taken' # taken /\ taken' # {} /\ warning = "idle"
        => \A d \in bound \ bound' :
              \/ d \notin seen
              \/ Bus[d] \notin ScannedBuses
              \/ d \notin Variants[name]
<1>1. ASSUME HandlerInv, [Next]_vars PROVE [OnlyByRace]_vars
  <2>1. CASE HelperUnloads
    <3>1. pc = "run"
      BY <1>1, <2>1 DEF HelperUnloads, HandlerInv, ChildHasHandler
    <3> QED
      BY <1>1, <3>1 DEF HandlerInv, WarningCovers
  <2>2. CASE taken' \in {taken, {}}
    BY <2>2
  <2>3. HelperUnloads \/ taken' \in {taken, {}}
    BY <1>1 DEF Next, Kernel, UnloadClicked, CheckRefcount, CheckInUse, Cancel, Confirm,
         Authorised, HelperDoesNothing, Timeout, UnloadReturns, Survivor, vars, historyVars
  <2> QED
    BY <2>1, <2>2, <2>3
<1> QED
  BY <1>1, HandlerInit, HandlerStep, PTL DEF Spec, UnwarnedOnlyByRace

-----------------------------------------------------------------------------
(* The request *)

(* Between two clicks nothing is left of the last one, and from the check  *)
(* of the reference count on there is a judgement.                         *)
RequestInv ==
    /\ pc = "idle" => name = None /\ warning = "none"
    /\ pc \in {"in_use", "dialog", "run"} => warning # "none"

LEMMA RequestInit == Init => RequestInv
BY DEF Init, RequestInv

LEMMA RequestStep == HandlerInv /\ RequestInv /\ [Next]_vars => RequestInv'
<1> SUFFICES ASSUME HandlerInv, RequestInv, [Next]_vars PROVE RequestInv'
  OBVIOUS
<1> USE DEF RequestInv
<1>1. CASE \/ Kernel \/ Authorised \/ HelperUnloads \/ HelperDoesNothing \/ UNCHANGED vars
           \/ \E n \in Names : Survivor(n)
  BY <1>1 DEF Kernel, Survivor, Authorised, HelperUnloads, HelperDoesNothing, vars, uiVars
<1>2. ASSUME NEW n \in Names, UnloadClicked(n) PROVE RequestInv'
  BY <1>2 DEF UnloadClicked, Return
<1>3. CASE CheckRefcount \/ CheckInUse \/ Confirm
  BY <1>3 DEF CheckRefcount, CheckInUse, Confirm
<1>4. CASE Cancel \/ Timeout \/ UnloadReturns
  BY <1>4 DEF Cancel, Timeout, UnloadReturns, Return
<1> QED
  BY <1>1, <1>2, <1>3, <1>4 DEF Next

(* What the handler holds of the request, where it stands.                 *)
LEMMA RequestIs ==
    /\ pc = "idle" => Request = [stage |-> "none", name |-> name, verdict |-> warning]
    /\ pc \in {"refcount", "in_use"}
          => Request = [stage |-> "asked", name |-> name, verdict |-> "none"]
    /\ pc = "dialog" => Request = [stage |-> "judged", name |-> name, verdict |-> warning]
    /\ pc = "run" /\ helper \in {"auth", "modprobe"}
          => Request = [stage |-> "confirmed", name |-> name, verdict |-> warning]
    /\ pc = "run" /\ helper \notin {"auth", "modprobe"}
          => Request = [stage |-> "spent", name |-> name, verdict |-> warning]
BY DEF Request

(* The same a step later.                                                  *)
LEMMA RequestWillBe ==
    /\ pc' = "idle" => Request' = [stage |-> "none", name |-> name', verdict |-> warning']
    /\ pc' \in {"refcount", "in_use"}
          => Request' = [stage |-> "asked", name |-> name', verdict |-> "none"]
    /\ pc' = "dialog" => Request' = [stage |-> "judged", name |-> name', verdict |-> warning']
    /\ pc' = "run" /\ helper' \in {"auth", "modprobe"}
          => Request' = [stage |-> "confirmed", name |-> name', verdict |-> warning']
    /\ pc' = "run" /\ helper' \notin {"auth", "modprobe"}
          => Request' = [stage |-> "spent", name |-> name', verdict |-> warning']
BY DEF Request

(* A judgement changes two fields of a request.                            *)
LEMMA JudgedRecord ==
    ASSUME NEW n, NEW w, NEW r, r = [stage |-> "asked", name |-> n, verdict |-> "none"]
    PROVE  [r EXCEPT !.stage = "judged", !.verdict = w]
              = [stage |-> "judged", name |-> n, verdict |-> w]
<1> DEFINE x == [r EXCEPT !.stage = "judged", !.verdict = w]
           y == [stage |-> "judged", name |-> n, verdict |-> w]
<1>1. DOMAIN x = {"stage", "name", "verdict"} /\ DOMAIN y = {"stage", "name", "verdict"}
  OBVIOUS
<1>2. x.stage = y.stage /\ x.name = y.name /\ x.verdict = y.verdict
  OBVIOUS
<1> QED
  BY <1>1, <1>2

(* What modprobe -r removes is what it was given, and nothing in use.      *)
LEMMA ModprobeIsRemoval ==
    ASSUME TypeInv, NEW n, ModprobeRemoves(n)
    PROVE  Abstract!Removes(n)
<1>1. KernelInv /\ KernelInv' /\ loaded' \subseteq loaded /\ Resolve[n] \in loaded \ loaded'
  BY ModprobeConsistent DEF TypeInv, TypeOK, KernelInv
<1> QED
  BY <1>1 DEF Abstract!Removes, KernelInv, KernelConsistent

(* What the helper removes is what was confirmed.                          *)
LEMMA RemovesConfirmed ==
    ASSUME TypeInv, HandlerInv, HelperUnloads
    PROVE  Abstract!Remove
<1>1. pc = "run" /\ pc' = "run" /\ helper = "modprobe" /\ helper' = "success"
      /\ UNCHANGED <<name, warning>>
  BY DEF HelperUnloads, HandlerInv, ChildHasHandler
<1>2. /\ Request = [stage |-> "confirmed", name |-> name, verdict |-> warning]
      /\ Request' = [stage |-> "spent", name |-> name, verdict |-> warning]
  BY <1>1, RequestIs, RequestWillBe
<1>3. Abstract!Spend /\ Request.name = name
  BY <1>2 DEF Abstract!Spend
<1>4. Abstract!Removes(name) /\ taken' = loaded \ loaded' /\ UNCHANGED survivorVars
  BY ModprobeIsRemoval DEF HelperUnloads
<1> QED
  BY <1>3, <1>4 DEF Abstract!Remove, Abstract!abandonedVars, survivorVars

LEMMA ConsentStep ==
    TypeInv /\ HandlerInv /\ RequestInv /\ [Next]_vars => [Abstract!Next]_(Abstract!vars)
<1> SUFFICES ASSUME TypeInv, HandlerInv, RequestInv, [Next]_vars PROVE Abstract!Next
  OBVIOUS
<1> USE DEF Abstract!Next, Abstract!abandonedVars
<1>1. CASE Kernel \/ UNCHANGED vars
  <2>1. UNCHANGED <<pc, name, warning, helper, taken, surviving, root, strayed>>
    BY <1>1 DEF Kernel, vars, uiVars, survivorVars, historyVars
  <2>2. Request' = Request
    BY <2>1 DEF Request
  <2> QED
    BY <2>1, <2>2 DEF Abstract!KernelChanges
<1>2. ASSUME NEW n \in Names, UnloadClicked(n) PROVE Abstract!Next
  <2>1. pc = "idle" /\ name = None /\ warning = "none" /\ taken' = {}
        /\ UNCHANGED <<loaded, bound, surviving, root, strayed>>
    BY <1>2 DEF UnloadClicked, RequestInv, kernelVars, survivorVars
  <2>2. Request = [stage |-> "none", name |-> None, verdict |-> "none"]
    BY <2>1, RequestIs
  <2>3. CASE mc_module_has_holders(n)
    <3>1. pc' = "idle" /\ name' = None /\ warning' = "none"
      BY <1>2, <2>3 DEF UnloadClicked, Return
    <3>2. Request' = [stage |-> "none", name |-> None, verdict |-> "none"]
      BY <3>1, RequestWillBe
    <3> QED
      BY <2>1, <2>2, <3>2 DEF Abstract!Refuse
  <2>4. CASE ~mc_module_has_holders(n)
    <3>1. pc' = "refcount" /\ name' = n
      BY <1>2, <2>4 DEF UnloadClicked
    <3>2. Request' = [stage |-> "asked", name |-> n, verdict |-> "none"]
      BY <3>1, RequestWillBe
    <3> QED
      BY <2>1, <2>2, <3>2 DEF Abstract!Ask
  <2> QED
    BY <2>3, <2>4
<1>3. CASE CheckRefcount
  <2>1. pc = "refcount" /\ pc' = "in_use" /\ UNCHANGED <<name, taken, surviving, root, strayed>>
    BY <1>3 DEF CheckRefcount, survivorVars, historyVars
  <2>2. Request' = Request
    BY <2>1, RequestIs, RequestWillBe
  <2> QED
    BY <2>1, <2>2 DEF Abstract!KernelChanges
<1>4. CASE CheckInUse
  <2>1. pc = "in_use" /\ pc' = "dialog"
        /\ UNCHANGED <<name, taken, loaded, bound, surviving, root, strayed>>
    BY <1>4 DEF CheckInUse, kernelVars, survivorVars
  <2>2. /\ Request = [stage |-> "asked", name |-> name, verdict |-> "none"]
        /\ Request' = [stage |-> "judged", name |-> name, verdict |-> warning']
    BY <2>1, RequestIs, RequestWillBe
  <2>3. warning' \in {"idle", "in_use"}
    BY <1>4, <2>1 DEF CheckInUse, RequestInv, TypeInv, TypeOK
  <2>4. warning' = "idle"
           => \A d \in bound : Bus[d] \in ScannedBuses => d \notin Variants[name]
    BY <1>4 DEF CheckInUse, mc_driver_is_in_use
  <2>5. Request.stage = "asked" /\ Request.name = name
    BY <2>2
  <2>6. Request' = [Request EXCEPT !.stage = "judged", !.verdict = warning']
    BY <2>2, JudgedRecord
  <2> QED
    BY <2>1, <2>3, <2>4, <2>5, <2>6 DEF Abstract!Judge
<1>5. CASE Confirm
  <2>1. pc = "dialog" /\ pc' = "run" /\ helper' = "auth"
        /\ UNCHANGED <<name, warning, taken, loaded, bound, surviving, root, strayed>>
    BY <1>5 DEF Confirm, kernelVars, survivorVars, historyVars
  <2>2. /\ Request = [stage |-> "judged", name |-> name, verdict |-> warning]
        /\ Request' = [stage |-> "confirmed", name |-> name, verdict |-> warning]
    BY <2>1, RequestIs, RequestWillBe
  <2> QED
    BY <2>1, <2>2 DEF Abstract!Confirm
<1>6. CASE Authorised \/ HelperDoesNothing
  <2>1. /\ pc = "run" /\ pc' = "run" /\ helper \in {"auth", "modprobe"}
        /\ UNCHANGED <<name, warning, taken, loaded, bound, surviving, root, strayed>>
    BY <1>6 DEF Authorised, HelperDoesNothing, ModprobeRefuses, HandlerInv, ChildHasHandler,
                kernelVars, survivorVars, historyVars
  <2>2. Request = [stage |-> "confirmed", name |-> name, verdict |-> warning]
    BY <2>1, RequestIs
  <2>3. CASE helper' \in {"auth", "modprobe"}
    <3>1. Request' = Request
      BY <2>1, <2>2, <2>3, RequestWillBe
    <3> QED
      BY <2>1, <3>1 DEF Abstract!KernelChanges
  <2>4. CASE helper' \notin {"auth", "modprobe"}
    <3>1. Request' = [stage |-> "spent", name |-> name, verdict |-> warning]
      BY <2>1, <2>4, RequestWillBe
    <3>2. Abstract!Spend
      BY <2>2, <3>1 DEF Abstract!Spend
    <3> QED
      BY <2>1, <3>2 DEF Abstract!RemoveNothing
  <2> QED
    BY <2>3, <2>4
<1>7. CASE HelperUnloads
  BY <1>7, RemovesConfirmed
<1>8. CASE /\ Cancel \/ Timeout \/ UnloadReturns
           /\ UNCHANGED survivorVars
  <2>1. UNCHANGED <<loaded, bound, taken, surviving, root, strayed>> /\ pc \in {"dialog", "run"}
    BY <1>8 DEF Cancel, Timeout, UnloadReturns, kernelVars, survivorVars
  <2>2. Request.stage # "none"
    <3>1. Request.stage \in {"judged", "confirmed", "spent"}
      BY <2>1, RequestIs
    <3> QED
      BY <3>1
  <2>3. CASE pc' = "idle"
    <3>1. name' = None /\ warning' = "none"
      BY <1>8, <2>1, <2>3 DEF Cancel, Timeout, UnloadReturns, Return
    <3>2. Request' = [stage |-> "none", name |-> None, verdict |-> "none"]
      BY <2>3, <3>1, RequestWillBe
    <3> QED
      BY <2>1, <2>2, <3>2 DEF Abstract!End, Abstract!NoRequest
  <2>4. CASE pc' # "idle"
    <3>1. UNCHANGED <<pc, name, warning, helper>>
      BY <1>8, <2>4 DEF Cancel, Timeout, UnloadReturns, Return
    <3>2. Request' = Request
      BY <3>1 DEF Request
    <3> QED
      BY <2>1, <3>2 DEF Abstract!KernelChanges
  <2> QED
    BY <2>3, <2>4
<1>9. CASE Timeout /\ ModprobeSurvives
  <2>1. /\ pc = "run" /\ helper = "modprobe" /\ root
        /\ pc' = "idle" /\ name' = None /\ warning' = "none"
        /\ surviving' = [surviving EXCEPT ![name] = @ + 1]
        /\ UNCHANGED <<loaded, bound, taken, root, strayed>>
    BY <1>9 DEF Timeout, ModprobeSurvives, Return, kernelVars
  <2>2. /\ Request = [stage |-> "confirmed", name |-> name, verdict |-> warning]
        /\ Request' = [stage |-> "none", name |-> None, verdict |-> "none"]
    BY <2>1, RequestIs, RequestWillBe
  <2>3. Request.stage = "confirmed" /\ Request.name = name
    BY <2>2
  <2> QED
    BY <2>1, <2>2, <2>3 DEF Abstract!Abandon, Abstract!NoRequest
<1>10. ASSUME NEW n \in Names, Survivor(n) PROVE Abstract!Next
  <2>1. UNCHANGED <<pc, name, warning, helper, taken>>
    BY <1>10 DEF Survivor, uiVars, historyVars
  <2>2. Request' = Request
    BY <2>1 DEF Request
  <2>3. Abstract!Removes(n) \/ UNCHANGED <<loaded, bound>>
    BY <1>10, ModprobeIsRemoval DEF Survivor, ModprobeRefuses, kernelVars
  <2>4. Abstract!CarryOut(n)
    BY <1>10, <2>1, <2>2, <2>3 DEF Abstract!CarryOut, Survivor
  <2> QED
    BY <2>4
<1>11. Timeout => UNCHANGED survivorVars \/ ModprobeSurvives
  BY DEF Timeout
<1>12. Cancel \/ UnloadReturns => UNCHANGED survivorVars
  BY DEF Cancel, UnloadReturns
<1> QED
  BY <1>1, <1>2, <1>3, <1>4, <1>5, <1>6, <1>7, <1>8, <1>9, <1>10, <1>11, <1>12 DEF Next

(* The Unload button implements Consent: on_unload_clicked removes only    *)
(* what was asked for, judged and confirmed, once for each click, and only *)
(* a root UI returns from a click with a removal of it still to come.      *)
THEOREM ImplementsConsentCorrect == Spec => ImplementsConsent
<1>1. Init => Abstract!Init
  <2> SUFFICES ASSUME Init PROVE Abstract!Init
    OBVIOUS
  <2>1. pc = "idle" /\ name = None /\ warning = "none" /\ taken = {} /\ strayed = {}
        /\ root \in BOOLEAN /\ surviving = [n \in Names |-> 0]
    BY DEF Init
  <2>2. Request = [stage |-> "none", name |-> None, verdict |-> "none"]
    BY <2>1, RequestIs
  <2> QED
    BY <2>1, <2>2 DEF Abstract!Init, Abstract!NoRequest
<1> QED
  BY <1>1, TypeInit, TypeStep, RoomInit, RoomStep, HandlerInit, HandlerStep, RequestInit, RequestStep, ConsentStep,
     PTL DEF Spec, ImplementsConsent, Abstract!Spec

=============================================================================
