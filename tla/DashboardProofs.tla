--------------------------- MODULE DashboardProofs ---------------------------
(***************************************************************************)
(* Theorems about the device list, for every set of modules and drivers    *)
(* and any number of overlapping scans.                                    *)
(***************************************************************************)
EXTENDS Dashboard, KernelModulesProofs, ListLemmas, FiniteSetTheorems

-----------------------------------------------------------------------------
(* The inductive invariant.  A list shows no name twice if every list that *)
(* a scan makes or has handed over does not; for that, a module that a     *)
(* scan has still to look at has no row there but that of a driver.  The   *)
(* lists that wait are never more than the scans there is room for.        *)

Distinct(list) == \A r, s \in list : r.name = s.name => r = s

ScanInv(s) ==
    /\ Distinct(s.rows)
    /\ s.pc = "modules" => \A r \in s.rows : r.kind = "device"
    /\ s.pc = "checks" => \A r \in s.rows : r.kind = "device" \/ r.name \notin s.mods

ListInv ==
    /\ \A i \in 1..MaxScans : ScanInv(scan[i])
    /\ \A k \in 1..Len(idle) : Distinct(idle[k])

Busy == {i \in 1..MaxScans : scan[i].pc # "free"}

RoomInv == Len(idle) + Cardinality(Busy) <= MaxScans

DashboardInv ==
    /\ TypeOK /\ KernelConsistent
    /\ ButtonHasScan /\ NoNameTwice /\ UnloadMatchesRow
    /\ ListInv /\ RoomInv

(* The counts of scans are numbers.                                        *)
LEMMA Counts ==
    ASSUME TypeOK
    PROVE  /\ Len(idle) \in Nat /\ MaxScans \in Nat \ {0}
           /\ idle \in Seq(SUBSET Rows)
           /\ IsFiniteSet(Busy) /\ Cardinality(Busy) \in Nat
<1>1. IsFiniteSet(Busy)
  <2>1. Busy \subseteq 1..MaxScans
    BY DEF Busy
  <2>2. IsFiniteSet(1..MaxScans)
    BY FS_Interval, DashboardAssumption
  <2> QED
    BY <2>1, <2>2, FS_Subset
<1> QED
  BY <1>1, FS_CardinalityType, LenProperties, DashboardAssumption DEF TypeOK

(* The window opens with one scan under way.                               *)
LEMMA DashboardInit == Init => DashboardInv
<1> SUFFICES ASSUME Init PROVE DashboardInv
  OBVIOUS
<1>1. <<>> \in Seq(SUBSET Rows) /\ Len(<<>>) = 0
  BY EmptySeq
<1>2. /\ 1 \in 1..MaxScans
      /\ scan[1] = [Free EXCEPT !.pc = "devices"]
      /\ \A i \in 1..MaxScans : i # 1 => scan[i] = Free
  BY DashboardAssumption DEF Init
<1>3. \A i \in 1..MaxScans : scan[i] \in Scans /\ scan[i].rows = {}
  BY <1>2 DEF Free, Scans
<1>4. scan \in [1..MaxScans -> Scans]
  BY <1>3 DEF Init
<1>5. Cardinality(Busy) = 1
  <2>1. Busy = {1}
    BY <1>2 DEF Busy, Free
  <2> QED
    BY <2>1, FS_Singleton
<1>6. KernelTypeOK /\ KernelConsistent
  BY DEF Init, KernelInit, KernelTypeOK, KernelConsistent
<1>7. TypeOK
  <2>1. Len(idle) <= MaxScans
    BY <1>1, DashboardAssumption DEF Init
  <2>2. /\ rows \subseteq Rows /\ selected \in Rows \cup {None} /\ btn_unload \in BOOLEAN
        /\ refresh_btn \in BOOLEAN /\ scanning \in BOOLEAN
        /\ idle \in Seq(SUBSET Rows) /\ helper = "none"
    BY <1>1 DEF Init
  <2>3. /\ loading \in Modules \cup {None} /\ announced \in Modules \cup {None}
        /\ real_driver \in Names \cup {None} /\ unloading = "no" /\ outdated = FALSE
    BY DEF Init
  <2> QED
    BY <1>4, <1>6, <2>1, <2>2, <2>3 DEF TypeOK
<1>8. ButtonHasScan
  BY <1>2 DEF Init, ButtonHasScan, Free
<1>9. NoNameTwice /\ ListInv /\ UnloadMatchesRow
  BY <1>1, <1>3 DEF Init, NoNameTwice, ListInv, ScanInv, Distinct, UnloadMatchesRow
<1>10. RoomInv
  BY <1>1, <1>5, DashboardAssumption DEF Init, RoomInv
<1> QED
  BY <1>6, <1>7, <1>8, <1>9, <1>10 DEF DashboardInv

(* The variables of the handlers, and what the unload handler has in hand. *)
HandlersOK ==
    /\ real_driver \in Names \cup {None}
    /\ unloading \in {"no", "asking", "helper", "removed", "refused"}
    /\ outdated \in BOOLEAN
    /\ loading \in Modules \cup {None}
    /\ helper \in {"none", "auth", "modprobe", "success", "failure"}
    /\ announced \in Modules \cup {None}
    /\ real_driver # None => outdated \/ \E r \in rows : r.name = real_driver

LEMMA HandlersNow == ASSUME DashboardInv PROVE HandlersOK
BY DEF DashboardInv, TypeOK, UnloadMatchesRow, HandlersOK

(* What leaves the lists and the scans alone.                              *)
LEMMA ScansUntouched ==
    ASSUME DashboardInv, UNCHANGED scanVars, (KernelTypeOK /\ KernelConsistent)', HandlersOK'
    PROVE  DashboardInv'
BY DEF DashboardInv, HandlersOK, TypeOK, ButtonHasScan, NoNameTwice, ListInv, ScanInv, Distinct,
       RoomInv, Busy, UnloadMatchesRow, listVars, scanVars

(* A scan starts: it takes a place that was free.                          *)
LEMMA RefreshKeeps ==
    ASSUME DashboardInv, refresh_devices, UNCHANGED kernelVars, HandlersOK'
    PROVE  DashboardInv'
<1> USE DEF DashboardInv
<1>1. PICK n \in 1..MaxScans : scan[n].pc = "free" /\ scan' = [scan EXCEPT ![n].pc = "devices"]
  BY DEF refresh_devices
<1>2. /\ scan' \in [1..MaxScans -> Scans]
      /\ scan'[n].pc = "devices" /\ scan'[n].rows = scan[n].rows
      /\ \A i \in 1..MaxScans : i # n => scan'[i] = scan[i]
  BY <1>1 DEF TypeOK, Scans
<1>3. UNCHANGED <<listVars, idle>> /\ refresh_btn' = FALSE /\ scanning' = TRUE
      /\ Len(idle) + Cardinality(Busy) < MaxScans
  BY DEF refresh_devices, Room, Busy
<1>4. Busy' = Busy \cup {n} /\ n \notin Busy
  BY <1>1, <1>2 DEF Busy
<1>5. Cardinality(Busy') = Cardinality(Busy) + 1
  BY <1>4, Counts, FS_AddElement
<1>6. RoomInv'
  BY <1>3, <1>5, Counts DEF RoomInv
<1>7. TypeOK'
  BY <1>2, <1>3 DEF HandlersOK, TypeOK, listVars, kernelVars, KernelTypeOK
<1>8. ButtonHasScan'
  BY <1>2, <1>3 DEF ButtonHasScan
<1>9. NoNameTwice' /\ UnloadMatchesRow' /\ KernelConsistent'
  BY <1>2, <1>3
     DEF HandlersOK, NoNameTwice, UnloadMatchesRow, listVars, kernelVars, KernelConsistent
<1>10. ListInv'
  BY <1>2, <1>3 DEF ListInv, ScanInv
<1> QED
  BY <1>6, <1>7, <1>8, <1>9, <1>10

(* The row that a check adds: no row of a driver has the module's name,    *)
(* and none of a module, for it was still to be looked at.                 *)
LEMMA RowMade ==
    ASSUME NEW s \in Scans, ScanInv(s), s.pc = "checks", NEW m \in s.mods,
           m \notin used_drivers(s), NEW kind \in {"in_use", "idle"}
    PROVE  LET t == [s EXCEPT !.mods = s.mods \ {m}, !.rows = s.rows \cup {Row(kind, m)}]
           IN  t \in Scans /\ ScanInv(t)
<1> DEFINE new == Row(kind, m)
           t   == [s EXCEPT !.mods = s.mods \ {m}, !.rows = s.rows \cup {new}]
<1>1. m \in Modules /\ new \in Rows /\ new.name = m
  BY DEF Row, Rows, Names, Scans
<1>2. \A r \in s.rows : r.name # m
  BY DEF ScanInv, used_drivers
<1> HIDE DEF new
<1>3. /\ t \in Scans /\ t.pc = "checks"
      /\ t.mods = s.mods \ {m} /\ t.rows = s.rows \cup {new}
  BY <1>1 DEF Scans
<1> HIDE DEF t
<1>4. ScanInv(t)
  BY <1>1, <1>2, <1>3 DEF ScanInv, Distinct
<1> QED
  BY <1>3, <1>4 DEF t, new

(* The steps of a scan thread in which it keeps its place.                 *)
LEMMA ScanKeeps ==
    ASSUME DashboardInv, NEW n \in 1..MaxScans,
           ScanDevices(n) \/ ScanModules(n) \/ \E m \in Modules : CheckModule(n, m)
    PROVE  DashboardInv'
<1> USE DEF DashboardInv
<1>1. /\ scan[n] \in Scans /\ ScanInv(scan[n]) /\ scan[n].pc # "free"
      /\ UNCHANGED <<kernelVars, listVars, refresh_btn, scanning, idle, unloadVars, loading,
                     helper>>
      /\ announced' \in {announced, None}
  BY DEF ScanDevices, ScanModules, CheckModule, scanFrame, TypeOK, ListInv
<1>2. /\ scan'[n] \in Scans /\ scan'[n].pc # "free" /\ ScanInv(scan'[n])
      /\ scan' = [scan EXCEPT ![n] = scan'[n]]
  <2>1. CASE ScanDevices(n)
    <3>1. PICK drivers \in mc_list_all_devices :
             scan' = [scan EXCEPT ![n].pc = "modules",
                                  ![n].rows = {Row("device", d) : d \in drivers}]
      BY <2>1 DEF ScanDevices
    <3> DEFINE made == {Row("device", d) : d \in drivers}
    <3>2. made \subseteq Rows /\ Distinct(made) /\ \A r \in made : r.kind = "device"
      <4>1. drivers \subseteq Drivers
        BY <3>1 DEF mc_list_all_devices, TypeOK, KernelTypeOK
      <4>2. \A r \in made : r \in Rows /\ r = Row("device", r.name) /\ r.kind = "device"
        BY <4>1 DEF Row, Rows, Names
      <4> HIDE DEF made
      <4> QED
        BY <4>2 DEF Distinct
    <3> HIDE DEF made
    <3>3. scan' = [scan EXCEPT ![n].pc = "modules", ![n].rows = made]
      BY <3>1 DEF made
    <3>4. scan'[n] = [scan[n] EXCEPT !.pc = "modules", !.rows = made]
          /\ scan' = [scan EXCEPT ![n] = scan'[n]]
      BY <3>3 DEF TypeOK
    <3>5. scan'[n] \in Scans /\ scan'[n].pc = "modules" /\ scan'[n].rows = made
      BY <1>1, <3>2, <3>4 DEF Scans
    <3> QED
      BY <3>2, <3>4, <3>5 DEF ScanInv
  <2>2. CASE ScanModules(n)
    <3>1. PICK read \in mc_list_loaded_modules :
             scan' = [scan EXCEPT ![n].pc = "checks", ![n].mods = read]
      BY <2>2 DEF ScanModules
    <3>2. scan'[n] = [scan[n] EXCEPT !.pc = "checks", !.mods = read]
          /\ scan' = [scan EXCEPT ![n] = scan'[n]] /\ scan[n].pc = "modules"
      BY <2>2, <3>1 DEF ScanModules, TypeOK
    <3>3. read \subseteq Modules
      BY <3>1 DEF mc_list_loaded_modules, TypeOK, KernelTypeOK
    <3>4. /\ scan'[n] \in Scans /\ scan'[n].pc = "checks" /\ scan'[n].rows = scan[n].rows
      BY <1>1, <3>2, <3>3 DEF Scans
    <3> QED
      BY <1>1, <3>2, <3>4 DEF ScanInv
  <2>3. ASSUME NEW m \in Modules, CheckModule(n, m)
        PROVE  /\ scan'[n] \in Scans /\ scan'[n].pc # "free" /\ ScanInv(scan'[n])
               /\ scan' = [scan EXCEPT ![n] = scan'[n]]
    <3> DEFINE tag == IF mc_driver_is_in_use(m) THEN "in_use" ELSE "idle"
               now == IF m \in used_drivers(scan[n]) \cup Rejected \/ mc_module_has_holders(m)
                      THEN scan[n].rows ELSE scan[n].rows \cup {Row(tag, m)}
    <3>1. /\ scan[n].pc = "checks" /\ m \in scan[n].mods
          /\ scan' = [scan EXCEPT ![n].mods = @ \ {m}, ![n].rows = now]
      BY <2>3 DEF CheckModule
    <3>2. \/ now = scan[n].rows
          \/ now = scan[n].rows \cup {Row(tag, m)} /\ m \notin used_drivers(scan[n])
      OBVIOUS
    <3>3. tag \in {"in_use", "idle"}
      OBVIOUS
    <3> HIDE DEF now, tag
    <3>4. /\ scan'[n] = [scan[n] EXCEPT !.mods = scan[n].mods \ {m}, !.rows = now]
          /\ scan' = [scan EXCEPT ![n] = scan'[n]]
      BY <1>1, <3>1 DEF TypeOK, Scans
    <3>5. scan'[n].pc = "checks"
      BY <1>1, <3>1, <3>4 DEF Scans
    <3>6. CASE now = scan[n].rows
      <4>1. /\ scan'[n].mods = scan[n].mods \ {m} /\ scan'[n].rows = scan[n].rows
            /\ scan'[n] \in Scans
        BY <1>1, <3>4, <3>6 DEF Scans
      <4> QED
        BY <1>1, <3>1, <3>4, <3>5, <4>1 DEF ScanInv
    <3>7. CASE now = scan[n].rows \cup {Row(tag, m)} /\ m \notin used_drivers(scan[n])
      <4> DEFINE t == [scan[n] EXCEPT !.mods = scan[n].mods \ {m},
                                      !.rows = scan[n].rows \cup {Row(tag, m)}]
      <4>1. t \in Scans /\ ScanInv(t)
        BY <1>1, <3>1, <3>3, <3>7, RowMade
      <4>2. scan'[n] = t
        BY <3>4, <3>7
      <4> HIDE DEF t
      <4> QED
        BY <3>4, <3>5, <4>1, <4>2
    <3> QED
      BY <3>2, <3>6, <3>7
  <2> QED
    BY <2>1, <2>2, <2>3
<1>3. /\ scan' \in [1..MaxScans -> Scans]
      /\ \A i \in 1..MaxScans : i # n => scan'[i] = scan[i]
  BY <1>2 DEF TypeOK
<1>4. Busy' = Busy
  BY <1>1, <1>2, <1>3 DEF Busy
<1>5. TypeOK'
  BY <1>1, <1>3 DEF TypeOK, listVars, kernelVars, KernelTypeOK, unloadVars
<1>6. ButtonHasScan'
  BY <1>1, <1>2 DEF ButtonHasScan
<1>7. NoNameTwice' /\ UnloadMatchesRow' /\ KernelConsistent'
  BY <1>1 DEF NoNameTwice, UnloadMatchesRow, listVars, unloadVars, kernelVars, KernelConsistent
<1>8. ListInv'
  BY <1>1, <1>2, <1>3 DEF ListInv
<1> QED
  BY <1>1, <1>4, <1>5, <1>6, <1>7, <1>8 DEF RoomInv

(* The last step of a scan thread: its place becomes that of its list.     *)
LEMMA HandOverKeeps ==
    ASSUME DashboardInv, NEW n \in 1..MaxScans, HandOver(n)
    PROVE  DashboardInv'
<1> USE DEF DashboardInv
<1>1. /\ scan[n] \in Scans /\ scan[n].pc = "checks" /\ scan[n].rows \in SUBSET Rows
      /\ scan' = [scan EXCEPT ![n] = Free]
      /\ idle' = Append(idle, scan[n].rows)
      /\ UNCHANGED <<kernelVars, listVars, refresh_btn, scanning, unloadVars, loadVars>>
  BY DEF HandOver, scanFrame, loadVars, TypeOK, Scans
<1>2. /\ idle' \in Seq(SUBSET Rows) /\ Len(idle') = Len(idle) + 1
      /\ \A k \in 1..Len(idle) : idle'[k] = idle[k]
      /\ idle'[Len(idle) + 1] = scan[n].rows
  BY <1>1, Counts, AppendProperties
<1>3. \A k \in 1..Len(idle') : k \in 1..Len(idle) \/ k = Len(idle) + 1
  BY <1>2, Counts
<1>4. Free \in Scans /\ Free.pc = "free" /\ Free.rows = {}
  BY DEF Free, Scans
<1>5. /\ scan' \in [1..MaxScans -> Scans] /\ scan'[n] = Free
      /\ \A i \in 1..MaxScans : i # n => scan'[i] = scan[i]
  BY <1>1, <1>4 DEF TypeOK
<1>6. Busy' = Busy \ {n} /\ n \in Busy
  BY <1>1, <1>4, <1>5 DEF Busy
<1>7. Cardinality(Busy') = Cardinality(Busy) - 1
  BY <1>6, Counts, FS_RemoveElement
<1>8. RoomInv' /\ Len(idle') <= MaxScans
  <2>1. Cardinality(Busy') \in Nat
    BY <1>6, Counts, FS_RemoveElement, FS_Subset, FS_CardinalityType
  <2> QED
    BY <1>2, <1>7, <2>1, Counts DEF RoomInv
<1>9. TypeOK'
  BY <1>1, <1>2, <1>5, <1>8
     DEF TypeOK, listVars, kernelVars, KernelTypeOK, unloadVars, loadVars
<1>10. idle' # <<>>
  BY <1>2, Counts, EmptySeq
<1>11. ButtonHasScan'
  BY <1>1, <1>10 DEF ButtonHasScan
<1>12. ListInv'
  BY <1>1, <1>2, <1>3, <1>4, <1>5 DEF ListInv, ScanInv, Distinct
<1> QED
  BY <1>1, <1>8, <1>9, <1>11, <1>12
     DEF NoNameTwice, UnloadMatchesRow, listVars, unloadVars, kernelVars, KernelConsistent

(* A list is shown: nothing is selected, and what the unload handler has   *)
(* in hand, if it is at a dialog, is of the list before.                   *)
LEMMA UpdateKeeps == ASSUME DashboardInv, update_dev_list PROVE DashboardInv'
<1> USE DEF DashboardInv
<1>1. /\ Head(idle) \in SUBSET Rows /\ Head(idle) = idle[1] /\ 1 \in 1..Len(idle)
      /\ Tail(idle) \in Seq(SUBSET Rows) /\ Len(Tail(idle)) = Len(idle) - 1
      /\ \A k \in 1..Len(Tail(idle)) : Tail(idle)[k] = idle[k + 1]
  BY Counts, HeadTailProperties, EmptySeq DEF update_dev_list
<1>2. \A k \in 1..Len(Tail(idle)) : k + 1 \in 1..Len(idle)
  BY <1>1, Counts
<1>3. /\ rows' = Head(idle) /\ idle' = Tail(idle) /\ refresh_btn' = TRUE /\ scanning' = FALSE
      /\ announced' \in {announced, None}
      /\ outdated' = (real_driver # None)
      /\ UNCHANGED <<kernelVars, scan, real_driver, unloading, loading, helper>>
  BY DEF update_dev_list
<1>7. /\ selected' = None
      /\ btn_unload' \in BOOLEAN
  BY DEF update_dev_list, ClearSelection, on_dev_selection_changed, TypeOK
<1>4. TypeOK'
  <2>1. /\ Len(Tail(idle)) <= MaxScans
    BY <1>1, Counts DEF TypeOK
  <2>2. KernelTypeOK' /\ announced' \in Modules \cup {None} /\ rows' \subseteq Rows
    BY <1>1, <1>3 DEF TypeOK, kernelVars, KernelTypeOK
  <2> QED
    BY <1>1, <1>3, <1>7, <2>1, <2>2 DEF TypeOK
<1>5. NoNameTwice' /\ ListInv'
  BY <1>1, <1>2, <1>3 DEF NoNameTwice, ListInv, Distinct
<1>6. RoomInv'
  BY <1>1, <1>3, Counts DEF RoomInv, Busy
<1> QED
  BY <1>3, <1>4, <1>5, <1>6, <1>7
     DEF ButtonHasScan, UnloadMatchesRow, kernelVars, KernelConsistent

(* A row is selected.                                                      *)
LEMMA SelectKeeps ==
    ASSUME DashboardInv, NEW r \in Rows, SelectRow(r)
    PROVE  DashboardInv'
<1> USE DEF DashboardInv
<1>1. /\ r \in rows /\ selected' = r
      /\ UNCHANGED <<kernelVars, rows, refresh_btn, scanning, scan, idle, unloadVars, loadVars>>
  BY DEF SelectRow, on_dev_selection_changed
<1>2. r # None => btn_unload'
  BY Zenon DEF SelectRow, on_dev_selection_changed
<1>3. btn_unload' \in BOOLEAN
  BY Zenon DEF SelectRow, on_dev_selection_changed
<1>4. TypeOK'
  BY <1>1, <1>3 DEF TypeOK, kernelVars, KernelTypeOK, unloadVars, loadVars
<1>5. UnloadMatchesRow'
  BY <1>1, <1>2 DEF UnloadMatchesRow, unloadVars
<1> QED
  BY <1>1, <1>4, <1>5
     DEF ButtonHasScan, NoNameTwice, ListInv, Distinct, RoomInv, Busy, kernelVars,
         KernelConsistent

(* What the kernel does beside the window.                                 *)
LEMMA KernelKeeps == ASSUME DashboardInv, Kernel PROVE DashboardInv'
<1>1. (KernelTypeOK /\ KernelConsistent)'
  BY KernelStepConsistent DEF DashboardInv, TypeOK, Kernel, KernelInv
<1>2. HandlersOK'
  BY HandlersNow DEF Kernel, NoteKernel, HandlersOK, unloadVars, scanVars, listVars
<1> QED
  BY <1>1, <1>2, ScansUntouched DEF Kernel

(* The unload handler: it takes a name from the row it was clicked for,    *)
(* and its modprobe -r breaks no dependency.                               *)
LEMMA UnloadKeeps ==
    ASSUME DashboardInv,
           UnloadClicked \/ UnloadConfirmed \/ HelperUnloads \/ HelperRefuses \/ UnloadReturns
    PROVE  DashboardInv'
<1> USE DEF DashboardInv
<1>1. UNCHANGED scanVars /\ UNCHANGED rows /\ UNCHANGED <<loading, helper>>
  BY DEF UnloadClicked, UnloadConfirmed, HelperUnloads, HelperRefuses, UnloadReturns,
         scanVars, listVars, loadVars
<1>2. (KernelTypeOK /\ KernelConsistent)'
  <2>1. CASE HelperUnloads
    <3>1. Resolve[real_driver] \in Modules
      BY <2>1, KernelModulesAssumption DEF HelperUnloads
    <3> QED
      BY <2>1, <3>1, RemoveConsistent DEF HelperUnloads, KernelInv, TypeOK
  <2>2. CASE UnloadClicked \/ UnloadConfirmed \/ HelperRefuses \/ UnloadReturns
    BY <2>2 DEF UnloadClicked, UnloadConfirmed, HelperRefuses, UnloadReturns, TypeOK,
                kernelVars, KernelTypeOK, KernelConsistent
  <2> QED
    BY <2>1, <2>2
<1>3. HandlersOK'
  <2>1. CASE UnloadClicked
    <3>1. selected \in rows /\ real_driver' = selected.name
      BY <2>1 DEF UnloadClicked, UnloadMatchesRow
    <3>2. real_driver' \in Names
      BY <3>1 DEF TypeOK, Rows
    <3> QED
      BY <1>1, <2>1, <3>1, <3>2, HandlersNow DEF UnloadClicked, HandlersOK, loadVars
  <2>2. CASE HelperUnloads
    BY <1>1, <2>2, HandlersNow DEF HelperUnloads, NoteKernel, HandlersOK
  <2>3. CASE UnloadConfirmed \/ HelperRefuses
    <3>1. UNCHANGED <<real_driver, outdated, announced>> /\ unloading' \in {"helper", "refused"}
      BY <2>3 DEF UnloadConfirmed, HelperRefuses, loadVars
    <3> QED
      BY <1>1, <3>1, HandlersNow DEF HandlersOK
  <2>4. CASE UnloadReturns
    BY <1>1, <2>4, HandlersNow DEF UnloadReturns, HandlersOK, loadVars
  <2> QED
    BY <2>1, <2>2, <2>3, <2>4
<1> QED
  BY <1>1, <1>2, <1>3, ScansUntouched

(* The load handler: modprobe's step is one that the kernel might take.    *)
LEMMA LoadKeeps ==
    ASSUME DashboardInv,
           \/ \E m \in Modules : LoadClicked(m)
           \/ Authorised \/ HelperLoads \/ LoadTimeout \/ LoadReturns
    PROVE  DashboardInv'
<1> USE DEF DashboardInv
<1>1. CASE (\E m \in Modules : LoadClicked(m)) \/ Authorised \/ LoadTimeout
  <2>1. HandlersOK' /\ UNCHANGED <<kernelVars, scanVars>>
    BY <1>1, HandlersNow
       DEF LoadClicked, Authorised, LoadTimeout, HandlersOK, unloadVars, scanVars, listVars
  <2> QED
    BY <2>1, ScansUntouched DEF TypeOK, kernelVars, KernelTypeOK, KernelConsistent
<1>2. CASE HelperLoads
  <2>1. (KernelTypeOK /\ KernelConsistent)'
    <3>1. CASE loading \in ValidNames /\ Load(loading)
      <4>1. loading \in Modules
        BY <3>1, KernelModulesAssumption DEF TypeOK
      <4> QED
        BY <3>1, <4>1, KernelStepConsistent DEF KernelNext, KernelInv, TypeOK
    <3>2. CASE UNCHANGED kernelVars
      BY <3>2 DEF TypeOK, kernelVars, KernelTypeOK, KernelConsistent
    <3> QED
      BY <1>2, <3>1, <3>2 DEF HelperLoads
  <2>2. HandlersOK' /\ UNCHANGED scanVars
    BY <1>2, HandlersNow DEF HelperLoads, HandlersOK, unloadVars, scanVars, listVars
  <2> QED
    BY <2>1, <2>2, ScansUntouched
<1>3. CASE LoadReturns
  <2>1. /\ Announce \in Modules \cup {None} /\ loading' = None /\ helper' = "none"
        /\ announced' \in {announced, Announce}
        /\ UNCHANGED <<kernelVars, unloadVars, rows>>
    BY <1>3 DEF LoadReturns, refresh_devices, Announce, TypeOK, KernelTypeOK, scanVars, listVars
  <2>2. HandlersOK'
    BY <2>1, HandlersNow DEF HandlersOK, unloadVars
  <2>3. CASE helper = "success"
    BY <1>3, <2>1, <2>2, <2>3, RefreshKeeps DEF LoadReturns
  <2>4. CASE helper # "success"
    BY <1>3, <2>1, <2>2, <2>4, ScansUntouched
       DEF LoadReturns, TypeOK, kernelVars, KernelTypeOK, KernelConsistent
  <2> QED
    BY <2>3, <2>4
<1> QED
  BY <1>1, <1>2, <1>3

LEMMA DashboardStep == DashboardInv /\ [Next]_vars => DashboardInv'
<1> SUFFICES ASSUME DashboardInv, [Next]_vars PROVE DashboardInv'
  OBVIOUS
<1>1. CASE RefreshClicked \/ DaemonReply
  <2>1. HandlersOK'
    BY <1>1, HandlersNow
       DEF RefreshClicked, DaemonReply, refresh_devices, HandlersOK, unloadVars, loadVars, listVars
  <2> QED
    BY <1>1, <2>1, RefreshKeeps DEF RefreshClicked, DaemonReply
<1>2. ASSUME NEW n \in 1..MaxScans, ScanThread(n) PROVE DashboardInv'
  BY <1>2, ScanKeeps, HandOverKeeps DEF ScanThread
<1>3. CASE UNCHANGED vars
  <2>1. HandlersOK'
    BY <1>3, HandlersNow DEF vars, HandlersOK, unloadVars, loadVars, scanVars, listVars
  <2> QED
    BY <1>3, <2>1, ScansUntouched
       DEF DashboardInv, TypeOK, vars, kernelVars, KernelTypeOK, KernelConsistent
<1> QED
  BY <1>1, <1>2, <1>3, KernelKeeps, UpdateKeeps, SelectKeeps, UnloadKeeps, LoadKeeps DEF Next

LEMMA DashboardInvariant == Spec => []DashboardInv
<1> QED
  BY DashboardInit, DashboardStep, PTL DEF Spec

-----------------------------------------------------------------------------
(* The device list is well typed: what a scan shows are rows of drivers    *)
(* and of modules, and no more lists wait than scans were started.         *)
THEOREM TypeCorrect == Spec => []TypeOK
<1>1. DashboardInv => TypeOK
  BY DEF DashboardInv
<1> QED
  BY <1>1, DashboardInvariant, PTL

(* The Refresh button (refresh_devices, update_dev_list) is insensitive    *)
(* only while a scan is there to bring it back.                            *)
THEOREM ButtonHasScanCorrect == Spec => []ButtonHasScan
<1>1. DashboardInv => ButtonHasScan
  BY DEF DashboardInv
<1> QED
  BY <1>1, DashboardInvariant, PTL

(* No name is shown twice (_scan_thread), whatever was bound or loaded     *)
(* between the steps of the scan.                                          *)
THEOREM NoNameTwiceCorrect == Spec => []NoNameTwice
<1>1. DashboardInv => NoNameTwice
  BY DEF DashboardInv
<1> QED
  BY <1>1, DashboardInvariant, PTL

(* The selected row (on_dev_selection_changed, update_dev_list) is one of  *)
(* the list shown, and the driver that the unload handler was clicked for  *)
(* (on_unload_clicked) has a row there until it returns, unless a scan has *)
(* replaced the list while a dialog of the handler ran the main loop.      *)
THEOREM UnloadMatchesRowCorrect == Spec => []UnloadMatchesRow
<1>1. DashboardInv => UnloadMatchesRow
  BY DEF DashboardInv
<1> QED
  BY <1>1, DashboardInvariant, PTL

-----------------------------------------------------------------------------
(* The loaded module is on its way to the list *)

(* A module is awaited only between two handlers, and while it is loaded   *)
(* and needed by no other: CheckModule would leave a held one out.         *)
AwaitedInv ==
    /\ helper # "none" => loading # None
    /\ loading # None => announced = None
    /\ announced # None => announced \in loaded /\ Holders(announced) = {}

LEMMA AwaitedStep == AwaitedInv /\ [Next]_vars => AwaitedInv'
<1> SUFFICES ASSUME AwaitedInv, [Next]_vars PROVE AwaitedInv'
  OBVIOUS
<1> USE DEF AwaitedInv, Holders
<1>1. CASE Kernel \/ HelperUnloads
  <2>1. UNCHANGED <<loading, helper>> /\ NoteKernel
    BY <1>1 DEF Kernel, HelperUnloads
  <2> QED
    BY <2>1 DEF NoteKernel
<1>2. CASE \/ RefreshClicked \/ DaemonReply \/ (\E r \in Rows : SelectRow(r))
           \/ UnloadClicked \/ UnloadConfirmed \/ HelperRefuses \/ UnloadReturns
           \/ UNCHANGED vars
  BY <1>2 DEF RefreshClicked, DaemonReply, SelectRow, UnloadClicked, UnloadConfirmed,
              HelperRefuses, UnloadReturns, vars, kernelVars, loadVars
<1>9. ASSUME NEW i \in 1..MaxScans, ScanThread(i) PROVE AwaitedInv'
  <2>1. announced' \in {announced, None} /\ UNCHANGED <<loaded, loading, helper>>
    BY <1>9 DEF ScanThread, ScanDevices, ScanModules, CheckModule, HandOver, scanFrame, kernelVars
  <2> QED
    BY <2>1
<1>3. CASE update_dev_list
  <2>1. announced' \in {announced, None} /\ UNCHANGED <<kernelVars, loading, helper>>
    BY <1>3 DEF update_dev_list
  <2> QED
    BY <2>1 DEF kernelVars
<1>4. ASSUME NEW m \in Modules, LoadClicked(m) PROVE AwaitedInv'
  BY <1>4, KernelModulesAssumption DEF LoadClicked, Names
<1>5. CASE Authorised
  BY <1>5 DEF Authorised, kernelVars
<1>6. CASE HelperLoads
  <2>1. announced = None /\ loading # None /\ UNCHANGED <<loading, announced>>
    BY <1>6 DEF HelperLoads
  <2> QED
    BY <2>1
<1>7. CASE LoadTimeout
  BY <1>7 DEF LoadTimeout, kernelVars
<1>8. CASE LoadReturns
  <2>1. loading' = None /\ helper' = "none" /\ UNCHANGED kernelVars
        /\ announced' \in {announced, Announce}
    BY <1>8 DEF LoadReturns
  <2>2. Announce # None => Announce \in loaded /\ Holders(Announce) = {}
    BY DEF Announce
  <2> QED
    BY <2>1, <2>2 DEF kernelVars
<1> QED
  BY <1>1, <1>2, <1>3, <1>4, <1>5, <1>6, <1>7, <1>8, <1>9 DEF Next

(* A scan that starts will show whatever is awaited.                       *)
LEMMA NewScanShows ==
    ASSUME DashboardInv, refresh_devices, NEW m
    PROVE  \E i \in 1..MaxScans : WillShow(scan'[i], m)
<1>1. PICK n \in 1..MaxScans : scan' = [scan EXCEPT ![n].pc = "devices"]
  BY DEF refresh_devices
<1>2. scan'[n].pc = "devices"
  BY <1>1 DEF DashboardInv, TypeOK, Scans
<1> QED
  BY <1>2 DEF WillShow

(* One that goes on still will: the module is among those that the thread  *)
(* has read, or is awaited no more, and held by none when it is looked at. *)
LEMMA ScanGoesOn ==
    ASSUME DashboardInv, NEW n \in 1..MaxScans,
           ScanDevices(n) \/ ScanModules(n) \/ \E x \in Modules : CheckModule(n, x),
           announced' = announced, announced \in loaded \ Rejected, Holders(announced) = {},
           NEW i \in 1..MaxScans, WillShow(scan[i], announced)
    PROVE  WillShow(scan'[i], announced')
<1> DEFINE m == announced
<1>1. scan \in [1..MaxScans -> Scans] /\ scan[n] \in Scans /\ m # None
  BY KernelModulesAssumption DEF DashboardInv, TypeOK, KernelTypeOK, Names
<1>2. CASE i # n
  <2>1. scan'[i] = scan[i]
    BY <1>1, <1>2 DEF ScanDevices, ScanModules, CheckModule
  <2> QED
    BY <2>1
<1>3. CASE i = n /\ ScanDevices(n)
  <2>1. PICK drivers \in mc_list_all_devices :
           scan' = [scan EXCEPT ![n].pc = "modules",
                                ![n].rows = {Row("device", d) : d \in drivers}]
    BY <1>3 DEF ScanDevices
  <2> DEFINE made == {Row("device", d) : d \in drivers}
  <2>2. scan' = [scan EXCEPT ![n].pc = "modules", ![n].rows = made]
    BY <2>1
  <2> HIDE DEF made
  <2>3. scan'[n].pc = "modules"
    BY <1>1, <2>2 DEF Scans
  <2> QED
    BY <1>3, <2>3 DEF WillShow
<1>4. CASE i = n /\ ScanModules(n)
  <2>1. PICK read \in mc_list_loaded_modules :
           /\ scan' = [scan EXCEPT ![n].pc = "checks", ![n].mods = read]
           /\ announced' = IF announced \in loaded \ read THEN None ELSE announced
    BY <1>4 DEF ScanModules
  <2>2. scan'[n].pc = "checks" /\ scan'[n].mods = read /\ m \in read
    BY <1>1, <2>1 DEF Scans
  <2> QED
    BY <1>4, <2>2 DEF WillShow
<1>5. ASSUME i = n, NEW x \in Modules, CheckModule(n, x) PROVE WillShow(scan'[i], m)
  <2> DEFINE tag == IF mc_driver_is_in_use(x) THEN "in_use" ELSE "idle"
             now == IF x \in used_drivers(scan[n]) \cup Rejected \/ mc_module_has_holders(x)
                    THEN scan[n].rows ELSE scan[n].rows \cup {Row(tag, x)}
  <2>1. /\ scan[n].pc = "checks"
        /\ scan' = [scan EXCEPT ![n].mods = @ \ {x}, ![n].rows = now]
    BY <1>5 DEF CheckModule
  <2>2. scan[n].rows \subseteq now
    OBVIOUS
  <2>3. x = m => \E r \in now : r.name = m
    <3>1. CASE x = m /\ m \in used_drivers(scan[n])
      BY <2>2, <3>1 DEF used_drivers
    <3>2. CASE x = m /\ m \notin used_drivers(scan[n])
      <4>1. Row(tag, x) \in now /\ Row(tag, x).name = m
        BY <3>2 DEF Row, mc_module_has_holders
      <4> QED
        BY <4>1
    <3> QED
      BY <3>1, <3>2
  <2> HIDE DEF now
  <2>4. scan'[n].pc = "checks" /\ scan'[n].mods = scan[n].mods \ {x} /\ scan'[n].rows = now
    BY <1>1, <2>1 DEF Scans
  <2>5. m \in scan[n].mods \/ Shows(scan[n].rows, m)
    BY <1>5, <2>1 DEF WillShow
  <2>6. CASE m \in scan[n].mods /\ x # m
    BY <1>5, <2>4, <2>6 DEF WillShow
  <2>7. CASE x = m \/ Shows(scan[n].rows, m)
    <3>1. Shows(now, m)
      BY <2>2, <2>3, <2>7 DEF Shows
    <3> QED
      BY <1>5, <2>4, <3>1 DEF WillShow
  <2> QED
    BY <2>5, <2>6, <2>7
<1> QED
  BY <1>2, <1>3, <1>4, <1>5

LEMMA LoadStep ==
    DashboardInv /\ AwaitedInv /\ LoadOnItsWay /\ [Next]_vars => LoadOnItsWay'
<1> SUFFICES ASSUME DashboardInv, AwaitedInv, LoadOnItsWay, [Next]_vars,
                    announced' \notin Rejected \cup {None}
             PROVE  \/ \E i \in 1..MaxScans : WillShow(scan'[i], announced')
                    \/ \E k \in 1..Len(idle') : Shows(idle'[k], announced')
  BY DEF LoadOnItsWay, WillShow, Shows
<1>1. CASE RefreshClicked \/ DaemonReply \/ (LoadReturns /\ helper = "success")
  BY <1>1, NewScanShows DEF RefreshClicked, DaemonReply, LoadReturns
<1>2. CASE UNCHANGED <<scan, idle>> /\ announced' \in {announced, None}
  BY <1>2 DEF LoadOnItsWay
<1>3. ASSUME NEW n \in 1..MaxScans,
             ScanDevices(n) \/ ScanModules(n) \/ \E x \in Modules : CheckModule(n, x)
      PROVE  \/ \E i \in 1..MaxScans : WillShow(scan'[i], announced')
             \/ \E k \in 1..Len(idle') : Shows(idle'[k], announced')
  <2>1. UNCHANGED <<announced, idle>>
    BY <1>3 DEF ScanDevices, ScanModules, CheckModule
  <2>2. announced \in loaded \ Rejected /\ Holders(announced) = {}
    BY <2>1 DEF AwaitedInv
  <2>3. CASE \E i \in 1..MaxScans : WillShow(scan[i], announced)
    BY <1>3, <2>1, <2>2, <2>3, ScanGoesOn
  <2>4. CASE \E k \in 1..Len(idle) : Shows(idle[k], announced)
    BY <2>1, <2>4
  <2> QED
    BY <2>1, <2>2, <2>3, <2>4 DEF LoadOnItsWay
<1>4. ASSUME NEW n \in 1..MaxScans, HandOver(n)
      PROVE  \/ \E i \in 1..MaxScans : WillShow(scan'[i], announced')
             \/ \E k \in 1..Len(idle') : Shows(idle'[k], announced')
  <2>1. /\ UNCHANGED announced /\ scan[n].pc = "checks" /\ scan[n].mods = {}
        /\ scan[n].rows \in SUBSET Rows
        /\ idle' = Append(idle, scan[n].rows)
    BY <1>4 DEF HandOver, DashboardInv, TypeOK, Scans
  <2>2. /\ Len(idle') = Len(idle) + 1 /\ Len(idle) \in Nat
        /\ \A k \in 1..Len(idle) : idle'[k] = idle[k]
        /\ idle'[Len(idle) + 1] = scan[n].rows
    BY <2>1, Counts, AppendProperties DEF DashboardInv
  <2>3. Len(idle) + 1 \in 1..Len(idle') /\ \A k \in 1..Len(idle) : k \in 1..Len(idle')
    BY <2>2
  <2>4. CASE \E k \in 1..Len(idle) : Shows(idle[k], announced)
    BY <2>1, <2>2, <2>3, <2>4
  <2>5. ASSUME NEW i \in 1..MaxScans, WillShow(scan[i], announced)
        PROVE  \/ \E j \in 1..MaxScans : WillShow(scan'[j], announced')
               \/ \E k \in 1..Len(idle') : Shows(idle'[k], announced')
    <3>1. CASE i = n
      <4>1. Shows(scan[n].rows, announced)
        BY <2>1, <2>5, <3>1 DEF WillShow
      <4> QED
        BY <2>1, <2>2, <2>3, <4>1
    <3>2. CASE i # n
      <4>1. scan'[i] = scan[i]
        BY <1>4, <3>2 DEF HandOver, DashboardInv, TypeOK
      <4> QED
        BY <2>1, <2>5, <4>1
    <3> QED
      BY <3>1, <3>2
  <2> QED
    BY <2>1, <2>4, <2>5 DEF LoadOnItsWay
<1>5. CASE update_dev_list
  <2>1. UNCHANGED scan /\ announced' = announced /\ ~Shows(Head(idle), announced)
    BY <1>5 DEF update_dev_list
  <2>2. /\ Head(idle) = idle[1] /\ idle' = Tail(idle) /\ Len(idle') = Len(idle) - 1
        /\ \A k \in 1..Len(idle') : idle'[k] = idle[k + 1]
        /\ Len(idle) \in Nat
    BY <1>5, Counts, HeadTailProperties, EmptySeq DEF update_dev_list, DashboardInv
  <2>3. \A k \in 1..Len(idle) : k # 1 => k - 1 \in 1..Len(idle') /\ (k - 1) + 1 = k
    BY <2>2
  <2>4. CASE \E i \in 1..MaxScans : WillShow(scan[i], announced)
    BY <2>1, <2>4
  <2>5. ASSUME NEW k \in 1..Len(idle), Shows(idle[k], announced)
        PROVE  \E j \in 1..Len(idle') : Shows(idle'[j], announced')
    <3>1. k # 1
      BY <2>1, <2>2, <2>5
    <3>2. k - 1 \in 1..Len(idle') /\ idle'[k - 1] = idle[k]
      BY <2>2, <2>3, <3>1
    <3> QED
      BY <2>1, <2>5, <3>2
  <2> QED
    BY <2>1, <2>4, <2>5 DEF LoadOnItsWay
<1>6. \/ RefreshClicked \/ DaemonReply \/ (LoadReturns /\ helper = "success")
      \/ (\E n \in 1..MaxScans : ScanThread(n)) \/ update_dev_list
      \/ UNCHANGED <<scan, idle>> /\ announced' \in {announced, None}
  <2>1. CASE Kernel \/ HelperUnloads
    BY <2>1 DEF Kernel, HelperUnloads, NoteKernel, scanVars
  <2>2. CASE \/ UnloadClicked \/ UnloadConfirmed \/ HelperRefuses \/ UnloadReturns
             \/ (\E r \in Rows : SelectRow(r)) \/ (\E m \in Modules : LoadClicked(m))
             \/ Authorised \/ HelperLoads \/ LoadTimeout \/ LoadReturns \/ UNCHANGED vars
    BY <2>2 DEF UnloadClicked, UnloadConfirmed, HelperRefuses, UnloadReturns, SelectRow,
                LoadClicked, Authorised, HelperLoads, LoadTimeout, LoadReturns, vars, scanVars,
                loadVars
  <2> QED
    BY <2>1, <2>2 DEF Next
<1> QED
  BY <1>1, <1>2, <1>3, <1>4, <1>5, <1>6 DEF ScanThread

(* While the module last reported as loaded (on_repo_load_clicked) is      *)
(* awaited in the list, a scan that will show it (_scan_thread) or a list  *)
(* that does (update_dev_list) is on its way: what AcceptedLoadAppears     *)
(* says, but for the fairness that makes threads run.                      *)
THEOREM LoadOnItsWayCorrect == Spec => []LoadOnItsWay
<1>1. Init => AwaitedInv /\ LoadOnItsWay
  BY DEF Init, AwaitedInv, LoadOnItsWay
<1> QED
  BY <1>1, DashboardInvariant, AwaitedStep, LoadStep, PTL DEF Spec

=============================================================================
