-------------------------- MODULE RepositoryProofs --------------------------
(***************************************************************************)
(* Theorems about the module repository, for every set of modules on the   *)
(* disk, every dependency relation and any number of overlapping           *)
(* refreshes.                                                              *)
(***************************************************************************)
EXTENDS Repository, KernelModulesProofs, ListLemmas

-----------------------------------------------------------------------------
(* The inductive invariant.  What the row of a loaded module says about    *)
(* the list shown has to hold of every list on its way to the store; that  *)
(* a row goes only for a module loaded since, or left out by the read,     *)
(* needs it of the module that the helper has just loaded.                 *)

ListInv ==
    /\ \A i \in 1..Len(walking) : walking[i].rows \cap loaded \subseteq walking[i].unread
    /\ \A i \in 1..Len(idle) : idle[i].rows \cap loaded \subseteq idle[i].unread

HelperInv ==
    /\ loading # None <=> helper # "none"
    /\ helper = "success" => loading \in unread

RepositoryInv == TypeOK /\ LoadedRowUnread /\ ListInv /\ ButtonMatchesRow /\ HelperInv

(* The counts of refreshes are numbers.                                    *)
LEMMA Counts ==
    ASSUME TypeOK
    PROVE  /\ Len(walking) \in Nat /\ Len(idle) \in Nat /\ starting \in Nat
           /\ MaxRefresh \in Nat
           /\ DOMAIN walking = 1..Len(walking) /\ DOMAIN idle = 1..Len(idle)
           /\ OnDisk \subseteq Modules /\ None \notin Modules
           /\ walking \in Seq(List) /\ idle \in Seq(List)
BY LenProperties, RepositoryAssumption, KernelModulesAssumption DEF TypeOK, Names

(* A step of the modules keeps a list right, because it notes what it adds *)
(* to the kernel.                                                          *)
LEMMA LoadedList ==
    ASSUME NEW list \in List, list.rows \cap loaded \subseteq list.unread
    PROVE  /\ Loaded(list) \in List
           /\ Loaded(list).rows \cap loaded' \subseteq Loaded(list).unread
           /\ Loaded(list).rows = list.rows
BY DEF Loaded, List

(* ... and so all the lists, and the one shown.                            *)
LEMMA NoteLoadedInv ==
    ASSUME RepositoryInv, NoteLoaded, UNCHANGED repo_store
    PROVE  /\ walking' \in Seq(List) /\ Len(walking') = Len(walking)
           /\ idle' \in Seq(List) /\ Len(idle') = Len(idle)
           /\ unread' \subseteq OnDisk /\ unread \subseteq unread'
           /\ LoadedRowUnread' /\ ListInv'
<1> USE DEF RepositoryInv
<1>1. \A i \in 1..Len(walking) :
         /\ walking[i] \in List
         /\ walking'[i] = Loaded(walking[i])
         /\ walking'[i] \in List
         /\ walking'[i].rows \cap loaded' \subseteq walking'[i].unread
  BY Counts, ElementOfSeq, LoadedList DEF NoteLoaded, ListInv
<1>2. \A i \in 1..Len(idle) :
         /\ idle[i] \in List
         /\ idle'[i] = Loaded(idle[i])
         /\ idle'[i] \in List
         /\ idle'[i].rows \cap loaded' \subseteq idle'[i].unread
  BY Counts, ElementOfSeq, LoadedList DEF NoteLoaded, ListInv
<1>3. walking' \in [1..Len(walking) -> List] /\ idle' \in [1..Len(idle) -> List]
  BY <1>1, <1>2, Counts DEF NoteLoaded
<1>4. /\ walking' \in Seq(List) /\ Len(walking') = Len(walking)
      /\ idle' \in Seq(List) /\ Len(idle') = Len(idle)
  BY <1>3, Counts, FunctionIsSeq
<1>5. unread' \subseteq OnDisk /\ unread \subseteq unread' /\ LoadedRowUnread'
  BY DEF NoteLoaded, LoadedRowUnread, TypeOK
<1> QED
  BY <1>1, <1>2, <1>4, <1>5 DEF ListInv

(* The window opens on an empty list.                                      *)
LEMMA RepositoryInit == Init => RepositoryInv
<1> SUFFICES ASSUME Init PROVE RepositoryInv
  OBVIOUS
<1>1. <<>> \in Seq(List) /\ Len(<<>>) = 0
  BY EmptySeq
<1>2. InFlight <= MaxRefresh
  BY <1>1, RepositoryAssumption DEF Init, InFlight
<1>3. KernelTypeOK
  BY DEF Init, KernelInit, KernelTypeOK
<1>4. TypeOK
  BY <1>1, <1>2, <1>3 DEF Init, TypeOK
<1>5. LoadedRowUnread /\ ListInv
  BY <1>1 DEF Init, LoadedRowUnread, ListInv
<1> QED
  BY <1>4, <1>5 DEF Init, RepositoryInv, ButtonMatchesRow, HelperInv

(* What the kernel does beside the window.                                 *)
LEMMA KernelKeeps == ASSUME RepositoryInv, Kernel PROVE RepositoryInv'
<1>1. KernelTypeOK'
  <2>1. CASE \E d \in Drivers : BindDevice(d) \/ UnbindDevice(d)
    BY <2>1 DEF BindDevice, UnbindDevice, KernelTypeOK, RepositoryInv, TypeOK
  <2>2. CASE \E m \in Modules : Open(m) \/ Close(m) \/ Load(m)
    BY <2>2, KernelModulesAssumption DEF Open, Close, Load, KernelTypeOK, RepositoryInv, TypeOK
  <2>3. CASE \E m \in Modules : Removable(m) /\ RemoveModule(m)
    BY <2>3 DEF RemoveModule, KernelTypeOK, RepositoryInv, TypeOK
  <2> QED
    BY <2>1, <2>2, <2>3 DEF Kernel, KernelNext
<1>2. NoteLoaded /\ UNCHANGED <<listVars, timer, starting, loadVars, asked>>
  BY DEF Kernel
<1>3. UNCHANGED repo_store
  BY <1>2 DEF listVars
<1>4. /\ walking' \in Seq(List) /\ Len(walking') = Len(walking)
      /\ idle' \in Seq(List) /\ Len(idle') = Len(idle)
      /\ unread' \subseteq OnDisk /\ unread \subseteq unread'
      /\ LoadedRowUnread' /\ ListInv'
  BY <1>2, <1>3, NoteLoadedInv
<1>5. TypeOK'
  BY <1>1, <1>2, <1>4 DEF RepositoryInv, TypeOK, InFlight, listVars, loadVars
<1>6. ButtonMatchesRow' /\ HelperInv'
  BY <1>2, <1>4 DEF RepositoryInv, ButtonMatchesRow, HelperInv, listVars, loadVars
<1> QED
  BY <1>4, <1>5, <1>6 DEF RepositoryInv

(* The helper loads: the module is noted in the list shown, or was before. *)
LEMMA HelperKeeps == ASSUME RepositoryInv, HelperLoads PROVE RepositoryInv'
<1>1. loading \in repo_store /\ loading \in Modules
  BY Counts DEF HelperLoads, RepositoryInv, HelperInv, ButtonMatchesRow, TypeOK
<1>2. NoteLoaded /\ UNCHANGED <<listVars, timer, starting, loading, asked>>
  BY DEF HelperLoads
<1>3. /\ walking' \in Seq(List) /\ Len(walking') = Len(walking)
      /\ idle' \in Seq(List) /\ Len(idle') = Len(idle)
      /\ unread' \subseteq OnDisk /\ unread \subseteq unread'
      /\ LoadedRowUnread' /\ ListInv'
  BY <1>2, NoteLoadedInv DEF listVars
<1>4. KernelTypeOK' /\ helper' \in {"success", "failure"}
  BY <1>1, KernelModulesAssumption
     DEF HelperLoads, Load, kernelVars, KernelTypeOK, RepositoryInv, TypeOK
<1>5. TypeOK'
  BY <1>2, <1>3, <1>4 DEF RepositoryInv, TypeOK, InFlight, listVars
<1>6. helper' = "success" => loading \in loaded'
  BY DEF HelperLoads, Load
<1>7. HelperInv'
  BY <1>1, <1>2, <1>3, <1>4, <1>6, Counts
     DEF HelperInv, LoadedRowUnread, RepositoryInv, listVars
<1>8. ButtonMatchesRow'
  BY <1>2 DEF RepositoryInv, ButtonMatchesRow, listVars
<1> QED
  BY <1>3, <1>5, <1>7, <1>8 DEF RepositoryInv

(* The list a thread starts from.                                          *)
Reading(read) == [rows |-> OnDisk \ read, unread |-> OnDisk \cap (loaded \ read),
                  answers |-> asked]

(* The threads and the lists they hand over.                               *)
LEMMA ThreadKeeps == ASSUME RepositoryInv, Thread PROVE RepositoryInv'
<1> USE DEF RepositoryInv
<1>1. CASE ReadLoaded
  <2>0. PICK read \in mc_list_loaded_modules : walking' = Append(walking, Reading(read))
    BY <1>1 DEF ReadLoaded, Reading
  <2> DEFINE l == Reading(read)
  <2>1. l \in List /\ l.rows \cap loaded \subseteq l.unread
    BY DEF Reading, List, TypeOK
  <2>2. walking' = Append(walking, l)
    BY <2>0
  <2> HIDE DEF l
  <2>3. /\ walking' \in Seq(List)
        /\ Len(walking') = Len(walking) + 1
        /\ \A i \in 1..Len(walking) : walking'[i] = walking[i]
        /\ walking'[Len(walking) + 1] = l
    BY <2>1, <2>2, Counts, AppendProperties
  <2>4. \A i \in 1..Len(walking') : i \in 1..Len(walking) \/ i = Len(walking) + 1
    BY <2>3, Counts
  <2>5. ListInv'
    BY <1>1, <2>1, <2>3, <2>4 DEF ReadLoaded, ListInv, kernelVars
  <2>6. TypeOK'
    BY <1>1, <2>3, Counts
       DEF ReadLoaded, TypeOK, InFlight, kernelVars, KernelTypeOK, listVars, loadVars
  <2> QED
    BY <1>1, <2>5, <2>6
       DEF ReadLoaded, LoadedRowUnread, ButtonMatchesRow, HelperInv, kernelVars, listVars,
           loadVars
<1>2. ASSUME NEW n \in 1..MaxRefresh, HandOver(n) PROVE RepositoryInv'
  <2>1. n \in 1..Len(walking) /\ walking[n] \in List
    BY <1>2, ElementOfSeq, Counts DEF HandOver
  <2>7. walking' = RemoveAt(walking, n)
    BY <1>2 DEF HandOver
  <2>8. /\ RemoveAt(walking, n) \in Seq(List) /\ Len(RemoveAt(walking, n)) = Len(walking) - 1
        /\ \A j \in 1..Len(RemoveAt(walking, n)) :
              \E k \in 1..Len(walking) \ {n} :
                 RemoveAt(walking, n)[j] = walking[k] /\ (k = j \/ k = j + 1)
    BY <2>1, TakenOut DEF TypeOK
  <2>2. /\ walking' \in Seq(List) /\ Len(walking') = Len(walking) - 1
        /\ \A j \in 1..Len(walking') : \E k \in 1..Len(walking) : walking'[j] = walking[k]
    BY <2>7, <2>8
  <2>3. /\ idle' \in Seq(List)
        /\ Len(idle') = Len(idle) + 1
        /\ \A i \in 1..Len(idle) : idle'[i] = idle[i]
        /\ idle'[Len(idle) + 1] = walking[n]
    BY <1>2, <2>1, Counts, AppendProperties DEF HandOver
  <2>4. \A i \in 1..Len(idle') : i \in 1..Len(idle) \/ i = Len(idle) + 1
    BY <2>3, Counts
  <2>5. ListInv'
    BY <1>2, <2>1, <2>2, <2>3, <2>4 DEF HandOver, ListInv, kernelVars
  <2>6. TypeOK'
    BY <1>2, <2>2, <2>3, Counts
       DEF HandOver, TypeOK, InFlight, kernelVars, KernelTypeOK, listVars, loadVars
  <2> QED
    BY <1>2, <2>5, <2>6
       DEF HandOver, LoadedRowUnread, ButtonMatchesRow, HelperInv, kernelVars, listVars,
           loadVars
<1> QED
  BY <1>1, <1>2 DEF Thread

(* A list is shown: nothing is selected, no handler runs.                  *)
LEMMA UpdateKeeps == ASSUME RepositoryInv, _update_repo_ui PROVE RepositoryInv'
<1> USE DEF RepositoryInv
<1>1. /\ Head(idle) \in List /\ Tail(idle) \in Seq(List)
      /\ Len(Tail(idle)) = Len(idle) - 1
      /\ \A i \in 1..Len(Tail(idle)) : Tail(idle)[i] = idle[i + 1]
  BY Counts, HeadTailProperties DEF _update_repo_ui
<1>2. 1 \in 1..Len(idle) /\ Head(idle) = idle[1]
      /\ \A i \in 1..Len(Tail(idle)) : i + 1 \in 1..Len(idle)
  BY <1>1, Counts, EmptySeq DEF _update_repo_ui
<1>3. LoadedRowUnread' /\ ListInv'
  BY <1>1, <1>2 DEF _update_repo_ui, LoadedRowUnread, ListInv, kernelVars
<1>4. InFlight' <= MaxRefresh
  BY <1>1, Counts DEF _update_repo_ui, TypeOK, InFlight
<1>5. Head(idle).rows \subseteq OnDisk /\ Head(idle).unread \subseteq OnDisk
      /\ Head(idle).answers \in BOOLEAN
  BY <1>1 DEF List
<1>6. KernelTypeOK'
  BY DEF _update_repo_ui, TypeOK, kernelVars, KernelTypeOK
<1>7. TypeOK'
  BY <1>1, <1>4, <1>5, <1>6 DEF _update_repo_ui, TypeOK, loadVars
<1> QED
  BY <1>3, <1>7 DEF _update_repo_ui, ButtonMatchesRow, HelperInv, MainLoop, loadVars

(* A click of Refresh, whether it is the one followed or not.              *)
LEMMA RefreshKeeps == ASSUME RepositoryInv, RefreshClicked PROVE RepositoryInv'
<1> USE DEF RepositoryInv
<1>1. \A i \in 1..Len(walking) : walking[i] \in List
  BY Counts, ElementOfSeq
<1>2. \A i \in 1..Len(idle) : idle[i] \in List
  BY Counts, ElementOfSeq
<1>3. /\ walking' \in Seq(List) /\ Len(walking') = Len(walking)
      /\ idle' \in Seq(List) /\ Len(idle') = Len(idle)
      /\ asked' \in BOOLEAN
      /\ ListInv'
  <2>1. CASE UNCHANGED <<walking, idle, asked>>
    BY <2>1 DEF RefreshClicked, TypeOK, ListInv, kernelVars
  <2>2. CASE walking' = Unanswering(walking) /\ idle' = Unanswering(idle) /\ asked' = TRUE
    <3>1. \A i \in 1..Len(walking) :
             /\ walking'[i] \in List
             /\ walking'[i].rows = walking[i].rows /\ walking'[i].unread = walking[i].unread
      BY <1>1, <2>2, Counts DEF Unanswering, List
    <3>2. \A i \in 1..Len(idle) :
             /\ idle'[i] \in List
             /\ idle'[i].rows = idle[i].rows /\ idle'[i].unread = idle[i].unread
      BY <1>2, <2>2, Counts DEF Unanswering, List
    <3>3. walking' \in [1..Len(walking) -> List] /\ idle' \in [1..Len(idle) -> List]
      BY <2>2, <3>1, <3>2, Counts DEF Unanswering
    <3>4. /\ walking' \in Seq(List) /\ Len(walking') = Len(walking)
          /\ idle' \in Seq(List) /\ Len(idle') = Len(idle)
      BY <3>3, Counts, FunctionIsSeq
    <3> QED
      BY <2>2, <3>1, <3>2, <3>4 DEF ListInv, RefreshClicked, kernelVars
  <2> QED
    BY <2>1, <2>2 DEF RefreshClicked, NoteClick
<1>4. TypeOK'
  BY <1>3, Counts
     DEF RefreshClicked, refresh_repository, TypeOK, InFlight, kernelVars, KernelTypeOK,
         listVars, loadVars
<1> QED
  BY <1>3, <1>4 DEF RefreshClicked, LoadedRowUnread, ButtonMatchesRow, HelperInv, kernelVars,
                    listVars, loadVars

(* The selection and the load handler, which leave the lists alone.        *)
LEMMA HandlerKeeps ==
    ASSUME RepositoryInv,
           \/ TimerFires \/ FilterChanged \/ (\E m \in OnDisk : SelectRow(m))
           \/ LoadClicked \/ Authorised \/ LoadTimeout \/ LoadReturns
    PROVE  RepositoryInv'
<1> USE DEF RepositoryInv, LoadedRowUnread, ButtonMatchesRow, HelperInv, MainLoop
<1>1. UNCHANGED <<kernelVars, walking, idle, unread, asked>>
  BY DEF TimerFires, FilterChanged, SelectRow, LoadClicked, Authorised, LoadTimeout,
         LoadReturns, scanVars
<1>2. KernelTypeOK' /\ ListInv'
  BY <1>1 DEF TypeOK, KernelTypeOK, ListInv, kernelVars
<1> USE DEF TypeOK, listVars, scanVars, loadVars, kernelVars
<1>3. CASE TimerFires
  <2>1. starting' = starting + 1 /\ InFlight' = InFlight
    BY <1>3, Counts DEF TimerFires, refresh_repository, InFlight
  <2>2. starting' \in Nat /\ timer' = FALSE /\ UNCHANGED <<listVars, walking, idle, loadVars>>
    BY <1>3, <2>1, Counts DEF TimerFires
  <2>3. TypeOK'
    BY <1>1, <1>2, <2>1, <2>2
  <2> QED
    BY <1>1, <1>2, <2>2, <2>3
<1>4. CASE \/ FilterChanged \/ (\E m \in OnDisk : SelectRow(m))
           \/ LoadClicked \/ Authorised \/ LoadTimeout \/ LoadReturns
  <2>1. InFlight' = InFlight
    <3>1. UNCHANGED <<timer, starting>>
      BY <1>4 DEF FilterChanged, SelectRow, LoadClicked, Authorised, LoadTimeout, LoadReturns
    <3> QED
      BY <1>1, <3>1 DEF InFlight
  <2>4. CASE FilterChanged
    BY <1>1, <1>2, <2>1, <2>4 DEF FilterChanged, SelectionMoves, on_repo_selection_changed
  <2>5. ASSUME NEW m \in OnDisk, SelectRow(m) PROVE RepositoryInv'
    BY <1>1, <1>2, <2>1, <2>5, Counts DEF SelectRow, on_repo_selection_changed
  <2>6. CASE LoadClicked
    BY <1>1, <1>2, <2>1, <2>6, Counts DEF LoadClicked
  <2>7. CASE Authorised
    BY <1>1, <1>2, <2>1, <2>7 DEF Authorised
  <2>8. CASE LoadTimeout
    BY <1>1, <1>2, <2>1, <2>8 DEF LoadTimeout, LoadEnds
  <2>9. CASE LoadReturns
    BY <1>1, <1>2, <2>1, <2>9, Counts
       DEF LoadReturns, LoadEnds, SelectionMoves, on_repo_selection_changed
  <2> QED
    BY <1>4, <2>4, <2>5, <2>6, <2>7, <2>8, <2>9
<1> QED
  BY <1>3, <1>4

(* Every step of the window, its threads, the helper and the kernel.       *)
LEMMA RepositoryStep == RepositoryInv /\ [Next]_vars => RepositoryInv'
<1> SUFFICES ASSUME RepositoryInv, [Next]_vars PROVE RepositoryInv'
  OBVIOUS
<1>1. CASE UNCHANGED vars
  BY <1>1 DEF vars, kernelVars, listVars, scanVars, loadVars, RepositoryInv, TypeOK, InFlight,
              KernelTypeOK, LoadedRowUnread, ListInv, ButtonMatchesRow, HelperInv
<1> QED
  BY <1>1, KernelKeeps, HelperKeeps, ThreadKeeps, UpdateKeeps, RefreshKeeps, HandlerKeeps
     DEF Next, User

(* The invariant holds in every behaviour.                                 *)
LEMMA RepositoryCorrect == Spec => []RepositoryInv
BY RepositoryInit, RepositoryStep, PTL DEF Spec

(* Every variable keeps its type, and no more refreshes are on their way   *)
(* than the bound on clicks lets start.                                    *)
THEOREM TypeCorrect == Spec => []TypeOK
BY RepositoryCorrect, PTL DEF RepositoryInv

(* However loads and refreshes overlap and whichever list comes last, a    *)
(* module with a row and in the kernel was left out by the read of         *)
(* /proc/modules that the list was made from, or loaded after that read.   *)
THEOREM LoadedRowUnreadCorrect == Spec => []LoadedRowUnread
BY RepositoryCorrect, PTL DEF RepositoryInv

(* The Load button and the handler it starts have a row that is there.     *)
THEOREM ButtonMatchesRowCorrect == Spec => []ButtonMatchesRow
BY RepositoryCorrect, PTL DEF RepositoryInv

(* Between refreshes a row goes only for a module loaded since the list    *)
(* was read, or left out by that read.                                     *)
THEOREM RowGoesOnlyIfLoadedCorrect == Spec => RowGoesOnlyIfLoaded
<1> DEFINE OnlyIfLoaded == idle' = idle => repo_store \ repo_store' \subseteq unread
<1>1. RepositoryInv /\ [Next]_vars => [OnlyIfLoaded]_vars
  <2> SUFFICES ASSUME RepositoryInv, Next, idle' = idle
               PROVE  repo_store \ repo_store' \subseteq unread
    OBVIOUS
  <2>1. CASE LoadReturns
    BY <2>1 DEF LoadReturns, RepositoryInv, HelperInv, listVars
  <2>2. CASE _update_repo_ui
    <3>1. idle # <<>> /\ idle' = Tail(idle)
      BY <2>2 DEF _update_repo_ui
    <3>2. Len(idle') = Len(idle) - 1 /\ Len(idle) \in Nat
      BY <3>1, Counts, HeadTailProperties DEF RepositoryInv
    <3> QED
      BY <3>2
  <2>3. CASE Kernel \/ TimerFires \/ Thread \/ User \/ Authorised \/ HelperLoads \/ LoadTimeout
    BY <2>3 DEF Kernel, TimerFires, Thread, ReadLoaded, HandOver, User, RefreshClicked,
                FilterChanged, LoadClicked, SelectRow, Authorised, HelperLoads, LoadTimeout,
                listVars
  <2> QED
    BY <2>1, <2>2, <2>3 DEF Next
<1> QED
  BY <1>1, RepositoryCorrect, PTL DEF Spec, RowGoesOnlyIfLoaded

-----------------------------------------------------------------------------
(* What the threads and the main loop hold *)

InHands == Range(walking) \cup Range(idle)

(* What the history adds to a list (NoteLoaded, NoteClick) changes no row, *)
(* and a module that is loaded no answer.                                  *)
LEMMA NotedSame ==
    ASSUME NEW s \in Seq(List)
    PROVE  LET now == [i \in DOMAIN s |-> Loaded(s[i])]
           IN  /\ {l.rows : l \in Range(now)} = {l.rows : l \in Range(s)}
               /\ (\E l \in Range(now) : l.answers) <=> \E l \in Range(s) : l.answers
<1> DEFINE now == [i \in DOMAIN s |-> Loaded(s[i])]
<1>1. DOMAIN s = 1..Len(s) /\ DOMAIN now = DOMAIN s
  BY LenProperties
<1>2. \A i \in DOMAIN s : s[i] \in List
  BY <1>1, ElementOfSeq
<1>3. \A i \in DOMAIN s : now[i].rows = s[i].rows /\ now[i].answers = s[i].answers
  BY <1>2 DEF Loaded, List
<1> HIDE DEF now
<1>4. /\ {l.rows : l \in Range(now)} = {l.rows : l \in Range(s)}
      /\ (\E l \in Range(now) : l.answers) <=> \E l \in Range(s) : l.answers
  BY <1>1, <1>3 DEF Range
<1> QED
  BY <1>4 DEF now

LEMMA UnansweringSame ==
    ASSUME NEW s \in Seq(List)
    PROVE  {l.rows : l \in Range(Unanswering(s))} = {l.rows : l \in Range(s)}
<1>1. DOMAIN s = 1..Len(s) /\ DOMAIN Unanswering(s) = DOMAIN s
  BY LenProperties DEF Unanswering
<1>2. \A i \in DOMAIN s : s[i] \in List
  BY <1>1, ElementOfSeq
<1>3. \A i \in DOMAIN s : Unanswering(s)[i].rows = s[i].rows
  BY <1>2 DEF Unanswering, List
<1> QED
  BY <1>1, <1>3 DEF Range

(* A thread reads a list (_refresh_repo_thread).                           *)
LEMMA ListAdded ==
    ASSUME RepositoryInv, ReadLoaded
    PROVE  /\ \E read \in mc_list_loaded_modules : InHands' = InHands \cup {Reading(read)}
           /\ UNCHANGED <<repo_store, asked>>
<1>0. PICK read \in mc_list_loaded_modules : walking' = Append(walking, Reading(read))
  BY DEF ReadLoaded, Reading
<1> DEFINE l == Reading(read)
<1>1. l \in List /\ walking' = Append(walking, l) /\ UNCHANGED <<idle, repo_store, asked>>
  BY <1>0 DEF ReadLoaded, Reading, RepositoryInv, TypeOK, List, listVars
<1> HIDE DEF l
<1>2. Range(walking') = Range(walking) \cup {l}
  BY <1>1, RangeAppended, Counts DEF RepositoryInv
<1> QED
  BY <1>1, <1>2 DEF l, InHands

(* Threads and main loop together hold what they held when a list changes  *)
(* hands.                                                                  *)
LEMMA ListChangesHands ==
    ASSUME RepositoryInv, NEW n \in 1..MaxRefresh, HandOver(n)
    PROVE  InHands' = InHands /\ UNCHANGED <<repo_store, starting, asked>>
<1>1. /\ n \in 1..Len(walking) /\ walking[n] \in List
      /\ walking' = RemoveAt(walking, n) /\ idle' = Append(idle, walking[n])
  BY ElementOfSeq, Counts DEF HandOver, RepositoryInv
<1>2. Range(walking) = Range(walking') \cup {walking[n]}
  BY <1>1, RangeRemoved, Counts DEF RepositoryInv
<1>3. Range(idle') = Range(idle) \cup {walking[n]}
  BY <1>1, RangeAppended, Counts DEF RepositoryInv
<1> QED
  BY <1>2, <1>3 DEF HandOver, listVars, InHands

(* The main loop takes one, shows it, and keeps the others.                *)
LEMMA ListTaken ==
    ASSUME RepositoryInv, _update_repo_ui
    PROVE  /\ InHands = InHands' \cup {Head(idle)}
           /\ repo_store' = Head(idle).rows
<1>1. Range(idle) = {Head(idle)} \cup Range(idle') /\ UNCHANGED walking
  BY RangeTail, Counts DEF _update_repo_ui, RepositoryInv
<1> QED
  BY <1>1 DEF _update_repo_ui, InHands

(* Every other step leaves what they hold, but for the history.            *)
LEMMA ListsStay ==
    ASSUME RepositoryInv,
           \/ Kernel \/ HelperLoads \/ TimerFires \/ RefreshClicked \/ FilterChanged
           \/ (\E m \in OnDisk : SelectRow(m))
           \/ LoadClicked \/ Authorised \/ LoadTimeout \/ LoadReturns \/ UNCHANGED vars
    PROVE  Pending' = Pending
<1>1. \/ NoteLoaded \/ NoteClick \/ UNCHANGED <<walking, idle>>
  BY DEF Kernel, HelperLoads, TimerFires, RefreshClicked, FilterChanged, SelectRow, LoadClicked,
         Authorised, LoadTimeout, LoadReturns, vars, scanVars
<1>2. CASE NoteLoaded
  <2>1. /\ walking' = [i \in DOMAIN walking |-> Loaded(walking[i])]
        /\ idle' = [i \in DOMAIN idle |-> Loaded(idle[i])]
    BY <1>2 DEF NoteLoaded
  <2>2. /\ {l.rows : l \in Range(walking')} = {l.rows : l \in Range(walking)}
        /\ {l.rows : l \in Range(idle')} = {l.rows : l \in Range(idle)}
    BY <2>1, NotedSame, Counts DEF RepositoryInv
  <2> QED
    BY <2>2 DEF Pending
<1>3. CASE UNCHANGED <<walking, idle>>
  BY <1>3 DEF Pending
<1>4. CASE NoteClick
  <2>1. CASE walking' = Unanswering(walking) /\ idle' = Unanswering(idle)
    <3>1. /\ {l.rows : l \in Range(walking')} = {l.rows : l \in Range(walking)}
          /\ {l.rows : l \in Range(idle')} = {l.rows : l \in Range(idle)}
      BY <2>1, UnansweringSame, Counts DEF RepositoryInv
    <3> QED
      BY <3>1 DEF Pending
  <2> QED
    BY <1>3, <1>4, <2>1 DEF NoteClick
<1> QED
  BY <1>1, <1>2, <1>3, <1>4

-----------------------------------------------------------------------------
(* The answer is on its way *)

LEMMA AnswerStep == RepositoryInv /\ AnswerOnItsWay /\ [Next]_vars => AnswerOnItsWay'
<1> SUFFICES ASSUME RepositoryInv, AnswerOnItsWay, [Next]_vars, asked' PROVE AnswerOnItsWay'
  BY DEF AnswerOnItsWay
<1>1. CASE RefreshClicked \/ TimerFires
  <2>1. starting \in Nat
    BY DEF RepositoryInv, TypeOK
  <2>2. starting' = starting + 1
    BY <1>1 DEF RefreshClicked, TimerFires, refresh_repository
  <2>3. starting' > 0
    BY <2>1, <2>2
  <2> QED
    BY <2>3 DEF AnswerOnItsWay
<1>2. CASE ReadLoaded
  <2>0. PICK read \in mc_list_loaded_modules : InHands' = InHands \cup {Reading(read)}
    BY <1>2, ListAdded
  <2> DEFINE l == Reading(read)
  <2>1. l \in InHands' /\ asked
    BY <1>2, <2>0, ListAdded
  <2>2. l.answers = asked
    BY DEF Reading
  <2> HIDE DEF l
  <2> QED
    BY <2>1, <2>2 DEF AnswerOnItsWay, InHands
<1>3. ASSUME NEW n \in 1..MaxRefresh, HandOver(n) PROVE AnswerOnItsWay'
  BY <1>3, ListChangesHands DEF AnswerOnItsWay, InHands
<1>4. CASE _update_repo_ui
  <2>1. UNCHANGED starting /\ asked /\ ~Head(idle).answers
    BY <1>4, Zenon DEF _update_repo_ui
  <2>2. InHands = InHands' \cup {Head(idle)}
    BY <1>4, ListTaken
  <2> QED
    BY <2>1, <2>2 DEF AnswerOnItsWay, InHands
<1>5. CASE Kernel \/ HelperLoads
  <2>1. /\ walking' = [i \in DOMAIN walking |-> Loaded(walking[i])]
        /\ idle' = [i \in DOMAIN idle |-> Loaded(idle[i])]
        /\ UNCHANGED <<starting, asked>>
    BY <1>5 DEF Kernel, HelperLoads, NoteLoaded
  <2>2. /\ (\E l \in Range(walking') : l.answers) <=> \E l \in Range(walking) : l.answers
        /\ (\E l \in Range(idle') : l.answers) <=> \E l \in Range(idle) : l.answers
    BY <2>1, NotedSame, Counts DEF RepositoryInv
  <2> QED
    BY <2>1, <2>2 DEF AnswerOnItsWay
<1>6. CASE UNCHANGED <<starting, walking, idle, asked>>
  BY <1>6 DEF AnswerOnItsWay
<1>7. \/ RefreshClicked \/ TimerFires \/ ReadLoaded \/ _update_repo_ui \/ Kernel \/ HelperLoads
      \/ UNCHANGED <<starting, walking, idle, asked>>
      \/ \E n \in 1..MaxRefresh : HandOver(n)
  BY DEF Next, Thread, User, FilterChanged, SelectRow, LoadClicked, Authorised, LoadTimeout,
         LoadReturns, vars, scanVars
<1> QED
  BY <1>1, <1>2, <1>3, <1>4, <1>5, <1>6, <1>7

(* While a click of Refresh List (refresh_repository) has no answer, a     *)
(* thread that read, or will read, after it is on its way to the store:    *)
(* what RefreshAnswered says, but for the fairness that makes threads run. *)
THEOREM AnswerOnItsWayCorrect == Spec => []AnswerOnItsWay
<1>1. Init => AnswerOnItsWay
  BY DEF Init, AnswerOnItsWay
<1> QED
  BY <1>1, RepositoryCorrect, AnswerStep, PTL DEF Spec

-----------------------------------------------------------------------------
(* The rows are one answer of the disk and the kernel *)

LEMMA SnapshotStep == RepositoryInv /\ [Next]_vars => [Snapshot!Next]_(Snapshot!vars)
<1> SUFFICES ASSUME RepositoryInv, [Next]_vars PROVE Snapshot!Next
  OBVIOUS
<1> USE DEF Snapshot!Next
<1>1. CASE ReadLoaded
  <2>0. PICK read \in mc_list_loaded_modules : InHands' = InHands \cup {Reading(read)}
    BY <1>1, ListAdded
  <2> DEFINE l == Reading(read)
  <2>1. InHands' = InHands \cup {l} /\ UNCHANGED repo_store
    BY <1>1, <2>0, ListAdded
  <2>2. l.rows \in {OnDisk \ m : m \in mc_list_loaded_modules}
    BY DEF Reading
  <2> HIDE DEF l
  <2>3. Pending' = Pending \cup {l.rows}
    BY <2>1 DEF Pending, InHands
  <2> QED
    BY <2>1, <2>2, <2>3 DEF Snapshot!Read
<1>2. ASSUME NEW n \in 1..MaxRefresh, HandOver(n) PROVE Snapshot!WorldChanges
  <2>1. Pending' = Pending
    BY <1>2, ListChangesHands DEF Pending, InHands
  <2> QED
    BY <1>2, <2>1, ListChangesHands DEF Snapshot!WorldChanges
<1>3. CASE _update_repo_ui
  <2>1. Pending = Pending' \cup {repo_store'}
    BY <1>3, ListTaken DEF Pending, InHands
  <2> QED
    BY <2>1 DEF Snapshot!Show
<1>4. CASE LoadReturns
  <2>1. Pending' = Pending
    BY <1>4, ListsStay
  <2>2. CASE helper = "success"
    <3>1. repo_store' = repo_store \ {loading} /\ loading \in repo_store
      BY <1>4, <2>2 DEF LoadReturns, RepositoryInv, HelperInv, ButtonMatchesRow
    <3> QED
      BY <2>1, <3>1 DEF Snapshot!Remove
  <2>3. CASE helper # "success"
    BY <1>4, <2>1, <2>3 DEF LoadReturns, listVars, Snapshot!WorldChanges
  <2> QED
    BY <2>2, <2>3
<1>5. CASE \/ Kernel \/ HelperLoads \/ TimerFires \/ RefreshClicked \/ FilterChanged
           \/ (\E m \in OnDisk : SelectRow(m))
           \/ LoadClicked \/ Authorised \/ LoadTimeout \/ UNCHANGED vars
  <2>1. Pending' = Pending
    BY <1>5, ListsStay
  <2>2. UNCHANGED repo_store
    BY <1>5 DEF Kernel, HelperLoads, TimerFires, RefreshClicked, FilterChanged, SelectRow,
                LoadClicked, Authorised, LoadTimeout, vars, listVars
  <2> QED
    BY <2>1, <2>2 DEF Snapshot!WorldChanges
<1> QED
  BY <1>1, <1>2, <1>3, <1>4, <1>5 DEF Next, Thread, User

(* The repository implements Snapshots: its rows (_update_repo_ui) are one *)
(* list that one _refresh_repo_thread has read, less rows that a load took *)
(* away since, in whatever order the threads and the handlers come.        *)
THEOREM ImplementsSnapshotsCorrect == Spec => ImplementsSnapshots
<1>1. Init => Snapshot!Init
  <2> SUFFICES ASSUME Init PROVE Snapshot!Init
    OBVIOUS
  <2>1. Pending = {}
    BY EmptySeq DEF Init, Pending, Range
  <2> QED
    BY <2>1 DEF Init, Snapshot!Init
<1> QED
  BY <1>1, RepositoryCorrect, SnapshotStep, PTL DEF Spec, ImplementsSnapshots, Snapshot!Spec

=============================================================================
