----------------------------- MODULE Repository -----------------------------
(***************************************************************************)
(* The "Available Modules" tab of ui.py: the list of the modules that are  *)
(* on the disk and not loaded, the threads that read it again, the         *)
(* selection under the filters, and the Load button.  Each thread reads    *)
(* the loaded modules first and walks the disk after; any number of them   *)
(* overlap, and nothing else updates the list but the removal of the row   *)
(* of a module loaded from here.                                           *)
(***************************************************************************)
EXTENDS KernelModules, SequencesExt

CONSTANTS
    OnDisk,      \* the modules with a file under the seven bus directories
    MaxRefresh   \* bound: refreshes between their start and the list's update

ASSUME RepositoryAssumption ==
    /\ OnDisk \subseteq Modules
    /\ MaxRefresh \in Nat \ {0}

VARIABLES
    repo_store,     \* the rows
    selected,       \* the selected row, among those the filters show
    btn_repo_load,  \* the Load button is sensitive
    timer,          \* the first refresh is still to come
    starting,       \* threads that have not read the loaded modules yet
    walking,        \* what threads that walk the disk will hand over
    idle,           \* GLib.idle_add: lists waiting for _update_repo_ui
    loading,        \* the module the running load handler was clicked for
    helper,         \* its pkexec child
    unread,         \* history: the rows whose module the read of /proc/modules
                    \* for the list shown left out, or that was loaded after it
    asked           \* history: a click of Refresh, any one, after which no list
                    \* has been read and shown yet

listVars == <<repo_store, selected, btn_repo_load>>
scanVars == <<timer, starting, walking, idle>>
loadVars == <<loading, helper>>
vars     == <<kernelVars, listVars, scanVars, loadVars, unread, asked>>

(* A list on its way to the store, with its part of the history.           *)
List == [rows : SUBSET OnDisk, unread : SUBSET OnDisk, answers : BOOLEAN]

InFlight == starting + Len(walking) + Len(idle) + (IF timer THEN 1 ELSE 0)

TypeOK ==
    /\ KernelTypeOK
    /\ repo_store \subseteq OnDisk
    /\ selected \in OnDisk \cup {None}
    /\ btn_repo_load \in BOOLEAN
    /\ timer \in BOOLEAN
    /\ starting \in Nat
    /\ walking \in Seq(List)
    /\ idle \in Seq(List)
    /\ InFlight <= MaxRefresh
    /\ loading \in Modules \cup {None}
    /\ helper \in {"none", "auth", "modprobe", "success", "failure"}
    /\ unread \subseteq OnDisk
    /\ asked \in BOOLEAN

Init ==
    /\ KernelInit
    /\ repo_store = {}
    /\ selected = None
    /\ btn_repo_load = FALSE
    /\ timer = TRUE
    /\ starting = 0
    /\ walking = <<>>
    /\ idle = <<>>
    /\ loading = None
    /\ helper = "none"
    /\ unread = {}
    /\ asked = FALSE

MainLoop == loading = None

(* History: what a step of the kernel's modules adds to each list.         *)
Loaded(list) == [list EXCEPT !.unread = @ \cup (list.rows \cap (loaded' \ loaded))]

NoteLoaded ==
    /\ unread' = unread \cup (repo_store \cap (loaded' \ loaded))
    /\ walking' = [i \in DOMAIN walking |-> Loaded(walking[i])]
    /\ idle' = [i \in DOMAIN idle |-> Loaded(idle[i])]

Kernel ==
    /\ KernelNext
    /\ NoteLoaded
    /\ UNCHANGED <<listVars, timer, starting, loadVars, asked>>

-----------------------------------------------------------------------------
(* The refresh: by the timer of build_repository_tab, once, and by the     *)
(* Refresh List button, however many refreshes are on their way.           *)

refresh_repository == starting' = starting + 1

TimerFires_Repeats ==        \* variant: the callback returns True, GLib calls again
    /\ MainLoop
    /\ timer
    /\ refresh_repository
    /\ UNCHANGED <<kernelVars, listVars, timer, walking, idle, loadVars, unread, asked>>

TimerFires ==
    /\ MainLoop
    /\ timer
    /\ timer' = FALSE
    /\ refresh_repository
    /\ UNCHANGED <<kernelVars, listVars, walking, idle, loadVars, unread, asked>>

(* History: the click is the one followed, or not; lists read so far do    *)
(* not answer it.                                                          *)
Unanswering(seq) == [i \in DOMAIN seq |-> [seq[i] EXCEPT !.answers = FALSE]]

NoteClick ==
    \/ UNCHANGED <<walking, idle, asked>>
    \/ /\ ~asked
       /\ asked' = TRUE
       /\ walking' = Unanswering(walking)
       /\ idle' = Unanswering(idle)

RefreshClicked_OneAtATime ==     \* variant: a click during a refresh is ignored
    /\ MainLoop
    /\ InFlight < MaxRefresh
    /\ IF starting + Len(walking) = 0 THEN refresh_repository ELSE UNCHANGED starting
    /\ NoteClick
    /\ UNCHANGED <<kernelVars, listVars, timer, loadVars, unread>>

RefreshClicked ==
    /\ MainLoop
    /\ InFlight < MaxRefresh
    /\ refresh_repository
    /\ NoteClick
    /\ UNCHANGED <<kernelVars, listVars, timer, loadVars, unread>>

(* _refresh_repo_thread: "Get loaded modules first to exclude them", those *)
(* that the read returns; when it raises, none is excluded.                *)
ReadLoaded_NotExcluded ==        \* variant: every file of the disk gets a row
    /\ starting > 0
    /\ starting' = starting - 1
    /\ \E read \in mc_list_loaded_modules :
          walking' = Append(walking, [rows |-> OnDisk,
                                      unread |-> OnDisk \cap (loaded \ read),
                                      answers |-> asked])
    /\ UNCHANGED <<kernelVars, listVars, timer, idle, loadVars, unread, asked>>

ReadLoaded ==
    /\ starting > 0
    /\ starting' = starting - 1
    /\ \E read \in mc_list_loaded_modules :
          walking' = Append(walking, [rows |-> OnDisk \ read,
                                      unread |-> OnDisk \cap (loaded \ read),
                                      answers |-> asked])
    /\ UNCHANGED <<kernelVars, listVars, timer, idle, loadVars, unread, asked>>

(* Any thread may be the next to end its walk.                             *)
HandOver(i) ==
    /\ i \in 1..Len(walking)
    /\ idle' = Append(idle, walking[i])
    /\ walking' = RemoveAt(walking, i)
    /\ UNCHANGED <<kernelVars, listVars, timer, starting, loadVars, unread, asked>>

(* Clearing the store leaves no row selected, and the "changed" handler of *)
(* the selection the button insensitive.                                   *)
_update_repo_ui_NotCleared ==    \* variant: without repo_store.clear()
    /\ MainLoop
    /\ idle # <<>>
    /\ repo_store' = repo_store \cup Head(idle).rows
    /\ unread' = Head(idle).unread
    /\ asked' = (asked /\ ~Head(idle).answers)
    /\ idle' = Tail(idle)
    /\ selected' = None
    /\ btn_repo_load' = FALSE
    /\ UNCHANGED <<kernelVars, timer, starting, walking, loadVars>>

_update_repo_ui ==
    /\ MainLoop
    /\ idle # <<>>
    /\ repo_store' = Head(idle).rows
    /\ unread' = Head(idle).unread
    /\ asked' = (asked /\ ~Head(idle).answers)
    /\ idle' = Tail(idle)
    /\ selected' = None
    /\ btn_repo_load' = FALSE
    /\ UNCHANGED <<kernelVars, timer, starting, walking, loadVars>>

-----------------------------------------------------------------------------
(* The selection, in the main loop.                                        *)

on_repo_selection_changed(to) ==
    /\ selected' = to
    /\ btn_repo_load' = (to # None)

SelectRow(m) ==
    /\ MainLoop
    /\ m \in repo_store
    /\ on_repo_selection_changed(m)
    /\ UNCHANGED <<kernelVars, repo_store, scanVars, loadVars, unread, asked>>

(* A row that goes, from the store or from behind a filter, takes the      *)
(* selection with it; the tree view may move it to a row that stays.       *)
SelectionMoves(rows) == \E to \in rows \cup {None} : on_repo_selection_changed(to)

FilterChanged ==
    /\ MainLoop
    /\ selected # None
    /\ SelectionMoves(repo_store \ {selected})
    /\ UNCHANGED <<kernelVars, repo_store, scanVars, loadVars, unread, asked>>

-----------------------------------------------------------------------------
(* The Load button.                                                        *)

LoadClicked ==
    /\ MainLoop
    /\ btn_repo_load
    /\ selected # None
    /\ loading' = selected
    /\ helper' = "auth"
    /\ UNCHANGED <<kernelVars, listVars, scanVars, unread, asked>>

Authorised ==
    /\ helper = "auth"
    /\ helper' \in {"modprobe", "failure"}
    /\ UNCHANGED <<kernelVars, listVars, scanVars, loading, unread, asked>>

(* modprobe succeeds on a module that is loaded already.                   *)
HelperLoads ==
    /\ helper = "modprobe"
    /\ \/ loading \in ValidNames /\ Load(loading) /\ helper' = "success"
       \/ helper' = "failure" /\ UNCHANGED kernelVars
    /\ NoteLoaded
    /\ UNCHANGED <<listVars, timer, starting, loading, asked>>

LoadEnds == loading' = None /\ helper' = "none"

(* The row stays, although the module may be loaded by now.                *)
LoadTimeout ==
    /\ helper \in {"auth", "success", "failure"}
    /\ LoadEnds
    /\ UNCHANGED <<kernelVars, listVars, scanVars, unread, asked>>

LoadReturns_RowAlwaysGoes ==     \* variant: returncode not looked at
    /\ helper \in {"success", "failure"}
    /\ repo_store' = repo_store \ {loading}
    /\ SelectionMoves(repo_store')
    /\ LoadEnds
    /\ UNCHANGED <<kernelVars, scanVars, unread, asked>>

LoadReturns_SelectionStays ==    \* variant: buttons left to the next selection
    /\ helper \in {"success", "failure"}
    /\ repo_store' = IF helper = "success" THEN repo_store \ {loading} ELSE repo_store
    /\ LoadEnds
    /\ UNCHANGED <<kernelVars, selected, btn_repo_load, scanVars, unread, asked>>

LoadReturns ==
    /\ helper \in {"success", "failure"}
    /\ IF helper = "success"
       THEN /\ repo_store' = repo_store \ {loading}
            /\ SelectionMoves(repo_store')
       ELSE UNCHANGED listVars
    /\ LoadEnds
    /\ UNCHANGED <<kernelVars, scanVars, unread, asked>>

Thread == ReadLoaded \/ \E i \in 1..MaxRefresh : HandOver(i)

User == \/ RefreshClicked \/ FilterChanged \/ LoadClicked
        \/ \E m \in OnDisk : SelectRow(m)

Next == \/ Kernel \/ TimerFires \/ Thread \/ _update_repo_ui \/ User
        \/ Authorised \/ HelperLoads \/ LoadTimeout \/ LoadReturns

Spec == Init /\ [][Next]_vars

(* Threads run, the helper and the timer of run() come to an end, and the  *)
(* main loop, between two handlers, dispatches what is ready.              *)
Fairness ==
    /\ WF_vars(ReadLoaded)
    /\ \A i \in 1..MaxRefresh : SF_vars(HandOver(i))
    /\ SF_vars(_update_repo_ui) /\ SF_vars(TimerFires)
    /\ WF_vars(HelperLoads) /\ WF_vars(LoadTimeout \/ LoadReturns)

FairSpec == Spec /\ Fairness

-----------------------------------------------------------------------------
(* Properties *)

(* The list shown is wrong only about what its own thread could not know:  *)
(* a module with a row and in the kernel was left out by the read of       *)
(* /proc/modules that this list was made from, or loaded after that read,  *)
(* whichever thread's list is shown and however many loads and refreshes   *)
(* overlapped.  (The row of a module loaded from here may come back this   *)
(* way, with an older list.)                                               *)
LoadedRowUnread == repo_store \cap loaded \subseteq unread

(* Selection and button agree with the rows through refreshes, filters and *)
(* removals: Load never acts on a row that is no longer there.             *)
ButtonMatchesRow ==
    /\ btn_repo_load <=> selected # None
    /\ selected \in repo_store \cup {None}
    /\ loading # None => loading \in repo_store

(* Between two refreshes a row goes only if its module has been in the     *)
(* kernel since the list was read, or was then already and left out by the *)
(* read: a load that was refused, timed out or failed hides nothing.       *)
RowGoesOnlyIfLoaded ==
    [][idle' = idle => repo_store \ repo_store' \subseteq unread]_vars

(* While a click of Refresh List has no answer, a thread that was started  *)
(* by it or after it is on its way to the store.                           *)
AnswerOnItsWay ==
    asked => \/ starting > 0
             \/ \E l \in Range(walking) \cup Range(idle) : l.answers

(* The tab implements Snapshots: its rows are what one refresh has read,   *)
(* less the rows of modules loaded from here since.                        *)
Pending == {l.rows : l \in Range(walking) \cup Range(idle)}

Snapshot == INSTANCE Snapshots WITH
    truth   <- {OnDisk \ read : read \in mc_list_loaded_modules},
    pending <- Pending,
    shown   <- repo_store

ImplementsSnapshots == Snapshot!Spec

(* A click of Refresh List is answered by a list read after it, although   *)
(* lists of earlier clicks may be shown first, and may overwrite it.       *)
RefreshAnswered == asked ~> ~asked

=============================================================================
