------------------------------ MODULE Snapshots ------------------------------
(***************************************************************************)
(* What the list tabs of ui.py promise of their rows, without threads,     *)
(* callbacks, buttons and handlers: a refresh reads a whole list at one    *)
(* moment, lists may overtake each other, and the rows shown are one such  *)
(* list, less rows removed one by one since, never two lists in one, nor a *)
(* list that nobody has read.                                              *)
(***************************************************************************)

VARIABLES
    truth,    \* the lists that a refresh could read at this moment
    pending,  \* the lists that were read and may still be shown
    shown     \* the rows

vars == <<truth, pending, shown>>

Init == pending = {} /\ shown = {}

Read == \E list \in truth : pending' = pending \cup {list} /\ UNCHANGED shown

(* Another thread may have read the same list, and show it again.          *)
Show ==
    /\ shown' \in pending
    /\ pending' \in {pending, pending \ {shown'}}

Remove == \E row \in shown : shown' = shown \ {row} /\ UNCHANGED pending

WorldChanges == UNCHANGED <<pending, shown>>

Next == Read \/ Show \/ Remove \/ WorldChanges

Spec == Init /\ [][Next]_vars

=============================================================================
