------------------------- MODULE DriverUnloadClaims -------------------------
(***************************************************************************)
(* What README.md promises about unloading, as properties of what the code *)
(* does.                                                                   *)
(***************************************************************************)
EXTENDS DriverUnload

(* README.md:14: hardware detection "prevents the accidental unloading of  *)
(* drivers currently in use by peripheral devices"; so a module that       *)
(* drives a device goes only after the "IN USE" warning was confirmed.     *)
HardwareLocking ==
    [][taken' # taken /\ bound' # bound => warning = "in_use"]_vars

(* README.md:67: the Restore tab "keeps a history of all modules unloaded  *)
(* during the session".                                                    *)
HistoryComplete ==
    pc = "idle" => \A m \in taken \ loaded : \E n \in restore_modules_store : Resolve[n] = m

=============================================================================
