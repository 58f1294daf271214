---------------------------- MODULE MCRepository ----------------------------
(* Two modules of the disk for TLC, one of which depends on the other, so  *)
(* that a load may bring a second one with it.                             *)
EXTENDS Repository

Uas   == "uas"
Store == "usb_storage"

MCModules == {Store, Uas}
MCUses == [m \in MCModules |-> {Store} \ {m}]
MCEmpty == [d \in {} |-> None]
MCVariants == [n \in MCModules |-> {n}]
MCResolve == [n \in MCModules |-> n]
=============================================================================
