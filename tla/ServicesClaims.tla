--------------------------- MODULE ServicesClaims ---------------------------
(***************************************************************************)
(* What README.md promises about services, as properties of what the code  *)
(* does.                                                                   *)
(***************************************************************************)
EXTENDS Services

(* README.md:23: "Authenticated Start, Stop, Enable, and Disable": an      *)
(* enable that reaches systemd enables the service.                        *)
EnableWorks ==
    [][helper = "bus" /\ action = "enable" /\ helper' # helper
         => service \in enabled']_vars

=============================================================================
