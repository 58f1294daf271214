------------------------------ MODULE MCDaemon ------------------------------
(* Small instances of Daemon for TLC. *)
EXTENDS DaemonClaims, TLC
CONSTANTS d1, d2, u1, u2
MCDevices == {d1, d2}
DeviceSymmetry == Permutations(MCDevices)
OneDevice == {d1}
OneUI == {u1}
TwoUIs == {u1, u2}

(* The daemon of the package runs as root without a session.  A UI it      *)
(* starts has its environment; a user's has the session's, or is started   *)
(* as root from a session that has it.                                     *)
Root    == [runtime_dir |-> None, uid |-> 0, writable |-> FALSE]
Session == [runtime_dir |-> <<"/run/user", 1000>>, uid |-> 1000, writable |-> TRUE]
RootEnv == [u \in UIs |-> Root]
MixedEnv == [u \in UIs |-> IF u = u2 THEN Session ELSE Root]
=============================================================================
