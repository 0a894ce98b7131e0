---------------------------- MODULE MCDaemonLock ----------------------------
(* Small instances of DaemonLock for TLC. *)
EXTENDS DaemonLock, TLC

Symmetry == Permutations(Processes)

=============================================================================
