------------------------------ MODULE MCDaemon ------------------------------
(* Connections differ only by name.                                         *)
EXTENDS Daemon, TLC

Symmetry == Permutations(Conns)
=============================================================================
