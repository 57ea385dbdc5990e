------------------------------ MODULE MCDaemon ------------------------------
(* Values for model checking Daemon.                                         *)
EXTENDS Daemon

CONSTANTS t1, broken, default
=============================================================================
