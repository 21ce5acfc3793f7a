----------------------------- MODULE MCConsole -----------------------------
(* Instances of the interface and the loggers for TLC.                      *)
EXTENDS Console
=============================================================================
