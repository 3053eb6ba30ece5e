----------------------------- MODULE MCShutdown -----------------------------
(* Module Shutdown takes its constants from the configurations as they are.*)
EXTENDS Shutdown
=============================================================================
