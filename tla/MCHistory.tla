-------------------------------- MODULE MCHistory --------------------------------
(***************************************************************************)
(* The instances of MCDaemon, for the daemons with history variables.      *)
(***************************************************************************)
EXTENDS MCDaemon, DaemonHistory
=============================================================================
