----------------------------- MODULE MCConsole -----------------------------
(***************************************************************************)
(* Values for the constants of Console: those of the simulator's runs.     *)
(***************************************************************************)
EXTENDS MCSimulator, Console
=============================================================================
