-------------------------- MODULE MC_MachineLoop ---------------------------
(***************************************************************************)
(* Constants for model-checking MachineLoop are numbers, in the .cfg.      *)
(***************************************************************************)
EXTENDS MachineLoop
=============================================================================
