------------------------------- MODULE MC_Fdc -------------------------------
(***************************************************************************)
(* Constants for model-checking Fdc.                                       *)
(***************************************************************************)
EXTENDS Fdc
=============================================================================
