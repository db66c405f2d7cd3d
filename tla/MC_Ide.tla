------------------------------- MODULE MC_Ide -------------------------------
(***************************************************************************)
(* Constants for model-checking Ide, which starts from one image and one   *)
(* memory: the guest's writes and reads reach the others.                  *)
(***************************************************************************)
EXTENDS Ide

CONSTANTS x, y

MCInit ==
  /\ Init
  /\ drive.file = [s \in Sector |-> IF s % 2 = 0 THEN x ELSE y]
  /\ memory = [p \in Place |-> IF p % 2 = 0 THEN y ELSE x]

MCSpec ==
  MCInit /\ [][Next]_vars
         /\ WF_vars(Start) /\ WF_vars(Look) /\ WF_vars(Word) /\ WF_vars(ClearReset)
=============================================================================
