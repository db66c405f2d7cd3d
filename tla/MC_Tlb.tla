------------------------------- MODULE MC_Tlb -------------------------------
(***************************************************************************)
(* Constants for model-checking Tlb.                                       *)
(***************************************************************************)
EXTENDS Tlb

Clean(frame, writable, user, global) ==
  [frame |-> frame, writable |-> writable, user |-> user,
   global |-> global, dirty |-> FALSE]

\* Absent; read-only for all; writable for all; a global one of the system.
SomePtes ==
  {None, Clean(1, FALSE, TRUE, FALSE), Clean(1, TRUE, TRUE, FALSE),
   Clean(0, TRUE, FALSE, TRUE)}
=============================================================================
