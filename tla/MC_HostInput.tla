---------------------------- MODULE MC_HostInput ----------------------------
(***************************************************************************)
(* Constants for model-checking HostInput: two keys, reports of two keys,  *)
(* one modifier and one mouse button.                                      *)
(***************************************************************************)
EXTENDS HostInput

CONSTANTS a, b

TwoKeys == {a, b}

SmallMoves == {-1, 1}
NoMoves == {}
=============================================================================
