------------------------------ MODULE MC_Apic -------------------------------
(***************************************************************************)
(* Constants for model-checking Apic: an edge line and a level line, two   *)
(* vectors of one class and one of a higher class.                         *)
(***************************************************************************)
EXTENDS Apic

Edge  == 2
Level == 9

ThreeVectors == {4, 5, 8}

\* The edge line has two vectors to move between, the level line one.
TwoEntries ==
  [l \in {Edge, Level} |->
     IF l = Edge THEN [vector : {4, 8}, masked : BOOLEAN, level : {FALSE}]
                 ELSE [vector : {5}, masked : BOOLEAN, level : {TRUE}]]
=============================================================================
