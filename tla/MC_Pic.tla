------------------------------- MODULE MC_Pic -------------------------------
(***************************************************************************)
(* Constants for model-checking Pic: controllers of four lines, so that    *)
(* the master has lines above and below its cascade line.                  *)
(***************************************************************************)
EXTENDS Pic

AllDevices == {<<Master, 1>>, <<Master, 3>>, <<Slave, 0>>, <<Slave, 1>>}
Timer == {<<Master, 1>>}
ThreeDevices == {<<Master, 3>>, <<Slave, 0>>, <<Slave, 1>>}
MouseAndTimer == {<<Master, 3>>, <<Slave, 1>>}

NonSpecificEoi == [rotate |-> FALSE, specific |-> FALSE, eoi |-> TRUE, line |-> 0]
SpecificEoi(l) == [rotate |-> FALSE, specific |-> TRUE, eoi |-> TRUE, line |-> l]

OnlyNonSpecific == {NonSpecificEoi}
BothEois == {NonSpecificEoi, SpecificEoi(1), SpecificEoi(Cascade)}

CascadedIcw1 == {[single |-> FALSE, ic4 |-> TRUE]}
PlainOcw3 == {[smm |-> FALSE]}

OpenOrOne == {{}, {1}}
NoMask == {{}}
=============================================================================
