---------------------------- MODULE MC_IrqFabric ----------------------------
(***************************************************************************)
(* Constants for model-checking IrqFabric: controllers of three lines, the *)
(* timer on the master's line 0 and a device on the slave's line 0, which  *)
(* are the I/O APIC's lines 2 and 3.                                       *)
(***************************************************************************)
EXTENDS IrqFabric

TimerAndDevice == {<<Master, 0>>, <<Slave, 0>>}
Timer == {<<Master, 0>>}

OpenOrClosed == {{}, Lines}
OnlyNonSpecific == {[rotate |-> FALSE, specific |-> FALSE, eoi |-> TRUE, line |-> 0]}
\* The shortest initialisation: ICW1 and ICW2.
ShortIcw1 == {[single |-> TRUE, ic4 |-> FALSE]}

\* The timer is an edge line, the device a level line.
EdgeAndLevel ==
  [l \in {2, 3} |-> [vector : {l}, masked : {FALSE, l = 3}, level : {l = 3}]]
=============================================================================
