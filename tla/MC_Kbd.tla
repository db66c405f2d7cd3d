------------------------------- MODULE MC_Kbd -------------------------------
(***************************************************************************)
(* Constants for model-checking Kbd.                                       *)
(***************************************************************************)
EXTENDS Kbd

\* One command stands for those that do the same to the state modelled:
\* "loop_aux" and "scanset" for the other two-byte ones.
SomeControls == ControlCommands \ {"gate", "loop_kbd"}
SomeKeyboard == KeyboardCommands \ {"param", "echo"}

NoneOrBoth == {{}, Queues}
=============================================================================
