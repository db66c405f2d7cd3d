\* A report may both add and drop keys; the poll may be late.
SPECIFICATION Spec
CONSTANTS
  a = a
  b = b
  None = None
  Keys <- TwoKeys
  NKeySlots = 2
  NMods = 1
  NButtons = 1
  Moves <- NoMoves
  Width = 2
  MaxRel = 2
  Patient = FALSE
PROPERTY KeydownSent
