\* Reports one change at a time, each after the last was polled; motion at any time,
\* between any steps of a poll or of ConfigureMouse.
SPECIFICATION FairSpec
CONSTANTS
  a = a
  b = b
  None = None
  Keys <- TwoKeys
  NKeySlots = 2
  NMods = 1
  NButtons = 1
  Moves <- SmallMoves
  Width = 2
  MaxRel = 2
  Patient = TRUE
INVARIANTS TypeOK GuestFollows MotionKept
PROPERTIES KeysArrive
