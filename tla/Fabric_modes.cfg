\* A guest that boots on the 8259s, turns to the APICs and may restart.
SPECIFICATION FabricFairSpec
CONSTANTS
  NLines = 3
  Devices <- TimerAndDevice
  Pulsing <- Timer
  Withdrawing <- TimerAndDevice
  Masks <- OpenOrClosed
  Ocw2 <- OnlyNonSpecific
  Ocw3 = {}
  Icw1 <- ShortIcw1
  Resets = TRUE
  IoLines = {2, 3}
  Vectors = {2, 3}
  ClassSize = 2
  Entries <- EdgeAndLevel
  OwnVectors = {2}
  Classes = {0}
  Careful = FALSE
  Restarts = FALSE
  Reinitialises = FALSE
INVARIANT SentIsHigh
PROPERTIES PicAlone FabricServes
