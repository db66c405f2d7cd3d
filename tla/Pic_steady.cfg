\* Devices that hold a request until it is accepted, no reprogramming.
SPECIFICATION FairSpec
CONSTANTS
  NLines = 4
  Devices <- AllDevices
  Pulsing <- Timer
  Withdrawing = {}
  Masks <- OpenOrOne
  Ocw2 <- OnlyNonSpecific
  Ocw3 = {}
  Icw1 = {}
  Resets = FALSE
INVARIANTS TypeOK NoLostRequest NoSpurious
PROPERTIES RequestsDrain
