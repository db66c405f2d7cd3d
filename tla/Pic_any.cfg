\* Every device may withdraw; the guest reprograms and resets at any time.
SPECIFICATION Spec
CONSTANTS
  NLines = 4
  Devices <- ThreeDevices
  Pulsing <- MouseAndTimer
  Withdrawing <- ThreeDevices
  Masks <- OpenOrOne
  Ocw2 <- BothEois
  Ocw3 <- PlainOcw3
  Icw1 <- CascadedIcw1
  Resets = TRUE
INVARIANT AnnouncedOutranks
PROPERTIES NestedDelivery
