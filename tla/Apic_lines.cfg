\* An edge line, a level line and an interrupt of the APIC's own.
SPECIFICATION ApicFairSpec
CONSTANTS
  IoLines = {2, 9}
  Vectors <- ThreeVectors
  ClassSize = 4
  Entries <- TwoEntries
  OwnVectors = {8}
  Classes = {0, 1}
  Careful = TRUE
  Restarts = TRUE
INVARIANTS ApicTypeOK NeverSpurious NothingWaits RemoteEnds
PROPERTIES RequestsServed
