\* A block of two sectors on two tracks, memory for two, two words a sector.
SPECIFICATION MCSpec
CONSTANTS
  Sectors = 2
  BlockSize = 2
  x = x
  y = y
  Data = {x, y}
  None = None
  Heads = 2
  SectorsPerTrack = 1
  Byte = 2
  Most = 2
  Words = 2
  Multiple = 2
  Memory = 2
INVARIANT TypeOK
PROPERTIES SectorsMoved Completes
