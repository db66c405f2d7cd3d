\* Two linear pages, two physical ones that share a way, two chunks each.
SPECIFICATION Spec
CONSTANTS
  Frames = 2
  Ways = 1
  Lin = {a, b}
  Maps <- SomeMaps
  PageSize = 5
  ChunkSize = 3
  MaxTrace = 3
  Room = 2
  Stored <- TwoPlaces
  Targets = {0}
  Entries <- TwoEntries
  None = None
SYMMETRY LinSymmetry
INVARIANT TypeOK
PROPERTIES  StoresAreSeen 
