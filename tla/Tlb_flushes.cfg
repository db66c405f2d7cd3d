\* Two pages and a list of three, so that it fills, repeats and has holes.
SPECIFICATION Spec
CONSTANTS
  Lin = {0, 1}
  Frame = {0, 1}
  Capacity = 3
  Ptes <- SomePtes
  None = None
INVARIANTS TypeOK AllListed NothingStale
