\* Two sectors, memory for two, two kinds of data.
SPECIFICATION Spec
CONSTANTS
  Bank = 2
  Sectors = 2
  Data = {x, y}
  Fill = x
  None = None
INVARIANT TypeOK
PROPERTIES DataMoved Answered
