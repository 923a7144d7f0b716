SPECIFICATION Spec
CONSTANTS
  Capacity = 11
  Prefix = 2
  Length <- MCLength
  MaxClients = 2
INVARIANTS
  LinesUpToTheEnd
  EveryLineCounted
PROPERTIES
  HeardWithoutGap
  LinesArrive
