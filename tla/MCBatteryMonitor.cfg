SPECIFICATION BatterySpec
CONSTANTS
  Levels = {0, 1, 2, 3}
  Window = 4
  RecentWindow = 2
  TicksPerPublish = 2
  CableStep = 2
  OffsetMax = 2
  High = 3
  Rise = 6
  Fall <- MCFall
INVARIANTS
  HoldCoversWindow
