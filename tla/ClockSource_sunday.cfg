SPECIFICATION Spec
CONSTANTS
  Day = 5
  RefreshHour = 3
  Offsets <- MCOneOffset
  Steps <- MCNoSteps
  FactoryZone = 1
  MaxZone = 6
  MaxTime = 20
  None = None
PROPERTY
  SundayLookup
