SPECIFICATION FairSpec
CONSTANTS
  Day = 5
  RefreshHour = 3
  Offsets <- MCOffsets
  Steps <- MCSteps
  FactoryZone = 1
  MaxZone = 6
  MaxTime = 2
  None = None
INVARIANTS
  TypeOK
  OffsetIsApplied
  ManualZoneIsKept
PROPERTIES
  ForcedLookupIsMade
  ComesUp
