SPECIFICATION FairSpec
CONSTANTS
  Day = 6
  Hour = 3
  Minute = 1
  AlarmLength = 2
  ZoneLimit = 2
  NPattern = 3
  NPalette = 2
  Sunrise = 0
  AlarmBrightness = 100
  DefaultColor = 9
  Input <- MCInput
  MaxLoopSeconds = 2
  MaxRequests = 2
INVARIANTS
  TypeOK
  ActiveIsOn
PROPERTIES
  RestoredAtEnd
  SettingsKept
  AlarmEnds
  AlarmRings
