SPECIFICATION FairSpec
CONSTANTS
  NDisplay = 4
  Blending <- MCBlending
  FirstDisplay = 1
  NBrightness = 2
  Level <- MCLevel2
  DefaultBrightness = 1
  Colors = {blue, red}
  FactoryColor = blue
  MaxStack = 5
  MaxPress = 2
INVARIANTS
  TypeOK
  Persisted
  IndicesInTable
  PanelFollowsSetting
  ClockIsSetUp
PROPERTIES
  Unwinds
  EventsAreRead
