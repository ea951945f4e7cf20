SPECIFICATION FairSpec
CONSTANTS
  NDisplay = 4
  Blending <- MCBlending
  FirstDisplay = 1
  NBrightness = 2
  Level <- MCLevel2
  DefaultBrightness = 1
  Colors = {blue}
  FactoryColor = blue
  MaxStack = 5
  MaxPress = 1
PROPERTY
  SetupCompletes
