SPECIFICATION FairSpec
CONSTANTS
  NUM_LEDS = 1
  bytesPerPixel = 2
  EMPTYMAX = 2
  deviceID = 0
  FIRMWARE_VER = 3
  Frame <- MCFrame
  MaxLine = 7
  MaxLost = 1
INVARIANTS
  TypeOK
  InStep
PROPERTIES
  Returns
  IsRead
