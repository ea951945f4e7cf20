SPECIFICATION FairSpec
CONSTANTS
  MatrixWidth = 4
  MatrixHeight = 4
  MAX_SEGMENTS = 6
  StartX = 1
  StartY = 2
INVARIANTS
  TypeOK
  SnakeIsPath
  OneSnack
PROPERTY
  Unsteered
