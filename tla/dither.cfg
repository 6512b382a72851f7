SPECIFICATION Spec
CONSTANTS
  panel_w = 6
  panel_h = 4
  word = 2
  Modes <- BothModes
  Palettes <- InkAndGrays
\* The conversion ends with the last line.
CHECK_DEADLOCK FALSE
INVARIANTS
  TypeOK
  WithinOneLevel
  InkStaysInk
PROPERTIES
  ErrorIsShared
