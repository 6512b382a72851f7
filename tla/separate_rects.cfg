SPECIFICATION Spec
CONSTANTS
  Inputs <- ThreeRects
  MaxElements = 3
INVARIANTS
  SweepSeparates
  NoSplit
