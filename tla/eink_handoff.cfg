SPECIFICATION FairSpec
CONSTANTS
  h1 = h1
  h2 = h2
  h3 = h3
  Handles <- TripleBuffer
  NoHandle = NoHandle
  MaxQueueDepth = 1
  MaxSets = 4
  MaxFaults = 0
  MaxSpurious = 0
INVARIANTS TypeOK NoLockCycle
PROPERTIES NothingNewWithheld HwcSetReturns FencesSignal
