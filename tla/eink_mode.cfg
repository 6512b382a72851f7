SPECIFICATION Spec
CONSTANTS
  h1 = h1
  h2 = h2
  NoHandle = NoHandle
  Handles <- TwoTargets
  Requests <- SomeRequests
  MaxQueueDepth = 1
  SpareBuffers = 1
  ResumeFrames = 2
  MaxOffs = 2
  MaxOneFull = 0
  MaxFaults = 1
SYMMETRY AnyTarget
\* hwc_set may wait for ever for the fence of a dropped composition, and
\* hwc_set_power_mode for a driver buffer once all are lost.
CHECK_DEADLOCK FALSE
INVARIANTS
  TypeOK
  StandbyOverwrites
  ResumeFirst
  A2EntersFull
PROPERTIES
  SettlesAfterResume
