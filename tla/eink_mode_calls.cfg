SPECIFICATION FairSpec
CONSTANTS
  h1 = h1
  h2 = h2
  NoHandle = NoHandle
  Handles <- TwoTargets
  Requests <- OneRequest
  MaxQueueDepth = 1
  SpareBuffers = 1
  ResumeFrames = 0
  MaxOffs = 1
  MaxOneFull = 1
  MaxFaults = 1
\* hwc_set may wait for ever for the fence of a dropped composition, and
\* hwc_set_power_mode for a driver buffer once all are lost.
CHECK_DEADLOCK FALSE
PROPERTIES
  OneFullQueued
  LockReleased
