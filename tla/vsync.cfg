SPECIFICATION FairSpec
CONSTANTS
  p1 = p1
  p2 = p2
  NoProcs = NoProcs
  Procs <- TwoProcs
  frame_ns = 3
  MaxTime = 7
  MaxControls = 3
  MaxInterrupts = 2
INVARIANTS
  TypeOK
  NextVsyncAhead
  OneLateCall
PROPERTIES
  VsyncsAdvance
  VsyncsKeepComing
