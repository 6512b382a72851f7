SPECIFICATION Spec
CONSTANTS
  Fds <- SomeFds
  MaxOpens = 2
  MaxFrames = 2
  MaxOthers = 2
  MaxFaults = 2
\* The last device may be closed for good.
CHECK_DEADLOCK FALSE
INVARIANTS
  ClosesItsOwn
  StaysOpen
  NothingLeaks
