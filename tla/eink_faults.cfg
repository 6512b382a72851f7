SPECIFICATION FairSpec
CONSTANTS
  h1 = h1
  h2 = h2
  h3 = h3
  Handles <- DoubleBuffer
  NoHandle = NoHandle
  MaxQueueDepth = 1
  MaxSets = 5
  MaxFaults = 2
  MaxSpurious = 1
\* After two lost compositions the GPU can wait for ever for a fence nobody
\* will signal, and hwc_set for the GPU; a wake-up nobody signalled can leave
\* each thread waiting for the other's lock.
CHECK_DEADLOCK FALSE
INVARIANTS BufferStable DrainedReleasesAll StopsOnlyDrained
PROPERTIES QueueCompositeReturns ImplementsHandoff
