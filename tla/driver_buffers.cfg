SPECIFICATION FairSpec
CONSTANTS
  b1 = b1
  b2 = b2
  NoBuffer = NoBuffer
  Buffers <- TwoBuffers
  MaxPictures = 4
  MaxFaults = 2
\* Once every buffer is lost, hwc_post_epd waits for ever.
CHECK_DEADLOCK FALSE
INVARIANTS
  TypeOK
  SentIsKept
  PicturesAreSent
  BuffersReturn
PROPERTIES
  PostEpdReturns
