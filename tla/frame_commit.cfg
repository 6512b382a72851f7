SPECIFICATION Spec
CONSTANTS
  b1 = b1
  b2 = b2
  NoBuffer = NoBuffer
  Buffers <- TwoBuffers
  Modes <- SomeModes
  Values <- SomeValues
  NV12_10 = 23
  MaxFrames = 3
  MaxFaults = 1
SYMMETRY Alike
INVARIANTS
  FrameIsWhole
PROPERTIES
  ImplementsDriver
  SettingsFollow
