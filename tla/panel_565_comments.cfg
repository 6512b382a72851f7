SPECIFICATION ColorSpec
CONSTANTS
  Sizes <- SmallPanels
  Formats <- Only565
  Pictures <- OnePicture
  Sample <- SomeSample
PROPERTIES
  WritesAsCommented
