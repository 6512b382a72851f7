SPECIFICATION ColorSpec
CONSTANTS
  Sizes <- SmallPanels
  Formats <- AllFormats
  Pictures <- SomePictures
  Sample <- SomeSample
INVARIANTS
  PanelShowsFrame
