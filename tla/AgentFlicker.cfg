SPECIFICATION Spec
CONSTANTS
  Apps = {"a", "b"}
  Protected = {"b"}
  Screens = {"s1"}
  TextActions = {"allow", "block"}
  ImageActions = {"allow", "block"}
  ImageInterval = 2
  OcrMin = 2
  OcrMax = 3
  WalkInterval = 2
  Cooldown = 2
  NoApp = NoApp
  NoFrame = NoFrame
  NoVerdict = NoVerdict
PROPERTY
  CoverStays
