SPECIFICATION LayoutSpec
CONSTANTS
  Containers <- MCContainers
  Videos <- MCVideos
  SizeModes <- MCSizeModes
  Heights <- MCHeights
  Precision = 1000
INVARIANTS
  LayoutTypeOK
  FitsContainer
  EditionsAgree
  MeasuredFits
