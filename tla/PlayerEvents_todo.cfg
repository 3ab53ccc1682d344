SPECIFICATION SafeSpec
CONSTANTS
  Ui = ui
  w1 = w1
  p1 = p1
  p2 = p2
  NoPlayer = NoPlayer
  Players <- OnePlayer
  Workers <- OneWorker
  Events <- OrderEvents
  MaxCasts = 1
INVARIANTS
  PostPositionHasTarget
CHECK_DEADLOCK FALSE
