SPECIFICATION Spec
CONSTANTS
  Ui = ui
  w1 = w1
  p1 = p1
  p2 = p2
  NoPlayer = NoPlayer
  Players <- OnePlayer
  Workers <- OneWorker
  Events <- AllEvents
  MaxCasts = 4
INVARIANTS
  OnPlayFirst
  OnPlayOncePerRun
PROPERTIES
  EndReported
CHECK_DEADLOCK FALSE
