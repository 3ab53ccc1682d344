SPECIFICATION SafeSpec
CONSTANTS
  Ui = ui
  w1 = w1
  p1 = p1
  p2 = p2
  NoPlayer = NoPlayer
  Players <- TwoPlayers
  Workers <- NoWorkers
  Events <- PairEvents
  MaxCasts = 2
SYMMETRY PlayerSymmetry
INVARIANTS
  NothingAfterStop
  PostPositionHasTarget
  WalkReaches
  CrashOnlyAfterStop
CHECK_DEADLOCK FALSE
