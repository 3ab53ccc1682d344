SPECIFICATION Spec
CONSTANTS
  p1 = p1
  p2 = p2
  a1 = a1
  NoPlayer = NoPlayer
  Players <- TwoAndAudio
  AudioPlayers <- Audio
  MaxRequests = 2
INVARIANTS
  RequestServed
  PlayPerRequest
  SurfaceKnown
PROPERTIES
  StartsOnSurface
