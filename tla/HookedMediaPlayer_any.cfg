SPECIFICATION Spec
CONSTANTS
  Ui = ui
  w1 = w1
  w2 = w2
  NoThread = NoThread
  Workers <- TwoWorkers
  Stoppers <- Anyone
INVARIANTS
  PendingIsServed
  NativeReleaseOnce
  VideoOffOnlyWithoutSurface
PROPERTIES
  LostSurfaceStopsVideo
  StopReleases
  ImplementsIntent
