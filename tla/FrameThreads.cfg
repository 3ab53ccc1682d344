SPECIFICATION Spec
CONSTANTS
  ThreadCount = 3
  Codecs <- MCCodecs
  MaxPackets = 4
  None = None
INVARIANTS
  ContextComplete
  FrameOnce
PROPERTIES
  ImplementsService
  CallsReturn
CHECK_DEADLOCK FALSE
