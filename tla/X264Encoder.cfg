SPECIFICATION Spec
CONSTANTS
  Params <- MCParams
  MaxThreads = 3
  MaxFrames = 8
INVARIANTS
  TypeOK
  ListsHaveRoom
  DelayBounded
  DrainsAll
PROPERTIES
  ImplementsServices
  CallsReturn
CHECK_DEADLOCK FALSE
