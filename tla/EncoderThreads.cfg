SPECIFICATION Spec
CONSTANTS
  ThreadCount = 3
  BufferSize = 6
  MaxFrames = 8
  None = None
INVARIANTS
  RoomForTasks
PROPERTIES
  ImplementsService
  CallsReturn
CHECK_DEADLOCK FALSE
