SPECIFICATION Spec
CONSTANTS
  ThreadCount = 3
  JobCounts <- MCJobCounts
  RowLength = 3
  Shift = 2
  MaxExecutes = 2
INVARIANTS
  JobsRunOnce
  OneSleeper
PROPERTIES
  CallsReturn
CHECK_DEADLOCK FALSE
