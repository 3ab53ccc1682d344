SPECIFICATION Spec
CONSTANTS
  t1 = t1
  t2 = t2
  t3 = t3
  m1 = m1
  m2 = m2
  m3 = m3
  m4 = m4
  NoMedia = NoMedia
  Threads <- ThreeThreads
  Medias <- FourMedias
INVARIANTS
  HeldIsAlive
  ReleasedWhenUnused
CHECK_DEADLOCK FALSE
