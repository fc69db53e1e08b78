CONSTANTS
  w1 = w1
  w2 = w2
  n1 = n1
  n2 = n2
  f1 = f1
  f2 = f2
  null = null
  Waiters = {w1, w2}
  Notifiers = {n1, n2}
  Frames = {f1, f2}
  Null <- null
  HoldLock = TRUE
  SlotReused = FALSE
SPECIFICATION FairSpec
INVARIANTS
  TypeOK
  TestsUnderLock
  NotifyAllWakesAll
  NotifyOneWakesOne
  ReadsLiveFrames
  NoLostWaiter
PROPERTIES
  TakenTestsAgain
