CONSTANTS
  c1 = c1
  c2 = c2
  c3 = c3
  t1 = t1
  mutex = mutex
  null = null
  Users <- MCUsersLive
  Blocking <- MCBlocking
  Unlocked <- mutex
  Null <- null
SPECIFICATION FairSpec
PROPERTIES
  QueuedGetsLock
  SomebodyGetsLock
