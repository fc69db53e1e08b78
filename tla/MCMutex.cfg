CONSTANTS
  c1 = c1
  c2 = c2
  c3 = c3
  t1 = t1
  mutex = mutex
  null = null
  Users <- MCUsers
  Blocking <- MCBlocking
  Unlocked <- mutex
  Null <- null
SYMMETRY Alike
SPECIFICATION Spec
INVARIANTS
  TypeOK
  MutualExclusion
  UnlockAsserts
  NoLostWaiter
PROPERTIES
  FirstComeFirstServed
  NoForgottenWaiter
