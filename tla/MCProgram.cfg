CONSTANTS
  Last = 2
  MaxSignals = 2
SPECIFICATION Spec
INVARIANTS
  TypeOK
  CallsFindCore
  ContextsCloseInOrder
  LoggerIsLive
PROPERTIES
  ShutsDown
CHECK_DEADLOCK FALSE
