CONSTANTS
  Rows = {r1}
  Sources = {mac}
  NoFile = NoFile
  Torn = Torn
  MaxEncrypts = 2
  MaxStops = 0
SPECIFICATION Spec
INVARIANTS
  EncryptedIsReadable
CHECK_DEADLOCK FALSE
