CONSTANTS
  Rows = {r1}
  Sources = {mac}
  NoFile = NoFile
  Torn = Torn
  MaxEncrypts = 1
  MaxStops = 0
SPECIFICATION Spec
INVARIANTS
  NoticedIsEncrypted
CHECK_DEADLOCK FALSE
