CONSTANTS
  Rows = {r1, r2}
  Sources = {sn, mac}
  NoFile = NoFile
  Torn = Torn
  MaxEncrypts = 3
  MaxStops = 2
SPECIFICATION Spec
INVARIANTS
  TypeOK
  NoRowLost
  CarefulEncryptIsReadable
PROPERTIES
  RemovedWhenCopied
