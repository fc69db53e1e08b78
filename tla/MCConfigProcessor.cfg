CONSTANTS
  ros2 = ros2
  monitor = monitor
  other = other
  f1 = f1
  Names = {ros2, monitor, other}
  Fields = {f1}
  Known = {ros2, monitor}
  Defaults <- MCAllDefaults
  Tags <- MCTags
  MaxItems = 2
SPECIFICATION Spec
INVARIANTS
  TypeOK
  UniqueNames
PROPERTIES
  ExternalDecides
  PatchIsLocal
  LaterSourceWins
CHECK_DEADLOCK FALSE
