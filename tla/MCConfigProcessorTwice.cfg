CONSTANTS
  ros2 = ros2
  monitor = monitor
  other = other
  f1 = f1
  Names = {ros2, monitor, other}
  Fields = {f1}
  Known = {ros2, monitor}
  Defaults <- MCDefaults
  Tags <- MCTags
  MaxItems = 1
SPECIFICATION Spec
PROPERTIES
  DeletedIsGone
CHECK_DEADLOCK FALSE
