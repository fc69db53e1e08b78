CONSTANTS
  Period = 6
  Uptime = 20
  MaxWork = 8
  MaxLate = 0
SPECIFICATION Spec
PROPERTY
  NeverFast
