CONSTANTS
  Period = 6
  Uptime = 20
  MaxWork = 8
  MaxLate = 3
SPECIFICATION Spec
INVARIANTS
  TypeOK
  NeverSlow
