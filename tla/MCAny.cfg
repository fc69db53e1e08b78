CONSTANTS
  Last = 3
  Threads = 1
SPECIFICATION Spec
INVARIANTS
  TypeOK
  ReadsLiveFrame
PROPERTIES
  FirstWins
  AnyResumes
